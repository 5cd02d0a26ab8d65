------------------------------- MODULE Codegen -------------------------------
(***************************************************************************)
(* The back end and the files it leaves: class Codegen, its temporary      *)
(* files, the module file (.vamod) and the tools it runs as processes.     *)
(*                                                                         *)
(* Several compiler invocations share one directory, as they do in a       *)
(* build: one may import the module file another one is still writing, one *)
(* may rebuild what another built, and each may be killed at any point.    *)
(*                                                                         *)
(* A Codegen object creates a temporary file, visits the AST (reading the  *)
(* module files of the imports), writes the module file, prints the IR to  *)
(* a second temporary file, runs the optimiser from the second to the      *)
(* first, and finally turns the first into the requested output.           *)
(***************************************************************************)
EXTENDS FiniteSets

CONSTANTS
  Invocation,     \* compiler processes
  Source,         \* stems of the source files, and of named outputs
  Jobs,           \* Jobs[i]: the jobs invocation i may be given
  Nobody,         \* "made by no invocation of this run"
  RenameCanFail,  \* invocations whose rename() may fail (another file system)
  DiskCanFill     \* invocations whose last buffered write may be lost

Emit == {"none", "ir", "bc", "asm", "obj"}

Job == [source : Source, imports : SUBSET Source, emit : Emit,
        out : Source \cup {"-", ""}, modfile : BOOLEAN]

ASSUME JobsAssumption == \A i \in Invocation : Jobs[i] \subseteq Job
ASSUME FaultAssumption == RenameCanFail \cup DiskCanFill \subseteq Invocation
ASSUME NobodyAssumption == Nobody \notin Invocation

VARIABLES
  job,      \* what each invocation was asked to do
  pc,       \* its control point in Codegen
  disk,     \* the shared directory: what each path holds
  reading,  \* the module file it is reading, with what it held when opened
  imported, \* history: the module files it read, with who wrote what it read
  checked,  \* history: did the visitor accept its AST?
  result    \* "none", or how the code generation task ended

vars == <<job, pc, disk, reading, imported, checked, result>>

-----------------------------------------------------------------------------
(* Paths and contents.                                                     *)

Ending == [none |-> "", ir |-> "ll", bc |-> "bc", asm |-> "s", obj |-> "o"]

(* GUIDs make the names of temporary files unique.                         *)
Tmp(i)   == <<"varuna_tmp_input", i>>
Noopt(i) == <<"varuna_tmp_input_noopt", i>>
Temporary == {Tmp(i) : i \in Invocation} \cup {Noopt(i) : i \in Invocation}

(* An output name given with -o keeps the ending of its type here.         *)
OutPath(i, type) ==
  << IF job[i].out \in {"-", ""} THEN job[i].source ELSE job[i].out,
     Ending[type] >>

ModulePath(s) == <<s, "vamod">>

Persistent == Source \X {"ll", "bc", "s", "o", "vamod", ""}
Path == Temporary \cup Persistent

(* The GUID in its name keeps a temporary file apart from all others.      *)
ASSUME GuidAssumption == Temporary \cap Persistent = {}

Content == [state : {"absent", "empty", "partial", "whole"},
            by : Invocation \cup {Nobody}]

Holds(s, i) == [state |-> s, by |-> i]
Absent == Holds("absent", Nobody)

Store(p, c) == disk' = [disk EXCEPT ![p] = c]

ToStdout(i)    == job[i].out = "-"
WritesModule(i) == job[i].modfile /\ ~ToStdout(i)

(* The persistent files an invocation may write or remove.                 *)
Targets(i) ==
  {OutPath(i, job[i].emit), ModulePath(job[i].source)} \cup
    (IF job[i].emit = "bc" THEN {OutPath(i, "ir")} ELSE {})

Idle(i) == pc[i] \in {"start", "ended", "crashed"}

(* A build never runs two invocations at once that write the same file.    *)
MayStart(i) ==
  \A j \in Invocation \ {i} : Targets(i) \cap Targets(j) # {} => Idle(j)

-----------------------------------------------------------------------------
ControlPoint ==
  {"start", "visit", "import", "export", "exporting", "noopt", "print", "opt", "write",
   "destroy", "ended", "crashed"}

Goto(i, p) == pc' = [pc EXCEPT ![i] = p]

(* Mutant: the arguments the wrong way round.                              *)
LeaveSwapped(i, r) == Goto(i, r) /\ result' = [result EXCEPT ![i] = "destroy"]

(* The object is destroyed on every way out of the task.                   *)
Leave(i, r) == Goto(i, "destroy") /\ result' = [result EXCEPT ![i] = r]

Init ==
  /\ job \in {f \in [Invocation -> UNION {Jobs[i] : i \in Invocation}] :
                \A i \in Invocation : f[i] \in Jobs[i]}
  /\ pc = [i \in Invocation |-> "start"]
  /\ \E old \in {{}, Persistent} :   \* the directory of an earlier build, or not
       disk = [p \in Path |-> IF p \in old THEN Holds("whole", Nobody) ELSE Absent]
  /\ reading = [i \in Invocation |-> {}]
  /\ imported = [i \in Invocation |-> {}]
  /\ checked = [i \in Invocation |-> FALSE]
  /\ result = [i \in Invocation |-> "none"]

(* Codegen::Codegen: creating the temporary file may throw; then there is  *)
(* no object to destroy.                                                   *)
Construct(i) ==
  /\ pc[i] = "start"
  /\ MayStart(i)
  /\ \/ Store(Tmp(i), Holds("empty", i)) /\ Goto(i, "visit") /\ UNCHANGED result
     \/ /\ Goto(i, "ended")
        /\ result' = [result EXCEPT ![i] = "exception"]
        /\ UNCHANGED disk
  /\ UNCHANGED <<job, reading, imported, checked>>

(* importModule: ModuleFile::read opens the file; one that is missing is a *)
(* compile error.                                                          *)
OpenImport(i, s) ==
  /\ pc[i] = "visit"
  /\ s \in job[i].imports \ {m[1] : m \in imported[i]}
  /\ \/ /\ disk[ModulePath(s)] # Absent
        /\ reading' = [reading EXCEPT ![i] = {<<s, disk[ModulePath(s)]>>}]
        /\ Goto(i, "import")
        /\ UNCHANGED result
     \/ Leave(i, "false") /\ UNCHANGED reading
  /\ UNCHANGED <<job, disk, imported, checked>>

(* What it has in its buffer by then is followed by what the file holds    *)
(* now, which may have been rewritten in between.  The archive only notices *)
(* that a file ends too soon, as an unfinished one does.  That too is a    *)
(* compile error, and so are declarations that clash.                      *)
FinishImport(i) ==
  /\ pc[i] = "import"
  /\ \/ /\ \E f \in reading[i] : \E rest \in {f[2], disk[ModulePath(f[1])]} :
             /\ f[2].state = "whole" \/ rest # f[2]
             /\ imported' = [imported EXCEPT ![i] = @ \cup {<<f[1], {f[2].by, rest.by}>>}]
        /\ Goto(i, "visit")
        /\ UNCHANGED result
     \/ Leave(i, "false") /\ UNCHANGED imported
  /\ reading' = [reading EXCEPT ![i] = {}]
  /\ UNCHANGED <<job, disk, checked>>

(* Mutant: a node that is not accepted is skipped.                         *)
VisitBlindly(i) ==
  /\ pc[i] = "visit"
  /\ \/ /\ job[i].imports = {m[1] : m \in imported[i]}
        /\ checked' = [checked EXCEPT ![i] = TRUE]
     \/ UNCHANGED checked
  /\ Goto(i, IF WritesModule(i) THEN "export" ELSE "noopt")
  /\ UNCHANGED <<job, disk, reading, imported, result>>

(* CodegenVisitor::codegen: every top-level node is accepted, or one is    *)
(* not, or an exception escapes.                                           *)
Visit(i) ==
  /\ pc[i] = "visit"
  /\ \/ /\ job[i].imports = {m[1] : m \in imported[i]}
        /\ checked' = [checked EXCEPT ![i] = TRUE]
        /\ Goto(i, IF WritesModule(i) THEN "export" ELSE "noopt")
        /\ UNCHANGED result
     \/ \E r \in {"false", "exception"} : Leave(i, r) /\ UNCHANGED checked
  /\ UNCHANGED <<job, disk, reading, imported>>

(* ModuleFile::write opens the file, which empties it, ...                 *)
OpenExports(i) ==
  /\ pc[i] = "export"
  /\ \/ /\ Store(ModulePath(job[i].source), Holds("partial", i))
        /\ Goto(i, "exporting")
        /\ UNCHANGED result
     \/ Leave(i, "exception") /\ UNCHANGED disk
  /\ UNCHANGED <<job, reading, imported, checked>>

(* Mutant: a failed write is not noticed.                                  *)
WriteExportsBlindly(i) ==
  /\ pc[i] = "exporting"
  /\ \/ Store(ModulePath(job[i].source), Holds("whole", i))
     \/ UNCHANGED disk
  /\ Goto(i, "noopt")
  /\ UNCHANGED <<job, reading, imported, checked, result>>

(* ... and writes it; what the stream still buffers is lost without an     *)
(* error when the disk is full.                                            *)
WriteExports(i) ==
  /\ pc[i] = "exporting"
  /\ \/ /\ Store(ModulePath(job[i].source), Holds("whole", i))
        /\ Goto(i, "noopt")
        /\ UNCHANGED result
     \/ i \in DiskCanFill /\ Goto(i, "noopt") /\ UNCHANGED <<disk, result>>
     \/ Leave(i, "exception") /\ UNCHANGED disk
  /\ UNCHANGED <<job, reading, imported, checked>>

(* Codegen::finish: the second temporary file, ...                         *)
CreateNoopt(i) ==
  /\ pc[i] = "noopt"
  /\ \/ Store(Noopt(i), Holds("empty", i)) /\ Goto(i, "print") /\ UNCHANGED result
     \/ Leave(i, "exception") /\ UNCHANGED disk
  /\ UNCHANGED <<job, reading, imported, checked>>

(* ... which finish() owns: it is removed when an exception leaves it ...  *)
PrintModule(i) ==
  /\ pc[i] = "print"
  /\ \/ Store(Noopt(i), Holds("whole", i)) /\ Goto(i, "opt") /\ UNCHANGED result
     \/ Store(Noopt(i), Absent) /\ Leave(i, "exception")
  /\ UNCHANGED <<job, reading, imported, checked>>

(* ... and when the optimiser is done, whatever became of it: it could not *)
(* be run, was killed, or failed (leaving anything behind), or it wrote    *)
(* the first temporary file.                                               *)
RunOpt(i) ==
  /\ pc[i] = "opt"
  /\ \/ /\ disk' = [disk EXCEPT ![Noopt(i)] = Absent,
                                ![Tmp(i)] = Holds("whole", i)]
        /\ Goto(i, "write")
        /\ UNCHANGED result
     \/ /\ \E c \in {disk[Tmp(i)], Holds("partial", i), Absent} :
             disk' = [disk EXCEPT ![Noopt(i)] = Absent, ![Tmp(i)] = c]
        /\ Leave(i, "false")
  /\ UNCHANGED <<job, reading, imported, checked>>

(* Codegen::write, -emit=none, or IR to the standard output.               *)
WriteNothing(i) ==
  /\ pc[i] = "write"
  /\ \/ job[i].emit = "none"
     \/ job[i].emit = "ir" /\ ToStdout(i)
  /\ Leave(i, "true")
  /\ UNCHANGED <<job, disk, reading, imported, checked>>

(* -emit=llvm-ir renames the temporary file and ignores the outcome.       *)
WriteIR(i) ==
  /\ pc[i] = "write"
  /\ job[i].emit = "ir" /\ ~ToStdout(i)
  /\ \/ disk' = [disk EXCEPT ![OutPath(i, "ir")] = disk[Tmp(i)],
                             ![Tmp(i)] = Absent]
     \/ i \in RenameCanFail /\ UNCHANGED disk
  /\ Leave(i, "true")
  /\ UNCHANGED <<job, reading, imported, checked>>

(* A tool that fails leaves the old output, a broken one, or none: LLVM's  *)
(* tools remove what they have begun, if they live to do it.               *)
ToolFailure(i) ==
  LET p == OutPath(i, job[i].emit)
  IN  IF ToStdout(i) THEN {disk[p]} ELSE {disk[p], Holds("partial", i), Absent}

ToolSuccess(i) ==
  IF ToStdout(i) THEN UNCHANGED disk
  ELSE Store(OutPath(i, job[i].emit), Holds("whole", i))

(* -emit=llvm-bc runs llvm-as; when it cannot be run or is killed, the     *)
(* file with the ending .ll beside the output is removed.                  *)
RunAs(i) ==
  /\ pc[i] = "write"
  /\ job[i].emit = "bc"
  /\ \/ ToolSuccess(i) /\ Leave(i, "true")
     \/ /\ \E c \in ToolFailure(i) :
             disk' = [disk EXCEPT ![OutPath(i, "bc")] = c,
                                  ![OutPath(i, "ir")] = Absent]
        /\ Leave(i, "exception")
     \/ /\ \E c \in ToolFailure(i) : Store(OutPath(i, "bc"), c)
        /\ Leave(i, "exception")
  /\ UNCHANGED <<job, reading, imported, checked>>

(* Mutant: the exit status of llc is not looked at.                        *)
RunLlcBlindly(i) ==
  /\ pc[i] = "write"
  /\ job[i].emit \in {"asm", "obj"}
  /\ \/ ToolSuccess(i)
     \/ \E c \in ToolFailure(i) : Store(OutPath(i, job[i].emit), c)
  /\ Leave(i, "true")
  /\ UNCHANGED <<job, reading, imported, checked>>

(* Mutant: a failure of llc makes the program a rejected one.              *)
RunLlcRejecting(i) ==
  /\ pc[i] = "write"
  /\ job[i].emit \in {"asm", "obj"}
  /\ \/ ToolSuccess(i) /\ Leave(i, "true")
     \/ /\ \E c \in ToolFailure(i) : Store(OutPath(i, job[i].emit), c)
        /\ Leave(i, "false")
  /\ UNCHANGED <<job, reading, imported, checked>>

(* Mutant: like RunAs, it removes the .ll file beside the output.          *)
RunLlcLikeAs(i) ==
  /\ pc[i] = "write"
  /\ job[i].emit \in {"asm", "obj"}
  /\ \/ ToolSuccess(i) /\ Leave(i, "true")
     \/ Store(OutPath(i, "ir"), Absent) /\ Leave(i, "exception")
  /\ UNCHANGED <<job, reading, imported, checked>>

(* -emit=obj and -emit=asm run llc.                                        *)
RunLlc(i) ==
  /\ pc[i] = "write"
  /\ job[i].emit \in {"asm", "obj"}
  /\ \/ ToolSuccess(i) /\ Leave(i, "true")
     \/ /\ \E c \in ToolFailure(i) : Store(OutPath(i, job[i].emit), c)
        /\ Leave(i, "exception")
  /\ UNCHANGED <<job, reading, imported, checked>>

(* Mutant: the destructor keeps the file.                                  *)
DestroyNothing(i) ==
  /\ pc[i] = "destroy"
  /\ Goto(i, "ended")
  /\ UNCHANGED <<job, disk, reading, imported, checked, result>>

(* Codegen::~Codegen and the destructor of its TmpFile.                    *)
Destroy(i) ==
  /\ pc[i] = "destroy"
  /\ Store(Tmp(i), Absent)
  /\ Goto(i, "ended")
  /\ UNCHANGED <<job, reading, imported, checked, result>>

(* The process is killed: no destructor runs.                              *)
Crash(i) ==
  /\ ~Idle(i)
  /\ Goto(i, "crashed")
  /\ UNCHANGED <<job, disk, reading, imported, checked, result>>

Step(i) ==
  \/ Construct(i) \/ (\E s \in Source : OpenImport(i, s)) \/ FinishImport(i) \/ Visit(i)
  \/ OpenExports(i) \/ WriteExports(i)
  \/ CreateNoopt(i) \/ PrintModule(i) \/ RunOpt(i)
  \/ WriteNothing(i) \/ WriteIR(i) \/ RunAs(i) \/ RunLlc(i)
  \/ Destroy(i) \/ Crash(i)

AllOver == (\A i \in Invocation : pc[i] \in {"ended", "crashed"}) /\ UNCHANGED vars

Next == (\E i \in Invocation : Step(i)) \/ AllOver

Spec == Init /\ [][Next]_vars

-----------------------------------------------------------------------------
(* Properties.                                                             *)

(* Every variable holds a value of its kind.                               *)
TypeOK ==
  /\ job \in [Invocation -> Job]
  /\ pc \in [Invocation -> ControlPoint]
  /\ disk \in [Path -> Content]
  /\ reading \in [Invocation -> SUBSET (Source \X Content)]
  /\ imported \in [Invocation -> SUBSET (Source \X SUBSET (Invocation \cup {Nobody}))]
  /\ checked \in [Invocation -> BOOLEAN]
  /\ result \in [Invocation -> {"none", "true", "false", "exception"}]

(* An invocation that was not killed leaves no temporary file, on whatever *)
(* path it ends (TmpFile::~TmpFile, Codegen::~Codegen).                    *)
NoTemporariesLeft ==
  \A i \in Invocation :
    pc[i] = "ended" => disk[Tmp(i)] = Absent /\ disk[Noopt(i)] = Absent

(* "CHECK(p.getReturnValue() == 0); ... REQUIRE(output.readFile());": when *)
(* Codegen::write reports success, the output file is there and is the one *)
(* this invocation made,                                                   *)
OutputOf(i) ==
  /\ pc[i] = "destroy" /\ result[i] = "true"
  /\ job[i].emit # "none" /\ ~ToStdout(i)
  => disk[OutPath(i, job[i].emit)] = Holds("whole", i)

(* as long as files can be renamed                                         *)
SuccessMeansOutput == \A i \in Invocation \ RenameCanFail : OutputOf(i)

(* and also when they cannot (the test knows no exception; WriteIR does not *)
(* look at the result of rename()).                                        *)
RenameIsNoticed == \A i \in RenameCanFail : OutputOf(i)

(* "compiles a Varuna source file to a native object file and a Varuna     *)
(* module file": success means a complete module file of this invocation   *)
(* beside the output, so the two never stem from different compilations.   *)
(* (Not where the disk fills: ModuleFile::write ignores what its stream's  *)
(* destructor fails to flush.)                                             *)
SuccessMeansModuleFile ==
  \A i \in Invocation \ DiskCanFill :
    pc[i] = "destroy" /\ result[i] = "true" /\ WritesModule(i)
    => disk[ModulePath(job[i].source)] = Holds("whole", i)

(* Whatever an importer takes in comes from invocations whose own AST was  *)
(* accepted, although it may read while the exporter writes, the file may  *)
(* be written anew between the two halves of the reading, and the exporter *)
(* may be killed in the middle (importModule, CodegenVisitor::writeExports).*)
(* It does not say that both halves come from one of them: nothing in      *)
(* ModuleFile keeps that from happening.                                   *)
ImportsAreChecked ==
  \A i \in Invocation : \A m \in imported[i] : \A j \in m[2] :
    j # Nobody => checked[j]

(* A compilation that is rejected (not: that dies of an exception) has not *)
(* touched the previous output: Codegen::write only runs after             *)
(* Codegen::run succeeded.                                                 *)
RejectionKeepsOutput ==
  \A i \in Invocation :
    pc[i] = "destroy" /\ result[i] = "false"
    => disk[OutPath(i, job[i].emit)].by # i

(* The two files an invocation was asked for.                              *)
Asked(i) == {OutPath(i, job[i].emit), ModulePath(job[i].source)}

(* RunAs removes, when llvm-as cannot be run or is killed, a file that it  *)
(* was not asked for and never wrote.                                      *)
TakesAway(i, p) ==
  /\ job[i].emit = "bc" /\ p = OutPath(i, "ir")
  /\ pc[i] = "write" /\ result'[i] = "exception"

(* Once an invocation has reported success, what it made is changed or     *)
(* removed by no step but those of another invocation that was asked for   *)
(* that very file, whether that one succeeds, fails or is killed           *)
(* (Codegen::finish, Codegen::write, ModuleFile::write), and by the one    *)
(* call of remove() in Codegen::write.                                     *)
SuccessLasts ==
  [][\A i \in Invocation : \A p \in Persistent :
       result[i] = "true" /\ disk[p] = Holds("whole", i) /\ disk'[p] # disk[p]
       => \E j \in Invocation \ {i} :
            pc'[j] # pc[j] /\ (p \in Asked(j) \/ TakesAway(j, p))]_vars
=============================================================================
