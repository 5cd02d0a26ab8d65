---------------------------- MODULE CodegenProofs ----------------------------
(***************************************************************************)
(* Proofs about the back end's files, for any number of invocations, any   *)
(* sources and any jobs, with a crash possible between any two steps.      *)
(*                                                                         *)
(* The argument has two halves.  What a step of an invocation may write is *)
(* its own: its two temporary files and its targets (WritesOwn), and those *)
(* of two invocations under way never overlap (Exclusive).  So what an     *)
(* invocation finds on disk is what its own last steps left there, and IInv *)
(* says what that is at each of its control points.                        *)
(***************************************************************************)
EXTENDS Codegen, TLAPS

(* The files an invocation may write.                                      *)
Own(i) == {Tmp(i), Noopt(i)} \cup Targets(i)

(* Two invocations under way have different targets.                       *)
Exclusive ==
  \A i, j \in Invocation :
    i # j /\ Targets(i) \cap Targets(j) # {} => Idle(i) \/ Idle(j)

(* The temporary files at each control point.                              *)
TmpInv ==
  \A i \in Invocation :
    /\ disk[Tmp(i)].by \in {i, Nobody} /\ disk[Noopt(i)].by \in {i, Nobody}
    /\ pc[i] \in {"start", "ended"} => disk[Tmp(i)] = Absent
    /\ pc[i] \notin {"print", "opt", "crashed"} => disk[Noopt(i)] = Absent
    /\ pc[i] = "write" => disk[Tmp(i)] = Holds("whole", i)

(* A module file, and what a reader has of one, was written by an          *)
(* invocation that was accepted.                                           *)
ModuleInv ==
  /\ \A i \in Invocation :
       pc[i] \in {"export", "exporting", "noopt", "print", "opt", "write"} => checked[i]
  /\ \A s \in Source : LET w == disk[ModulePath(s)].by
                       IN w # Nobody => checked[w]
  /\ \A i \in Invocation : \A f \in reading[i] :
       f[1] \in Source /\ (f[2].by # Nobody => checked[f[2].by])

(* After the export, the module file is there.                             *)
Exported(i) ==
  \/ pc[i] \in {"noopt", "print", "opt", "write"}
  \/ pc[i] = "destroy" /\ result[i] = "true"
ExportInv ==
  \A i \in Invocation \ DiskCanFill :
    Exported(i) /\ WritesModule(i)
    => disk[ModulePath(job[i].source)] = Holds("whole", i)

(* Before the output is written, it is not of this invocation.             *)
Unwritten(i) ==
  \/ pc[i] \in {"start", "visit", "import", "export", "exporting", "noopt", "print", "opt"}
  \/ pc[i] = "destroy" /\ result[i] = "false"
OutputInv ==
  \A i \in Invocation : Unwritten(i) => disk[OutPath(i, job[i].emit)].by # i

(* Success is the last thing that happens to an invocation.                *)
ResultInv ==
  \A i \in Invocation : result[i] = "true" => pc[i] \in {"destroy", "ended", "crashed"}

IInv ==
  /\ TypeOK /\ Exclusive /\ TmpInv /\ ModuleInv /\ ExportInv /\ OutputInv
  /\ ResultInv /\ ImportsAreChecked /\ SuccessMeansOutput

-----------------------------------------------------------------------------
(* Names of files.                                                         *)

LEMMA TemporaryNames ==
  ASSUME NEW i \in Invocation, NEW j \in Invocation
  PROVE  /\ Tmp(i) \in Temporary /\ Noopt(i) \in Temporary
         /\ Tmp(i) # Noopt(j)
         /\ i # j => Tmp(i) # Tmp(j) /\ Noopt(i) # Noopt(j)
BY DEF Tmp, Noopt, Temporary

LEMMA PersistentNames ==
  ASSUME TypeOK, NEW i \in Invocation, NEW e \in Emit, NEW s \in Source
  PROVE  /\ OutPath(i, e) \in Persistent /\ ModulePath(s) \in Persistent
         /\ OutPath(i, e) # ModulePath(s)
         /\ OutPath(i, e)[2] = Ending[e] /\ ModulePath(s)[2] = "vamod"
<1>1. Ending[e] \in {"ll", "bc", "s", "o", ""}
  <2>1. CASE e = "none"
    BY <2>1 DEF Ending
  <2>2. CASE e = "ir"
    BY <2>2 DEF Ending
  <2>3. CASE e = "bc"
    BY <2>3 DEF Ending
  <2>4. CASE e = "asm"
    BY <2>4 DEF Ending
  <2>5. CASE e = "obj"
    BY <2>5 DEF Ending
  <2> QED
    BY <2>1, <2>2, <2>3, <2>4, <2>5 DEF Emit
<1>2. job[i] \in Job
  BY DEF TypeOK
<1>3. job[i].source \in Source /\ job[i].out \in Source \cup {"-", ""}
  BY <1>2 DEF Job
<1> QED
  BY <1>1, <1>3 DEF OutPath, ModulePath, Persistent

LEMMA JobFacts ==
  ASSUME TypeOK, NEW i \in Invocation
  PROVE  /\ job[i] \in Job /\ job[i].emit \in Emit /\ job[i].source \in Source
         /\ OutPath(i, job[i].emit) \in Targets(i) /\ ModulePath(job[i].source) \in Targets(i)
         /\ Targets(i) \subseteq Persistent
<1>1. job[i] \in Job /\ job[i].emit \in Emit /\ job[i].source \in Source
  BY DEF TypeOK, Job
<1>2. "ir" \in Emit
  BY DEF Emit
<1> QED
  BY <1>1, <1>2, PersistentNames DEF Targets

-----------------------------------------------------------------------------
(* What a step may do.                                                     *)

LEMMA OthersKeep ==
  ASSUME TypeOK, NEW i \in Invocation, Step(i), NEW j \in Invocation \ {i}
  PROVE  /\ job' = job
         /\ pc'[j] = pc[j] /\ result'[j] = result[j]
         /\ checked'[j] = checked[j] /\ imported'[j] = imported[j] /\ reading'[j] = reading[j]
BY DEF TypeOK, Step, Construct, OpenImport, FinishImport, Visit, OpenExports, WriteExports, CreateNoopt,
       PrintModule, RunOpt, WriteNothing, WriteIR, RunAs, RunLlc, Destroy, Crash, Goto, Leave

(* A step writes nothing but the invocation's own files, and under its own *)
(* name.                                                                   *)
LEMMA WritesOwn ==
  ASSUME TypeOK, TmpInv, NEW i \in Invocation, Step(i), NEW p \in Path, disk'[p] # disk[p]
  PROVE  p \in Own(i) /\ disk'[p].by \in {i, Nobody}
<1>1. Absent.by = Nobody /\ \A s : Holds(s, i).by = i
  BY DEF Absent, Holds
<1>2. OutPath(i, job[i].emit) \in Targets(i) /\ ModulePath(job[i].source) \in Targets(i)
  BY JobFacts
<1>3. job[i].emit = "bc" => OutPath(i, "ir") \in Targets(i)
  BY DEF Targets
<1>4. disk[Tmp(i)].by \in {i, Nobody}
  BY DEF TmpInv
<1>5. disk \in [Path -> Content]
  BY DEF TypeOK
<1>6. CASE Construct(i)
  BY <1>1, <1>5, <1>6 DEF Construct, Store, Own
<1>7. CASE (\E s \in Source : OpenImport(i, s)) \/ FinishImport(i)
  BY <1>7 DEF OpenImport, FinishImport, Leave
<1>8. CASE Visit(i)
  BY <1>8 DEF Visit
<1>9. CASE OpenExports(i)
  BY <1>1, <1>2, <1>5, <1>9 DEF OpenExports, Store, Own
<1>10. CASE WriteExports(i)
  BY <1>1, <1>2, <1>5, <1>10 DEF WriteExports, Store, Own
<1>11. CASE CreateNoopt(i)
  BY <1>1, <1>5, <1>11 DEF CreateNoopt, Store, Own
<1>12. CASE PrintModule(i)
  BY <1>1, <1>5, <1>12 DEF PrintModule, Store, Own
<1>13. CASE RunOpt(i)
  BY <1>1, <1>4, <1>5, <1>13 DEF RunOpt, Own
<1>14. CASE WriteNothing(i)
  BY <1>14 DEF WriteNothing
<1>15. CASE WriteIR(i)
  BY <1>1, <1>2, <1>4, <1>5, <1>15 DEF WriteIR, Own
<1>16. CASE RunAs(i)
  BY <1>1, <1>2, <1>3, <1>5, <1>16 DEF RunAs, ToolSuccess, ToolFailure, Store, Own
<1>17. CASE RunLlc(i)
  BY <1>1, <1>2, <1>5, <1>17 DEF RunLlc, ToolSuccess, ToolFailure, Store, Own
<1>18. CASE Destroy(i)
  BY <1>1, <1>5, <1>18 DEF Destroy, Store, Own
<1>19. CASE Crash(i)
  BY <1>19 DEF Crash
<1> QED
  BY <1>6, <1>7, <1>8, <1>9, <1>10, <1>11, <1>12, <1>13, <1>14, <1>15, <1>16, <1>17,
     <1>18, <1>19 DEF Step

(* The module files it writes are its own.                                 *)
LEMMA ModuleFileWritten ==
  ASSUME TypeOK, NEW i \in Invocation, Step(i), NEW s \in Source,
         disk'[ModulePath(s)] # disk[ModulePath(s)]
  PROVE  /\ pc[i] \in {"export", "exporting"} /\ s = job[i].source
         /\ disk'[ModulePath(s)].by = i
<1>1. disk \in [Path -> Content] /\ ModulePath(s) \in Persistent /\ ModulePath(s) \in Path
  BY PersistentNames DEF TypeOK, Emit, Path
<1>2. ModulePath(s) # Tmp(i) /\ ModulePath(s) # Noopt(i)
  BY <1>1, TemporaryNames, GuidAssumption
<1>3. \A e \in Emit : OutPath(i, e) # ModulePath(s)
  BY PersistentNames
<1>4. job[i].emit \in Emit /\ "ir" \in Emit /\ "bc" \in Emit
  BY JobFacts DEF Emit
<1>5. ~Construct(i) /\ ~CreateNoopt(i) /\ ~PrintModule(i) /\ ~Destroy(i)
  BY <1>1, <1>2 DEF Construct, CreateNoopt, PrintModule, Destroy, Store
<1>6. ~RunOpt(i)
  BY <1>1, <1>2 DEF RunOpt
<1>7. ~WriteIR(i) /\ ~RunAs(i) /\ ~RunLlc(i)
  BY <1>1, <1>2, <1>3, <1>4 DEF WriteIR, RunAs, RunLlc, ToolSuccess, ToolFailure, Store
<1>8. ~Visit(i) /\ ~WriteNothing(i) /\ ~Crash(i) /\ ~(\E r \in Source : OpenImport(i, r)) /\ ~FinishImport(i)
  BY DEF Visit, WriteNothing, Crash, OpenImport, FinishImport
<1>9. CASE OpenExports(i)
  BY <1>1, <1>9 DEF OpenExports, Store, Holds, ModulePath
<1>10. CASE WriteExports(i)
  BY <1>1, <1>10 DEF WriteExports, Store, Holds, ModulePath
<1> QED
  BY <1>5, <1>6, <1>7, <1>8, <1>9, <1>10 DEF Step

(* The output is written last.                                             *)
LEMMA OutputWritten ==
  ASSUME TypeOK, NEW i \in Invocation, Step(i),
         disk'[OutPath(i, job[i].emit)] # disk[OutPath(i, job[i].emit)]
  PROVE  pc[i] = "write"
<1>1. /\ job[i].emit \in Emit /\ job[i].source \in Source
      /\ disk \in [Path -> Content]
  BY JobFacts DEF TypeOK
<1> DEFINE p == OutPath(i, job[i].emit)
<1>2. p \in Persistent /\ p # ModulePath(job[i].source)
  BY <1>1, PersistentNames
<1>3. p # Tmp(i) /\ p # Noopt(i) /\ p \in Path
  BY <1>2, TemporaryNames, GuidAssumption DEF Path
<1> HIDE DEF p
<1>4. ~Construct(i) /\ ~CreateNoopt(i) /\ ~PrintModule(i) /\ ~Destroy(i)
  BY <1>1, <1>3 DEF Construct, CreateNoopt, PrintModule, Destroy, Store, p
<1>5. ~RunOpt(i) /\ ~OpenExports(i) /\ ~WriteExports(i)
  BY <1>1, <1>2, <1>3 DEF RunOpt, OpenExports, WriteExports, Store, p
<1>6. ~Visit(i) /\ ~Crash(i) /\ ~(\E r \in Source : OpenImport(i, r)) /\ ~FinishImport(i)
  BY DEF Visit, Crash, OpenImport, FinishImport
<1> QED
  BY <1>4, <1>5, <1>6 DEF Step, WriteNothing, WriteIR, RunAs, RunLlc

(* An invocation under way leaves the targets of another one alone.        *)
LEMMA TargetsKept ==
  ASSUME TypeOK, TmpInv, Exclusive, NEW i \in Invocation, Step(i),
         NEW j \in Invocation \ {i}, ~Idle(j), NEW p \in Targets(j)
  PROVE  disk'[p] = disk[p]
<1>1. p \in Persistent /\ p \in Path
  BY JobFacts DEF Path
<1>2. p # Tmp(i) /\ p # Noopt(i)
  BY <1>1, TemporaryNames, GuidAssumption
<1>3. CASE pc[i] = "start"
  <2>1. disk' = disk \/ \E c : disk' = [disk EXCEPT ![Tmp(i)] = c]
    BY <1>3 DEF Step, Construct, OpenImport, FinishImport, Visit, OpenExports, WriteExports, CreateNoopt,
       PrintModule, RunOpt, WriteNothing, WriteIR, RunAs, RunLlc, Destroy, Crash, Store, Idle
  <2> QED
    BY <2>1, <1>1, <1>2 DEF TypeOK
<1>4. CASE pc[i] # "start"
  <2>1. ~Idle(i)
    BY <1>4 DEF Step, Construct, OpenImport, FinishImport, Visit, OpenExports, WriteExports, CreateNoopt,
       PrintModule, RunOpt, WriteNothing, WriteIR, RunAs, RunLlc, Destroy, Crash, Idle
  <2>2. p \notin Targets(i)
    BY <2>1 DEF Exclusive
  <2> QED
    BY <2>2, <1>1, <1>2, WritesOwn DEF Own
<1> QED
  BY <1>3, <1>4

-----------------------------------------------------------------------------
(* Each part of IInv is kept by every step.                                *)

LEMMA TypeStep ==
  ASSUME TypeOK, NEW i \in Invocation, Step(i)
  PROVE  TypeOK'
<1>1. \A st \in {"absent", "empty", "partial", "whole"} : \A j \in Invocation \cup {Nobody} :
        Holds(st, j) \in Content
  BY DEF Holds, Content
<1>2. Absent \in Content
  BY <1>1 DEF Absent
<1>3. disk \in [Path -> Content] /\ Tmp(i) \in Path
  BY TemporaryNames DEF TypeOK, Path
<1>4. disk' \in [Path -> Content]
  <2>1. CASE Construct(i) \/ OpenExports(i) \/ WriteExports(i) \/ CreateNoopt(i)
             \/ PrintModule(i) \/ Destroy(i)
    BY <2>1, <1>1, <1>2, <1>3 DEF Construct, OpenExports, WriteExports, CreateNoopt,
       PrintModule, Destroy, Store
  <2>2. CASE RunOpt(i)
    BY <2>2, <1>1, <1>2, <1>3 DEF RunOpt
  <2>3. CASE WriteIR(i)
    BY <2>3, <1>2, <1>3 DEF WriteIR
  <2>4. CASE RunAs(i) \/ RunLlc(i)
    <3>1. \A c \in ToolFailure(i) : c \in Content
      <4>1. OutPath(i, job[i].emit) \in Path
        BY JobFacts, PersistentNames DEF Path
      <4> QED
        BY <4>1, <1>1, <1>2, <1>3 DEF ToolFailure
    <3> QED
      BY <2>4, <3>1, <1>1, <1>2, <1>3 DEF RunAs, RunLlc, ToolSuccess, Store
  <2>5. CASE UNCHANGED disk
    BY <2>5, <1>3
  <2> QED
    BY <2>1, <2>2, <2>3, <2>4, <2>5 DEF Step, OpenImport, FinishImport, Visit, WriteNothing, Crash
<1>5. /\ pc' \in [Invocation -> ControlPoint] /\ checked' \in [Invocation -> BOOLEAN]
      /\ result' \in [Invocation -> {"none", "true", "false", "exception"}]
  BY DEF TypeOK, ControlPoint, Step, Construct, OpenImport, FinishImport, Visit, OpenExports, WriteExports,
     CreateNoopt, PrintModule, RunOpt, WriteNothing, WriteIR, RunAs, RunLlc, Destroy,
     Crash, Goto, Leave
<1>6. /\ reading' \in [Invocation -> SUBSET (Source \X Content)]
      /\ imported' \in [Invocation -> SUBSET (Source \X SUBSET (Invocation \cup {Nobody}))]
  <2>1. CASE UNCHANGED <<reading, imported>>
    BY <2>1 DEF TypeOK
  <2>2. ASSUME NEW s \in Source, OpenImport(i, s)
        PROVE  /\ reading' \in [Invocation -> SUBSET (Source \X Content)]
               /\ UNCHANGED imported
    <3>1. disk[ModulePath(s)] \in Content
      BY <1>3, PersistentNames DEF Emit, Path
    <3> QED
      BY <2>2, <3>1 DEF OpenImport, TypeOK
  <2>3. CASE FinishImport(i)
    <3>1. reading' \in [Invocation -> SUBSET (Source \X Content)]
      BY <2>3 DEF FinishImport, TypeOK
    <3>2. ASSUME NEW f \in reading[i], NEW rest \in {f[2], disk[ModulePath(f[1])]}
          PROVE  <<f[1], {f[2].by, rest.by}>> \in Source \X SUBSET (Invocation \cup {Nobody})
      <4>1. f[1] \in Source /\ f[2] \in Content
        BY <3>2 DEF TypeOK
      <4>2. disk[ModulePath(f[1])] \in Content
        BY <1>3, <4>1, PersistentNames DEF Emit, Path
      <4> QED
        BY <4>1, <4>2 DEF Content
    <3>3. imported' = imported \/ \E m \in Source \X SUBSET (Invocation \cup {Nobody}) :
            imported' = [imported EXCEPT ![i] = @ \cup {m}]
      BY <2>3, <3>2 DEF FinishImport
    <3>4. imported' \in [Invocation -> SUBSET (Source \X SUBSET (Invocation \cup {Nobody}))]
      <4> DEFINE M == Source \X SUBSET (Invocation \cup {Nobody})
      <4>1. imported \in [Invocation -> SUBSET M]
        BY DEF TypeOK
      <4>2. imported' = imported \/ \E m \in M : imported' = [imported EXCEPT ![i] = @ \cup {m}]
        BY <3>3
      <4> HIDE DEF M
      <4>3. imported' \in [Invocation -> SUBSET M]
        BY <4>1, <4>2
      <4> QED
        BY <4>3 DEF M
    <3> QED
      BY <3>1, <3>4
  <2> QED
    BY <2>1, <2>2, <2>3 DEF Step, Construct, Visit, OpenExports, WriteExports, CreateNoopt,
       PrintModule, RunOpt, WriteNothing, WriteIR, RunAs, RunLlc, Destroy, Crash, TypeOK
<1>7. job' = job
  BY DEF Step, Construct, OpenImport, FinishImport, Visit, OpenExports, WriteExports, CreateNoopt,
     PrintModule, RunOpt, WriteNothing, WriteIR, RunAs, RunLlc, Destroy, Crash
<1> QED
  BY <1>4, <1>5, <1>6, <1>7 DEF TypeOK

LEMMA ExclusiveStep ==
  ASSUME TypeOK, Exclusive, NEW i \in Invocation, Step(i)
  PROVE  Exclusive'
<1>1. job' = job /\ \A j \in Invocation : Targets(j)' = Targets(j)
  BY DEF Targets, OutPath, Step, Construct, OpenImport, FinishImport, Visit, OpenExports, WriteExports,
     CreateNoopt, PrintModule, RunOpt, WriteNothing, WriteIR, RunAs, RunLlc, Destroy, Crash
<1>2. \A j \in Invocation \ {i} : Idle(j)' <=> Idle(j)
  BY OthersKeep DEF Idle
<1>3. CASE ~Idle(i)
  BY <1>1, <1>2, <1>3 DEF Exclusive
<1>4. CASE MayStart(i)
  BY <1>1, <1>2, <1>4 DEF Exclusive, MayStart
<1>5. ~Idle(i) \/ MayStart(i)
  BY DEF Idle, Step, Construct, OpenImport, FinishImport, Visit, OpenExports, WriteExports, CreateNoopt,
     PrintModule, RunOpt, WriteNothing, WriteIR, RunAs, RunLlc, Destroy, Crash
<1> QED
  BY <1>3, <1>4, <1>5

LEMMA TmpStep ==
  ASSUME TypeOK, TmpInv, NEW i \in Invocation, Step(i)
  PROVE  TmpInv'
<1>1. ASSUME NEW j \in Invocation \ {i}
      PROVE  disk'[Tmp(j)] = disk[Tmp(j)] /\ disk'[Noopt(j)] = disk[Noopt(j)]
  <2>1. Tmp(j) \in Path /\ Noopt(j) \in Path /\ Tmp(j) \notin Targets(i) /\ Noopt(j) \notin Targets(i)
    BY TemporaryNames, JobFacts, GuidAssumption DEF Path
  <2>2. Tmp(j) \notin Own(i) /\ Noopt(j) \notin Own(i)
    BY <2>1, TemporaryNames DEF Own
  <2> QED
    BY <2>1, <2>2, WritesOwn
<1>2. /\ Tmp(i) \in Path /\ Noopt(i) \in Path /\ Tmp(i) # Noopt(i)
      /\ disk \in [Path -> Content]
  BY TemporaryNames DEF Path, TypeOK
<1>3. \A p \in Persistent : p # Tmp(i) /\ p # Noopt(i)
  BY TemporaryNames, GuidAssumption
<1>4. \A e \in Emit : OutPath(i, e) \in Persistent
  BY PersistentNames, JobFacts
<1>5. ModulePath(job[i].source) \in Persistent /\ job[i].emit \in Emit
      /\ "ir" \in Emit /\ "bc" \in Emit
  BY JobFacts, PersistentNames DEF Emit
<1>6. /\ disk'[Tmp(i)].by \in {i, Nobody} /\ disk'[Noopt(i)].by \in {i, Nobody}
  BY <1>2, WritesOwn DEF TmpInv
<1>7. /\ pc'[i] \in {"start", "ended"} => disk'[Tmp(i)] = Absent
      /\ pc'[i] \notin {"print", "opt", "crashed"} => disk'[Noopt(i)] = Absent
      /\ pc'[i] = "write" => disk'[Tmp(i)] = Holds("whole", i)
  <2>1. CASE Construct(i) \/ CreateNoopt(i) \/ PrintModule(i) \/ Destroy(i)
    BY <2>1, <1>2 DEF TmpInv, TypeOK, Construct, CreateNoopt, PrintModule, Destroy,
       Goto, Leave, Store
  <2>2. CASE OpenExports(i) \/ WriteExports(i)
    BY <2>2, <1>2, <1>3, <1>5 DEF TmpInv, TypeOK, OpenExports, WriteExports, Goto, Leave, Store
  <2>3. CASE RunOpt(i)
    BY <2>3, <1>2 DEF TmpInv, TypeOK, RunOpt, Goto, Leave
  <2>4. CASE WriteIR(i)
    BY <2>4, <1>2, <1>3, <1>4, <1>5 DEF TmpInv, TypeOK, WriteIR, Leave, Goto
  <2>5. CASE RunAs(i) \/ RunLlc(i)
    BY <2>5, <1>2, <1>3, <1>4, <1>5 DEF TmpInv, TypeOK, RunAs, RunLlc, ToolSuccess,
       ToolFailure, Leave, Goto, Store
  <2>6. CASE Visit(i) \/ (\E s \in Source : OpenImport(i, s)) \/ FinishImport(i) \/ WriteNothing(i) \/ Crash(i)
    BY <2>6 DEF TmpInv, TypeOK, Visit, OpenImport, FinishImport, WriteNothing, Crash, Goto, Leave
  <2> QED
    BY <2>1, <2>2, <2>3, <2>4, <2>5, <2>6 DEF Step
<1> QED
  BY <1>1, <1>6, <1>7, OthersKeep DEF TmpInv

LEMMA ModuleStep ==
  ASSUME TypeOK, ModuleInv, NEW i \in Invocation, Step(i)
  PROVE  ModuleInv'
<1>1. \A j \in Invocation : checked[j] => checked'[j]
  BY DEF TypeOK, Step, Construct, OpenImport, FinishImport, Visit, OpenExports, WriteExports, CreateNoopt,
     PrintModule, RunOpt, WriteNothing, WriteIR, RunAs, RunLlc, Destroy, Crash
<1>2. pc'[i] \in {"export", "exporting", "noopt", "print", "opt", "write"} => checked'[i]
  BY DEF ModuleInv, TypeOK, Goto, Leave, Step, Construct, OpenImport, FinishImport, Visit, OpenExports,
     WriteExports, CreateNoopt, PrintModule, RunOpt, WriteNothing, WriteIR, RunAs, RunLlc,
     Destroy, Crash
<1>3. ASSUME NEW s \in Source, disk'[ModulePath(s)].by # Nobody
      PROVE  checked'[disk'[ModulePath(s)].by]
  <2>1. CASE disk'[ModulePath(s)] = disk[ModulePath(s)]
    <3>1. disk[ModulePath(s)].by \in Invocation \cup {Nobody}
      BY PersistentNames DEF TypeOK, Content, Path, Emit
    <3> QED
      BY <2>1, <3>1, <1>1, <1>3 DEF ModuleInv
  <2>2. CASE disk'[ModulePath(s)] # disk[ModulePath(s)]
    BY <2>2, <1>1, <1>3, ModuleFileWritten DEF ModuleInv
  <2> QED
    BY <2>1, <2>2
<1>4. ASSUME NEW j \in Invocation, NEW f \in reading'[j]
      PROVE  f[1] \in Source /\ (f[2].by # Nobody => checked'[f[2].by])
  <2>1. CASE f \in reading[j]
    <3>1. f[2].by \in Invocation \cup {Nobody}
      BY <2>1 DEF TypeOK, Content
    <3> QED
      BY <2>1, <3>1, <1>1 DEF ModuleInv
  <2>2. CASE f \notin reading[j]
    <3>1. j = i
      BY <2>2, <1>4, OthersKeep
    <3>2. PICK s \in Source : f = <<s, disk[ModulePath(s)]>>
      BY <2>2, <1>4, <3>1 DEF TypeOK, Step, Construct, OpenImport, FinishImport, Visit,
         OpenExports, WriteExports, CreateNoopt, PrintModule, RunOpt, WriteNothing, WriteIR,
         RunAs, RunLlc, Destroy, Crash
    <3>3. disk[ModulePath(s)].by \in Invocation \cup {Nobody}
      BY PersistentNames DEF TypeOK, Content, Path, Emit
    <3> QED
      BY <3>2, <3>3, <1>1 DEF ModuleInv
  <2> QED
    BY <2>1, <2>2
<1> QED
  BY <1>1, <1>2, <1>3, <1>4, OthersKeep DEF ModuleInv

LEMMA ImportsStep ==
  ASSUME TypeOK, ModuleInv, ImportsAreChecked, NEW i \in Invocation, Step(i)
  PROVE  ImportsAreChecked'
<1>1. \A j \in Invocation : checked[j] => checked'[j]
  BY DEF TypeOK, Step, Construct, OpenImport, FinishImport, Visit, OpenExports, WriteExports, CreateNoopt,
     PrintModule, RunOpt, WriteNothing, WriteIR, RunAs, RunLlc, Destroy, Crash
<1>2. ASSUME NEW m \in imported'[i], m \notin imported[i], NEW w \in m[2], w # Nobody
      PROVE  checked[w]
  <2>1. PICK f \in reading[i] : \E rest \in {f[2], disk[ModulePath(f[1])]} :
          m = <<f[1], {f[2].by, rest.by}>>
    BY <1>2 DEF TypeOK, Step, Construct, OpenImport, FinishImport, Visit, OpenExports,
       WriteExports, CreateNoopt, PrintModule, RunOpt, WriteNothing, WriteIR, RunAs, RunLlc,
       Destroy, Crash
  <2> QED
    BY <1>2, <2>1 DEF ModuleInv
<1>3. ASSUME NEW j \in Invocation, NEW m \in imported'[j], NEW w \in m[2], w # Nobody
      PROVE  checked'[w]
  <2>1. w \in Invocation
    BY <1>3, TypeStep DEF TypeOK
  <2>2. m \in imported[j] => checked[w]
    BY <1>3 DEF ImportsAreChecked
  <2>3. m \notin imported[j] => j = i
    BY <1>3, OthersKeep
  <2> QED
    BY <1>1, <1>2, <1>3, <2>1, <2>2, <2>3
<1> QED
  BY <1>3 DEF ImportsAreChecked

LEMMA ExportStep ==
  ASSUME TypeOK, Exclusive, TmpInv, ExportInv, NEW i \in Invocation, Step(i)
  PROVE  ExportInv'
<1>1. job' = job
  BY DEF Step, Construct, OpenImport, FinishImport, Visit, OpenExports, WriteExports, CreateNoopt,
     PrintModule, RunOpt, WriteNothing, WriteIR, RunAs, RunLlc, Destroy, Crash
<1>2. ASSUME NEW j \in Invocation \ {i}, j \notin DiskCanFill, Exported(j)', WritesModule(j)'
      PROVE  disk'[ModulePath(job[j].source)] = Holds("whole", j)
  <2>1. Exported(j) /\ WritesModule(j) /\ ~Idle(j)
    BY <1>1, <1>2, OthersKeep DEF Exported, WritesModule, ToStdout, Idle
  <2>2. disk[ModulePath(job[j].source)] = Holds("whole", j)
    BY <1>2, <2>1 DEF ExportInv
  <2>3. ModulePath(job[j].source) \in Targets(j)
    BY JobFacts
  <2> QED
    BY <2>1, <2>2, <2>3, TargetsKept
<1>3. ASSUME i \notin DiskCanFill, Exported(i)', WritesModule(i)'
      PROVE  disk'[ModulePath(job[i].source)] = Holds("whole", i)
  <2> DEFINE p == ModulePath(job[i].source)
  <2>1. job[i].source \in Source /\ p \in Path /\ disk \in [Path -> Content]
    BY JobFacts, PersistentNames DEF Path, TypeOK, Emit
  <2>2. WritesModule(i)
    BY <1>1, <1>3 DEF WritesModule, ToStdout
  <2>3. CASE WriteExports(i)
    BY <1>3, <2>1, <2>3 DEF WriteExports, Exported, Store, Goto, Leave, TypeOK
  <2>4. CASE ~WriteExports(i)
    <3>1. Exported(i) /\ pc[i] \notin {"export", "exporting"}
      BY <1>3, <2>2, <2>4 DEF Exported, TypeOK, Goto, Leave, Step, Construct, OpenImport, FinishImport, Visit,
         OpenExports, CreateNoopt, PrintModule, RunOpt, WriteNothing, WriteIR, RunAs,
         RunLlc, Destroy, Crash
    <3>2. disk[p] = Holds("whole", i)
      BY <1>3, <2>2, <3>1 DEF ExportInv
    <3> QED
      BY <2>1, <3>1, <3>2, ModuleFileWritten
  <2> QED
    BY <2>3, <2>4
<1> QED
  BY <1>1, <1>2, <1>3 DEF ExportInv

LEMMA ResultStep ==
  ASSUME TypeOK, ResultInv, NEW i \in Invocation, Step(i)
  PROVE  ResultInv'
<1>1. result'[i] = "true" => pc'[i] \in {"destroy", "ended", "crashed"}
  BY DEF ResultInv, TypeOK, Goto, Leave, Step, Construct, OpenImport, FinishImport, Visit,
     OpenExports, WriteExports, CreateNoopt, PrintModule, RunOpt, WriteNothing, WriteIR, RunAs,
     RunLlc, Destroy, Crash
<1> QED
  BY <1>1, OthersKeep DEF ResultInv

LEMMA OutputStep ==
  ASSUME TypeOK, TmpInv, OutputInv, NEW i \in Invocation, Step(i)
  PROVE  OutputInv'
<1>1. job' = job
  BY DEF Step, Construct, OpenImport, FinishImport, Visit, OpenExports, WriteExports, CreateNoopt,
     PrintModule, RunOpt, WriteNothing, WriteIR, RunAs, RunLlc, Destroy, Crash
<1>2. ASSUME NEW j \in Invocation
      PROVE  OutPath(j, job[j].emit)' = OutPath(j, job[j].emit) /\ OutPath(j, job[j].emit) \in Path
  BY <1>1, JobFacts DEF OutPath, Path
<1>3. ASSUME NEW j \in Invocation \ {i}, Unwritten(j)'
      PROVE  disk'[OutPath(j, job[j].emit)].by # j
  <2>1. disk[OutPath(j, job[j].emit)].by # j
    BY <1>3, OthersKeep DEF Unwritten, OutputInv
  <2> QED
    BY <2>1, <1>2, WritesOwn, NobodyAssumption
<1>4. ASSUME Unwritten(i)'
      PROVE  disk'[OutPath(i, job[i].emit)].by # i
  <2>1. Unwritten(i) /\ pc[i] # "write"
    BY <1>4 DEF Unwritten, TypeOK, Goto, Leave, Step, Construct, OpenImport, FinishImport, Visit,
       OpenExports, WriteExports, CreateNoopt, PrintModule, RunOpt, WriteNothing, WriteIR,
       RunAs, RunLlc, Destroy, Crash
  <2> QED
    BY <2>1, <1>2, OutputWritten DEF OutputInv
<1> QED
  BY <1>1, <1>2, <1>3, <1>4 DEF OutputInv

LEMMA SuccessStep ==
  ASSUME TypeOK, Exclusive, TmpInv, SuccessMeansOutput, NEW i \in Invocation, Step(i)
  PROVE  SuccessMeansOutput'
<1>1. job' = job
  BY DEF Step, Construct, OpenImport, FinishImport, Visit, OpenExports, WriteExports, CreateNoopt,
     PrintModule, RunOpt, WriteNothing, WriteIR, RunAs, RunLlc, Destroy, Crash
<1>2. ASSUME NEW j \in Invocation
      PROVE  OutPath(j, job[j].emit)' = OutPath(j, job[j].emit) /\ OutPath(j, job[j].emit) \in Path
  BY <1>1, JobFacts DEF OutPath, Path
<1>3. ASSUME NEW j \in Invocation \ {i}, j \notin RenameCanFail
      PROVE  OutputOf(j)'
  <2>1. OutputOf(j)
    BY <1>3 DEF SuccessMeansOutput
  <2>2. pc[j] = "destroy" => ~Idle(j)
    BY DEF Idle
  <2>3. OutPath(j, job[j].emit) \in Targets(j)
    BY JobFacts
  <2> QED
    BY <1>1, <1>2, <2>1, <2>2, <2>3, OthersKeep, TargetsKept DEF OutputOf, ToStdout
<1>4. ASSUME i \notin RenameCanFail
      PROVE  OutputOf(i)'
  <2>1. SUFFICES ASSUME pc'[i] = "destroy", result'[i] = "true", job[i].emit # "none", ~ToStdout(i)
                 PROVE  disk'[OutPath(i, job[i].emit)] = Holds("whole", i)
    BY <1>1, <1>2 DEF OutputOf, ToStdout
  <2>2. disk \in [Path -> Content] /\ OutPath(i, job[i].emit) \in Path
    BY <1>2 DEF TypeOK
  <2>3. OutPath(i, job[i].emit) # Tmp(i)
    BY JobFacts, TemporaryNames, GuidAssumption
  <2>4. WriteIR(i) \/ RunAs(i) \/ RunLlc(i)
    BY <2>1 DEF TypeOK, Goto, Leave, Step, Construct, OpenImport, FinishImport, Visit, OpenExports,
       WriteExports, CreateNoopt, PrintModule, RunOpt, WriteNothing, Destroy, Crash
  <2>5. CASE WriteIR(i)
    BY <1>4, <2>2, <2>3, <2>5 DEF WriteIR, TmpInv
  <2>6. CASE RunAs(i)
    BY <2>1, <2>2, <2>6 DEF RunAs, ToolSuccess, Store, Leave, TypeOK
  <2>7. CASE RunLlc(i)
    BY <2>1, <2>2, <2>7 DEF RunLlc, ToolSuccess, Store, Leave, TypeOK
  <2> QED
    BY <2>4, <2>5, <2>6, <2>7
<1> QED
  BY <1>3, <1>4 DEF SuccessMeansOutput

-----------------------------------------------------------------------------
(* The theorems.                                                           *)

(* IInv holds at the beginning: no file is of an invocation of this run.   *)
LEMMA InitInductive == Init => IInv
<1> SUFFICES ASSUME Init PROVE IInv
  OBVIOUS
<1>1. TypeOK
  <2>1. job \in [Invocation -> Job]
    BY JobsAssumption DEF Init
  <2>2. disk \in [Path -> Content]
    BY DEF Init, Holds, Absent, Content
  <2> QED
    BY <2>1, <2>2 DEF Init, TypeOK, ControlPoint
<1>2. \A p \in Path : disk[p].by = Nobody
  BY DEF Init, Holds, Absent
<1>3. \A p \in Temporary : disk[p] = Absent
  BY GuidAssumption DEF Init, Path
<1>4. TmpInv
  BY <1>2, <1>3, TemporaryNames DEF TmpInv, Init, Path
<1>5. ModuleInv
  <2>1. \A s \in Source : ModulePath(s) \in Path
    BY DEF ModulePath, Persistent, Path
  <2> QED
    BY <2>1, <1>2 DEF ModuleInv, Init
<1>6. OutputInv
  BY <1>1, <1>2, JobFacts, NobodyAssumption DEF OutputInv, Path
<1> QED
  BY <1>1, <1>4, <1>5, <1>6 DEF IInv, Init, Exclusive, Idle, ExportInv, Exported,
     ImportsAreChecked, SuccessMeansOutput, OutputOf, ResultInv

(* Every step keeps it, the killing of an invocation included.             *)
LEMMA StepInductive == IInv /\ [Next]_vars => IInv'
<1> SUFFICES ASSUME IInv, [Next]_vars PROVE IInv'
  OBVIOUS
<1>1. CASE UNCHANGED vars
  <2>1. /\ UNCHANGED <<job, pc, disk, reading, imported, checked, result>>
        /\ TypeOK /\ Exclusive /\ TmpInv /\ ModuleInv /\ ExportInv
        /\ OutputInv /\ ResultInv /\ ImportsAreChecked /\ SuccessMeansOutput
    BY <1>1 DEF vars, IInv
  <2>2. TypeOK'
    BY <2>1 DEF TypeOK
  <2>3. Exclusive'
    BY <2>1 DEF Exclusive, Idle, Targets, OutPath
  <2>4. TmpInv'
    BY <2>1 DEF TmpInv
  <2>5. ModuleInv'
    BY <2>1 DEF ModuleInv
  <2>6. ExportInv'
    BY <2>1 DEF ExportInv, Exported, WritesModule, ToStdout
  <2>7. OutputInv'
    BY <2>1 DEF OutputInv, Unwritten, OutPath
  <2>8. ResultInv' /\ ImportsAreChecked'
    BY <2>1 DEF ResultInv, ImportsAreChecked
  <2>9. SuccessMeansOutput'
    BY <2>1 DEF SuccessMeansOutput, OutputOf, OutPath, ToStdout
  <2> QED
    BY <2>2, <2>3, <2>4, <2>5, <2>6, <2>7, <2>8, <2>9 DEF IInv
<1>2. ASSUME NEW i \in Invocation, Step(i)
      PROVE  IInv'
  BY <1>2, TypeStep, ExclusiveStep, TmpStep, ModuleStep, ImportsStep, ExportStep,
     OutputStep, ResultStep, SuccessStep DEF IInv
<1> QED
  BY <1>1, <1>2 DEF Next, AllOver

LEMMA Invariance == Spec => []IInv
BY InitInductive, StepInductive, PTL DEF Spec

(* Every variable holds a value of its kind.                               *)
THEOREM TypeCorrect == Spec => []TypeOK
BY Invariance, PTL DEF IInv

(* Whatever an importer takes in was written by invocations that were      *)
(* accepted, although the file may be written anew while it is being read, *)
(* or its writer be killed (importModule, ModuleFile::write).              *)
THEOREM ImportsChecked == Spec => []ImportsAreChecked
BY Invariance, PTL DEF IInv

(* Codegen's two temporary files are gone on every way out.                *)
THEOREM TemporariesRemoved == Spec => []NoTemporariesLeft
<1>1. IInv => NoTemporariesLeft
  BY DEF IInv, TmpInv, NoTemporariesLeft
<1> QED
  BY <1>1, Invariance, PTL

(* Success means an output file of this invocation (Codegen::write) ...    *)
THEOREM OutputWhenSuccessful == Spec => []SuccessMeansOutput
BY Invariance, PTL DEF IInv

(* ... and a module file of it (Codegen::run), where the disk has room.    *)
THEOREM ModuleFileWhenSuccessful == Spec => []SuccessMeansModuleFile
<1>1. IInv => SuccessMeansModuleFile
  BY DEF IInv, ExportInv, Exported, SuccessMeansModuleFile
<1> QED
  BY <1>1, Invariance, PTL

(* A rejected program leaves the previous output alone.                    *)
THEOREM OutputWhenRejected == Spec => []RejectionKeepsOutput
<1>1. IInv => RejectionKeepsOutput
  BY DEF IInv, OutputInv, Unwritten, RejectionKeepsOutput
<1> QED
  BY <1>1, Invariance, PTL

(* A step that changes a file that is not a temporary one moves on, and    *)
(* the file is one it was asked for, or RunAs takes it away.               *)
LEMMA ChangesAsked ==
  ASSUME TypeOK, NEW i \in Invocation, Step(i), NEW p \in Persistent, disk'[p] # disk[p]
  PROVE  /\ pc[i] \notin {"destroy", "ended", "crashed"}
         /\ pc'[i] # pc[i]
         /\ p \in Asked(i) \/ TakesAway(i, p)
<1>1. /\ p \in Path /\ p # Tmp(i) /\ p # Noopt(i)
      /\ disk \in [Path -> Content] /\ pc \in [Invocation -> ControlPoint]
      /\ result \in [Invocation -> {"none", "true", "false", "exception"}]
  BY TemporaryNames, GuidAssumption DEF Path, TypeOK
<1>2. ~Construct(i) /\ ~CreateNoopt(i) /\ ~PrintModule(i) /\ ~Destroy(i) /\ ~RunOpt(i)
  BY <1>1 DEF Construct, CreateNoopt, PrintModule, Destroy, RunOpt, Store
<1>3. ~Visit(i) /\ ~WriteNothing(i) /\ ~Crash(i) /\ ~(\E s \in Source : OpenImport(i, s))
      /\ ~FinishImport(i)
  BY DEF Visit, WriteNothing, Crash, OpenImport, FinishImport
<1>4. CASE OpenExports(i) \/ WriteExports(i)
  BY <1>1, <1>4 DEF OpenExports, WriteExports, Store, Asked, Goto, Leave
<1>5. CASE WriteIR(i)
  BY <1>1, <1>5 DEF WriteIR, Asked, Goto, Leave
<1>6. CASE RunLlc(i)
  BY <1>1, <1>6 DEF RunLlc, ToolSuccess, Store, Asked, Goto, Leave
<1>7. CASE RunAs(i)
  BY <1>1, <1>7 DEF RunAs, ToolSuccess, Store, Asked, TakesAway, Goto, Leave
<1> QED
  BY <1>2, <1>3, <1>4, <1>5, <1>6, <1>7 DEF Step

(* What a successful invocation has made stays until another one that was  *)
(* asked for the same file changes it, or RunAs removes it.                *)
THEOREM SuccessIsKept == Spec => SuccessLasts
<1> DEFINE Lasts ==
      \A i \in Invocation : \A p \in Persistent :
        result[i] = "true" /\ disk[p] = Holds("whole", i) /\ disk'[p] # disk[p]
        => \E j \in Invocation \ {i} :
             pc'[j] # pc[j] /\ (p \in Asked(j) \/ TakesAway(j, p))
<1>1. IInv /\ [Next]_vars => [Lasts]_vars
  <2> SUFFICES ASSUME IInv, [Next]_vars, ~UNCHANGED vars,
                      NEW i \in Invocation, NEW p \in Persistent,
                      result[i] = "true", disk'[p] # disk[p]
               PROVE  \E j \in Invocation \ {i} :
                        pc'[j] # pc[j] /\ (p \in Asked(j) \/ TakesAway(j, p))
    OBVIOUS
  <2>1. PICK j \in Invocation : Step(j)
    BY DEF Next, AllOver
  <2>2. j # i
    BY <2>1, ChangesAsked DEF IInv, ResultInv
  <2> QED
    BY <2>1, <2>2, ChangesAsked DEF IInv
<1> QED
  BY <1>1, Invariance, PTL DEF Spec, SuccessLasts
=============================================================================
