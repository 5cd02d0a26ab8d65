------------------------------ MODULE MCCodegen ------------------------------
(* Instances of Codegen for TLC.                                            *)
EXTENDS Codegen

CONSTANTS i1, i2, nobody

TwoInvocations == {i1, i2}
OneInvocation  == {i1}
Stems == {"a", "b"}

Compile(s, imports, emits, outs, mods) ==
  [source : {s}, imports : {imports}, emit : emits, out : outs, modfile : mods]

(* i1 compiles a with any combination of the options; i2 compiles it again *)
(* (never at the same time), or compiles b, which imports a.               *)
BuildJobs ==
  [i \in TwoInvocations |->
     IF i = i1
     THEN Compile("a", {}, Emit, {"", "-", "b"}, BOOLEAN)
     ELSE Compile("a", {}, {"obj", "bc"}, {""}, {TRUE})
            \cup Compile("b", {"a"}, {"obj", "ir"}, {""}, {TRUE})]

Second == {i2}

OneJob == [i \in OneInvocation |-> Compile("a", {}, Emit, {"", "b"}, BOOLEAN)]
=============================================================================
