------------------------------- MODULE Driver -------------------------------
(***************************************************************************)
(* What is around the compiler: main of src/tipc.cpp with its options, the *)
(* passes Optimizer.cpp asks LLVM for, the files CodeGenerator.cpp and the *)
(* driver write, and bin/build.sh, which runs tipc and links.  Files stay  *)
(* on the disk from one invocation to the next, whose source may be another*)
(* program.  What the phases find is the verdict on the source, any of     *)
(* Verdicts; the phases themselves are the module Compiler.                *)
(***************************************************************************)
EXTENDS Naturals, SequencesExt

CONSTANTS
  Requests,  \* the command lines a user may give, see Request
  Locks,     \* the sets of files that may be unwritable in an invocation
  MaxRuns    \* bound of the model: invocations

ASSUME RunsAssumption == MaxRuns \in Nat

Optimizations == {"licm", "unroll", "ivs", "inliner", "gdce", "constmerge", "looprotate"}

Request ==
  [script: BOOLEAN,                   \* by build.sh, the source named last
   pp: BOOLEAN, ps: BOOLEAN, pt: BOOLEAN, do: BOOLEAN,
   asm: {"", "-asm", "--asm"},        \* either spelling is the same to tipc
   pcg: BOOLEAN, pa: BOOLEAN, o: BOOLEAN,
   enabledOpts: SUBSET Optimizations]

ASSUME RequestsAssumption == Requests \subseteq Request /\ Requests # {}

(* The source is missing, or the phase that throws: an Error that main     *)
(* catches, or "abort", whatever else ends the process in FrontEnd::parse  *)
(* or SemanticAnalysis::analyze (std::out_of_range, an assertion, the end  *)
(* of the stack).                                                          *)
Verdicts == {"nofile", "ParseError", "SemanticError", "abort", "InternalError", "ok"}

Files == {"x.tip.bc", "x.tip.ll", "outputfile", "cgFile", "astFile"}

ASSUME LocksAssumption == Locks \subseteq SUBSET Files

Nothing == [kind |-> "none", run |-> 0]

VARIABLES
  run,         \* the invocations so far
  request,     \* the command line of this one
  verdict,     \* what the phases find in its source
  locked,      \* the files it cannot open for writing
  pc,          \* the next statement of main, or of build.sh
  shown,       \* what it wrote to the standard output
  passes,      \* what it ran on the module
  exit,        \* the status it ended with
  disk,        \* every file, with the run that wrote it
  executable   \* what was linked last, and by which run

vars == <<run, request, verdict, locked, pc, shown, passes, exit, disk, executable>>

Init ==
  /\ run = 0 /\ request = (CHOOSE r \in Requests : TRUE) /\ verdict = "ok" /\ locked = {}
  /\ pc = "idle" /\ shown = <<>> /\ passes = <<>> /\ exit = "none"
  /\ disk = [f \in Files |-> Nothing]
  /\ executable = [code |-> Nothing, run |-> 0]

Invoke(r) ==
  /\ pc = "idle" /\ run < MaxRuns
  /\ run' = run + 1
  /\ request' = r /\ verdict' \in Verdicts /\ locked' \in Locks
  /\ pc' = "open" /\ shown' = <<>> /\ passes' = <<>> /\ exit' = "none"
  /\ UNCHANGED <<disk, executable>>

-----------------------------------------------------------------------------
At(here) == pc = here
GoTo(next) == pc' = next /\ UNCHANGED <<run, request, verdict, locked, exit, executable>>

(* EXIT_FAILURE, or the end of the process by a signal: to a shell both    *)
(* are failures.                                                           *)
Fail ==
  /\ exit' = "failure" /\ pc' = "shell"
  /\ UNCHANGED <<run, request, verdict, locked, shown, passes, disk, executable>>

Write(f, kind) == disk' = [disk EXCEPT ![f] = [kind |-> kind, run |-> run]]

OpenSource ==
  /\ At("open")
  /\ IF verdict = "nofile" THEN Fail ELSE GoTo("parse") /\ UNCHANGED <<shown, passes, disk>>

(* Slip: a program is pretty printed as soon as it is parsed.              *)
ParseAndPrint ==
  /\ At("parse")
  /\ IF verdict = "ParseError" THEN Fail
     ELSE /\ shown' = IF request.pp THEN <<"program">> ELSE <<>>
          /\ GoTo("analyze") /\ UNCHANGED <<passes, disk>>

Parse ==
  /\ At("parse")
  /\ IF verdict = "ParseError" THEN Fail ELSE GoTo("analyze") /\ UNCHANGED <<shown, passes, disk>>

Analyze ==
  /\ At("analyze")
  /\ IF verdict \in {"SemanticError", "abort"} THEN Fail
     ELSE GoTo("print") /\ UNCHANGED <<shown, passes, disk>>

(* --pt supersedes --ps.                                                   *)
PrintResults ==
  /\ At("print")
  /\ shown' = (IF request.pp THEN <<"program">> ELSE <<>>) \o
              (IF request.pt THEN <<"types">> ELSE IF request.ps THEN <<"symbols">> ELSE <<>>)
  /\ GoTo("callgraph") /\ UNCHANGED <<passes, disk>>

PrintCallGraph ==
  /\ At("callgraph")
  /\ IF request.pcg /\ "cgFile" \in locked THEN Fail
     ELSE /\ IF request.pcg THEN Write("cgFile", "callgraph") ELSE UNCHANGED disk
          /\ GoTo("generate") /\ UNCHANGED <<shown, passes>>

Generate ==
  /\ At("generate")
  /\ IF verdict = "InternalError" THEN Fail
     ELSE GoTo("optimize") /\ UNCHANGED <<shown, passes, disk>>

-----------------------------------------------------------------------------
If(o, pass) == IF o \in request.enabledOpts THEN <<pass>> ELSE <<>>

(* The loop passes are one adaptor, which is added after the unroller.     *)
LoopPasses     == If("looprotate", "LoopRotatePass") \o If("ivs", "IndVarSimplifyPass")
BasicPasses ==
  <<"PromotePass", "InstCombinePass", "ReassociatePass", "GVNPass", "SimplifyCFGPass">>

FunctionPasses == BasicPasses \o If("unroll", "LoopUnrollPass") \o LoopPasses
ModulePasses ==
  FunctionPasses \o If("inliner", "ModuleInlinerPass") \o If("gdce", "GlobalDCEPass")
    \o If("constmerge", "ConstantMergePass")

Optimize ==
  /\ At("optimize")
  /\ passes' = IF request.do THEN <<>> ELSE ModulePasses
  /\ GoTo("emit") /\ UNCHANGED <<shown, disk>>

(* Slip: the extension is .bc whatever is emitted.                         *)
FilenameWithoutKind == IF request.o THEN "outputfile" ELSE "x.tip.bc"

Filename ==
  IF request.o THEN "outputfile" ELSE IF request.asm # "" THEN "x.tip.ll" ELSE "x.tip.bc"

CodeKind == IF request.asm # "" THEN "assembly" ELSE "bitcode"

(* Slip: the failure to open the file is only noted.                       *)
EmitIfPossible ==
  /\ At("emit")
  /\ IF Filename \notin locked THEN Write(Filename, CodeKind) ELSE UNCHANGED disk
  /\ GoTo("ast") /\ UNCHANGED <<shown, passes>>

(* The error code of opening is not looked at; LLVM ends the process when  *)
(* it finds that it could not write.                                       *)
Emit ==
  /\ At("emit")
  /\ IF Filename \in locked THEN Fail
     ELSE Write(Filename, CodeKind) /\ GoTo("ast") /\ UNCHANGED <<shown, passes>>

(* Here a failure to open the file is reported, and that is all.           *)
PrintAst ==
  /\ At("ast")
  /\ IF request.pa /\ "astFile" \notin locked THEN Write("astFile", "ast") ELSE UNCHANGED disk
  /\ exit' = "success" /\ pc' = "shell"
  /\ UNCHANGED <<run, request, verdict, locked, shown, passes, executable>>

Main ==
  \/ OpenSource \/ Parse \/ Analyze \/ PrintResults \/ PrintCallGraph
  \/ Generate \/ Optimize \/ Emit \/ PrintAst

-----------------------------------------------------------------------------
(* Slip: the script goes on whatever tipc returned.                        *)
LinksAnyway == request.script /\ request.asm # "--asm"

(* build.sh goes on after tipc has succeeded (set -e) and links what it    *)
(* takes to be the bitcode; clang fails when there is no such file.        *)
Links == request.script /\ exit = "success" /\ request.asm # "--asm"

Link ==
  /\ At("shell") /\ Links
  /\ IF disk["x.tip.bc"] = Nothing THEN exit' = "failure" /\ UNCHANGED executable
     ELSE executable' = [code |-> disk["x.tip.bc"], run |-> run] /\ UNCHANGED exit
  /\ pc' = "idle"
  /\ UNCHANGED <<run, request, verdict, locked, shown, passes, disk>>

NoLink ==
  /\ At("shell") /\ ~Links
  /\ pc' = "idle"
  /\ UNCHANGED <<run, request, verdict, locked, shown, passes, exit, disk, executable>>

Next == (\E r \in Requests : Invoke(r)) \/ Main \/ Link \/ NoLink

Spec == Init /\ [][Next]_vars

-----------------------------------------------------------------------------
Ended == pc \in {"shell", "idle"} /\ run > 0

Contents == [kind: {"none", "callgraph", "bitcode", "assembly", "ast"}, run: 0..MaxRuns]

(* Every file holds what belongs in it.                                    *)
TypeOK ==
  /\ request \in Request /\ verdict \in Verdicts /\ run \in 0..MaxRuns
  /\ exit \in {"none", "success", "failure"}
  /\ disk \in [Files -> Contents]
  /\ \A f \in Files \ {"outputfile"} :
       disk[f].kind \in {"none", CASE f = "x.tip.bc" -> "bitcode" [] f = "x.tip.ll" -> "assembly"
                                   [] f = "cgFile" -> "callgraph" [] f = "astFile" -> "ast"}
  /\ executable.code \in Contents

OfThisRun(f) == disk[f].run = run

(* A program with an error leaves no trace, neither on the disk nor on the *)
(* standard output: tipc.cpp:71-73, "It runs the phases of the compiler in *)
(* sequence.  If an error is detected, via an exception, it reports the    *)
(* error and exits".  (An InternalError comes after the reports.)          *)
RejectedLeavesNoTrace ==
  Ended /\ verdict \notin {"ok", "InternalError"} =>
    /\ exit = "failure" /\ shown = <<>>
    /\ \A f \in Files : ~OfThisRun(f)

PassOf ==
  [licm |-> "LICMPass", unroll |-> "LoopUnrollPass", ivs |-> "IndVarSimplifyPass",
   inliner |-> "ModuleInlinerPass", gdce |-> "GlobalDCEPass",
   constmerge |-> "ConstantMergePass", looprotate |-> "LoopRotatePass"]

(* tipc.cpp:73-74, "If there is no error, then the LLVM bitcode is emitted *)
(* to a file": tipc succeeds just when this run wrote the code, of the kind*)
(* asked for, where it was asked for, and no other file holds code of it.  *)
(* Then it also wrote the reports it was asked for, and ran the            *)
(* optimisations asked for, none if all are disabled (Optimizer.h:20), with*)
(* two exceptions: a file for the AST that cannot be written is noticed    *)
(* when the code is out (tipc.cpp:151), and licm is not looked for, of     *)
(* which loopunswitch.sip:7 says "You should be able to see a 4x speedup". *)
SuccessMeansDone ==
  LET success   == exit = "success"
      codeFiles == {f \in Files : OfThisRun(f) /\ disk[f].kind \in {"bitcode", "assembly"}}
  IN  At("shell") =>
        /\ codeFiles = IF success THEN {Filename} ELSE {}
        /\ success => disk[Filename].kind = CodeKind
        /\ success /\ request.pcg => OfThisRun("cgFile")
        /\ success /\ request.pa => OfThisRun("astFile") \/ "astFile" \in locked
        /\ success => {o \in Optimizations : PassOf[o] \in ToSet(passes)} =
                        IF request.do THEN {} ELSE request.enabledOpts \ {"licm"}

(* What build.sh links is the code tipc has just generated: build.sh:32,   *)
(* "Only perform link step if bitcode has been generated".  With -o, or    *)
(* -asm in a spelling the script does not look for, it is not: tipc writes *)
(* another file, and the script links what an earlier run has left.        *)
LinkedIsGenerated ==
  executable.run = run =>
    executable.code.run = run \/ request.o \/ request.asm = "-asm"

=============================================================================
