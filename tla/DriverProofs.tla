---------------------------- MODULE DriverProofs ----------------------------
(***************************************************************************)
(* Theorems about the driver, for every set of command lines, of unwritable *)
(* files and any number of invocations.                                    *)
(***************************************************************************)
EXTENDS Driver, TLAPS

-----------------------------------------------------------------------------
(* Lemmas about sequences of passes.                                       *)

(* Two sequences one after the other have the elements of both.            *)
LEMMA ToSetConcat ==
  ASSUME NEW S, NEW s \in Seq(S), NEW t \in Seq(S)
  PROVE  ToSet(s \o t) = ToSet(s) \cup ToSet(t)
<1>1. /\ s \o t \in Seq(S) /\ Len(s \o t) = Len(s) + Len(t)
      /\ \A i \in 1 .. Len(s) : (s \o t)[i] = s[i]
      /\ \A i \in 1 .. Len(t) : (s \o t)[Len(s) + i] = t[i]
  OBVIOUS
<1>2. DOMAIN s = 1 .. Len(s) /\ DOMAIN t = 1 .. Len(t) /\ DOMAIN (s \o t) = 1 .. Len(s \o t)
  BY <1>1
<1>3. ToSet(s) \subseteq ToSet(s \o t)
  BY <1>1, <1>2 DEF ToSet
<1>4. ToSet(t) \subseteq ToSet(s \o t)
  BY <1>1, <1>2 DEF ToSet
<1>5. ASSUME NEW i \in DOMAIN (s \o t)
      PROVE  (s \o t)[i] \in ToSet(s) \cup ToSet(t)
  <2>1. CASE i <= Len(s)
    BY <1>1, <1>2, <2>1 DEF ToSet
  <2>2. CASE i > Len(s)
    <3>1. i - Len(s) \in 1 .. Len(t) /\ i = Len(s) + (i - Len(s))
      BY <1>1, <1>2, <2>2
    <3>2. QED
      BY <1>1, <1>2, <3>1 DEF ToSet
  <2>3. QED
    BY <1>1, <1>2, <2>1, <2>2
<1>6. QED
  BY <1>1, <1>3, <1>4, <1>5 DEF ToSet

(* The elements of the shortest sequences.                                 *)
LEMMA ToSetShort ==
  ASSUME NEW S, NEW p \in S
  PROVE  /\ <<>> \in Seq(S) /\ ToSet(<<>>) = {}
         /\ <<p>> \in Seq(S) /\ ToSet(<<p>>) = {p}
<1>1. <<>> \in Seq(S) /\ <<p>> \in Seq(S)
  OBVIOUS
<1>2. DOMAIN <<>> = {}
  OBVIOUS
<1>3. DOMAIN <<p>> = {1} /\ <<p>>[1] = p
  OBVIOUS
<1>4. ToSet(<<>>) = {}
  BY <1>2, Zenon DEF ToSet
<1>5. ToSet(<<p>>) = {p}
  BY <1>3 DEF ToSet
<1>6. QED
  BY <1>1, <1>4, <1>5

(* A pass that is asked for by an option is run just when the option is    *)
(* given.                                                                  *)
LEMMA IfElements ==
  ASSUME NEW S, NEW o, NEW pass \in S
  PROVE  /\ If(o, pass) \in Seq(S)
         /\ ToSet(If(o, pass)) = IF o \in request.enabledOpts THEN {pass} ELSE {}
BY ToSetShort DEF If

(* The passes that are run whatever the options.                           *)
LEMMA BasicElements ==
  ASSUME NEW S, {"PromotePass", "InstCombinePass", "ReassociatePass", "GVNPass", "SimplifyCFGPass"} \subseteq S
  PROVE  /\ BasicPasses \in Seq(S)
         /\ ToSet(BasicPasses) =
              {"PromotePass", "InstCombinePass", "ReassociatePass", "GVNPass", "SimplifyCFGPass"}
<1>1. ASSUME NEW a \in S, NEW b \in S, NEW c \in S, NEW d \in S, NEW e \in S
      PROVE  <<a, b, c, d, e>> \in Seq(S) /\ ToSet(<<a, b, c, d, e>>) = {a, b, c, d, e}
  <2>1. <<a, b, c, d, e>> \in Seq(S)
    OBVIOUS
  <2>2. /\ DOMAIN <<a, b, c, d, e>> = {1, 2, 3, 4, 5}
        /\ <<a, b, c, d, e>>[1] = a /\ <<a, b, c, d, e>>[2] = b /\ <<a, b, c, d, e>>[3] = c
        /\ <<a, b, c, d, e>>[4] = d /\ <<a, b, c, d, e>>[5] = e
    OBVIOUS
  <2>3. ASSUME NEW s, DOMAIN s = {1, 2, 3, 4, 5},
               s[1] = a, s[2] = b, s[3] = c, s[4] = d, s[5] = e
        PROVE  ToSet(s) = {a, b, c, d, e}
    BY <2>3 DEF ToSet
  <2>4. QED
    BY <2>1, <2>2, <2>3
<1>2. QED
  BY <1>1 DEF BasicPasses

(* The module passes include that of each option given, but for licm.      *)
LEMMA ModulePassElements ==
  {o \in Optimizations : PassOf[o] \in ToSet(ModulePasses)} =
    {o \in Optimizations : o \in request.enabledOpts /\ o # "licm"}
<1> DEFINE Given(o, pass) == IF o \in request.enabledOpts THEN {pass} ELSE {}
<1>1. ToSet(ModulePasses) =
        UNION {{"PromotePass", "InstCombinePass", "ReassociatePass", "GVNPass", "SimplifyCFGPass"},
               Given("unroll", "LoopUnrollPass"), Given("looprotate", "LoopRotatePass"),
               Given("ivs", "IndVarSimplifyPass"), Given("inliner", "ModuleInlinerPass"),
               Given("gdce", "GlobalDCEPass"), Given("constmerge", "ConstantMergePass")}
  <2>1. PICK S : /\ {"PromotePass", "InstCombinePass", "ReassociatePass", "GVNPass", "SimplifyCFGPass"} \subseteq S
                 /\ "LoopUnrollPass" \in S /\ "LoopRotatePass" \in S /\ "IndVarSimplifyPass" \in S
                 /\ "ModuleInlinerPass" \in S /\ "GlobalDCEPass" \in S /\ "ConstantMergePass" \in S
    <3> DEFINE all ==
          {"PromotePass", "InstCombinePass", "ReassociatePass", "GVNPass", "SimplifyCFGPass",
           "LoopUnrollPass", "LoopRotatePass", "IndVarSimplifyPass", "ModuleInlinerPass",
           "GlobalDCEPass", "ConstantMergePass"}
    <3> WITNESS all
    <3> QED
      OBVIOUS
  <2>2. BasicPasses \in Seq(S)
    BY <2>1, BasicElements
  <2>3. /\ If("unroll", "LoopUnrollPass") \in Seq(S) /\ If("looprotate", "LoopRotatePass") \in Seq(S)
        /\ If("ivs", "IndVarSimplifyPass") \in Seq(S) /\ If("inliner", "ModuleInlinerPass") \in Seq(S)
        /\ If("gdce", "GlobalDCEPass") \in Seq(S) /\ If("constmerge", "ConstantMergePass") \in Seq(S)
    BY <2>1, IfElements
  <2>4. ToSet(ModulePasses) =
          UNION {ToSet(BasicPasses), ToSet(If("unroll", "LoopUnrollPass")),
                 ToSet(If("looprotate", "LoopRotatePass")), ToSet(If("ivs", "IndVarSimplifyPass")),
                 ToSet(If("inliner", "ModuleInlinerPass")), ToSet(If("gdce", "GlobalDCEPass")),
                 ToSet(If("constmerge", "ConstantMergePass"))}
    <3> DEFINE unrolled == BasicPasses \o If("unroll", "LoopUnrollPass")
               inlined  == FunctionPasses \o If("inliner", "ModuleInlinerPass")
               shrunk   == inlined \o If("gdce", "GlobalDCEPass")
    <3>1. unrolled \in Seq(S) /\ LoopPasses \in Seq(S)
      BY <2>2, <2>3 DEF LoopPasses
    <3>2. FunctionPasses \in Seq(S) /\ FunctionPasses = unrolled \o LoopPasses
      BY <3>1 DEF FunctionPasses
    <3>3. inlined \in Seq(S)
      BY <2>3, <3>2
    <3>4. shrunk \in Seq(S) /\ ModulePasses = shrunk \o If("constmerge", "ConstantMergePass")
      BY <2>3, <3>3 DEF ModulePasses
    <3>5. ToSet(unrolled) = ToSet(BasicPasses) \cup ToSet(If("unroll", "LoopUnrollPass"))
      BY <2>2, <2>3, ToSetConcat
    <3>6. ToSet(LoopPasses) =
            ToSet(If("looprotate", "LoopRotatePass")) \cup ToSet(If("ivs", "IndVarSimplifyPass"))
      BY <2>3, ToSetConcat DEF LoopPasses
    <3>7. ToSet(inlined) = ToSet(FunctionPasses) \cup ToSet(If("inliner", "ModuleInlinerPass"))
      BY <2>3, <3>2, ToSetConcat
    <3> HIDE DEF unrolled, inlined
    <3>8. ToSet(FunctionPasses) = ToSet(unrolled) \cup ToSet(LoopPasses)
      BY <3>1, <3>2, ToSetConcat
    <3>9. ToSet(shrunk) = ToSet(inlined) \cup ToSet(If("gdce", "GlobalDCEPass"))
      BY <2>3, <3>3, ToSetConcat
    <3> HIDE DEF shrunk
    <3>10. ToSet(ModulePasses) = ToSet(shrunk) \cup ToSet(If("constmerge", "ConstantMergePass"))
      BY <2>3, <3>4, ToSetConcat
    <3>11. QED
      BY <3>5, <3>6, <3>7, <3>8, <3>9, <3>10
  <2>5. /\ ToSet(If("unroll", "LoopUnrollPass")) = Given("unroll", "LoopUnrollPass")
        /\ ToSet(If("looprotate", "LoopRotatePass")) = Given("looprotate", "LoopRotatePass")
        /\ ToSet(If("ivs", "IndVarSimplifyPass")) = Given("ivs", "IndVarSimplifyPass")
        /\ ToSet(If("inliner", "ModuleInlinerPass")) = Given("inliner", "ModuleInlinerPass")
        /\ ToSet(If("gdce", "GlobalDCEPass")) = Given("gdce", "GlobalDCEPass")
        /\ ToSet(If("constmerge", "ConstantMergePass")) = Given("constmerge", "ConstantMergePass")
    BY <2>1, IfElements
  <2>6. ToSet(BasicPasses) =
          {"PromotePass", "InstCombinePass", "ReassociatePass", "GVNPass", "SimplifyCFGPass"}
    BY <2>1, BasicElements
  <2> HIDE DEF Given
  <2>7. QED
    BY <2>4, <2>5, <2>6, Zenon
<1>2. ASSUME NEW o \in Optimizations
      PROVE  PassOf[o] \in ToSet(ModulePasses) <=> o \in request.enabledOpts /\ o # "licm"
  BY <1>1 DEF Optimizations, PassOf
<1>3. QED
  BY <1>2

-----------------------------------------------------------------------------
(***************************************************************************)
(* The inductive invariant: what main has found out, shown and written     *)
(* when it is about to run each of its statements.                         *)
(***************************************************************************)
NothingWritten == {"open", "parse", "analyze", "print", "callgraph"}
NoCodeYet      == {"generate", "optimize", "emit"}
InTipc         == NothingWritten \cup NoCodeYet \cup {"ast"}

(* A phase is over only when it has not thrown.                            *)
PhasesPassed ==
  /\ pc \in InTipc \ {"open"} => verdict # "nofile"
  /\ pc \in InTipc \ {"open", "parse"} => verdict # "ParseError"
  /\ pc \in InTipc \ {"open", "parse", "analyze"} => verdict \in {"ok", "InternalError"}
  /\ pc \in {"open", "parse", "analyze", "print"} => shown = <<>>
  /\ pc \in {"emit", "ast"} => passes = IF request.do THEN <<>> ELSE ModulePasses

(* The files of this run are those written by the statements before.       *)
FilesSoFar ==
  /\ \A f \in Files : disk[f].run <= run
  /\ pc \in NothingWritten => \A f \in Files : ~OfThisRun(f)
  /\ pc \in NoCodeYet => \A f \in Files : OfThisRun(f) => f = "cgFile"
  /\ pc \in NoCodeYet \cup {"ast"} => (request.pcg => OfThisRun("cgFile"))
  /\ pc = "ast" =>
       /\ OfThisRun(Filename) /\ disk[Filename].kind = CodeKind
       /\ \A f \in Files : OfThisRun(f) => f \in {"cgFile", Filename}

(* Nothing is linked while tipc runs.                                      *)
RunsInOrder ==
  /\ pc \in InTipc \cup {"shell", "idle"}
  /\ pc # "idle" => run > 0
  /\ pc \in InTipc => exit = "none"
  /\ executable.run \in 0..run
  /\ pc # "idle" => executable.run < run

(* The inductive invariant.                                                *)
DInv ==
  /\ TypeOK /\ RunsInOrder /\ PhasesPassed /\ FilesSoFar
  /\ RejectedLeavesNoTrace /\ SuccessMeansDone /\ LinkedIsGenerated

-----------------------------------------------------------------------------
(* Initially nothing was run.                                              *)
LEMMA InitDInv == Init => DInv
<1> SUFFICES ASSUME Init PROVE DInv
  OBVIOUS
<1> USE DEF Init
<1>1. request \in Request
  BY RequestsAssumption
<1>2. Nothing \in Contents /\ Nothing.run = 0 /\ Nothing.kind = "none"
  BY RunsAssumption DEF Nothing, Contents
<1>3. TypeOK
  BY <1>1, <1>2, RunsAssumption DEF TypeOK, Verdicts
<1>4. RunsInOrder /\ PhasesPassed /\ FilesSoFar
  BY <1>2 DEF RunsInOrder, PhasesPassed, FilesSoFar, InTipc, NothingWritten, NoCodeYet
<1>5. RejectedLeavesNoTrace /\ SuccessMeansDone /\ LinkedIsGenerated
  BY <1>2 DEF RejectedLeavesNoTrace, SuccessMeansDone, LinkedIsGenerated, Ended, At
<1>6. QED
  BY <1>3, <1>4, <1>5 DEF DInv

(* While tipc runs the three properties ask for nothing: it has not ended, *)
(* and nothing was linked in this run.                                     *)
LEMMA NothingToShow ==
  ASSUME DInv, pc' \in InTipc, executable' = executable,
         \/ pc \in InTipc /\ run' = run
         \/ run' = run + 1
  PROVE  /\ RejectedLeavesNoTrace' /\ SuccessMeansDone' /\ LinkedIsGenerated'
         /\ executable'.run \in 0..run' /\ executable'.run < run'
<1>1. /\ run \in Nat /\ executable.run \in 0..run
      /\ pc \in InTipc => executable.run < run
  BY RunsAssumption DEF DInv, TypeOK, RunsInOrder, InTipc, NothingWritten, NoCodeYet
<1>2. executable'.run \in 0..run' /\ executable'.run < run'
  BY <1>1
<1>3. pc' \notin {"shell", "idle"}
  BY DEF InTipc, NothingWritten, NoCodeYet
<1>4. QED
  BY <1>2, <1>3 DEF RejectedLeavesNoTrace, SuccessMeansDone, LinkedIsGenerated, Ended, At

(* tipc may fail before the code is written: then no file holds code of    *)
(* this run, and none is written at all when the program is rejected.      *)
LEMMA FailStep ==
  ASSUME DInv, pc \in NothingWritten \cup NoCodeYet, Fail,
         pc \in {"open", "parse", "analyze"} \/ verdict \in {"ok", "InternalError"}
  PROVE  DInv'
<1> USE DEF Fail, InTipc, NothingWritten, NoCodeYet
<1>1. TypeOK'
  BY DEF DInv, TypeOK, Contents
<1>2. RunsInOrder'
  BY DEF DInv, RunsInOrder
<1>3. PhasesPassed'
  BY DEF PhasesPassed
<1>4. FilesSoFar'
  BY DEF DInv, FilesSoFar, OfThisRun
<1>5. RejectedLeavesNoTrace'
  BY DEF DInv, PhasesPassed, FilesSoFar, RejectedLeavesNoTrace, OfThisRun
<1>6. SuccessMeansDone'
  <2>1. ASSUME NEW f \in Files, OfThisRun(f)
        PROVE  disk[f].kind \notin {"bitcode", "assembly"}
    BY <2>1 DEF DInv, FilesSoFar, TypeOK, Files
  <2>2. {f \in Files : OfThisRun(f)' /\ disk'[f].kind \in {"bitcode", "assembly"}} = {}
    BY <2>1 DEF OfThisRun
  <2>3. exit' # "success"
    OBVIOUS
  <2>4. QED
    BY <2>2, <2>3 DEF SuccessMeansDone
<1>7. LinkedIsGenerated'
  BY DEF DInv, LinkedIsGenerated
<1>8. QED
  BY <1>1, <1>2, <1>3, <1>4, <1>5, <1>6, <1>7 DEF DInv

(* A statement of main that writes no file and ends nothing.               *)
LEMMA QuietStep ==
  ASSUME DInv, UNCHANGED <<run, request, verdict, locked, exit, executable, disk>>,
         pc \in InTipc, pc' \in InTipc, PhasesPassed',
         \/ pc \in NothingWritten /\ pc' \in NothingWritten
         \/ pc \in NoCodeYet /\ pc' \in NoCodeYet
  PROVE  DInv'
<1>1. TypeOK'
  BY DEF DInv, TypeOK
<1>2. RunsInOrder'
  BY NothingToShow DEF DInv, RunsInOrder, InTipc, NothingWritten, NoCodeYet
<1>3. FilesSoFar'
  BY DEF DInv, FilesSoFar, OfThisRun, InTipc, NothingWritten, NoCodeYet
<1>4. QED
  BY <1>1, <1>2, <1>3, NothingToShow DEF DInv

(* Every file of a disk holds what belongs in it, as TypeOK says; and the  *)
(* kind of what main writes into a file.                                   *)
FilesHold(d) ==
  /\ d \in [Files -> Contents]
  /\ \A f \in Files \ {"outputfile"} :
       d[f].kind \in {"none", CASE f = "x.tip.bc" -> "bitcode" [] f = "x.tip.ll" -> "assembly"
                               [] f = "cgFile" -> "callgraph" [] f = "astFile" -> "ast"}
KindFor(f) ==
  CASE f = "x.tip.bc" -> "bitcode" [] f = "x.tip.ll" -> "assembly"
    [] f = "cgFile" -> "callgraph" [] f = "astFile" -> "ast" [] OTHER -> CodeKind

(* A write changes one file, and leaves in it what belongs there.          *)
LEMMA WriteType ==
  ASSUME DInv, NEW f \in Files, Write(f, KindFor(f))
  PROVE  /\ FilesHold(disk')
         /\ disk'[f].run = run /\ disk'[f].kind = KindFor(f) /\ disk'[f].run <= run
         /\ \A g \in Files : g # f => disk'[g] = disk[g]
<1>1. disk \in [Files -> Contents] /\ run \in 0..MaxRuns /\ run \in Nat
  BY RunsAssumption DEF DInv, TypeOK
<1>2. disk' = [disk EXCEPT ![f] = [kind |-> KindFor(f), run |-> run]]
  BY DEF Write
<1>3. KindFor(f) \in {"callgraph", "bitcode", "assembly", "ast"}
  BY DEF KindFor, CodeKind, Files
<1>4. [kind |-> KindFor(f), run |-> run] \in Contents
  BY <1>1, <1>3 DEF Contents
<1>5. /\ disk' \in [Files -> Contents]
      /\ disk'[f] = [kind |-> KindFor(f), run |-> run]
      /\ \A g \in Files : g # f => disk'[g] = disk[g]
  BY <1>1, <1>2, <1>4
<1>6. disk'[f].run = run /\ disk'[f].kind = KindFor(f)
  BY <1>5
<1>7. ASSUME NEW g \in Files \ {"outputfile"}
      PROVE  disk'[g].kind \in {"none", CASE g = "x.tip.bc" -> "bitcode" [] g = "x.tip.ll" -> "assembly"
                                   [] g = "cgFile" -> "callgraph" [] g = "astFile" -> "ast"}
  <2>1. CASE g = f
    BY <1>6, <1>7, <2>1 DEF Files, KindFor
  <2>2. CASE g # f
    BY <1>5, <1>7, <2>2 DEF DInv, TypeOK
  <2>3. QED
    BY <2>1, <2>2
<1>8. FilesHold(disk')
  BY <1>5, <1>7 DEF FilesHold
<1>9. disk'[f].run <= run
  BY <1>1, <1>6
<1>10. QED
  BY <1>5, <1>6, <1>8, <1>9

-----------------------------------------------------------------------------
(* main starts: a new run, of which there is no file yet.                  *)
LEMMA InvokeStep ==
  ASSUME DInv, NEW r \in Requests, Invoke(r)
  PROVE  DInv'
<1> USE DEF Invoke
<1>1. run \in Nat /\ run' = run + 1 /\ run' \in 0..MaxRuns
  BY RunsAssumption DEF DInv, TypeOK
<1>2. TypeOK'
  BY <1>1, RequestsAssumption DEF DInv, TypeOK
<1>3. FilesSoFar'
  <2>1. \A f \in Files : disk[f].run \in Nat /\ disk[f].run <= run
    BY DEF DInv, FilesSoFar, TypeOK, Contents
  <2>2. QED
    BY <1>1, <2>1 DEF FilesSoFar, OfThisRun, NothingWritten, NoCodeYet
<1>4. PhasesPassed'
  BY DEF PhasesPassed, InTipc, NothingWritten, NoCodeYet
<1>5. pc' \in InTipc
  BY DEF InTipc, NothingWritten
<1>6. RunsInOrder'
  BY <1>1, <1>5, NothingToShow DEF RunsInOrder
<1>7. QED
  BY <1>1, <1>2, <1>3, <1>4, <1>5, <1>6, NothingToShow DEF DInv

(* The statements before the first file: the source is opened, parsed and  *)
(* analyzed, the reports are printed.                                      *)
LEMMA FrontStep ==
  ASSUME DInv, OpenSource \/ Parse \/ Analyze \/ PrintResults
  PROVE  DInv'
<1> USE DEF At, GoTo, InTipc, NothingWritten, NoCodeYet
<1>1. CASE OpenSource
  <2>1. CASE verdict = "nofile"
    BY <1>1, <2>1, FailStep DEF OpenSource
  <2>2. CASE verdict # "nofile"
    BY <1>1, <2>2, QuietStep DEF OpenSource, DInv, PhasesPassed
  <2>3. QED
    BY <2>1, <2>2
<1>2. CASE Parse
  <2>1. CASE verdict = "ParseError"
    BY <1>2, <2>1, FailStep DEF Parse
  <2>2. CASE verdict # "ParseError"
    BY <1>2, <2>2, QuietStep DEF Parse, DInv, PhasesPassed
  <2>3. QED
    BY <2>1, <2>2
<1>3. CASE Analyze
  <2>1. CASE verdict \in {"SemanticError", "abort"}
    BY <1>3, <2>1, FailStep DEF Analyze
  <2>2. CASE verdict \notin {"SemanticError", "abort"}
    <3>1. verdict \in {"ok", "InternalError"}
      BY <1>3, <2>2 DEF Analyze, DInv, PhasesPassed, TypeOK, Verdicts
    <3>2. QED
      BY <1>3, <2>2, <3>1, QuietStep DEF Analyze, DInv, PhasesPassed
  <2>3. QED
    BY <2>1, <2>2
<1>4. CASE PrintResults
  BY <1>4, QuietStep DEF PrintResults, DInv, PhasesPassed
<1>5. QED
  BY <1>1, <1>2, <1>3, <1>4

(* The call graph goes to a file of its own.                               *)
LEMMA PrintCallGraphStep ==
  ASSUME DInv, PrintCallGraph
  PROVE  DInv'
<1> USE DEF At, GoTo, InTipc, NothingWritten, NoCodeYet
<1>1. verdict \in {"ok", "InternalError"}
  BY DEF PrintCallGraph, DInv, PhasesPassed
<1>2. CASE request.pcg /\ "cgFile" \in locked
  BY <1>1, <1>2, FailStep DEF PrintCallGraph
<1>3. CASE ~(request.pcg /\ "cgFile" \in locked)
  <2>1. /\ pc = "callgraph" /\ pc' = "generate"
        /\ UNCHANGED <<run, request, verdict, locked, exit, executable, shown, passes>>
        /\ IF request.pcg THEN Write("cgFile", "callgraph") ELSE UNCHANGED disk
    BY <1>3 DEF PrintCallGraph
  <2>2. /\ FilesHold(disk')
        /\ request.pcg => disk'["cgFile"].run = run
        /\ \A g \in Files : g # "cgFile" => disk'[g] = disk[g]
        /\ disk'["cgFile"].run <= run
    <3>1. CASE request.pcg
      <4>1. "cgFile" \in Files /\ KindFor("cgFile") = "callgraph"
        BY DEF Files, KindFor
      <4>2. Write("cgFile", KindFor("cgFile"))
        BY <2>1, <3>1, <4>1
      <4>3. QED
        BY <4>1, <4>2, WriteType
    <3>2. CASE ~request.pcg
      BY <2>1, <3>2 DEF DInv, TypeOK, FilesSoFar, Files, FilesHold
    <3>3. QED
      BY <3>1, <3>2
  <2>3. TypeOK'
    BY <2>1, <2>2 DEF DInv, TypeOK, FilesHold
  <2>4. FilesSoFar'
    BY <2>1, <2>2 DEF DInv, FilesSoFar, OfThisRun
  <2>5. PhasesPassed'
    BY <1>1, <2>1 DEF DInv, PhasesPassed
  <2>6. RunsInOrder'
    BY <2>1, NothingToShow DEF DInv, RunsInOrder
  <2>7. QED
    BY <2>1, <2>3, <2>4, <2>5, <2>6, NothingToShow DEF DInv
<1>4. QED
  BY <1>2, <1>3

(* Code is generated and optimized in memory.                              *)
LEMMA GenerateStep ==
  ASSUME DInv, Generate \/ Optimize
  PROVE  DInv'
<1> USE DEF At, GoTo, InTipc, NothingWritten, NoCodeYet
<1>1. CASE Generate
  <2>1. CASE verdict = "InternalError"
    BY <1>1, <2>1, FailStep DEF Generate
  <2>2. CASE verdict # "InternalError"
    BY <1>1, <2>2, QuietStep DEF Generate, DInv, PhasesPassed
  <2>3. QED
    BY <2>1, <2>2
<1>2. CASE Optimize
  <2>1. passes' = (IF request.do THEN <<>> ELSE ModulePasses)'
    BY <1>2 DEF Optimize, ModulePasses, FunctionPasses, LoopPasses, If
  <2>2. PhasesPassed'
    BY <1>2, <2>1 DEF Optimize, DInv, PhasesPassed
  <2>3. QED
    BY <1>2, <2>2, QuietStep DEF Optimize
<1>3. QED
  BY <1>1, <1>2

(* The code is written, or tipc fails.                                     *)
LEMMA EmitStep ==
  ASSUME DInv, Emit
  PROVE  DInv'
<1> USE DEF At, GoTo, InTipc, NothingWritten, NoCodeYet
<1>1. pc = "emit" /\ verdict \in {"ok", "InternalError"}
  BY DEF Emit, DInv, PhasesPassed
<1>2. CASE Filename \in locked
  BY <1>1, <1>2, FailStep DEF Emit
<1>3. CASE Filename \notin locked
  <2>1. /\ pc' = "ast" /\ Write(Filename, CodeKind)
        /\ UNCHANGED <<run, request, verdict, locked, exit, executable, shown, passes>>
    BY <1>3 DEF Emit
  <2>2. /\ Filename \in {"x.tip.bc", "x.tip.ll", "outputfile"}
        /\ Filename = "x.tip.bc" => CodeKind = "bitcode"
        /\ Filename = "x.tip.ll" => CodeKind = "assembly"
        /\ run \in Nat
    BY RunsAssumption DEF Filename, CodeKind, DInv, TypeOK
  <2>3. Filename \in Files /\ KindFor(Filename) = CodeKind
    BY <2>2 DEF Files, KindFor
  <2>4. /\ FilesHold(disk')
        /\ disk'[Filename].run = run /\ disk'[Filename].kind = CodeKind
        /\ \A g \in Files : g # Filename => disk'[g] = disk[g]
    BY <2>1, <2>2, <2>3, WriteType
  <2>5. Filename' = Filename /\ CodeKind' = CodeKind
    BY <2>1 DEF Filename, CodeKind
  <2>6. TypeOK'
    BY <2>1, <2>4 DEF DInv, TypeOK, FilesHold
  <2>7. FilesSoFar'
    <3>1. \A f \in Files : disk'[f].run <= run'
      BY <2>1, <2>2, <2>4 DEF DInv, FilesSoFar
    <3>2. OfThisRun(Filename)' /\ disk'[Filename'].kind = CodeKind'
      BY <2>1, <2>4, <2>5 DEF OfThisRun
    <3>3. \A f \in Files : OfThisRun(f)' => f \in {"cgFile", Filename'}
      BY <1>1, <2>1, <2>4, <2>5 DEF DInv, FilesSoFar, OfThisRun
    <3>4. request'.pcg => OfThisRun("cgFile")'
      BY <1>1, <2>1, <2>2, <2>4 DEF DInv, FilesSoFar, OfThisRun, Files
    <3>5. QED
      BY <2>1, <3>1, <3>2, <3>3, <3>4 DEF FilesSoFar
  <2>8. PhasesPassed'
    <3>1. ModulePasses' = ModulePasses
      BY <2>1 DEF ModulePasses, FunctionPasses, LoopPasses, If
    <3>2. QED
      BY <1>1, <2>1, <3>1 DEF DInv, PhasesPassed
  <2>9. RunsInOrder'
    BY <1>1, <2>1, NothingToShow DEF DInv, RunsInOrder
  <2>10. QED
    BY <1>1, <2>1, <2>6, <2>7, <2>8, <2>9, NothingToShow DEF DInv
<1>4. QED
  BY <1>2, <1>3

(* The last statement: tipc has succeeded.  The code is where it was asked *)
(* for, and the AST in a file that cannot be mistaken for it.              *)
LEMMA PrintAstStep ==
  ASSUME DInv, PrintAst
  PROVE  DInv'
<1> USE DEF At, InTipc, NothingWritten, NoCodeYet
<1>1. /\ pc = "ast" /\ pc' = "shell" /\ exit' = "success"
      /\ UNCHANGED <<run, request, verdict, locked, executable, shown, passes>>
      /\ IF request.pa /\ "astFile" \notin locked THEN Write("astFile", "ast") ELSE UNCHANGED disk
  BY DEF PrintAst
<1>2. /\ FilesHold(disk')
      /\ request.pa => disk'["astFile"].run = run \/ "astFile" \in locked
      /\ \A g \in Files : g # "astFile" => disk'[g] = disk[g]
      /\ disk'["astFile"].run <= run
  <2>1. CASE request.pa /\ "astFile" \notin locked
    <3>1. "astFile" \in Files /\ KindFor("astFile") = "ast"
      BY DEF Files, KindFor
    <3>2. Write("astFile", KindFor("astFile"))
      BY <1>1, <2>1, <3>1
    <3>3. QED
      BY <3>1, <3>2, WriteType
  <2>2. CASE ~(request.pa /\ "astFile" \notin locked)
    BY <1>1, <2>2 DEF DInv, TypeOK, FilesSoFar, Files, FilesHold
  <2>3. QED
    BY <2>1, <2>2
<1>3. /\ Filename \in {"x.tip.bc", "x.tip.ll", "outputfile"}
      /\ CodeKind \in {"bitcode", "assembly"}
      /\ Filename' = Filename /\ CodeKind' = CodeKind
  BY <1>1 DEF Filename, CodeKind
<1>4. TypeOK'
  BY <1>1, <1>2 DEF DInv, TypeOK, FilesHold
<1>5. RunsInOrder'
  BY <1>1 DEF DInv, RunsInOrder
<1>6. PhasesPassed'
  BY <1>1 DEF PhasesPassed
<1>7. FilesSoFar'
  BY <1>1, <1>2 DEF DInv, FilesSoFar
<1>8. RejectedLeavesNoTrace'
  BY <1>1 DEF DInv, PhasesPassed, RejectedLeavesNoTrace
<1>9. SuccessMeansDone'
  <2>1. /\ Filename \in Files /\ disk'[Filename] = disk[Filename]
        /\ disk[Filename].run = run /\ disk[Filename].kind = CodeKind
    BY <1>1, <1>2, <1>3 DEF DInv, FilesSoFar, OfThisRun, Files
  <2>2. ASSUME NEW f \in Files, disk'[f].run = run, disk'[f].kind \in {"bitcode", "assembly"}
        PROVE  f = Filename
    <3>1. f \notin {"astFile", "cgFile"}
      BY <1>2, <2>2 DEF Files, FilesHold
    <3>2. OfThisRun(f)
      BY <1>2, <2>2, <3>1 DEF OfThisRun
    <3>3. QED
      BY <1>1, <3>1, <3>2 DEF DInv, FilesSoFar
  <2>3. {f \in Files : OfThisRun(f)' /\ disk'[f].kind \in {"bitcode", "assembly"}} = {Filename}
    BY <1>1, <1>3, <2>1, <2>2 DEF OfThisRun
  <2>4. request.pcg => disk'["cgFile"].run = run
    BY <1>1, <1>2 DEF DInv, FilesSoFar, OfThisRun, Files
  <2>5. {o \in Optimizations : PassOf[o] \in ToSet(passes)} =
          IF request.do THEN {} ELSE request.enabledOpts \ {"licm"}
    <3>1. passes = IF request.do THEN <<>> ELSE ModulePasses
      BY <1>1 DEF DInv, PhasesPassed
    <3>2. request.enabledOpts \subseteq Optimizations
      BY DEF DInv, TypeOK, Request
    <3>3. CASE request.do
      BY <3>1, <3>3, ToSetShort
    <3>4. CASE ~request.do
      BY <3>1, <3>2, <3>4, ModulePassElements
    <3>5. QED
      BY <3>3, <3>4
  <2>6. QED
    BY <1>1, <1>2, <1>3, <2>1, <2>3, <2>4, <2>5 DEF SuccessMeansDone, OfThisRun
<1>10. LinkedIsGenerated'
  BY <1>1 DEF DInv, RunsInOrder, TypeOK, LinkedIsGenerated
<1>11. QED
  BY <1>4, <1>5, <1>6, <1>7, <1>8, <1>9, <1>10 DEF DInv

-----------------------------------------------------------------------------
(* build.sh links x.tip.bc only after tipc has succeeded: without -o and   *)
(* -asm that file is of this run.                                          *)
LEMMA LinkStep ==
  ASSUME DInv, Link
  PROVE  DInv'
<1> USE DEF At, InTipc, NothingWritten, NoCodeYet
<1>1. /\ pc = "shell" /\ pc' = "idle" /\ exit = "success" /\ request.asm # "--asm"
      /\ exit' \in {"success", "failure"}
      /\ UNCHANGED <<run, request, verdict, locked, shown, passes, disk>>
      /\ executable' \in {executable, [code |-> disk["x.tip.bc"], run |-> run]}
  BY DEF Link, Links
<1>2. "x.tip.bc" \in Files /\ disk["x.tip.bc"] \in Contents /\ run \in Nat /\ run > 0
  BY <1>1, RunsAssumption DEF DInv, TypeOK, RunsInOrder, Files
<1>3. TypeOK'
  <2>1. executable'.code \in Contents
    BY <1>1, <1>2 DEF DInv, TypeOK
  <2>2. QED
    BY <1>1, <2>1 DEF DInv, TypeOK
<1>4. RunsInOrder'
  BY <1>1, <1>2 DEF DInv, RunsInOrder
<1>5. PhasesPassed' /\ FilesSoFar'
  BY <1>1 DEF DInv, PhasesPassed, FilesSoFar
<1>6. RejectedLeavesNoTrace'
  BY <1>1, <1>2 DEF DInv, RejectedLeavesNoTrace, Ended
<1>7. SuccessMeansDone'
  BY <1>1 DEF SuccessMeansDone
<1>8. LinkedIsGenerated'
  <2>1. CASE executable' = executable
    BY <1>1, <2>1 DEF DInv, LinkedIsGenerated
  <2>2. CASE executable' = [code |-> disk["x.tip.bc"], run |-> run]
    <3>1. request.asm \in {"", "-asm"} /\ request.o \in BOOLEAN
      BY <1>1 DEF DInv, TypeOK, Request
    <3>2. ASSUME ~request.o, request.asm = ""
          PROVE  disk["x.tip.bc"].run = run
      <4>1. Filename = "x.tip.bc"
        BY <3>2 DEF Filename
      <4>2. Filename \in {f \in Files : OfThisRun(f) /\ disk[f].kind \in {"bitcode", "assembly"}}
        BY <1>1 DEF DInv, SuccessMeansDone
      <4>3. QED
        BY <4>1, <4>2 DEF OfThisRun
    <3>3. QED
      BY <1>1, <2>2, <3>1, <3>2 DEF LinkedIsGenerated
  <2>3. QED
    BY <1>1, <2>1, <2>2
<1>9. QED
  BY <1>3, <1>4, <1>5, <1>6, <1>7, <1>8 DEF DInv

(* Every step keeps the invariant.                                         *)
LEMMA NextDInv ==
  ASSUME DInv, [Next]_vars
  PROVE  DInv'
<1>1. CASE NoLink
  <2>1. TypeOK' /\ FilesSoFar' /\ PhasesPassed'
    BY <1>1 DEF NoLink, At, DInv, TypeOK, FilesSoFar, PhasesPassed, OfThisRun, InTipc,
       NothingWritten, NoCodeYet
  <2>2. RunsInOrder' /\ RejectedLeavesNoTrace' /\ SuccessMeansDone' /\ LinkedIsGenerated'
    BY <1>1 DEF NoLink, At, DInv, RunsInOrder, RejectedLeavesNoTrace, SuccessMeansDone,
       LinkedIsGenerated, Ended, OfThisRun, InTipc, NothingWritten, NoCodeYet
  <2>3. QED
    BY <2>1, <2>2 DEF DInv
<1>2. CASE UNCHANGED vars
  <2>1. TypeOK' /\ FilesSoFar' /\ PhasesPassed' /\ RunsInOrder'
    BY <1>2 DEF vars, DInv, TypeOK, FilesSoFar, PhasesPassed, RunsInOrder, OfThisRun,
       Filename, CodeKind, ModulePasses, FunctionPasses, LoopPasses, If
  <2>2. RejectedLeavesNoTrace' /\ SuccessMeansDone' /\ LinkedIsGenerated'
    BY <1>2 DEF vars, DInv, RejectedLeavesNoTrace, SuccessMeansDone, LinkedIsGenerated,
       Ended, At, OfThisRun, Filename, CodeKind
  <2>3. QED
    BY <2>1, <2>2 DEF DInv
<1>3. QED
  BY <1>1, <1>2, InvokeStep, FrontStep, PrintCallGraphStep, GenerateStep, EmitStep,
     PrintAstStep, LinkStep DEF Next, Main

(* It holds in every state.                                                *)
LEMMA DriverInvariant == Spec => []DInv
BY InitDInv, NextDInv, PTL DEF Spec

(* Every file holds what belongs in it, however the runs of tipc follow    *)
(* each other.                                                             *)
THEOREM DriverTypeCorrect == Spec => []TypeOK
BY DriverInvariant, PTL DEF DInv

(* tipc.cpp:71-73: a program with an error leaves nothing behind, neither  *)
(* on the disk nor on the standard output.                                 *)
THEOREM RejectedLeavesNoTraceInvariant == Spec => []RejectedLeavesNoTrace
BY DriverInvariant, PTL DEF DInv

(* tipc.cpp:73-74: tipc succeeds just when this run has written what was   *)
(* asked for, where it was asked for.                                      *)
THEOREM SuccessMeansDoneInvariant == Spec => []SuccessMeansDone
BY DriverInvariant, PTL DEF DInv

(* build.sh:32: what is linked is the code just generated, but with -o or  *)
(* -asm.                                                                   *)
THEOREM LinkedIsGeneratedInvariant == Spec => []LinkedIsGenerated
BY DriverInvariant, PTL DEF DInv
=============================================================================
