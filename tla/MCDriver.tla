------------------------------ MODULE MCDriver ------------------------------
(***************************************************************************)
(* Instances of Driver for TLC.                                            *)
(***************************************************************************)
EXTENDS Driver

Plain ==
  [script |-> TRUE, pp |-> FALSE, ps |-> FALSE, pt |-> FALSE, do |-> FALSE, asm |-> "",
   pcg |-> FALSE, pa |-> FALSE, o |-> FALSE, enabledOpts |-> {}]

(* Everything that decides about files; everything that is printed; and    *)
(* every optimisation alone and all together.                              *)
FileRequests ==
  {[Plain EXCEPT !.script = s, !.asm = a, !.pcg = c, !.pa = p, !.o = o] :
     s, c, p, o \in BOOLEAN, a \in {"", "-asm", "--asm"}}
PrintRequests == {[Plain EXCEPT !.pp = p, !.ps = s, !.pt = t] : p, s, t \in BOOLEAN}
OptRequests ==
  {[Plain EXCEPT !.do = d, !.enabledOpts = e] :
     d \in BOOLEAN, e \in {{o} : o \in Optimizations} \cup {Optimizations}}

MCRequests == FileRequests \cup PrintRequests \cup OptRequests

(* Reports, code, and all of them.                                         *)
MCLocks == {{}, {"cgFile"}, {"astFile"}, {"x.tip.bc", "outputfile"}, Files}
=============================================================================
