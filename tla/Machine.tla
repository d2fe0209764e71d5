------------------------------ MODULE Machine ------------------------------
(***************************************************************************)
(* What the code tipc generates does when it runs: LLVM's integers, memory *)
(* and calls as the code uses them, and the runtime library                *)
(* (src/rtlib/tip_rtlib.c).                                                *)
(*                                                                         *)
(* In the machine every value is a 64-bit integer.  Here a value keeps the *)
(* kind of thing it stands for, so that using it as another kind shows;    *)
(* "zero" is the content of initialised memory, which stands for 0, false, *)
(* null and the first function alike.                                      *)
(***************************************************************************)
EXTENDS Integers, Sequences

CONSTANTS
  Bits,       \* width of an integer
  Inputs,     \* what a user may enter
  MaxFrames   \* bound: size of the call stack

ASSUME BitsAssumption == Bits \in Nat \ {0}
ASSUME MaxFramesAssumption == MaxFrames \in Nat \ {0}

VARIABLES
  code,      \* the generated functions, in the order of the dispatch table
  arguments, \* _tip_input_array
  frames,    \* the call stack
  memory,    \* every object allocated so far
  called,    \* the calls made: place of the call and function
  status     \* "running", or why the program does not run

machine == <<code, arguments, frames, memory, called, status>>

-----------------------------------------------------------------------------
(* Values.                                                                 *)
Value(kind, n, object) == [kind |-> kind, n |-> n, object |-> object]

Wrap(n) == LET half == 2 ^ (Bits - 1) IN ((n + half) % (2 * half)) - half

(* Slip: integers do not wrap around.                                      *)
NumberUnbounded(n) == Value("int", n, 0)

Number(n)  == Value("int", Wrap(n), 0)
Truth(b)   == Value("bool", IF b THEN 1 ELSE 0, 0)
Fun(n)     == Value("fun", n, 0)
Ref(o, i)  == Value("ref", i, o)
Zero       == Value("zero", 0, 0)
Unset      == Value("unset", 0, 0)

IsKind(v, kind) == v.kind = kind \/ v.kind = "zero"

Comparable(v, w) == v.kind = w.kind \/ v.kind = "zero" \/ w.kind = "zero"
Same(v, w)       == v.n = w.n /\ v.object = w.object

(* SDiv and SRem round towards zero, and trap when there is no quotient.   *)
Traps(x, y) == y = 0 \/ (x = -(2 ^ (Bits - 1)) /\ y = -1)
Abs(n) == IF n < 0 THEN -n ELSE n
Quotient(x, y) == IF (x < 0) = (y < 0) THEN Abs(x) \div Abs(y) ELSE -(Abs(x) \div Abs(y))

Arithmetic(op, x, y) ==
  CASE op = "add" -> x + y [] op = "sub" -> x - y [] op = "mul" -> x * y
    [] op = "sdiv" -> Quotient(x, y) [] op = "srem" -> x - y * Quotient(x, y)

Compare(op, x, y) ==
  CASE op = "slt" -> x < y [] op = "sle" -> x <= y [] op = "sgt" -> x > y [] op = "sge" -> x >= y

-----------------------------------------------------------------------------
(* The top frame, its next instruction and its operands, 0 the topmost.    *)
Top        == frames[Len(frames)]
Instr      == code[Top.fun].code[Top.pc]
Operand(i) == Top.stack[Len(Top.stack) - i]
Below(k)   == SubSeq(Top.stack, 1, Len(Top.stack) - k)

IntPairs == {"add", "sub", "mul", "sdiv", "srem", "slt", "sle", "sgt", "sge", "bounds"}
OneInt == {"neg", "output", "error", "newarray"}
BoolPairs == {"and", "or"}
OneBool == {"xor1", "branch"}
Alike == {"eq", "ne"}

(* The operands are of the kinds the instruction is meant for.             *)
Suits ==
  /\ Instr.op \in IntPairs  => IsKind(Operand(0), "int") /\ IsKind(Operand(1), "int")
  /\ Instr.op \in OneInt    => IsKind(Operand(0), "int")
  /\ Instr.op \in BoolPairs => IsKind(Operand(0), "bool") /\ IsKind(Operand(1), "bool")
  /\ Instr.op \in OneBool   => IsKind(Operand(0), "bool")
  /\ Instr.op \in Alike     => Comparable(Operand(0), Operand(1))
  /\ Instr.op = "fetch"     => IsKind(Operand(0), "fun")

Running(ops) == status = "running" /\ Instr.op \in ops /\ Suits

Become(frame) == frames' = [frames EXCEPT ![Len(frames)] = frame]

(* Go on with the next instruction and another operand stack.              *)
Proceed(stack) ==
  /\ Become([Top EXCEPT !.pc = @ + 1, !.stack = stack])
  /\ UNCHANGED <<code, arguments, called, status>>

Continue(stack) == Proceed(stack) /\ UNCHANGED memory

Stop(reason) ==
  /\ status' = reason
  /\ UNCHANGED <<code, arguments, frames, memory, called>>

(* A new object and the reference to its first cell.                       *)
Allocate(shape, cells) == memory' = Append(memory, [shape |-> shape, cells |-> cells, live |-> TRUE])
NewRef == Ref(Len(memory) + 1, 0)

(* An object on the stack belongs to the frame.                            *)
OwnNew(frame) == [frame EXCEPT !.own = @ \cup {Len(memory) + 1}]

(* Why an address cannot be used, if it cannot.                            *)
Fault(v) ==
  CASE v.kind = "zero"                           -> "null"
    [] v.kind # "ref"                            -> "badaddress"
    [] v.kind = "ref" /\ ~memory[v.object].live  -> "dangling"
    [] v.kind = "ref" /\ memory[v.object].live   ->
         IF v.n + 1 \in DOMAIN memory[v.object].cells THEN "none" ELSE "badaddress"

Content(v) == memory[v.object].cells[v.n + 1]

-----------------------------------------------------------------------------
(* Operands.                                                               *)
PushConstant ==
  /\ Running({"int", "bool", "fun", "null"})
  /\ Continue(Append(Top.stack,
       CASE Instr.op = "int" -> Number(Instr.n) [] Instr.op = "bool" -> Truth(Instr.n = 1)
         [] Instr.op = "fun" -> Fun(Instr.n) [] Instr.op = "null" -> Zero))

PushAddress ==
  /\ Running({"addr"})
  /\ Continue(Append(Top.stack, Ref(Top.vars[Instr.x], 0)))

Rearrange ==
  /\ Running({"dup", "pick", "swap", "drop"})
  /\ Continue(CASE Instr.op \in {"dup", "pick"} -> Append(Top.stack, Operand(Instr.n))
                [] Instr.op = "swap"            -> Below(2) \o <<Operand(0), Operand(1)>>
                [] Instr.op = "drop"            -> Below(1))

Compute ==
  /\ Running({"add", "sub", "mul", "sdiv", "srem"})
  /\ Instr.op \in {"sdiv", "srem"} => ~Traps(Operand(1).n, Operand(0).n)
  /\ Continue(Append(Below(2), Number(Arithmetic(Instr.op, Operand(1).n, Operand(0).n))))

DivisionTraps ==
  /\ Running({"sdiv", "srem"})
  /\ Traps(Operand(1).n, Operand(0).n)
  /\ Stop("divide")

Order ==
  /\ Running({"slt", "sle", "sgt", "sge"})
  /\ Continue(Append(Below(2), Truth(Compare(Instr.op, Operand(1).n, Operand(0).n))))

(* Equality is of two values of one kind, null and zero of every kind.     *)
Equal ==
  /\ Running({"eq", "ne"})
  /\ Continue(Append(Below(2), Truth(Same(Operand(0), Operand(1)) = (Instr.op = "eq"))))

Logic ==
  /\ Running({"and", "or"})
  /\ LET x == Operand(1).n = 1
         y == Operand(0).n = 1
     IN  Continue(Append(Below(2), Truth(IF Instr.op = "and" THEN x /\ y ELSE x \/ y)))

Negate ==
  \/ /\ Running({"neg"})
     /\ Continue(Append(Below(1), Number(-Operand(0).n)))
  \/ /\ Running({"xor1"})
     /\ Continue(Append(Below(1), Truth(Operand(0).n = 0)))

(* An operand is of another kind than the instruction is meant for.        *)
WrongOperand ==
  /\ status = "running" /\ ~Suits
  /\ Stop(IF Instr.op = "fetch" THEN "badcall" ELSE "badoperand")

-----------------------------------------------------------------------------
(* Memory.                                                                 *)
(* Why the instruction cannot use the address it is given.  A field a      *)
(* record was not built with is unset.                                     *)
IsArray(v) == v.n = 0 /\ memory[v.object].shape = "array"
IsRecord(v) == v.n = 0 /\ memory[v.object].shape = "record"

Problem ==
  CASE Instr.op = "load" ->
         IF Fault(Operand(0)) = "none" /\ Content(Operand(0)) = Unset THEN "unset"
         ELSE Fault(Operand(0))
    [] Instr.op = "store" -> Fault(Operand(1))
    [] Instr.op = "length" ->
         IF Fault(Operand(0)) = "none" /\ ~IsArray(Operand(0)) THEN "badaddress"
         ELSE Fault(Operand(0))
    [] Instr.op = "field" ->
         IF Operand(0).kind = "zero" THEN "none"
         ELSE IF Fault(Operand(0)) = "none" /\ ~IsRecord(Operand(0)) THEN "badaddress"
         ELSE Fault(Operand(0))

BadAddress ==
  /\ Running({"load", "store", "length", "field"})
  /\ Problem # "none"
  /\ Stop(Problem)

Load ==
  /\ Running({"load"}) /\ Problem = "none"
  /\ Continue(Append(Below(1), Content(Operand(0))))

Store ==
  /\ Running({"store"}) /\ Problem = "none"
  /\ memory' = [memory EXCEPT ![Operand(1).object].cells[Operand(1).n + 1] = Operand(0)]
  /\ Proceed(Below(2))

(* calloc of one item, initialised with the operand.                       *)
NewCell ==
  /\ Running({"cell"})
  /\ Allocate("cell", <<Operand(0)>>)
  /\ Proceed(Append(Below(1), NewRef))

(* calloc of one item more than the array has, the length in the first.    *)
NewArray ==
  /\ Running({"newarray"})
  /\ Operand(0).n >= 0
  /\ Allocate("array", [i \in 1..Operand(0).n + 1 |-> IF i = 1 THEN Number(Operand(0).n) ELSE Zero])
  /\ Proceed(Append(Below(1), NewRef))

(* The length is written where calloc gave no memory.                      *)
NegativeLength ==
  /\ Running({"newarray"})
  /\ Operand(0).n < 0
  /\ Stop("negative")

(* alloc'd records come from calloc, the others from the stack, unset.     *)
NewRecord ==
  \/ /\ Running({"callocrecord"})
     /\ Allocate("record", [i \in 1..code[Top.fun].fields |-> Zero])
     /\ Proceed(Append(Top.stack, NewRef))
  \/ /\ Running({"allocarecord"})
     /\ Allocate("record", [i \in 1..code[Top.fun].fields |-> Unset])
     /\ Become(OwnNew([Top EXCEPT !.pc = @ + 1, !.stack = Append(@, NewRef)]))
     /\ UNCHANGED <<code, arguments, called, status>>

(* The index variable of a loop, allocated wherever the loop begins.       *)
NewSlot ==
  /\ Running({"slot"})
  /\ Allocate("cell", <<Unset>>)
  /\ Become(OwnNew([Top EXCEPT !.pc = @ + 1, !.stack = Append(@, NewRef)]))
  /\ UNCHANGED <<code, arguments, called, status>>

(* A variable of the function: an actual, a program argument or zero.      *)
NewVariable ==
  /\ Running({"parameter", "argument", "local"})
  /\ Allocate("cell", <<CASE Instr.op = "parameter" -> Top.actuals[Instr.n]
                          [] Instr.op = "argument"  -> Number(arguments[Instr.n])
                          [] Instr.op = "local"     -> Zero>>)
  /\ Become(OwnNew([Top EXCEPT !.pc = @ + 1,
       !.vars = [x \in DOMAIN @ \cup {Instr.x} |-> IF x = Instr.x THEN Len(memory) + 1 ELSE @[x]]]))
  /\ UNCHANGED <<code, arguments, called, status>>

(* The address of a field of a record (of null it is null).                *)
Field ==
  /\ Running({"field"}) /\ Problem = "none"
  /\ Continue(Append(Below(1),
       IF Operand(0).kind = "zero" THEN Zero ELSE Ref(Operand(0).object, Instr.n - 1)))

Length ==
  /\ Running({"length"}) /\ Problem = "none"
  /\ Continue(Append(Below(1), Content(Operand(0))))

(* An index is checked against the length, and _tip_error ends the program *)
(* if it is not within.                                                    *)
Bounds ==
  /\ Running({"bounds"})
  /\ IF Operand(0).n < 0 \/ Operand(0).n >= Operand(1).n
     THEN Stop("error")
     ELSE Continue(Append(Below(2), Operand(0)))

(* The address of an element of an array whose length was read before.     *)
Element ==
  /\ Running({"element"})
  /\ Continue(Append(Below(2), Ref(Operand(1).object, Operand(0).n)))

-----------------------------------------------------------------------------
(* Control.                                                                *)
Jump ==
  /\ Running({"jump"})
  /\ Become([Top EXCEPT !.pc = Instr.n])
  /\ UNCHANGED <<code, arguments, memory, called, status>>

Branch ==
  /\ Running({"branch"})
  /\ Become([Top EXCEPT !.pc = IF Operand(0).n = 0 THEN Instr.n ELSE @ + 1, !.stack = Below(1)])
  /\ UNCHANGED <<code, arguments, memory, called, status>>

(* The entry of the dispatch table the operand is an index of.             *)
Fetch ==
  /\ Running({"fetch"})
  /\ Continue(Append(Below(1), Value("entry", Operand(0).n + 1, 0)))

Frame(f, actuals) ==
  [fun |-> f, pc |-> 1, stack |-> <<>>, actuals |-> actuals,
   vars |-> [x \in {} |-> 0], own |-> {}]

(* Call the entry below the actuals.  main has no parameters: it reads the *)
(* program's arguments whoever calls it.                                   *)
Call ==
  /\ Running({"call"})
  /\ Len(frames) < MaxFrames
  /\ code[Operand(Instr.n).n].arity = Instr.n
  /\ LET f == Operand(Instr.n).n
     IN  /\ frames' = Append([frames EXCEPT ![Len(frames)] =
                                [@ EXCEPT !.pc = @ + 1, !.stack = Below(Instr.n + 1)]],
                             Frame(f, SubSeq(Top.stack, Len(Top.stack) - Instr.n + 1, Len(Top.stack))))
         /\ called' = called \cup {<<Instr.at, f>>}
  /\ UNCHANGED <<code, arguments, memory, status>>

CallWrongArity ==
  /\ Running({"call"})
  /\ code[Operand(Instr.n).n].arity # Instr.n
  /\ Stop("badcall")

StackOverflow ==
  /\ Running({"call"})
  /\ Len(frames) = MaxFrames
  /\ Stop("overflow")

(* Return the operand; the frame's objects are reclaimed.                  *)
Return ==
  /\ Running({"ret"})
  /\ Len(frames) > 1
  /\ frames' = [i \in 1..Len(frames) - 1 |->
                  IF i < Len(frames) - 1 THEN frames[i]
                  ELSE [frames[i] EXCEPT !.stack = Append(@, Operand(0))]]
  /\ memory' = [o \in DOMAIN memory |->
                  IF o \in Top.own THEN [memory[o] EXCEPT !.live = FALSE, !.cells = <<>>]
                  ELSE memory[o]]
  /\ UNCHANGED <<code, arguments, called, status>>

(* The runtime library prints what main returns and exits.                 *)
ReturnFromMain ==
  /\ Running({"ret"})
  /\ Len(frames) = 1
  /\ Stop("exited")

-----------------------------------------------------------------------------
(* The runtime library.                                                    *)
ReadInput ==
  /\ Running({"input"})
  /\ \E x \in Inputs : Continue(Append(Top.stack, Number(x)))

WriteOutput ==
  /\ Running({"output"})
  /\ Continue(Below(1))

ExitWithError ==
  /\ Running({"error"})
  /\ Stop("error")

Step ==
  \/ PushConstant \/ PushAddress \/ Rearrange
  \/ Compute \/ DivisionTraps \/ Order \/ Equal \/ Logic \/ Negate \/ WrongOperand
  \/ Load \/ Store \/ BadAddress \/ Field \/ Length \/ Bounds \/ Element
  \/ NewCell \/ NewArray \/ NegativeLength \/ NewRecord \/ NewSlot \/ NewVariable
  \/ Jump \/ Branch
  \/ Fetch \/ Call \/ CallWrongArity \/ StackOverflow \/ Return \/ ReturnFromMain
  \/ ReadInput \/ WriteOutput \/ ExitWithError
=============================================================================
