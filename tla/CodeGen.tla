------------------------------ MODULE CodeGen ------------------------------
(***************************************************************************)
(* The code generator of tipc (src/codegen/CodeGenFunctions.cpp): for every*)
(* kind of node, the instructions its codegen() method emits, in order.    *)
(*                                                                         *)
(* The LLVM code is abstracted to a stack machine (module Machine): a value*)
(* codegen() returns is left on the operand stack, basic blocks are laid   *)
(* out in one sequence, and a branch holds the position it goes to.  The   *)
(* sizes of items, casts between pointers and integers, and the names of   *)
(* blocks and values are left out.                                         *)
(*                                                                         *)
(* The generator has two global flags: lValueGen (an address is wanted,    *)
(* not a value) and allocFlag (a record is wanted on the heap).  Every     *)
(* method may read, set and reset them; c is the generator's state.        *)
(***************************************************************************)
EXTENDS Symbols

Op(op)       == [op |-> op, x |-> "", n |-> 0, at |-> <<>>]
OpN(op, n)   == [op |-> op, x |-> "", n |-> n, at |-> <<>>]
OpX(op, x)   == [op |-> op, x |-> x, n |-> 0, at |-> <<>>]
OpXN(op, x, n) == [op |-> op, x |-> x, n |-> n, at |-> <<>>]
CallOp(n, at) == [op |-> "call", x |-> "", n |-> n, at |-> at]

Emit(c, ops) == [c EXCEPT !.code = @ \o ops]
Here(c)      == Len(c.code) + 1

(* A branch to a block that is not laid out yet, and filling it in.        *)
Hole(c) == Emit(c, <<Op("hole")>>)
Fill(c, at, op) == [c EXCEPT !.code[at] = OpN(op, Here(c))]

Want(c, lv) == [c EXCEPT !.lValueGen = lv]

RECURSIVE Gen(_, _), GenAll(_, _, _)

(* The address of the i-th child: lValueGen is set before and reset after. *)
GenAddress(v, i, c) == Want(Gen(Kid(v, i), Want(c, TRUE)), FALSE)

GenKid(v, i, c) == Gen(Kid(v, i), c)

-----------------------------------------------------------------------------
(* Expressions.                                                            *)
GenNumber(v, c) == Emit(c, <<OpN("int", v.node.number)>>)
GenBool(v, c)   == Emit(c, <<OpN("bool", v.node.number)>>)
GenNull(v, c)   == Emit(c, <<Op("null")>>)
GenInput(v, c)  == Emit(c, <<Op("input")>>)

BinaryOp == [o \in {"+", "-", "*", "/", "%", ">", "<", ">=", "<=", "==", "!=", "and", "or"} |->
  CASE o = "+" -> "add" [] o = "-" -> "sub" [] o = "*" -> "mul"
    [] o = "/" -> "sdiv" [] o = "%" -> "srem"
    [] o = ">" -> "sgt" [] o = "<" -> "slt" [] o = ">=" -> "sge" [] o = "<=" -> "sle"
    [] o = "==" -> "eq" [] o = "!=" -> "ne" [] o = "and" -> "and" [] o = "or" -> "or"]

(* Slip: the right operand first.                                          *)
GenBinarySwapped(v, c) ==
  Emit(GenKid(v, 1, GenKid(v, 2, c)), <<Op(BinaryOp[v.node.name])>>)

GenBinary(v, c) ==
  Emit(GenKid(v, 2, GenKid(v, 1, c)), <<Op(BinaryOp[v.node.name])>>)

GenNot(v, c) == Emit(GenKid(v, 1, c), <<Op("xor1")>>)
GenNeg(v, c) == Emit(GenKid(v, 1, c), <<Op("neg")>>)

(* A name is looked up among the locals, then among the functions, whose   *)
(* value is their index in the dispatch table, l-value or not.             *)
GenVariable(v, c) ==
  IF v.node.name \in c.named
  THEN Emit(c, <<OpX("addr", v.node.name)>> \o (IF c.lValueGen THEN <<>> ELSE <<Op("load")>>))
  ELSE Emit(c, <<OpN("fun", c.functionIndex[v.node.name])>>)

(* The function pointer is fetched before the actuals are evaluated.       *)
GenFunApp(v, c) ==
  LET callee == Emit(GenKid(v, 1, c), <<Op("fetch")>>)
  IN  Emit(GenAll(v, 2, callee), <<CallOp(Len(Actuals(v.node)), v.at)>>)

GenAlloc(v, c) ==
  LET init == GenKid(v, 1, [c EXCEPT !.allocFlag = TRUE])
  IN  Emit([init EXCEPT !.allocFlag = FALSE], <<Op("cell")>>)

GenRef(v, c) == GenAddress(v, 1, c)

GenDeRef(v, c) ==
  Emit(GenKid(v, 1, Want(c, FALSE)), IF c.lValueGen THEN <<>> ELSE <<Op("load")>>)

GenTernary(v, c) ==
  LET cond == GenKid(v, 1, c)
      then == GenKid(v, 2, Hole(cond))
      else == GenKid(v, 3, Fill(Hole(then), Here(cond), "branch"))
  IN  Fill(else, Here(then), "jump")

(* The fields are stored one by one, the address of each computed before   *)
(* its value.                                                              *)
RECURSIVE GenFields(_, _, _)
GenFields(v, i, c) ==
  IF i > Len(v.node.kids) THEN c
  ELSE LET place == Emit(c, <<Op("dup"), OpN("field", c.fieldIndex[v.node.kids[i].name])>>)
       IN  GenFields(v, i + 1, Emit(GenKid(v, i, place), <<Op("store")>>))

GenRecord(v, c) ==
  GenFields(v, 1, Emit(c, <<Op(IF c.allocFlag THEN "callocrecord" ELSE "allocarecord")>>))

GenField(v, c) == GenKid(v, 1, c)

GenAccess(v, c) ==
  Emit(GenKid(v, 1, Want(c, FALSE)),
       <<OpN("field", c.fieldIndex[v.node.name])>> \o
       (IF c.lValueGen THEN <<>> ELSE <<Op("load")>>))

(* An array is its length followed by its elements.                        *)
RECURSIVE GenElements(_, _, _)
GenElements(v, i, c) ==
  IF i > Len(v.node.kids) THEN c
  ELSE GenElements(v, i + 1,
         Emit(GenKid(v, i, c),
              <<OpN("pick", 1), OpN("int", i), Op("element"), Op("swap"), Op("store")>>))

GenArray(v, c) ==
  GenElements(v, 1, Emit(c, <<OpN("int", Len(v.node.kids)), Op("newarray")>>))

(* [E1 of E2]: E2 is evaluated for each element.  On the stack: the size,  *)
(* the array, the index variable and, within the loop, its value.          *)
GenArrayOf(v, c) ==
  LET size == Emit(GenKid(v, 1, c),
                <<Op("dup"), Op("newarray"), Op("slot"), Op("dup"), OpN("int", 1), Op("store")>>)
      cond == Emit(size, <<Op("dup"), Op("load"), Op("dup"), OpN("pick", 4), Op("sle")>>)
      body == Emit(GenKid(v, 2, Hole(cond)),
                <<OpN("pick", 3), OpN("pick", 2), Op("element"), Op("swap"), Op("store"),
                  OpN("pick", 1), OpN("pick", 1), OpN("int", 1), Op("add"), Op("store"),
                  Op("drop"), OpN("jump", Here(size))>>)
  IN  Emit(Fill(body, Here(cond), "branch"),
           <<Op("drop"), Op("drop"), Op("swap"), Op("drop")>>)

(* The length is read before the index is evaluated.                       *)
GenIndexing(v, c) ==
  LET length == Emit(GenKid(v, 1, Want(c, FALSE)), <<Op("dup"), Op("length")>>)
      index  == Want(GenKid(v, 2, length), c.lValueGen)
  IN  Emit(index, <<Op("bounds"), OpN("int", 1), Op("add"), Op("element")>> \o
                  (IF c.lValueGen THEN <<>> ELSE <<Op("load")>>))

GenArrayLen(v, c) == Emit(GenKid(v, 1, c), <<Op("length")>>)

-----------------------------------------------------------------------------
(* Statements leave nothing on the stack.                                  *)
GenAssign(v, c) == Emit(GenKid(v, 2, GenAddress(v, 1, c)), <<Op("store")>>)

GenUpdate(v, c) ==
  Emit(GenAddress(v, 1, c),
       <<Op("dup"), Op("load"), OpN("int", 1),
         Op(IF v.node.name = "++" THEN "add" ELSE "sub"), Op("store")>>)

GenBlock(v, c) == GenAll(v, 1, c)

GenWhile(v, c) ==
  LET cond == GenKid(v, 1, c)
      body == Emit(GenKid(v, 2, Hole(cond)), <<OpN("jump", Here(c))>>)
  IN  Fill(body, Here(cond), "branch")

(* Slip: the item is stored back without the step.                         *)
NextItemStuck == <<OpN("pick", 3), Op("dup"), Op("load"), Op("store")>>

(* The item of a range: its address is fourth on the stack, the step first.*)
NextItem == <<OpN("pick", 3), Op("dup"), Op("load"), OpN("pick", 2), Op("add"), Op("store")>>

(* for (E1 : E2 .. E3 by E4): the address of the item, both ends and the   *)
(* step are evaluated once and stay on the stack.                          *)
GenForRange(v, c) ==
  LET item  == GenAddress(v, 1, c)
      range == GenKid(v, 3, GenKid(v, 2, item))
      step  == IF v.node.name = "step" THEN GenKid(v, 4, range)
               ELSE Emit(range, <<OpN("int", 1)>>)
      init  == Emit(step, <<OpN("pick", 3), OpN("pick", 3), Op("store")>>)
      cond  == Emit(init, <<OpN("pick", 3), Op("load"), OpN("pick", 2), Op("slt")>>)
      body  == Emit(GenKid(v, Len(v.node.kids), Hole(cond)),
                   NextItem \o <<OpN("jump", Here(init))>>)
  IN  Emit(Fill(body, Here(cond), "branch"), <<Op("drop"), Op("drop"), Op("drop"), Op("drop")>>)

(* for (E1 : E2): the address of the item, the array, the index variable   *)
(* and the length stay on the stack, and in the body the index.            *)
GenForEach(v, c) ==
  LET item  == GenAddress(v, 1, c)
      init  == Emit(GenKid(v, 2, item),
                 <<Op("slot"), Op("dup"), OpN("int", 1), Op("store"), OpN("pick", 1), Op("length")>>)
      cond  == Emit(init, <<OpN("pick", 1), Op("load"), OpN("pick", 1), Op("sle")>>)
      elem  == Emit(Hole(cond),
                 <<OpN("pick", 1), Op("load"), OpN("pick", 4), OpN("pick", 4), OpN("pick", 2),
                   Op("element"), Op("load"), Op("store")>>)
      body  == Emit(GenKid(v, 3, elem),
                 <<OpN("pick", 2), Op("swap"), OpN("int", 1), Op("add"), Op("store"),
                   OpN("jump", Here(init))>>)
  IN  Emit(Fill(body, Here(cond), "branch"), <<Op("drop"), Op("drop"), Op("drop"), Op("drop")>>)

GenIf(v, c) ==
  LET cond == GenKid(v, 1, c)
      then == GenKid(v, 2, Hole(cond))
      else == Fill(Hole(then), Here(cond), "branch")
  IN  Fill(IF Len(v.node.kids) = 3 THEN GenKid(v, 3, else) ELSE else, Here(then), "jump")

GenOutput(v, c) == Emit(GenKid(v, 1, c), <<Op("output")>>)
GenError(v, c)  == Emit(GenKid(v, 1, c), <<Op("error")>>)
GenReturn(v, c) == Emit(GenKid(v, 1, c), <<Op("ret")>>)

Gen(v, c) ==
  CASE v.node.kind = "Number"   -> GenNumber(v, c)
    [] v.node.kind = "Bool"     -> GenBool(v, c)
    [] v.node.kind = "Variable" -> GenVariable(v, c)
    [] v.node.kind = "Input"    -> GenInput(v, c)
    [] v.node.kind = "Null"     -> GenNull(v, c)
    [] v.node.kind = "Binary"   -> GenBinary(v, c)
    [] v.node.kind = "Not"      -> GenNot(v, c)
    [] v.node.kind = "Neg"      -> GenNeg(v, c)
    [] v.node.kind = "FunApp"   -> GenFunApp(v, c)
    [] v.node.kind = "Alloc"    -> GenAlloc(v, c)
    [] v.node.kind = "Ref"      -> GenRef(v, c)
    [] v.node.kind = "DeRef"    -> GenDeRef(v, c)
    [] v.node.kind = "Ternary"  -> GenTernary(v, c)
    [] v.node.kind = "Record"   -> GenRecord(v, c)
    [] v.node.kind = "Field"    -> GenField(v, c)
    [] v.node.kind = "Access"   -> GenAccess(v, c)
    [] v.node.kind = "Array"    -> GenArray(v, c)
    [] v.node.kind = "ArrayOf"  -> GenArrayOf(v, c)
    [] v.node.kind = "Indexing" -> GenIndexing(v, c)
    [] v.node.kind = "ArrayLen" -> GenArrayLen(v, c)
    [] v.node.kind = "Assign"   -> GenAssign(v, c)
    [] v.node.kind = "Update"   -> GenUpdate(v, c)
    [] v.node.kind = "Block"    -> GenBlock(v, c)
    [] v.node.kind = "While"    -> GenWhile(v, c)
    [] v.node.kind = "For"      -> IF v.node.name = "each" THEN GenForEach(v, c)
                                   ELSE GenForRange(v, c)
    [] v.node.kind = "If"       -> GenIf(v, c)
    [] v.node.kind = "Output"   -> GenOutput(v, c)
    [] v.node.kind = "Error"    -> GenError(v, c)
    [] v.node.kind = "Return"   -> GenReturn(v, c)

(* The children from the i-th on, one after the other.                     *)
GenAll(v, i, c) ==
  IF i > Len(v.node.kids) THEN c ELSE GenAll(v, i + 1, GenKid(v, i, c))

-----------------------------------------------------------------------------
(* A function stores its actuals (main: the arguments of the program) in   *)
(* its variables, sets its locals to zero and runs its statements.         *)
Prologue(fn) ==
  [i \in DOMAIN fn.formals |->
     OpXN(IF fn.name = "main" THEN "argument" ELSE "parameter", fn.formals[i], i)]
  \o [i \in DOMAIN Locals(fn) |-> OpX("local", Locals(fn)[i])]

RECURSIVE GenStatements(_, _, _, _)
GenStatements(p, f, s, c) ==
  IF s > Len(p[f].body) THEN c
  ELSE GenStatements(p, f, s + 1, Gen(Statement(p, f, s), c))

GenFunction(p, f, c) ==
  GenStatements(p, f, 1, [c EXCEPT !.code = Prologue(p[f]), !.named = ToSet(LocalNames(p, f))])

(* ASTProgram::codegen: tables of functions and fields, then the functions *)
(* in order.  The flags are globals: one function leaves them to the next. *)
GeneratorStart(p) ==
  [code          |-> <<>>,
   lValueGen     |-> FALSE,
   allocFlag     |-> FALSE,
   named         |-> {},
   functionIndex |-> [x \in ToSet(FunctionNames(p)) |->
                        (CHOOSE f \in DOMAIN p : p[f].name = x) - 1],
   fieldIndex    |-> [x \in ToSet(FieldNames(p)) |->
                        CHOOSE i \in DOMAIN FieldNames(p) : FieldNames(p)[i] = x]]

RECURSIVE GenFunctions(_, _, _)
GenFunctions(p, f, g) ==
  IF f > Len(p) THEN g
  ELSE LET c == GenFunction(p, f, g.last)
       IN  GenFunctions(p, f + 1, [code |-> Append(g.code, c.code), last |-> c])

Generated(p) == GenFunctions(p, 1, [code |-> <<>>, last |-> GeneratorStart(p)])
=============================================================================
