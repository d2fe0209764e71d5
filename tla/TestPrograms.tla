---------------------------- MODULE TestPrograms ----------------------------
(***************************************************************************)
(* Programs of test/system (selftests, siptests, iotests), shortened where *)
(* a test repeats itself, and a family of small programs.                  *)
(***************************************************************************)
EXTENDS TipAST

V(x) == VariableExpr(x)
N(n) == NumberExpr(n)
Is(x, e)       == AssignStmt(V(x), e)
Bin(l, op, r)  == BinaryExpr(op, l, r)
App1(f, e)     == FunAppExpr(V(f), <<e>>)
At(a, i)       == IndexingExpr(a, i)
Fields(x, e)   == <<FieldExpr(x, e)>>
Expect(e, n)   == IfStmt(Bin(e, "!=", N(n)), ErrorStmt(e))
ExpectTrue(e)  == IfStmt(NotExpr(e), ErrorStmt(N(0)))
Fn(name, formals, vars, body) == Function(name, formals, IF vars = <<>> THEN <<>> ELSE <<vars>>, body)
Main(decls, body) == Fn("main", <<>>, decls, Append(body, ReturnStmt(N(0))))

-----------------------------------------------------------------------------
(* selftests                                                               *)
RecordArgument ==
  <<Fn("foo", <<"r">>, <<>>,
      <<AssignStmt(AccessExpr(V("r"), "l"), Bin(AccessExpr(V("r"), "l"), "+", AccessExpr(V("r"), "m"))),
        ReturnStmt(AccessExpr(V("r"), "l"))>>),
    Main(<<"rec">>,
      <<Is("rec", RecordExpr(Fields("l", N(1)) \o Fields("m", N(2)))),
        Expect(App1("foo", V("rec")), 3), Expect(App1("foo", V("rec")), 5)>>)>>

Fun ==
  <<Fn("f", <<>>, <<>>, <<ReturnStmt(N(3))>>),
    Fn("g", <<>>, <<"x">>, <<Is("x", FunAppExpr(V("f"), <<>>)), ReturnStmt(V("x"))>>),
    Fn("h", <<"h1">>, <<"y", "r">>,
      <<Is("y", V("h1")), Is("r", FunAppExpr(V("y"), <<>>)), ReturnStmt(V("r"))>>),
    Main(<<>>, <<Expect(App1("h", V("f")), 3), Expect(App1("h", V("g")), 3)>>)>>

PolyFun ==
  <<Fn("addone", <<"x">>, <<>>, <<ReturnStmt(Bin(V("x"), "+", N(1)))>>),
    Fn("square", <<"x">>, <<>>, <<ReturnStmt(Bin(V("x"), "*", V("x")))>>),
    Fn("identity", <<"f">>, <<>>, <<ReturnStmt(V("f"))>>),
    Main(<<"n">>,
      <<Is("n", N(7)), Expect(FunAppExpr(App1("identity", V("addone")), <<V("n")>>), 8),
        Expect(FunAppExpr(App1("identity", V("square")), <<V("n")>>), 49)>>)>>

Ptr4 ==
  <<Main(<<"x", "y">>,
      <<Is("x", N(42)), Is("y", RefExpr(V("x"))), Expect(DeRefExpr(V("y")), 42),
        AssignStmt(DeRefExpr(V("y")), N(13)), Expect(V("x"), 13)>>)>>

Ptr6 ==
  <<Main(<<"x", "y", "z">>,
      <<Is("x", AllocExpr(N(42))), Is("z", RefExpr(V("x"))),
        Expect(DeRefExpr(DeRefExpr(V("z"))), 42),
        Is("y", AllocExpr(DeRefExpr(V("z")))), AssignStmt(DeRefExpr(V("x")), N(13)),
        Expect(DeRefExpr(DeRefExpr(V("y"))), 13)>>)>>

Record4 ==
  <<Main(<<"n", "k", "r">>,
      <<Is("k", RecordExpr(Fields("a", N(1)) \o Fields("b", N(2)))),
        Is("n", RecordExpr(Fields("c", RefExpr(V("k"))) \o Fields("d", N(4)))),
        Is("r", AccessExpr(DeRefExpr(AccessExpr(V("n"), "c")), "a")), Expect(V("r"), 1)>>)>>

ReturnAllocRecord ==
  <<Fn("foo", <<"x", "y">>, <<"rec">>,
      <<Is("rec", AllocExpr(RecordExpr(Fields("l", V("x")) \o Fields("m", V("y"))))),
        ReturnStmt(V("rec"))>>),
    Main(<<"a", "b">>,
      <<Is("a", FunAppExpr(V("foo"), <<N(3), N(2)>>)), Is("b", FunAppExpr(V("foo"), <<N(6), N(4)>>)),
        Expect(AccessExpr(DeRefExpr(V("a")), "l"), 3)>>)>>

ReturnRecord ==
  <<Fn("foo", <<"x">>, <<"rec">>,
      <<Is("rec", RecordExpr(Fields("l", V("x")))), ReturnStmt(V("rec"))>>),
    Main(<<"a", "b">>,
      <<Is("a", App1("foo", N(3))), Is("b", App1("foo", N(6))),
        IfStmt(Bin(AccessExpr(V("a"), "l"), "==", N(3)), ErrorStmt(AccessExpr(V("a"), "l")))>>)>>

Factorial ==
  <<Fn("fac", <<"n">>, <<"f">>,
      <<IfElse(Bin(V("n"), "==", N(0)), Is("f", N(1)),
               Is("f", Bin(V("n"), "*", App1("fac", Bin(V("n"), "-", N(1)))))),
        ReturnStmt(V("f"))>>),
    Main(<<"i", "f">>,
      <<Is("f", N(1)), Is("i", N(4)),
        WhileStmt(Bin(V("i"), ">", N(0)),
          BlockStmt(<<Is("f", Bin(V("f"), "*", V("i"))), Is("i", Bin(V("i"), "-", N(1)))>>)),
        Expect(V("f"), 24), Expect(App1("fac", N(4)), 24)>>)>>

(* siptests                                                                *)
ArrayOf ==
  <<Main(<<"x", "y">>,
      <<Is("x", ArrayOfExpr(N(3), N(3))), Expect(At(V("x"), N(2)), 3),
        AssignStmt(At(V("x"), N(1)), N(4)), Expect(At(V("x"), N(1)), 4), Expect(At(V("x"), N(0)), 3),
        Is("y", ArrayOfExpr(N(2), ArrayOfExpr(N(2), N(3)))),
        Expect(At(At(V("y"), N(1)), N(1)), 3), Expect(ArrayLenExpr(V("y")), 2)>>)>>

ForArray ==
  <<Main(<<"x", "y", "z">>,
      <<Is("x", ArrayExpr(<<N(1), N(2), N(3)>>)), Is("z", N(0)),
        ForEach(V("y"), V("x"), Is("z", Bin(V("z"), "+", V("y")))), Expect(V("z"), 6)>>)>>

ForRangeIncrement ==
  <<Main(<<"x", "y">>,
      <<Is("x", N(0)), Is("y", N(0)),
        ForStep(V("y"), N(1), N(6), N(2), Is("x", Bin(V("x"), "+", V("y")))), Expect(V("x"), 9)>>)>>

IncDec ==
  <<Main(<<"x", "y">>,
      <<Is("x", N(7)), UpdateStmt(V("x"), "++"), Expect(V("x"), 8), UpdateStmt(V("x"), "--"),
        Expect(V("x"), 7), Is("y", TernaryExpr(Bin(V("x"), "==", N(1)), N(0), N(1))),
        Expect(V("y"), 1), Expect(Bin(N(-7), "/", N(2)), -3), Expect(Bin(N(-7), "%", N(2)), -1)>>)>>

LogicalOperators ==
  <<Main(<<"x", "y", "z">>,
      <<Is("x", BoolExpr(TRUE)), Is("y", BoolExpr(FALSE)), Is("z", BoolExpr(TRUE)),
        ExpectTrue(V("x")), ExpectTrue(Bin(V("y"), "or", V("z"))),
        ExpectTrue(Bin(V("x"), "and", V("z"))), Expect(NegExpr(N(3)), -3)>>)>>

Maps ==
  <<Fn("map", <<"a", "f">>, <<"m", "i">>,
      <<Is("m", ArrayOfExpr(ArrayLenExpr(V("a")), App1("f", At(V("a"), N(0))))),
        ForRange(V("i"), N(0), ArrayLenExpr(V("a")),
          AssignStmt(At(V("m"), V("i")), App1("f", At(V("a"), V("i"))))),
        ReturnStmt(V("m"))>>),
    Fn("ispositive", <<"x">>, <<>>, <<ReturnStmt(Bin(V("x"), ">", N(0)))>>),
    Main(<<"a", "b">>,
      <<Is("a", ArrayExpr(<<N(13), N(-4)>>)),
        Is("b", FunAppExpr(V("map"), <<V("a"), V("ispositive")>>)),
        ExpectTrue(At(V("b"), N(0))), IfStmt(At(V("b"), N(1)), ErrorStmt(N(0)))>>)>>

OddFold ==
  <<Fn("fold", <<"a", "i", "f">>, <<"s", "e">>,
      <<Is("s", V("i")),
        ForEach(V("e"), V("a"), Is("s", FunAppExpr(V("f"), <<V("s"), V("e")>>))),
        ReturnStmt(V("s"))>>),
    Fn("orodd", <<"x", "y">>, <<>>,
      <<ReturnStmt(Bin(V("x"), "or", Bin(Bin(V("y"), "%", N(2)), "!=", N(0))))>>),
    Main(<<"a">>,
      <<Is("a", ArrayExpr(<<N(13), N(7), N(-4)>>)),
        ExpectTrue(FunAppExpr(V("fold"), <<V("a"), BoolExpr(FALSE), V("orodd")>>))>>)>>

SelfTests ==
  {RecordArgument, Fun, PolyFun, Ptr4, Ptr6, Record4, ReturnAllocRecord, Factorial, ArrayOf,
    ForArray, ForRangeIncrement, IncDec, LogicalOperators, Maps, OddFold}

-----------------------------------------------------------------------------
(* iotests and programs that end in another way than by a return.          *)
Ioe ==
  <<Fn("main", <<"n">>, <<"x">>,
      <<Is("x", InputExpr), OutputStmt(Bin(V("x"), "-", V("n"))),
        IfStmt(Bin(V("x"), ">=", V("n")), ErrorStmt(V("x"))),
        IfStmt(Bin(V("x"), "<=", N(-1)), OutputStmt(Bin(V("n"), "/", Bin(V("x"), "+", N(1))))),
        ReturnStmt(At(ArrayOfExpr(V("n"), N(1)), V("n")))>>)>>

NoMain    == <<Fn("foo", <<>>, <<>>, <<ReturnStmt(N(1))>>)>>
Endless   == <<Fn("main", <<>>, <<>>, <<ReturnStmt(FunAppExpr(V("main"), <<>>))>>)>>
Undeclared == <<Main(<<"x">>, <<Is("x", V("y"))>>)>>
Unassignable == <<Main(<<"x">>, <<Is("x", N(1)), AssignStmt(Bin(V("x"), "+", N(1)), N(2))>>)>>

NullRecord == <<Main(<<"r", "x">>, <<Is("x", AccessExpr(V("r"), "a"))>>)>>
Overflow   == <<Main(<<"x">>, <<Is("x", N(127)), UpdateStmt(V("x"), "++"), OutputStmt(V("x")),
                               Is("x", Bin(V("x"), "/", N(-1)))>>)>>

LongLiteral == <<Main(<<"x">>, <<Is("x", N(128))>>)>>
Disjunction == <<Main(<<"x">>, <<Is("x", Bin(BoolExpr(TRUE), "|", BoolExpr(FALSE)))>>)>>

(* The field a is absent, and only what it is passed to knows.             *)
AbsentField ==
  <<Fn("get", <<"r">>, <<>>, <<ReturnStmt(App1("id", AccessExpr(V("r"), "a")))>>),
    Fn("id", <<"i">>, <<>>, <<ReturnStmt(V("i"))>>),
    Main(<<"x">>, <<Is("x", App1("get", RecordExpr(Fields("b", N(1)))))>>)>>

(* The second record of an alloc, after another alloc, is on the stack.    *)
NestedAlloc ==
  <<Fn("foo", <<>>, <<"r">>,
      <<Is("r", AllocExpr(RecordExpr(Fields("a", AllocExpr(N(1))) \o
                                     Fields("b", RecordExpr(Fields("c", N(2))))))),
        ReturnStmt(V("r"))>>),
    Main(<<"x", "y">>,
      <<Is("x", FunAppExpr(V("foo"), <<>>)), Is("y", AccessExpr(DeRefExpr(V("x")), "b")),
        OutputStmt(AccessExpr(V("y"), "c"))>>)>>

Others ==
  {LongLiteral, Disjunction, ReturnRecord, NestedAlloc, AbsentField, Ioe, NoMain, Endless,
    Undeclared, Unassignable, NullRecord, Overflow}

-----------------------------------------------------------------------------
(* A value, a way and a use: main stores the value in x, directly or       *)
(* through something else, and uses x.                                     *)
Values ==
  <<N(3), BoolExpr(TRUE), NegExpr(N(5)), NotExpr(BoolExpr(TRUE)), Bin(N(1), "<", N(2)),
    AllocExpr(N(3)), RefExpr(V("z")), NullExpr, ArrayExpr(<<N(1), N(2)>>), ArrayExpr(<<>>),
    ArrayOfExpr(N(2), BoolExpr(TRUE)), RecordExpr(Fields("a", N(1))),
    RecordExpr(Fields("a", N(1)) \o Fields("b", V("inc"))),
    RecordExpr(Fields("a", V("add")) \o Fields("a", V("inc"))),
    AllocExpr(RecordExpr(Fields("a", N(1)))), RefExpr(V("inc")), V("inc"), V("add")>>

Uses ==
  <<Bin(V("x"), "+", N(1)), NegExpr(V("x")), NotExpr(V("x")), Bin(V("x"), "and", V("x")),
    Bin(V("x"), "==", V("x")), DeRefExpr(V("x")), At(V("x"), N(1)), ArrayLenExpr(V("x")),
    AccessExpr(V("x"), "a"), AccessExpr(V("x"), "b"), AccessExpr(DeRefExpr(V("x")), "a"),
    FunAppExpr(V("x"), <<N(1)>>), FunAppExpr(AccessExpr(V("x"), "a"), <<N(1), N(2)>>),
    FunAppExpr(AccessExpr(V("x"), "b"), <<N(1)>>),
    TernaryExpr(V("x"), N(1), N(2)), ArrayOfExpr(V("x"), N(1))>>

Store(way, e) ==
  CASE way = "direct"   -> <<Is("x", e)>>
    [] way = "function" -> <<Is("x", App1("id", e))>>
    [] way = "pointer"  -> <<Is("p", RefExpr(V("x"))), AssignStmt(DeRefExpr(V("p")), e)>>
    [] way = "cell"     -> <<Is("p", AllocExpr(e)), Is("x", DeRefExpr(V("p")))>>
    [] way = "field"    -> <<Is("p", RecordExpr(Fields("f", e))), Is("x", AccessExpr(V("p"), "f"))>>
    [] way = "element"  -> <<Is("p", ArrayOfExpr(N(1), e)), Is("x", At(V("p"), N(0)))>>
    [] way = "loop"     -> <<Is("p", ArrayExpr(<<e>>)), ForEach(V("x"), V("p"), BlockStmt(<<>>))>>
    [] way = "ternary"  -> <<Is("x", TernaryExpr(BoolExpr(TRUE), e, e))>>

Ways == {"direct", "function", "pointer", "cell", "field", "element", "loop", "ternary"}

ValueAndUse(way, e, use) ==
  <<Fn("inc", <<"i">>, <<>>, <<ReturnStmt(Bin(V("i"), "+", N(1)))>>),
    Fn("add", <<"i", "j">>, <<>>, <<ReturnStmt(Bin(V("i"), "+", V("j")))>>),
    Fn("id", <<"i">>, <<>>, <<ReturnStmt(V("i"))>>),
    Main(<<"x", "y", "z", "p">>, Append(<<Is("z", N(7))>> \o Store(way, e), Is("y", use)))>>

Family ==
  {ValueAndUse(w, Values[i], Uses[j]) : w \in Ways, i \in DOMAIN Values, j \in DOMAIN Uses}

-----------------------------------------------------------------------------
(* polytests, and programs about generic types.                            *)
Poly(fn) == [fn EXCEPT !.poly = TRUE]

Id == Poly(Fn("id", <<"i">>, <<>>, <<ReturnStmt(V("i"))>>))
Box == Poly(Fn("box", <<"v">>, <<>>, <<ReturnStmt(AllocExpr(V("v")))>>))
Successor == Fn("inc", <<"x">>, <<>>, <<ReturnStmt(Bin(V("x"), "+", N(1)))>>)

Apply ==
  <<Poly(Fn("apply", <<"f", "v">>, <<>>, <<ReturnStmt(App1("f", V("v")))>>)), Successor,
    Fn("get", <<"p">>, <<>>, <<ReturnStmt(DeRefExpr(V("p")))>>),
    Main(<<"a", "b">>,
      <<Is("a", FunAppExpr(V("apply"), <<V("inc"), N(13)>>)),
        Is("b", FunAppExpr(V("apply"), <<V("get"), AllocExpr(N(42))>>)),
        Expect(Bin(V("a"), "+", V("b")), 56)>>)>>

Ident ==
  <<Id, Main(<<"x", "y">>,
      <<Is("x", App1("id", N(42))), Is("y", App1("id", RefExpr(V("x")))),
        Expect(Bin(V("x"), "+", DeRefExpr(V("y"))), 84)>>)>>

(* The fields a generic getter does not read have types of their own.      *)
Getter(body) ==
  <<Poly(Fn("get", <<"r", "x">>, <<>>, Append(body, ReturnStmt(AccessExpr(V("r"), "a"))))),
    Main(<<"x">>, <<Is("x", FunAppExpr(V("get"), <<RecordExpr(Fields("a", N(1)) \o
                                      Fields("b", BoolExpr(TRUE))), N(1)>>))>>)>>

(* The record has no field a, and only the copy of a generic type says so.*)
AbsentInCopy ==
  <<Poly(Fn("get", <<"r">>, <<"x">>,
      <<IfStmt(Bin(AccessExpr(V("r"), "a"), "==", V("x")), OutputStmt(N(1))), ReturnStmt(N(0))>>)),
    Main(<<"x">>, <<Is("x", App1("get", RecordExpr(Fields("b", N(1)))))>>)>>

Second ==
  <<Poly(Fn("second", <<"l", "m">>, <<>>, <<ReturnStmt(V("m"))>>)),
    Main(<<"x">>, <<Is("x", FunAppExpr(V("second"), <<N(1), BoolExpr(TRUE)>>)), ExpectTrue(V("x"))>>)>>

(* The generic type of five is what box makes, and of what is forgotten.   *)
BoxedFive ==
  <<Box, Poly(Fn("five", <<>>, <<>>, <<ReturnStmt(App1("box", N(5)))>>)),
    Main(<<"p">>, <<Is("p", FunAppExpr(V("five"), <<>>)),
                    IfStmt(DeRefExpr(V("p")), OutputStmt(N(1)))>>)>>

(* What pick returns may have its type inferred after that of via.         *)
Mentioned ==
  <<Poly(Fn("pick", <<"n">>, <<>>, <<ReturnStmt(V("inc"))>>)),
    Poly(Fn("via", <<"n">>, <<>>, <<ReturnStmt(App1("pick", V("n")))>>)), Successor,
    Main(<<"h">>, <<Is("h", App1("via", N(1))), IfStmt(App1("h", N(1)), OutputStmt(N(1)))>>)>>

NullCell ==
  <<Poly(Fn("cell", <<>>, <<>>, <<ReturnStmt(NullExpr)>>)),
    Main(<<"p">>, <<Is("p", FunAppExpr(V("cell"), <<>>)),
                    IfStmt(Bin(N(1), "==", N(2)), AssignStmt(DeRefExpr(V("p")), N(3)))>>)>>

ReturnsItself ==
  <<Poly(Fn("f", <<"x">>, <<>>, <<ReturnStmt(V("f"))>>)),
    Main(<<"y">>, <<Is("y", App1("f", N(1)))>>)>>

(* Two copies of one generic type in another.                              *)
Pair ==
  <<Id, Poly(Fn("pair", <<"l", "m">>, <<>>,
           <<ReturnStmt(RecordExpr(Fields("l", App1("id", V("l"))) \o Fields("m", App1("id", V("m")))))>>)),
    Main(<<"r">>, <<Is("r", FunAppExpr(V("pair"), <<N(1), N(2)>>)),
                    Expect(AccessExpr(V("r"), "m"), 2)>>)>>

(* A cell that points to itself.                                           *)
Loop ==
  <<Main(<<"p">>, <<Is("p", AllocExpr(NullExpr)), AssignStmt(DeRefExpr(V("p")), V("p")),
                    Is("p", DeRefExpr(DeRefExpr(V("p"))))>>)>>

Generics ==
  {Apply, Ident, Getter(<<>>), AbsentInCopy, Second, BoxedFive, Mentioned, NullCell,
    ReturnsItself, Pair, Loop}

WithPolyId(p) == [f \in DOMAIN p |-> IF p[f].name = "id" THEN Poly(p[f]) ELSE p[f]]

PolyFamily ==
  {WithPolyId(ValueAndUse("function", Values[i], Uses[j])) : i \in DOMAIN Values, j \in DOMAIN Uses}
=============================================================================
