------------------------------ MODULE MCFlowPasses ------------------------------
(* Functions over an argument X, two local variables a and b, a global g:  *)
(* straight lines, branches, loops, unreached blocks, and small modules.   *)
EXTENDS FlowPasses

MCGlobalsInit == [g |-> 0 :> 6]
MCPipeline == <<"StaticCallCounterPrinter", "Mem2Reg", "ConstantFolding", "IfCombine", "ExtractLoopVariable",
                "FunctionInlining", "ConstantFolding", "IfCombine", "ExtractLoopVariable">>

X == Val(0)
A == Val(1)
B == Val(2)
G == Glob("g")

Alloca(id)       == [op |-> "alloca", id |-> id, cells |-> 1]
Array(id)        == [op |-> "alloca", id |-> id, cells |-> 2]
Load(id, p)      == [op |-> "load", id |-> id, p |-> p]
Store(id, x, p)  == [op |-> "store", id |-> id, x |-> x, p |-> p]
Bin(id, o, x, y) == [op |-> "binary", id |-> id, bin |-> o, x |-> x, y |-> y]
Less(id, x, y)   == [op |-> "icmp", id |-> id, pred |-> "slt", x |-> x, y |-> y]
Gep(id, p, x)    == [op |-> "gep", id |-> id, p |-> p, x |-> x]
Call(id, f, x)   == [op |-> "call", id |-> id, callee |-> f, x |-> x]
Phi(id, in)      == [op |-> "phi", id |-> id,
                     in |-> [k \in DOMAIN in |-> [b |-> in[k][1], v |-> in[k][2]]]]
Br(id, to)       == [op |-> "br", id |-> id, to |-> to]
If(id, c, t, e)  == [op |-> "condbr", id |-> id, c |-> c, then |-> t, else |-> e]
Ret(id, x)       == [op |-> "ret", id |-> id, x |-> x]

Function(name, layout, code) ==
  [name |-> name, internal |-> name # "main", param |-> 0, layout |-> layout, code |-> code]
Main(layout, code) == <<Function("main", layout, code)>>

(* Statements on the variables, with names from n on.                      *)
SetA(n)   == <<Store(n, X, A)>>
CopyB(n)  == <<Load(n, B), Store(n + 1, Val(n), A)>>
Bump(n)   == <<Load(n, A), Bin(n + 1, "add", Val(n), Const(1)), Store(n + 2, Val(n + 1), A)>>
Swap(n)   == <<Load(n, A), Store(n + 1, Const(5), A), Store(n + 2, Val(n), B)>>
Few(n)        == {<<>>, SetA(n), Swap(n)}
Statements(n) == Few(n) \cup {CopyB(n), Bump(n)}

Locals   == <<Alloca(1), Alloca(2)>>
SumOf(n) == <<Load(n, A), Load(n + 1, B), Bin(n + 2, "sub", Val(n), Val(n + 1)),
              Ret(n + 3, Val(n + 2))>>

Straight ==
  {Main(<<"e">>, [e |-> Locals \o p \o q \o SumOf(30)]) :
     p \in Statements(10), q \in Statements(20)}

(* Both sides of a branch, or one, or two edges to one block.              *)
Diamonds ==
  {Main(<<"e", "t", "f", "m">>,
        [e |-> Locals \o <<Store(3, Const(2), B)>> \o p \o
               <<Less(4, X, Const(2)), If(5, Val(4), "t", "f")>>,
         t |-> q \o <<Br(6, "m")>>,
         f |-> r \o <<If(7, Val(4), "m", s)>>,
         m |-> SumOf(50)]) :
     p \in {<<>>, SetA(10)}, q \in Few(20), r \in Statements(30), s \in {"m", "t"}}

(* A branch on a constant; what it leaves unreached still enters the join; *)
(* a block that only leads to itself.                                      *)
Constants ==
  {Main(<<"e", "t", "f", "m", "u">>,
        [e |-> Locals \o SetA(3) \o <<If(4, Const(c), "t", "f")>>,
         u |-> <<Br(7, "u")>>,
         t |-> q \o <<Br(5, "m")>>,
         f |-> Bump(20) \o <<Br(6, "m")>>,
         m |-> SumOf(50)]) :
     c \in {0, 1}, q \in Few(30)}

(* The join has a PHI node already, of a condition; the block u is not     *)
(* reached.                                                                *)
Joins ==
  {Main(<<"e", "u", "t", "m">>,
        [e |-> Locals \o SetA(3) \o <<Store(4, Const(3), B), Less(5, X, Const(2)),
                                      If(6, Val(5), "t", "m")>>,
         u |-> p \o <<Br(7, to)>>,
         t |-> q \o <<Less(8, Const(0), X), Br(9, "m")>>,
         m |-> <<Phi(10, <<<<"e", Const(0)>>, <<"t", Val(8)>>>> \o
                         IF to = "m" THEN <<<<"u", Const(1)>>>> ELSE <<>>),
                 Call(11, "put", Val(10))>> \o SumOf(50)]) :
     p \in Statements(20), q \in Statements(30), to \in {"m", "t"}}

(* A pointer to a variable, which can be promoted when the pointer is      *)
(* gone; an array, and one that nothing uses.                              *)
Pointers ==
  {Main(<<"e">>,
        [e |-> <<Alloca(1), Alloca(2), Array(3), Array(15), Store(4, A, B)>> \o SetA(5) \o
               <<Load(6, B), Store(7, Const(4), Val(6)), Gep(8, Val(3), Const(1)),
                 Store(9, i, Val(8)), Load(10, B), Load(11, Val(10)), Load(12, Val(8)),
                 Bin(13, "add", Val(11), Val(12)), Ret(14, Val(13))>>]) :
     i \in {X, Const(7)}}

(* A loop over the variable 3, from a block that leads nowhere else or     *)
(* from a branch.                                                          *)
Counter(n) == <<Load(n, Val(3)), Bin(n + 1, "add", Val(n), Const(1)),
                Store(n + 2, Val(n + 1), Val(3))>>
Loops ==
  {Main(<<"e", "h", "d", "x">>,
        [e |-> Locals \o <<Alloca(3), Store(4, Const(0), Val(3))>> \o p \o
               <<Less(17, X, Const(1)), t>>,
         h |-> <<Load(6, Val(3)), Less(7, Val(6), X), If(8, Val(7), "d", "x")>>,
         d |-> q \o <<Bin(9, "mul", X, X), Call(10, "put", Val(9))>> \o Counter(11) \o
               <<Br(14, "h")>>,
         x |-> SumOf(50)]) :
     p \in {SetA(15), <<Store(15, X, A), Store(16, X, B)>>}, q \in Statements(20),
     t \in {Br(5, "h"), If(5, Val(17), "x", "h")}}

(* A loop in a loop; each body is run at least once.                       *)
Nests ==
  {Main(<<"e", "o", "i", "l", "x">>,
        [e |-> Locals \o <<Alloca(3), Store(4, Const(0), Val(3)), Store(5, X, A), Br(6, "o")>>,
         o |-> p \o <<Br(7, "i")>>,
         i |-> <<Bin(8, "sub", X, Const(1)), Store(9, Val(8), G)>> \o q \o Counter(11) \o
               <<Less(14, Val(12), X), If(15, Val(14), "i", "l")>>,
         l |-> <<Bin(16, "add", Val(12), Const(5)), Less(17, Val(12), Const(2)),
                 If(18, Val(17), "o", "x")>>,
         x |-> <<Load(19, G), Call(20, "put", Val(19)), Load(21, A), Ret(22, Val(21))>>]) :
     p \in {<<>>, SetA(30)}, q \in {<<>>, Bump(40), <<Load(40, A), Call(41, "put", Val(40))>>}}

(* A loop whose body, which may not be run, stores the same value in every *)
(* iteration.                                                              *)
HoistedStores ==
  {Main(<<"e", "h", "d", "x">>,
        [e |-> <<Alloca(3), Store(4, Const(0), Val(3)), Br(5, "h")>>,
         h |-> <<Load(6, Val(3)), Less(7, Val(6), X), If(8, Val(7), "d", "x")>>,
         d |-> <<Store(9, Const(5), G)>> \o Counter(11) \o <<Br(14, "h")>>,
         x |-> <<Load(15, G), Ret(16, Val(15))>>])}

(* main, functions of one block that call each other, one that is          *)
(* recursive, one that is never called.                                    *)
Middle == Function("middle", <<"e">>,
  [e |-> <<Alloca(60), Store(61, X, Val(60)), Load(62, Val(60)), Call(63, "leaf", Val(62)),
           Bin(64, "add", Val(63), X), Ret(65, Val(64))>>])
Leaf == Function("leaf", <<"e">>, [e |-> <<Call(66, "put", X), Ret(67, X)>>])
Down == Function("down", <<"e", "r", "x">>,
  [e |-> <<Less(70, X, Const(1)), If(71, Val(70), "x", "r")>>,
   r |-> <<Bin(72, "sub", X, Const(1)), Call(73, "down", Val(72)), Br(74, "x")>>,
   x |-> <<Phi(75, <<<<"e", X>>, <<"r", Val(73)>>>>), Call(76, "leaf", Val(75)),
           Ret(77, Val(75))>>])
Idler == Function("idler", <<"e">>, [e |-> <<Call(78, "spare", X), Ret(79, Val(78))>>])
Spare == Function("spare", <<"e", "n">>, [e |-> <<Br(80, "n")>>, n |-> <<Ret(81, X)>>])
Caller(f, g) ==
  Function("main", <<"e", "n">>,
    [e |-> <<Call(1, f, X), Br(2, "n")>>,
     n |-> <<Call(3, g, Val(1)), Bin(4, "add", Val(1), Val(3)), Ret(5, Val(4))>>])
Calling == UNION {
  SetToSeqs({Caller("middle", "leaf"), Middle, Leaf}),
  {<<Leaf, Down, Caller("down", "leaf")>>, <<Caller("leaf", "down"), Down, Leaf>>},
  {<<Idler, Caller("put", "put"), Spare>>, <<Spare, Idler, Caller("put", "spare")>>}}

(* A division by zero that only negative arguments run.                    *)
Divided ==
  {Main(<<"e", "t", "m">>,
        [e |-> <<Less(1, X, Const(0)), If(2, Val(1), "t", "m")>>,
         t |-> <<Bin(3, "sdiv", Const(4), Const(0)), Call(4, "put", Val(3)), Br(5, "m")>>,
         m |-> <<Ret(6, X)>>])}

MCModules ==
  UNION {Straight, Diamonds, Constants, Joins, Pointers, Loops, Nests, Calling}

(* The service chooses the passes.                                         *)
MCPassNames == <<"Mem2Reg", "ConstantFolding">>
Assisted ==
  {Main(<<"e">>, [e |-> <<Bin(1, "add", X, Const(0)), Ret(2, Val(1))>>])} \X
  {<<"PassSequencePredict">>}

MCJobs    == (MCModules \X {MCPipeline}) \cup Assisted
MCHoists  == HoistedStores \X {MCPipeline}
MCDivided == Divided \X {MCPipeline}
================================================================================
