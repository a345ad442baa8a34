----------------------------- MODULE MCBlockPasses -----------------------------
(* Functions of one and two blocks over the argument, small constants, two  *)
(* scalars g and h of which one is stored to, and an array A.               *)
EXTENDS BlockPasses

MCInitOf == [g |-> 0 :> 3, h |-> 0 :> 5, A |-> (0 :> 1) @@ (1 :> 2)]

Round == <<"ConstantPropagation", "ConstantFolding", "CommonSubexpressionElimination",
           "DeadCodeElimination", "InstructionCombining">>
MCPipelines == {Round \o Round \o <<"StrengthReduction">>}
MCStrength  == {<<"StrengthReduction">>}
X == Val(0)

Icmp(id, pred, l, r) == [op |-> "icmp", id |-> id, pred |-> pred, x |-> l, y |-> r]
Load(id, ptr)        == [op |-> "load", id |-> id, p |-> ptr]
Store(id, v, ptr)    == [op |-> "store", id |-> id, x |-> v, p |-> ptr]
Element(id, i)       == [op |-> "gep", id |-> id, p |-> Glob("A"), x |-> i]
Return(id, v)        == [op |-> "ret", id |-> id, x |-> v]
Branch(id)           == [op |-> "br", id |-> id]

(* Three operations, each on what came before.                              *)
Firsts  == {<<"add", X, Const(2)>>, <<"add", Const(-3), X>>, <<"add", Const(7), Const(1)>>,
            <<"mul", X, Const(1)>>, <<"sub", X, Const(0)>>, <<"sdiv", X, Const(2)>>,
            <<"sdiv", Const(-8), Const(-1)>>, <<"sub", Const(3), Const(0)>>}
Seconds == {<<b, Val(1), c>> : b \in {"add", "sub", "mul", "sdiv", "srem"},
                               c \in {X, Const(0), Const(1), Const(5)}}
             \cup {<<b, c, Val(1)>> : b \in {"add", "sub", "mul", "sdiv"},
                                      c \in {Const(0), Const(1), Const(-2)}}
             \cup Firsts
Thirds  == {<<"add", Val(2), Const(6)>>, <<"add", Val(2), Val(1)>>,
            <<"mul", Val(2), Val(2)>>, <<"sub", Const(1), Val(2)>>}
Bin(id, o) == Binary(id, o[1], o[2], o[3])

Arithmetic ==
  {<<<<Bin(1, o), Bin(2, q), Bin(3, r), Return(4, Val(3))>>>> :
     o \in Firsts, q \in Seconds, r \in Thirds}
    \cup {<<<<Bin(1, o), Branch(2)>>, <<Bin(3, q), Bin(4, o), Binary(5, "sub", Val(3), Val(4)),
              Return(6, Val(5))>>>> : o \in Firsts, q \in Seconds}
    \cup {<<<<Binary(1, "add", X, Const(1)), Binary(2, "add", Val(1), Const(1)),
              Binary(3, "add", Const(3), Val(2)), Icmp(4, c, Val(3), X), Return(5, Val(k))>>>> :
            k \in {3, 4}, c \in {"slt", "uge"}}

(* Globals: a store, something read from the same or another place, a store. *)
Stores(id) == {Store(id, v, Glob(s)) : v \in {X, Const(5)}, s \in {"g", "h"}}
Memory ==
  {<<<<Load(1, Glob(s)), Binary(2, b, Val(1), Const(3)), Load(3, Glob("g")), t,
       Binary(5, b, Val(2), Val(3)), Return(6, Val(5))>>>> :
     b \in {"mul", "sdiv", "add"}, s \in {"g", "h"}, t \in Stores(4)}
    \cup {<<<<s, Branch(2)>>, <<Load(3, Glob(t)), Icmp(4, "sle", Val(3), Const(3)),
              Return(5, Val(4))>>>> : s \in Stores(1), t \in {"g", "h"}}
    \cup {<<<<Element(1, X), Load(2, Val(1)), Load(3, Glob("A")), Store(4, Val(2), Glob("A")),
              Binary(5, "add", Val(2), Val(3)), Return(6, Val(5))>>>>,
          <<<<Load(1, Glob("h")), Element(2, Val(1)), Binary(3, "sdiv", Const(3), Const(0)),
              Return(4, Val(3))>>>>,
          <<<<Load(1, Glob("g")), Binary(2, "mul", Val(1), Const(3)),
              Store(3, X, Glob("g")), Return(4, Val(1))>>>>}

MCModules == Arithmetic \cup Memory

(* What StrengthReduction has a cheaper instruction for.                    *)
MCProducts == {<<<<Binary(1, "mul", X, Const(4)), Return(2, Val(1))>>>>}

(* An array of which element 0 is stored to directly and read by index.     *)
MCElement0 ==
  {<<<<Store(1, v, Glob("A")), Element(2, i), Load(3, Val(2)), Return(4, Val(3))>>>> :
     v \in {X, Const(5)}, i \in {X, Const(0), Const(1)}}
================================================================================
