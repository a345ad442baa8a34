------------------------------- MODULE MCEmitMIR -------------------------------
(* Four-bit words and the real ring of eight temporaries.  vx and vy are    *)
(* the arguments; every instruction is lowered with its operands in a   *)
(* register and as constants, calls fill the ring to its last slot, and     *)
(* switches, branches and loops carry PHI nodes over their edges.           *)
EXTENDS EmitMIR

CONSTANTS vx, vy, vd, ve, vq, vr, t1, t2, t3, t4, t5, t6, t7, t8, ArgValues

MCIrVal == {vx, vy, vd, ve, vq, vr}
MCTemps == <<t1, t2, t3, t4, t5, t6, t7, t8>>
MCVReg  == MCIrVal \cup ToSet(MCTemps)
MCLayout     == <<"B0", "B1", "B2">>
MCEdgeLabels == <<"E0", "E1", "E2", "E3", "E4">>
MCSym        == ToSet(MCLayout) \cup ToSet(MCEdgeLabels) \cup {"F", "G", "H"}
MCSymAddr    == [s \in MCSym |-> IF s = "G" THEN 5 ELSE 9]

MCInitVals == {[v \in MCIrVal |-> IF v = vx THEN m ELSE IF v = vy THEN n ELSE 0] :
                 m, n \in ArgValues}
MCInitMems == {[a \in 0 .. 15 |-> (7 * a + 3) % 16]}

(* IR instructions with result vd, over every form of operand.               *)
X == Val(vx)
Y == Val(vy)
IR_binary(bin, l, m) == [op |-> "binary", bin |-> bin, def |-> vd, x |-> l, y |-> m]
IR_icmp(pred, def, l, m) ==
  [op |-> "icmp", pred |-> pred, def |-> def, x |-> l, y |-> m]
IR_ret(v) == [op |-> "ret", void |-> FALSE, x |-> v]
IR_call(args, def) == [op |-> "call", callee |-> "F", args |-> args, def |-> def]
IR_store(v, p, w)  == [op |-> "store", x |-> v, p |-> p, width |-> w]
IR_load(p, w)      == [op |-> "load", p |-> p, width |-> w, def |-> vd]
IR_br(l)           == [op |-> "br", to |-> l]
IR_condbr(c, t, f) == [op |-> "condbr", c |-> c, t |-> t, f |-> f]
IR_ix(v, stride)   == [i |-> v, stride |-> stride]

Pairs == {<<X, Y>>, <<X, Const(2)>>, <<Const(-3), Y>>, <<Const(5), Const(-1)>>,
          <<X, Glob("G")>>, <<CGep("G", 2), CGep("H", 1)>>}

Simple ==
  {IR_binary(b, p[1], p[2]) : b \in DOMAIN BinOpcode, p \in Pairs}
    \cup {IR_icmp(c, vd, p[1], p[2]) : p \in Pairs, c \in
            {"eq", "ne", "slt", "sgt", "sle", "sge", "ult", "ugt", "ule", "uge"}}
    \cup {[op |-> o, def |-> vd, x |-> p[1], y |-> p[2]] : o \in {"smax", "smin"}, p \in Pairs}
    \cup {[op |-> "select", def |-> vd, c |-> Const(k), x |-> p[1], y |-> p[2]] :
            k \in {0, 1}, p \in Pairs}
    \cup {[op |-> "gep", def |-> vd, p |-> b, idx |-> s] : b \in {X, CGep("G", 1)},
            s \in {<<IR_ix(Const(1), 3)>>, <<IR_ix(Y, 2)>>,
                   <<IR_ix(Const(0), 4), IR_ix(Y, 3)>>,
                   <<IR_ix(Const(1), 4), IR_ix(Y, 3), IR_ix(Const(2), 1)>>,
                   <<IR_ix(Y, 4), IR_ix(X, 3)>>}}
    \cup {[op |-> "cast", def |-> vd, x |-> v] : v \in {X, Const(3)}}
    \cup {[op |-> "alloca", def |-> vd, off |-> 6]}
    \cup {IR_load(v, w) : v \in {X, Glob("G"), CGep("G", 2)}, w \in {"LD", "LW"}}

(* Bodies of one block: an instruction and the return of its result, a      *)
(* store read back, a select on a comparison, calls.                        *)
Straight ==
  {<<i, IR_ret(Val(vd))>> : i \in Simple}
    \cup {<<IR_store(v, p, w), IR_load(Y, "LD"), IR_ret(Val(vd))>> :
            v \in {X, Const(6), CGep("H", 1)}, p \in {Y, CGep("G", 1)}, w \in {"SD", "SW"}}
    \cup {<<IR_icmp("slt", ve, X, Y),
            [op |-> "select", def |-> vd, c |-> Val(ve), x |-> X, y |-> Const(2)],
            IR_ret(Val(vd))>>,
          <<IR_call([k \in 1 .. 8 |-> Const(k)], vd), IR_ret(Const(-1))>>,
          <<IR_call(<<CGep("G", 1), CGep("H", 1), CGep("G", 2), CGep("H", 2)>>, NoVal),
            IR_ret(Val(vx))>>,
          <<IR_call(<<X, Const(4), Glob("G"), Y>>, vd), IR_call(<<Val(vd)>>, NoVal),
            [op |-> "ret", void |-> TRUE]>>}

Phi(def, b0, b1) == [def |-> def, from |-> ("B0" :> b0) @@ ("B1" :> b1)]
Block(phis, body) == [phis |-> phis, body |-> body]

(* A loop in B1 over vq = x, x + 1, ... with the PHI nodes given.             *)
Loop(phis) ==
  ("B0" :> Block(<<>>, <<IR_br("B1")>>))
    @@ ("B1" :> Block(phis, <<[IR_binary("add", Val(vq), Const(1)) EXCEPT !.def = ve],
                              IR_icmp("slt", vd, Val(ve), Const(3)),
                              IR_condbr(Val(vd), "B1", "B2")>>))
    @@ ("B2" :> Block(<<>>, <<IR_ret(Val(vr))>>))

(* Edges with PHI nodes out of a branch or a switch in B0.                   *)
Forked(last, b0) ==
  ("B0" :> Block(<<>>, <<IR_icmp("sle", ve, X, Y), last>>))
    @@ ("B1" :> Block(<<>>, <<[IR_binary("xor", Y, Const(3)) EXCEPT !.def = vd],
                              IR_br("B2")>>))
    @@ ("B2" :> Block(<<Phi(vq, b0, Val(vd)), Phi(vr, Const(7), Y)>>,
                      <<[IR_binary("sub", Val(vq), Val(vr)) EXCEPT !.def = vd],
                        IR_ret(Val(vd))>>))
SwitchOn(v, c) ==
  [op |-> "switch", x |-> v, default |-> "B2",
   cases |-> [k \in DOMAIN c |-> [c |-> c[k], to |-> IF k = 1 THEN "B2" ELSE "B1"]]]

MCSafe ==
  {"B0" :> Block(<<>>, b) : b \in Straight}
    \cup {Loop(<<Phi(vr, Const(-2), Val(vq)), Phi(vq, X, Val(ve))>>),
          Loop(<<Phi(vq, X, Val(ve)), Phi(vr, Y, Val(vr))>>)}
    \cup {Forked(l, b) : b \in {X, Const(4)},
            l \in {IR_condbr(Val(ve), "B1", "B2"), IR_condbr(Val(ve), "B2", "B1"),
                   IR_condbr(Const(1), "B2", "B1"), IR_br("B2"),
                   SwitchOn(X, <<3, -1>>), SwitchOn(Y, <<8, 0, 1>>),
                   SwitchOn(Const(3), <<1, 3>>)}}

(* Globals of every size and shape: zeros, negative numbers, rows of zeros   *)
(* within arrays, neighbours in one section, declarations, an undef row.     *)
IntInit(v)      == [k |-> "int", v |-> v]
Elems(s)    == [k |-> "array", elems |-> s]
ZeroInit    == [k |-> "zero"]
Undef       == [k |-> "undef"]
Global(name, size, dims, init) ==
  [name |-> name, external |-> name # "H", size |-> size, dims |-> dims, init |-> init]
Scalars(name) == {Global(name, s, <<>>, IntInit(v)) : s \in {1, 4, 8}, v \in {0, 1, -3}}
Row         == Elems(<<IntInit(-2), IntInit(0), IntInit(7)>>)
Arrays(name) ==
  {Global(name, s, <<2, 3>>, Elems(rows)) : s \in {1, 4},
     rows \in {<<ZeroInit, Row>>, <<Row, ZeroInit>>, <<Row, Row>>, <<Undef, Row>>}}
    \cup {Global(name, s, <<3>>, i) : s \in {1, 8}, i \in {Row, ZeroInit}}
    \cup {Global(name, 4, <<2, 1, 3>>, Elems(<<Elems(<<Row>>), ZeroInit>>))}
Extern      == Global("E", 4, <<5>>, GLOB!NoInit)
Nameless    == Global("", 4, <<>>, IntInit(3))

Bytes3      == Global("H", 1, <<3>>, Row)
MCGlobals ==
  {<<Bytes3, Extern, g, Nameless>> : g \in Scalars("G")}
    \cup {<<Extern, Bytes3, g, Global("I", 1, <<>>, IntInit(1))>> : g \in Arrays("G")}

(* With every program a fixed pair of globals, with all globals one program. *)
MCModules(programs) ==
  programs \X {<<Global("G", 4, <<>>, IntInit(5)), Global("H", 4, <<3>>, ZeroInit)>>}
MCEmitted ==
  {"B0" :> Block(<<>>, <<[op |-> "ret", void |-> TRUE]>>)} \X MCGlobals

(* Two PHI nodes that exchange their values on the back edge.                *)
MCSwap == {Loop(<<Phi(vq, X, Val(vr)), Phi(vr, Y, Val(vq))>>)}

MCSafeModules == MCModules(MCSafe) \cup MCEmitted
MCSwapModules == MCModules(MCSwap)
================================================================================
