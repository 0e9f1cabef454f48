-------------------------------- MODULE Tree --------------------------------
(***************************************************************************)
(* The expression tree of one calculation: Tree.hpp, Node.hpp, Op.hpp and    *)
(* Type.hpp of src/src/veil/.                                               *)
(*                                                                         *)
(* A tree is an arena of nodes and a sequence of roots; a node is named by   *)
(* its place in the arena, from 1.  Nodes are added and repointed, never     *)
(* removed, so an arena keeps nodes no root reaches.                        *)
(***************************************************************************)
EXTENDS Values, Sequences, FiniteSets

NoType == "none"
NoValue == 0

\* val: a literal's value, a field's column, a coefficient's number, which object.
Node(kind, op, args, val, type) ==
  [kind |-> kind, op |-> op, args |-> args, val |-> val, type |-> type]

Lit(type, val) == Node("lit", "none", <<>>, val, type)
Field(column)  == Node("field", "none", <<>>, column, NoType)
Time           == Node("time", "none", <<>>, NoValue, NoType)
Param(p)       == Node("param", "none", <<>>, p, "double")
Obj(which)     == Node("obj", "none", <<>>, which, NoType)
Call(op, args) == Node("call", op, args, NoValue, NoType)
TypedCall(op, args, type) == Node("call", op, args, NoValue, type)

IsCall(n) == n.kind = "call"
IsLit(n) == n.kind = "lit"
Calls(n, op) == IsCall(n) /\ n.op = op

-----------------------------------------------------------------------------
(* opTable, for the operations the models use.                              *)

Arithmetic ==
  {"pos", "neg", "abs", "exp", "sign", "add", "sub", "mul", "rdiv", "min", "max", "clamp"}
Ordering == {"LT", "LE", "GT", "GE"}
Comparisons == Ordering \union {"EQ", "NE"}
Logicals == {"not", "and", "or", "xor"}
Finalisers == {"integrate", "died_value"}
TimeVectors == {"vector_t", "vector_durn", "vector_log_mu"}

AlwaysVector == TimeVectors \union {"vector"}
AlwaysBool == Comparisons \union Logicals \union {"is_na"}
AlwaysDouble == {"exp", "sign", "rdiv", "double"} \union Finalisers
Vectorisable == Arithmetic \union Comparisons \union {"is_na", "select", "double"}

Arity(op) ==
  CASE op = "vector_t" -> 0
    [] op \in {"pos", "neg", "abs", "exp", "sign", "not", "is_na", "double", "vector",
               "vector_durn"} \union Finalisers -> 1
    [] op \in {"select", "clamp"} -> 3
    [] OTHER -> 2

ReverseComparison(op) ==
  CASE op = "LT" -> "GT" [] op = "LE" -> "GE" [] op = "GT" -> "LT" [] op = "GE" -> "LE"
    [] OTHER -> op

StorageOf(type) ==
  CASE type = "double" -> "number"
    [] type \in ClickTypes -> "click"
    [] type = "bool" -> "logical"
    [] OTHER -> "code"
=============================================================================
