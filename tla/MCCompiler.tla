----------------------------- MODULE MCCompiler -----------------------------
(* Values for the constants of Compiler.                                   *)
EXTENDS Compiler

E(op, of) == [op |-> op, of |-> of]
S(kind, to, expr) == [kind |-> kind, to |-> to, expr |-> expr]

MCStatements ==
  { S("local", 0, E("const", << >>)), S("local", 0, E("add", <<1, 2>>)),
    S("assign", 1, E("const", << >>)), S("assign", 2, E("sub", <<2, 1>>)),
    S("assign", 1, E("var", <<2>>)), S("assign", 1, E("add", <<2, 1>>)),
    S("expr", 0, E("call", <<1>>)), S("expr", 0, E("capture", <<1>>)),
    S("break", 0, E("const", << >>)) }

(* Pieces of functions such as                                             *)
(*   function(p)                                                           *)
(*     local a = ...  local x = ...                                        *)
(*     while x do                                                          *)
(*       p = a                                                             *)
(*       if x then  break  g(function() ... p ... end)  end                *)
(*       if x then  a = ...  end                                           *)
(*     end                                                                 *)
(*     return x                                                            *)
(*   end                                                                   *)
MCLoopStatements ==
  { S("local", 0, E("const", << >>)), S("assign", 2, E("const", << >>)),
    S("assign", 3, E("var", <<2>>)), S("expr", 0, E("capture", <<3>>)),
    S("break", 0, E("const", << >>)) }

(* Of all programs, those that begin with the statements above in this     *)
(* order, whatever loops and branches they are in.                         *)
IsMark(i) == \/ i.op \in {"const", "closure"}
             \/ i.op = "move" /\ i.dst = 1
             \/ i.op = "jump" /\ i.to = 2
MarksInOrder ==
  LET marks == SelectSeq(code, IsMark) IN
  stage = "build" =>
    IsPrefix(Map(LAMBDA i : i.op, marks),
             <<"const", "const", "move", "jump", "closure", "const">>)
=============================================================================
