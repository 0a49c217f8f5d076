--------------------------------- MODULE Ir ---------------------------------
(***************************************************************************)
(* The compiler's intermediate code: instructions, the control flow graph  *)
(* built from them and the graph laid out again, what code does when it    *)
(* runs, and which variables are live (compiler/ir/inst.rs, block.rs,      *)
(* cfg_builder.rs and liveness.rs).                                        *)
(*                                                                         *)
(* Of the instructions there is one of each kind the passes tell apart.    *)
(* Variables and labels are numbers, as in the code.                       *)
(***************************************************************************)
EXTENDS Integers, Sequences, FiniteSets, SequencesExt

(* A fold from the left.                                                   *)
Fold(op(_, _), base, seq) ==
  LET after[n \in 0..Len(seq)] == IF n = 0 THEN base ELSE op(after[n - 1], seq[n])
  IN after[Len(seq)]

(* A step repeated until it changes nothing, and at most so many times.    *)
Repeated(step(_), start, times) ==
  LET again(acc, n) == IF acc.same THEN acc
                       ELSE LET next == step(acc.is)
                            IN [is |-> next, same |-> next = acc.is]
  IN Fold(again, [is |-> start, same |-> FALSE], [n \in 1..times |-> n]).is

(* The elements that are in the set, in their order.                       *)
Only(seq, set) ==
  Fold(LAMBDA kept, e : IF e \in set THEN Append(kept, e) ELSE kept, << >>, seq)

(* Every element mapped.                                                   *)
Map(f(_), seq) == << >> \o [k \in DOMAIN seq |-> f(seq[k])]

None == 0       (* no variable, label or value *)

Inst(op, dst, srcs, val, to) ==
  [op |-> op, dst |-> dst, srcs |-> srcs, val |-> val, to |-> to]

LoadConst(d, c)      == Inst("const", d, << >>, c, None)
Move(d, s)           == Inst("move", d, <<s>>, None, None)
BinOp(d, o, l, r)    == Inst(o, d, <<l, r>>, None, None)
Call(d, args)        == Inst("call", d, args, None, None)
Closure(d, captured) == Inst("closure", d, captured, None, None)
CloseUpvals(vs)      == Inst("close", None, vs, None, None)
Return(vs)           == Inst("return", None, vs, None, None)
Jump(l)              == Inst("jump", None, << >>, None, l)
JumpIfFalse(c, l)    == Inst("test", None, <<c>>, None, l)
Label(l)             == Inst("label", None, << >>, None, l)

(* Two operators stand for the others: one that commutes, one that does    *)
(* not.                                                                    *)
Operators == {"add", "sub"}

Defs(i) == {i.dst} \ {None}
Uses(i) == ToSet(i.srcs)
IsTerminator(i) == i.op \in {"return", "jump", "test"}

(* Instructions over n variables: what they read, and whether they assign  *)
(* one, is by their kind.                                                  *)
Assigning == Operators \cup {"const", "move", "call", "closure"}
Instructions(n) ==
  {i \in [op : Assigning \cup {"close", "return", "jump", "test", "label"},
          dst : 0..n, srcs : Seq(1..n), val : Int, to : Int] :
     /\ i.dst = None <=> i.op \notin Assigning
     /\ i.op = "move" => Len(i.srcs) = 1
     /\ i.op \in Operators => Len(i.srcs) = 2
     /\ i.op = "jump" => Len(i.srcs) = 0 /\ i.val = None}

(* Blocks of such instructions, with a label of their own and none inside, *)
(* and graphs of such blocks.                                              *)
Unlabelled(n) == {i \in Instructions(n) : i.op # "label"}
Blocks(n) == [label : Int, code : Seq(Unlabelled(n)), succs : Seq(Int), preds : Seq(Int)]
Graphs(n) == [entry : Int, blocks : Seq(Blocks(n))]

-----------------------------------------------------------------------------
(***************************************************************************)
(* build_cfg and to_flat_instructions.                                     *)
(***************************************************************************)

HasBlock(blocks, l) == \E k \in DOMAIN blocks : blocks[k].label = l
FindBlock(blocks, l) ==
  IF HasBlock(blocks, l) THEN CHOOSE k \in DOMAIN blocks : blocks[k].label = l ELSE 1

(* A leader is the first instruction, a label, or what follows a jump.     *)
IsLeader(code, i) == i = 1 \/ code[i].op = "label" \/ IsTerminator(code[i - 1])

FirstAutoLabel == 900000
MaxLabel(code) == Max({FirstAutoLabel} \cup {code[k].to : k \in DOMAIN code})

EmptyBlock(l) == [label |-> l, code |-> << >>, succs |-> << >>, preds |-> << >>]

(* The code cut before every leader; a label names its block, any other    *)
(* leader's block gets a label above all others.                           *)
AddToBlocks(code, bs, k) ==
  IF ~IsLeader(code, k) THEN [bs EXCEPT ![Len(bs)].code = Append(@, code[k])]
  ELSE IF code[k].op = "label" THEN Append(bs, EmptyBlock(code[k].to))
  ELSE Append(bs, [EmptyBlock(MaxLabel(code) + k) EXCEPT !.code = <<code[k]>>])
CutBlocks(code) ==
  Fold(LAMBDA bs, k : AddToBlocks(code, bs, k), << >>, [k \in DOMAIN code |-> k])

(* Where a block goes, and a jump to the next one if it may fall through.  *)
Ends(b) == IF b.code = << >> THEN "none" ELSE Last(b.code).op
Connect(blocks, k) ==
  LET b == blocks[k]
      falls == Ends(b) \notin {"return", "jump"} /\ k < Len(blocks)
      taken == IF Ends(b) \in {"jump", "test"} THEN <<Last(b.code).to>> ELSE << >>
      next == IF falls THEN <<blocks[k + 1].label>> ELSE << >>
  IN [b EXCEPT !.code = @ \o [n \in 1..Len(next) |-> Jump(next[n])],
               !.succs = IF taken = next THEN taken ELSE taken \o next]

Predecessors(blocks, l) ==
  Map(LAMBDA b : b.label, Only(blocks, {b \in ToSet(blocks) : Contains(b.succs, l)}))

BuildCfg(code) ==
  LET cut == CutBlocks(code)
      blocks == [k \in DOMAIN cut |-> Connect(cut, k)]
  IN IF cut = << >> THEN [entry |-> None, blocks |-> <<EmptyBlock(None)>>]
     ELSE [entry  |-> blocks[1].label,
           blocks |-> Map(LAMBDA b : [b EXCEPT !.preds = Predecessors(blocks, b.label)], blocks)]

(* The blocks in their order, without a jump to the block that follows.    *)
IsNeedless(blocks, k) ==
  /\ k < Len(blocks) /\ blocks[k].code # << >>
  /\ Last(blocks[k].code) = Jump(blocks[k + 1].label)
LaidOut(blocks, k) ==
  <<Label(blocks[k].label)>> \o
  (IF IsNeedless(blocks, k) THEN Front(blocks[k].code) ELSE blocks[k].code)
Flatten(cfg) ==
  Fold(LAMBDA out, k : out \o LaidOut(cfg.blocks, k), << >>, [k \in DOMAIN cfg.blocks |-> k])

(* verify_cfg: labels are there once, edges are known at both ends, and    *)
(* the last jump or return of a block agrees with them.                    *)
LabelSet(bs) == {bs[k].label : k \in DOMAIN bs}
LabelsOnce(bs) == \A j, k \in DOMAIN bs : bs[j].label = bs[k].label => j = k
TargetsKnown(bs, b) ==
  \A i \in ToSet(b.code) : i.op \in {"jump", "test"} => i.to \in LabelSet(bs)
EdgesAgree(bs, b) ==
  /\ \A l \in ToSet(b.succs) :
       l \in LabelSet(bs) /\ Contains(bs[FindBlock(bs, l)].preds, b.label)
  /\ \A l \in ToSet(b.preds) :
       l \in LabelSet(bs) /\ Contains(bs[FindBlock(bs, l)].succs, b.label)
LastTerminator(code, n) ==
  IsTerminator(code[n]) /\ \A m \in (n + 1)..Len(code) : ~IsTerminator(code[m])
EndAgrees(b) ==
  \A n \in DOMAIN b.code : LastTerminator(b.code, n) =>
    /\ b.code[n].op = "return" => b.succs = << >>
    /\ b.code[n].op = "jump" => Contains(b.succs, b.code[n].to)
VerifyCfg(cfg) ==
  LET bs == cfg.blocks IN
  /\ cfg.entry \in LabelSet(bs) /\ LabelsOnce(bs)
  /\ \A k \in DOMAIN bs : TargetsKnown(bs, bs[k]) /\ EdgesAgree(bs, bs[k]) /\ EndAgrees(bs[k])

-----------------------------------------------------------------------------
(***************************************************************************)
(* Liveness: the least solution of the equations, which the rounds over    *)
(* the blocks reach.                                                       *)
(***************************************************************************)

(* What is live before the code, if `after` is live after it: what is used *)
(* before it is assigned, and what is not assigned at all.                 *)
IsAssigned(code, v) == \E k \in DOMAIN code : v \in Defs(code[k])
UsedFirst(code) ==
  UNION {{v \in Uses(code[k]) : ~IsAssigned(SubSeq(code, 1, k - 1), v)} : k \in DOMAIN code}
LiveBefore(code, after) == UsedFirst(code) \cup {v \in after : ~IsAssigned(code, v)}

LiveOut(blocks, liveIn, b) ==
  UNION {liveIn[FindBlock(blocks, l)] : l \in {m \in ToSet(b.succs) : HasBlock(blocks, m)}}

(* One round, which what a loop reads again does not come around in.       *)
LiveInOnce(blocks) ==
  Map(LAMBDA b : LiveBefore(b.code, LiveOut(blocks, Map(LAMBDA c : LiveBefore(c.code, {}), blocks), b)),
      blocks)

LiveIn(blocks) ==
  LET round(liveIn) == Map(LAMBDA b : LiveBefore(b.code, LiveOut(blocks, liveIn, b)), blocks)
  IN Repeated(round, Map(LAMBDA b : {}, blocks), Len(blocks))

-----------------------------------------------------------------------------
(***************************************************************************)
(* What code does when it runs: the tests it makes, the calls with what    *)
(* they are given, and what it returns.  A call may run the closures made, *)
(* which see the variables they captured and, if they write, change them.  *)
(* How the tests turn out is given in advance; the run ends when no answer *)
(* is left.  `regs` says where each variable is kept.                      *)
(***************************************************************************)

(* Operators are functions of which little is known.                       *)
Apply(op, l, r) ==
  IF op = "add" THEN (l * r + 7 * (l + r) + 3) % 9973 ELSE (11 * l + 5 * r + 1) % 9973

LabelAt(code, l) == CHOOSE k \in DOMAIN code : code[k].op = "label" /\ code[k].to = l

Step(code, regs, answers, writes, st) ==
  LET i == code[st.pc]
      read(k) == st.env[regs[i.srcs[k]]]
      values == [k \in DOMAIN i.srcs |-> read(k)]
      seen == [k \in DOMAIN st.held |-> st.env[st.held[k]]]
      put(v) == [st EXCEPT !.pc = @ + 1, !.env[regs[i.dst]] = v]
      written == IF ~writes THEN st.env
                 ELSE [r \in DOMAIN st.env |->
                         IF Contains(st.held, r) THEN 1000 + Len(st.log) ELSE st.env[r]]
      next == st.asked + 1
  IN
  CASE i.op = "const"     -> put(i.val)
    [] i.op = "move"      -> put(read(1))
    [] i.op \in Operators -> put(Apply(i.op, read(1), read(2)))
    [] i.op = "closure"   ->
         [put(5000) EXCEPT !.held = @ \o [k \in DOMAIN i.srcs |-> regs[i.srcs[k]]]]
    [] i.op = "close"     ->
         [st EXCEPT !.pc = @ + 1,
                    !.held = SelectSeq(@, LAMBDA r : \A k \in DOMAIN i.srcs : r # regs[i.srcs[k]])]
    [] i.op = "call"      ->
         [st EXCEPT !.pc = @ + 1,
                    !.env = [written EXCEPT ![regs[i.dst]] = 2000 + Len(st.log)],
                    !.log = Append(@, <<"call", values, seen>>)]
    [] i.op = "test"      ->
         IF next > Len(answers) THEN [st EXCEPT !.over = TRUE]
         ELSE [st EXCEPT !.pc = IF answers[next] THEN @ + 1 ELSE LabelAt(code, i.to),
                         !.asked = next, !.log = Append(@, <<"test", values>>)]
    [] i.op = "return"    -> [st EXCEPT !.over = TRUE, !.log = Append(@, <<"return", values>>)]
    [] i.op = "jump"      -> [st EXCEPT !.pc = LabelAt(code, i.to)]
    [] i.op = "label"     -> [st EXCEPT !.pc = @ + 1]

(* No loop runs without a test: after as many steps as there is code, one  *)
(* was made, or the run is over.                                           *)
RunLog(code, regs, inputs, answers, writes) ==
  LET start == [pc |-> 1, env |-> inputs, held |-> << >>, log |-> << >>, asked |-> 0, over |-> FALSE]
      step(st, i) == IF st.over \/ st.pc > Len(code) THEN st
                     ELSE Step(code, regs, answers, writes, st)
      stretch(st, a) == IF st.over THEN st ELSE Fold(step, st, code)
  IN Fold(stretch, start, <<TRUE>> \o answers).log
=============================================================================
