------------------------------ MODULE Optimizer ------------------------------
(***************************************************************************)
(* The optimizer: one round of optimize_cfg is six passes over the control *)
(* flow graph, and rounds follow each other until one changes nothing      *)
(* (compiler/ir/opt, compiler/ir/dom.rs and compiler/value_tracking.rs).   *)
(***************************************************************************)
EXTENDS Ir

MAX_FIXPOINT_ROUNDS == 16
MAX_PASSES == 20

AllCode(cfg) == Fold(LAMBDA code, b : code \o b.code, << >>, cfg.blocks)
Labels(cfg) == Map(LAMBDA b : b.label, cfg.blocks)
Block(cfg, l) ==
  IF HasBlock(cfg.blocks, l) THEN cfg.blocks[FindBlock(cfg.blocks, l)] ELSE EmptyBlock(l)

(* The code of every block, rewritten.                                     *)
Rewritten(cfg, rewrite(_)) ==
  [cfg EXCEPT !.blocks = Map(LAMBDA b : [b EXCEPT !.code = rewrite(@)], @)]

(* The variables nested functions capture.                                 *)
CapturedVars(cfg) ==
  UNION {Uses(i) : i \in {j \in ToSet(AllCode(cfg)) : j.op = "closure"}}

-----------------------------------------------------------------------------
(***************************************************************************)
(* 1. Loop invariant code motion.                                          *)
(***************************************************************************)

(* The blocks a run can reach without passing through those avoided.       *)
Reached(cfg, avoided) ==
  LET spread(acc, b) ==
        LET known == {l \in acc.last : HasBlock(cfg.blocks, l)}
            more == (UNION {ToSet(Block(cfg, l).succs) : l \in known}) \ (avoided \cup acc.all)
        IN [all |-> acc.all \cup more, last |-> more]
      start == {cfg.entry} \ avoided
  IN Fold(spread, [all |-> start, last |-> start], cfg.blocks).all

(* Every way from the entry to b goes through a.  The code finds this from *)
(* immediate dominators, and no block it cannot reach is dominated.        *)
Dominates(cfg, a, b) ==
  a = b \/ (b \in Reached(cfg, {}) /\ b \notin Reached(cfg, {a}))

LoopBody(cfg, h, n) ==
  LET grow(body, b) ==
        body \cup {p \in UNION {ToSet(Block(cfg, l).preds) : l \in body \ {h}} :
                      Dominates(cfg, h, p)}
  IN Fold(grow, {h, n}, cfg.blocks)

LoopsBackFrom(cfg, b) ==
  Map(LAMBDA h : [header |-> h, body |-> LoopBody(cfg, h, b.label)],
      Only(b.succs, {h \in ToSet(b.succs) : Dominates(cfg, h, b.label)}))
NaturalLoops(cfg) ==
  Fold(LAMBDA loops, b : loops \o LoopsBackFrom(cfg, b), << >>, cfg.blocks)

Assigned(code) == UNION {Defs(i) : i \in ToSet(code)}

(* Mutant: variables assigned elsewhere are hoisted too.                   *)
IsHoistableTwice(cfg, i) == i.op \in {"const", "move"} /\ i.dst \notin CapturedVars(cfg)

(* Only loads and moves are taken out, of a variable no closure holds and  *)
(* that is assigned nowhere else.                                          *)
IsHoistable(cfg, i) ==
  /\ i.op \in {"const", "move"} /\ i.dst \notin CapturedVars(cfg)
  /\ Len(SelectSeq(AllCode(cfg), LAMBDA j : j.dst = i.dst)) = 1

(* What the loop's code leaves in its blocks and what it gives up, the     *)
(* header first and then the others in their order: what is given up reads *)
(* nothing the loop assigns, but for what went before it.                  *)
TakeOrLeave(cfg, lp, l, acc, i) ==
  LET inLoop == UNION {Assigned(Block(cfg, m).code) : m \in lp.body}
  IN IF IsHoistable(cfg, i) /\ Uses(i) \cap (inLoop \ Assigned(acc.hoisted)) = {}
     THEN [acc EXCEPT !.hoisted = Append(@, i)]
     ELSE [acc EXCEPT !.left[l] = Append(@, i)]
HoistFromBlock(cfg, lp, acc, l) ==
  Fold(LAMBDA a, i : TakeOrLeave(cfg, lp, l, a, i), acc, Block(cfg, l).code)
HoistFrom(cfg, lp) ==
  Fold(LAMBDA acc, l : HoistFromBlock(cfg, lp, acc, l),
       [left |-> [l \in lp.body |-> << >>], hoisted |-> << >>],
       <<lp.header>> \o Only(Labels(cfg), lp.body \ {lp.header}))

(* Mutant: only jumps are led elsewhere, tests are not.                    *)
RetargetJumps(code, from, to) ==
  Map(LAMBDA i : IF i.op = "jump" /\ i.to = from THEN [i EXCEPT !.to = to] ELSE i, code)

Retarget(code, from, to) ==
  Map(LAMBDA i : IF i.op \in {"jump", "test"} /\ i.to = from THEN [i EXCEPT !.to = to] ELSE i,
      code)
Renamed(labels, from, to) == Map(LAMBDA l : IF l = from THEN to ELSE l, labels)

(* The block in front of the header, which nothing else follows: the one   *)
(* that is there, or a new one all edges from outside are led through.     *)
OutsidePreds(cfg, lp) ==
  LET preds == Block(cfg, lp.header).preds IN Only(preds, ToSet(preds) \ lp.body)
HasPreheader(cfg, lp) ==
  LET out == OutsidePreds(cfg, lp)
  IN Len(out) = 1 /\ Block(cfg, out[1]).succs = <<lp.header>>

WithPreheader(cfg, lp, new) ==
  LET out == OutsidePreds(cfg, lp)
      h == lp.header
      block == [label |-> new, code |-> <<Jump(h)>>, succs |-> <<h>>, preds |-> out]
      led(b) == IF Contains(out, b.label)
                THEN [b EXCEPT !.code = Retarget(@, h, new), !.succs = Renamed(@, h, new)]
                ELSE IF b.label = h
                THEN [b EXCEPT !.preds = Append(Only(@, lp.body), new)]
                ELSE b
      blocks == Map(led, cfg.blocks)
  IN [entry |-> IF cfg.entry = h THEN new ELSE cfg.entry,
      blocks |-> InsertAt(blocks, FindBlock(blocks, h), block)]

BeforeTerminator(code, more) ==
  LET ends == {k \in DOMAIN code : IsTerminator(code[k])}
      at == IF ends = {} THEN Len(code) + 1 ELSE CHOOSE k \in ends : \A j \in ends : k <= j
  IN SubSeq(code, 1, at - 1) \o more \o SubSeq(code, at, Len(code))

(* Mutant: a loop gets its block in front for nothing, round after round.  *)
GivesNothingNever(hoisted) == FALSE
GivesNothing(hoisted) == hoisted = << >>

HoistLoop(cfg, lp) ==
  LET got == HoistFrom(cfg, lp)
      cut == [cfg EXCEPT !.blocks =
                Map(LAMBDA b : IF b.label \in lp.body THEN [b EXCEPT !.code = got.left[b.label]]
                               ELSE b, @)]
      new == 1 + Max({0} \cup ToSet(Labels(cfg)))
      there == HasPreheader(cut, lp)
      front == IF there THEN OutsidePreds(cut, lp)[1] ELSE new
      led == IF there THEN cut ELSE WithPreheader(cut, lp, new)
  IN IF GivesNothing(got.hoisted) THEN cfg
     ELSE [led EXCEPT !.blocks[FindBlock(led.blocks, front)].code =
                        BeforeTerminator(@, got.hoisted)]

HoistInvariants(cfg) == Fold(HoistLoop, cfg, NaturalLoops(cfg))

-----------------------------------------------------------------------------
(***************************************************************************)
(* 2. Common subexpressions, block by block.                               *)
(***************************************************************************)

(* The operands of an operator that commutes are put in order.             *)
ExpressionKey(i) ==
  IF i.op = "add" /\ i.srcs[2] < i.srcs[1] THEN <<i.op, i.srcs[2], i.srcs[1]>>
  ELSE <<i.op, i.srcs[1], i.srcs[2]>>

(* What is known when a variable is assigned, as its value or an operand.  *)
Without(known, v) == {e \in known : v \notin {e.var, e.key[2], e.key[3]}}

Share(acc, i) ==
  LET known == IF i.op = "call" THEN {} ELSE acc.known
      isExpr == i.op \in Operators
      same == {e \in known : isExpr /\ e.key = ExpressionKey(i)}
      var == (CHOOSE e \in same : TRUE).var
  IN [code  |-> Append(acc.code, IF same # {} /\ var # i.dst THEN Move(i.dst, var) ELSE i),
      known |-> Without(known, i.dst) \cup
                (IF isExpr /\ same = {} THEN {[key |-> ExpressionKey(i), var |-> i.dst]} ELSE {})]
ShareExpressions(code) == Fold(Share, [code |-> << >>, known |-> {}], code).code

-----------------------------------------------------------------------------
(***************************************************************************)
(* 3. Copies: a use of a moved variable reads the original, unless a       *)
(* closure holds one of the two.                                           *)
(***************************************************************************)
Original(copies, v) ==
  IF \E c \in copies : c.of = v THEN (CHOOSE c \in copies : c.of = v).is ELSE v
Follow(captured, acc, i) ==
  LET new == IF i.op \in {"closure", "close"} THEN i
             ELSE [i EXCEPT !.srcs = Map(LAMBDA v : Original(acc.copies, v), @)]
      kept == {c \in acc.copies : i.dst \notin {c.of, c.is}}
      made == IF new.op = "move" /\ new.srcs[1] # new.dst
                 /\ {new.dst, new.srcs[1]} \cap captured = {}
              THEN {[of |-> new.dst, is |-> new.srcs[1]]} ELSE {}
  IN [code |-> Append(acc.code, new), copies |-> kept \cup made]
PropagateCopies(code, captured) ==
  LET done == Fold(LAMBDA acc, i : Follow(captured, acc, i), [code |-> << >>, copies |-> {}], code).code
  IN Only(done, {i \in ToSet(done) : ~(i.op = "move" /\ i.srcs = <<i.dst>>)})

-----------------------------------------------------------------------------
(***************************************************************************)
(* 4. Constants, block by block.  A call forgets what closures hold.       *)
(***************************************************************************)
IsKnown(known, v) == \E c \in known : c.of = v
ValueOf(known, v) == (CHOOSE c \in known : c.of = v).is
Track(captured, acc, i) ==
  LET kept == {c \in acc.known : c.of # i.dst /\ ~(i.op = "call" /\ c.of \in captured)}
      known == i.op = "const" \/ /\ i.op \in Operators \cup {"move"}
                                 /\ \A v \in Uses(i) : IsKnown(acc.known, v)
      value(k) == ValueOf(acc.known, i.srcs[k])
      result == IF i.op = "const" THEN i.val
                ELSE IF i.op = "move" THEN value(1) ELSE Apply(i.op, value(1), value(2))
      held == (Defs(i) \cup (IF i.op = "move" THEN Uses(i) ELSE {})) \cap captured
  IN [code  |-> Append(acc.code, IF known /\ held = {} THEN LoadConst(i.dst, result) ELSE i),
      known |-> kept \cup (IF known THEN {[of |-> i.dst, is |-> result]} ELSE {})]
TrackValues(code, captured) ==
  Fold(LAMBDA acc, i : Track(captured, acc, i), [code |-> << >>, known |-> {}], code).code

-----------------------------------------------------------------------------
(***************************************************************************)
(* 5. Dead code: what is pure, is not live after it and is in no closure.  *)
(***************************************************************************)
IsPure(i) == i.op \in Operators \cup {"const", "move"}

RetainIfNeeded(captured, acc, i) ==
  IF IsPure(i) /\ Defs(i) \cap (acc.live \cup captured) = {} THEN acc
  ELSE [code |-> <<i>> \o acc.code, live |-> (acc.live \ Defs(i)) \cup Uses(i)]
Needed(code, after, captured) ==
  Fold(LAMBDA acc, i : RetainIfNeeded(captured, acc, i),
       [code |-> << >>, live |-> after], Reverse(code)).code
EliminateDeadOnce(cfg) ==
  LET captured == CapturedVars(cfg)
      liveIn == LiveIn(cfg.blocks)
      after(b) == LiveOut(cfg.blocks, liveIn, b)
  IN [cfg EXCEPT !.blocks = Map(LAMBDA b : [b EXCEPT !.code = Needed(@, after(b), captured)], @)]

EliminateDead(cfg) == Repeated(EliminateDeadOnce, cfg, MAX_PASSES)

-----------------------------------------------------------------------------
(***************************************************************************)
(* 6. Cleaning up the graph.                                               *)
(***************************************************************************)
RemoveUnreachable(cfg) ==
  LET reached == Reached(cfg, {})
      left == Only(cfg.blocks, {b \in ToSet(cfg.blocks) : b.label \in reached})
  IN [cfg EXCEPT !.blocks = Map(LAMBDA b : [b EXCEPT !.preds = Only(@, reached)], left)]

(* The predecessors of a block when those of one of them go there instead. *)
Instead(preds, l, more) ==
  LET kept == Only(preds, ToSet(preds) \ {l})
  IN kept \o Only(more, ToSet(more) \ ToSet(kept))

(* A block that only jumps: those who went there go to its target.  The    *)
(* targets are noted before the first one is bypassed.                     *)
Bypass(cfg, empty) ==
  LET l == empty.label
      to == empty.code[1].to
      others == Only(cfg.blocks, {b \in ToSet(cfg.blocks) : b.label # l})
      used == \E b \in ToSet(others) :
                 Contains(b.succs, l) \/ \E i \in ToSet(b.code) : i.op \in {"jump", "test"} /\ i.to = l
      preds == Block(cfg, l).preds
      led(b) == [b EXCEPT !.code = Retarget(@, l, to), !.succs = Renamed(@, l, to),
                          !.preds = IF b.label = to THEN Instead(@, l, preds) ELSE @]
  IN IF used THEN [cfg EXCEPT !.blocks = Map(led, others)] ELSE cfg

OnlyJumps(cfg, b) ==
  /\ b.label # cfg.entry /\ Len(b.code) = 1
  /\ b.code[1].op = "jump" /\ b.code[1].to # b.label
EliminateEmptyJumps(cfg) ==
  Fold(Bypass, cfg, Only(cfg.blocks, {b \in ToSet(cfg.blocks) : OnlyJumps(cfg, b)}))

(* A block and the only one that follows it, if nothing else leads there.  *)
MergeBlocks(cfg) ==
  LET bs == cfg.blocks
      next(k) == bs[k].succs[1]
      merges(k) == /\ Len(bs[k].succs) = 1 /\ next(k) \notin {bs[k].label, cfg.entry}
                   /\ HasBlock(bs, next(k)) /\ Block(cfg, next(k)).preds = <<bs[k].label>>
      able == {k \in DOMAIN bs : merges(k)}
      a == CHOOSE k \in able : \A j \in able : k <= j
      b == Block(cfg, next(a))
      own == IF bs[a].code # << >> /\ Last(bs[a].code) = Jump(b.label)
             THEN Front(bs[a].code) ELSE bs[a].code
      joined(x) ==
        LET c == IF x = bs[a] THEN [x EXCEPT !.code = own \o b.code, !.succs = b.succs] ELSE x
        IN [c EXCEPT !.code = Retarget(@, b.label, bs[a].label),
                     !.preds = IF Contains(b.succs, c.label)
                               THEN Renamed(@, b.label, bs[a].label) ELSE @]
  IN IF able = {} THEN cfg
     ELSE [cfg EXCEPT !.blocks = RemoveAt(Map(joined, bs), FindBlock(bs, b.label))]

SimplifyOnce(cfg) == MergeBlocks(EliminateEmptyJumps(RemoveUnreachable(cfg)))
SimplifyCfg(cfg) == Repeated(SimplifyOnce, cfg, MAX_PASSES)
=============================================================================
