------------------------------ MODULE Compiler ------------------------------
(***************************************************************************)
(* A function on its way through the compiler: statement by statement into *)
(* linear code (compiler/ir/builder.rs), round by round through the        *)
(* optimizer (opt/mod.rs and compiler/mod.rs), and variable by variable    *)
(* into registers (liveness.rs, regalloc.rs and the start of codegen.rs).  *)
(* The statements come from a chosen set, in every order that makes a      *)
(* function, so a state stands for a program.                              *)
(***************************************************************************)
EXTENDS Optimizer, LinearScan

CONSTANTS Statements,    \* the statements there are
          MaxStatements, \* how many of them make a function
          MaxBlocks,     \* loops and branches among them
          MaxAnswers,    \* tests of a run
          ClosuresWrite, \* closures assign the variables they capture
          AssignParams   \* the function assigns its parameters

MaxVars == 40   \* no function of the bounds has as many

ASSUME CompilerAssumption ==
  MaxStatements \in Nat /\ MaxBlocks \in Nat /\ MaxAnswers \in Nat
  /\ Params \in Nat /\ Registers \in Nat /\ Params <= Registers
  /\ Registers <= MaxVars /\ {ClosuresWrite, AssignParams} \subseteq BOOLEAN

(* A statement names locals by how far in they are: 1 is the innermost.    *)
Expressions ==
  {e \in [op : Operators \cup {"const", "var", "call", "capture"}, of : Seq(Nat \ {None})] :
     /\ e.op \in Operators => Len(e.of) = 2
     /\ e.op \in {"var", "capture"} => Len(e.of) = 1}
ASSUME StatementsAssumption ==
  \A s \in Statements :
    /\ s \in [kind : {"local", "assign", "expr", "break"}, to : Nat, expr : Expressions]
    /\ s.kind = "assign" => s.to # None

VARIABLES stage,    \* build, optimize, allocate or run
          code,     \* the linear code
          source,   \* the code as it was built
          next,     \* the next variable (IrBuilder.next_var)
          label,    \* the last label (IrBuilder.next_label)
          locals,   \* the variables in scope, innermost last
          open,     \* the loops and branches not yet ended
          made,     \* statements so far
          cfg,      \* the graph being optimized
          round     \* rounds it went through

builder == <<next, label, locals, open, made>>
vars == <<stage, code, source, builder, cfg, round, scan>>

-----------------------------------------------------------------------------
(***************************************************************************)
(* Building.  An expression's operands are read into fresh variables, a    *)
(* local's too: its value is that of the moment it was read.  Expressions: *)
(* a constant, a local, an operator on two locals, a call with a local,    *)
(* and a call that is given a closure over a local.                        *)
(***************************************************************************)
Local(k) == locals[Len(locals) + 1 - k]
InScope(e) == \A k \in ToSet(e.of) : k <= Len(locals)

(* Of constants only that they differ matters.                             *)
ExprCode(e, dst, n) ==
  LET reads == [k \in DOMAIN e.of |-> Move(n + k - 1, Local(e.of[k]))]
      temps == [k \in DOMAIN e.of |-> n + k - 1]
  IN CASE e.op = "const"     -> <<LoadConst(dst, n)>>
       [] e.op = "var"       -> <<Move(dst, Local(e.of[1]))>>
       [] e.op \in Operators -> reads \o <<BinOp(dst, e.op, n, n + 1)>>
       [] e.op = "call"      -> reads \o <<Call(dst, temps)>>
       [] e.op = "capture"   -> <<Closure(n, <<Local(e.of[1])>>), Call(dst, <<n>>)>>

(* The members of a set, each after those the relation puts before it.     *)
Rank(set, before, v) == Cardinality({w \in set : <<w, v>> \in before})
Sorted(set, before) ==
  << >> \o [n \in 1..Cardinality(set) |-> CHOOSE v \in set : Rank(set, before, v) = n - 1]

(* How many variables that takes, with the one for the result.             *)
FreshResult(e) == 1
Fresh(e) == 1 + Len(e.of)

Emit(more) == code' = code \o more
Fits == stage = "build" /\ made < MaxStatements
IsStatement(s) == s \in Statements /\ InScope(s.expr) /\ made' = made + 1

(* local x = e                                                             *)
DeclareLocal(s) ==
  /\ Fits /\ s.kind = "local" /\ IsStatement(s)
  /\ Emit(ExprCode(s.expr, next, next + 1))
  /\ next' = next + Fresh(s.expr) /\ locals' = Append(locals, next)
  /\ UNCHANGED <<stage, source, label, open, cfg, round, scan>>

(* x = e: the value is there before the local changes.                     *)
Assign(s) ==
  /\ Fits /\ s.kind = "assign" /\ IsStatement(s) /\ s.to <= Len(locals)
  /\ AssignParams \/ Local(s.to) > Params
  /\ Emit(ExprCode(s.expr, next, next + 1) \o <<Move(Local(s.to), next)>>)
  /\ next' = next + Fresh(s.expr)
  /\ UNCHANGED <<stage, source, label, locals, open, cfg, round, scan>>

(* e on its own                                                            *)
Evaluate(s) ==
  /\ Fits /\ s.kind = "expr" /\ IsStatement(s)
  /\ Emit(ExprCode(s.expr, next, next + 1))
  /\ next' = next + Fresh(s.expr)
  /\ UNCHANGED <<stage, source, label, locals, open, cfg, round, scan>>

-----------------------------------------------------------------------------
MayOpen == /\ stage = "build" /\ made < MaxStatements
           /\ Cardinality({k \in DOMAIN code : code[k].op = "test"}) < MaxBlocks

Opened(kind, first, second, at, firstVar) ==
  open' = Append(open, [kind |-> kind, first |-> first, second |-> second,
                        at |-> at, firstVar |-> firstVar, locals |-> Len(locals), made |-> made])

(* if x then: the innermost local is the condition.                        *)
If ==
  /\ MayOpen /\ locals # << >>
  /\ Emit(<<Move(next, Local(1)), JumpIfFalse(next, label + 1)>>)
  /\ next' = next + 1 /\ label' = label + 2
  /\ Opened("then", label + 1, label + 2, 0, 0)
  /\ UNCHANGED <<stage, source, locals, made, cfg, round, scan>>

(* while x do                                                              *)
While ==
  /\ MayOpen /\ locals # << >>
  /\ Emit(<<Label(label + 1), Move(next, Local(1)), JumpIfFalse(next, label + 2)>>)
  /\ next' = next + 1 /\ label' = label + 2
  /\ Opened("while", label + 1, label + 2, Len(code) + 2, next)
  /\ UNCHANGED <<stage, source, locals, made, cfg, round, scan>>

(* A close of what closures made since capture of the loop's own locals.   *)
LoopClose(at, firstVar) ==
  LET caught == {v \in UNION {Uses(i) : i \in {j \in ToSet(SubSeq(code, at, Len(code))) :
                                                  j.op = "closure"}} : v >= firstVar}
      below == {p \in caught \X caught : p[1] < p[2]}
  IN IF caught = {} THEN << >> ELSE <<CloseUpvals(Sorted(caught, below))>>

(* A body is not empty: nothing new would come of one.                     *)
InBody(kind) == stage = "build" /\ open # << >> /\ Last(open).kind = kind /\ made > Last(open).made
Closed == locals' = SubSeq(locals, 1, Last(open).locals) /\ open' = Front(open)

(* break leaves the innermost loop; what follows it in its body is dead.   *)
Break(s) ==
  LET loops == Only(open, {o \in ToSet(open) : o.kind = "while"}) IN
  /\ Fits /\ s.kind = "break" /\ loops # << >> /\ IsStatement(s)
  /\ Emit(<<Jump(Last(loops).second)>>)
  /\ UNCHANGED <<stage, source, next, label, locals, open, cfg, round, scan>>

(* else                                                                    *)
Else ==
  /\ InBody("then") /\ made < MaxStatements
  /\ Emit(<<Jump(Last(open).second), Label(Last(open).first)>>)
  /\ locals' = SubSeq(locals, 1, Last(open).locals)
  /\ open' = [open EXCEPT ![Len(open)].kind = "else", ![Len(open)].made = made]
  /\ UNCHANGED <<stage, source, next, label, made, cfg, round, scan>>

EndIf ==
  /\ \/ InBody("then") /\ Emit(<<Jump(Last(open).second), Label(Last(open).first),
                                 Label(Last(open).second)>>)
     \/ InBody("else") /\ Emit(<<Label(Last(open).second)>>)
  /\ Closed
  /\ UNCHANGED <<stage, source, next, label, made, cfg, round, scan>>

EndWhile ==
  /\ InBody("while")
  /\ LET o == Last(open) IN
     code' = SubSeq(code, 1, o.at - 1) \o LoopClose(o.at, o.firstVar)
             \o SubSeq(code, o.at, Len(code)) \o <<Jump(o.first), Label(o.second)>>
  /\ Closed
  /\ UNCHANGED <<stage, source, next, label, made, cfg, round, scan>>

(* return x ends the function, and its graph is built.                     *)
Finish ==
  /\ stage = "build" /\ open = << >> /\ made = MaxStatements /\ locals # << >>
  /\ LET whole == code \o <<Move(next, Local(1)), Return(<<next>>)>> IN
     code' = whole /\ source' = whole /\ cfg' = BuildCfg(whole)
  /\ next' = next + 1 /\ stage' = "optimize"
  /\ UNCHANGED <<label, locals, open, made, round, scan>>

-----------------------------------------------------------------------------
(* One round is the six passes, one after the other; the last round is the *)
(* one in which no pass changes anything.                                  *)
Optimize ==
  /\ stage = "optimize"
  /\ \E moved   \in {HoistInvariants(cfg)} :
     \E held    \in {CapturedVars(moved)} :
     \E shared  \in {Rewritten(moved, ShareExpressions)} :
     \E copied  \in {Rewritten(shared, LAMBDA c : PropagateCopies(c, held))} :
     \E tracked \in {Rewritten(copied, LAMBDA c : TrackValues(c, held))} :
     \E alive   \in {EliminateDead(tracked)} :
     \E better  \in {SimplifyCfg(alive)} :
       /\ cfg' = better /\ code' = Flatten(better)
       /\ stage' = IF \/ {moved, shared, copied, tracked, alive, better} = {cfg}
                         \/ round + 1 = MAX_FIXPOINT_ROUNDS
                      THEN "layout" ELSE stage
  /\ round' = round + 1
  /\ UNCHANGED <<source, builder, scan>>

(* What is laid out is cut into blocks again for the allocator.            *)
Relayout ==
  /\ stage = "layout" /\ stage' = "intervals"
  /\ \E again \in {BuildCfg(code)} : cfg' = again /\ code' = Flatten(again)
  /\ UNCHANGED <<source, builder, round, scan>>

-----------------------------------------------------------------------------
(***************************************************************************)
(* Live intervals, in numbers of instructions: a variable's is from the    *)
(* first place it is assigned, used or live at to the last, and a captured *)
(* one's has no end: it is later than every place, as usize::MAX is.       *)
(***************************************************************************)
(* Block by block: what is live where it begins, what each instruction     *)
(* assigns or uses, and what is live where it ends, as places <<v, pc>>.   *)
PlacesOf(blocks, liveIn, acc, b) ==
  LET end == acc.pc + Len(b.code)
      at(n) == (Defs(b.code[n]) \cup Uses(b.code[n])) \X {acc.pc + n - 1}
      before == liveIn[FindBlock(blocks, b.label)] \X {acc.pc}
      after == LiveOut(blocks, liveIn, b) \X {end}
  IN [pc |-> end, places |-> acc.places \cup before \cup after \cup UNION {at(n) : n \in DOMAIN b.code}]
Places(blocks) ==
  LET liveIn == LiveIn(blocks)
  IN Fold(LAMBDA acc, b : PlacesOf(blocks, liveIn, acc, b), [pc |-> 0, places |-> {}], blocks)

NoEnd(found) == found.pc + 1
Interval(pcs, isCaptured, noEnd) ==
  [start |-> CHOOSE p \in pcs : \A q \in pcs : p <= q,
   end   |-> IF isCaptured THEN noEnd ELSE CHOOSE p \in pcs : \A q \in pcs : q <= p]

CopyPartners(v) ==
  {w \in 1..(next - 1) :
     w # v /\ \E i \in ToSet(code) : i.op = "move" /\ {i.dst} \cup Uses(i) = {v, w}}

ComputeIntervals ==
  /\ stage = "intervals" /\ stage' = "sort"
  /\ \E found \in {Places(cfg.blocks)}, captured \in {CapturedVars(cfg)} :
       LET used == {p[1] : p \in found.places}
           pcs(v) == {p[2] : p \in {q \in found.places : q[1] = v}} IN
       /\ span' = [v \in used |-> Interval(pcs(v), v \in captured, NoEnd(found))]
       /\ hints' = [v \in used |-> CopyPartners(v)]
  /\ UNCHANGED <<code, source, builder, cfg, round, queue, mapping, free, active, failed>>

(* The scan's order is by start, end and number (mutant: by end first).    *)
KeyByEnd(v) == <<span[v].end, span[v].start, v>>
Key(v) == <<span[v].start, span[v].end, v>>
Precedes(v, w) == \E n \in 1..3 : /\ Key(v)[n] < Key(w)[n]
                                 /\ \A m \in 1..(n - 1) : Key(v)[m] = Key(w)[m]
SortIntervals ==
  /\ stage = "sort" /\ stage' = "allocate"
  /\ LET waiting == DOMAIN span \ 1..Params
     IN queue' = Sorted(waiting, {p \in waiting \X waiting : Precedes(p[1], p[2])})
  /\ mapping' = [p \in 1..Params |-> p] /\ free' = (Params + 1)..Registers
  /\ active' = {} /\ failed' = FALSE
  /\ UNCHANGED <<code, source, builder, cfg, round, span, hints>>

Allocate ==
  stage = "allocate" /\ ScanNext /\ UNCHANGED <<stage, code, source, builder, cfg, round>>

-----------------------------------------------------------------------------
Init ==
  /\ stage = "build" /\ code = << >> /\ source = << >> /\ next = Params + 1 /\ label = 0
  /\ locals = [p \in 1..Params |-> p] /\ open = << >> /\ made = 0
  /\ cfg = [entry |-> None, blocks |-> << >>] /\ round = 0
  /\ span = << >> /\ hints = << >> /\ queue = << >>
  /\ mapping = << >> /\ free = {} /\ active = {} /\ failed = FALSE

Next ==
  \/ \E s \in Statements : DeclareLocal(s) \/ Assign(s) \/ Evaluate(s) \/ Break(s)
  \/ If \/ While \/ Else \/ EndIf \/ EndWhile \/ Finish
  \/ Optimize \/ Relayout \/ ComputeIntervals \/ SortIntervals \/ Allocate

Spec == Init /\ [][Next]_vars

-----------------------------------------------------------------------------
(***************************************************************************)
(* Properties.                                                             *)
(***************************************************************************)
(* Loops and branches not yet ended: a loop began at an instruction there  *)
(* is, and each has the locals of those around it in scope.                *)
Scopes == [kind : {"then", "else", "while"}, first : Int, second : Int, at : Nat,
           firstVar : Nat, locals : Nat, made : Nat]
Nested ==
  \A k \in DOMAIN open :
    /\ open[k].kind = "while" => open[k].at \in 1..Len(code)
    /\ open[k].locals <= Len(locals)
    /\ \A j \in 1..(k - 1) : open[j].locals <= open[k].locals

(* The state stays well formed: code and graph speak of variables there    *)
(* are, those in scope among them, and what is placed is in a register.    *)
TypeOK ==
  /\ stage \in {"build", "optimize", "layout", "intervals", "sort", "allocate"}
  /\ next \in Nat /\ next > Params /\ label \in Nat /\ made \in Nat
  /\ code \in Seq(Instructions(next - 1)) /\ source \in Seq(Instructions(next - 1))
  /\ cfg \in Graphs(next - 1) /\ round \in 0..MAX_FIXPOINT_ROUNDS
  /\ locals \in Seq(1..(next - 1)) /\ open \in Seq(Scopes) /\ Nested
  /\ DOMAIN mapping \subseteq 1..(next - 1) /\ active \subseteq DOMAIN mapping
  /\ \A v \in DOMAIN mapping : mapping[v] \in 1..Registers

Inputs == [r \in 1..MaxVars |-> 7000 + r]
Unplaced == [v \in 1..MaxVars |-> v]
SameAs(c, regs) ==
  \A answers \in [1..MaxAnswers -> BOOLEAN] :
    RunLog(c, regs, Inputs, answers, ClosuresWrite) =
    RunLog(source, Unplaced, Inputs, answers, ClosuresWrite)

(* However the tests turn out, optimized code makes the tests and calls of *)
(* the code that was built, with the same values, closures see the same in *)
(* each call, and it returns the same (optimize_cfg: each pass keeps what  *)
(* the program does).                                                      *)
SameBehaviour == stage \in {"optimize", "layout", "intervals"} => SameAs(code, Unplaced)

(* So does the code whose variables are in registers (allocate_registers). *)
SameInRegisters == stage = "allocate" /\ queue = << >> => SameAs(code, mapping)

(* Between passes the graph is one verify_cfg accepts: codegen refuses any *)
(* other, though the program is valid.                                     *)
GraphVerified == stage \in {"optimize", "layout", "intervals"} => VerifyCfg(cfg)

(* Rounds end because nothing changes any more, never because there were   *)
(* too many (MAX_FIXPOINT_ROUNDS).                                         *)
Settles == round < MAX_FIXPOINT_ROUNDS

(* The scan is given what its promise (NoClash) depends on: the intervals  *)
(* by their start, each variable once, and the parameters not at all.      *)
ScanBegins == [][stage = "sort" => ScanInit']_vars
=============================================================================
