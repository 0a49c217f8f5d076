-------------------------- MODULE Optimizer_proofs --------------------------
(***************************************************************************)
(* What the operators of Ir and Optimizer make of code and graphs that are *)
(* well formed: building a graph, each pass of a round and laying the      *)
(* graph out again give code and graphs that are, about the same           *)
(* variables.  All of them are folds, and a fold is a function on 0..n:    *)
(* that there is one, and that what each step keeps holds at its end, is   *)
(* proved first (by the least number for which it would not).  Then what   *)
(* verify_cfg asks: of any code that places each label once and jumps only *)
(* to those, build_cfg makes a graph that has it.                          *)
(***************************************************************************)
EXTENDS Optimizer, Subsequences_proofs

-----------------------------------------------------------------------------
(* Recursion over 0..n has a solution among functions into A.              *)
Folded(f, A, n, base, g) ==
  f \in [0..n -> A] /\ f[0] = base /\ \A m \in 1..n : f[m] = g[<<f[m - 1], m>>]
LEMMA FoldExists ==
  ASSUME NEW A, NEW n \in Nat, NEW base \in A, NEW g \in [A \X (1..n) -> A]
  PROVE  \E f : Folded(f, A, n, base, g)
<1> DEFINE Partial(m) == {f \in [0..m -> A] : f[0] = base /\ \A k \in 1..m : f[k] = g[<<f[k - 1], k>>]}
<1>1. \A m \in 0..n : Partial(m) # {}
  <2> DEFINE T == {m \in 0..n : Partial(m) = {}}
  <2> SUFFICES ASSUME T # {} PROVE FALSE
    OBVIOUS
  <2>0. T \subseteq Nat
    OBVIOUS
  <2>1. PICK x \in T : \A y \in T : x <= y
    <3> HIDE DEF T
    <3> QED BY <2>0, LeastNumber
  <2>2. CASE x = 0
    <3>1. [k \in 0..0 |-> base] \in Partial(0)
      OBVIOUS
    <3> QED BY <2>1, <2>2, <3>1
  <2>3. CASE x # 0
    <3>1. x - 1 \in 0..n /\ x - 1 \notin T /\ x \in Nat /\ x - 1 \in Nat /\ x \in 1..n
      <4> HIDE DEF Partial
      <4>1. x \in 0..n
        BY <2>1
      <4>2. x - 1 \in 0..n /\ ~ (x <= x - 1)
        BY <2>3, <4>1
      <4> QED BY <2>1, <2>3, <4>1, <4>2
    <3>2. PICK f : f \in Partial(x - 1)
      BY <3>1
    <3> DEFINE h == [k \in 0..x |-> IF k = x THEN g[<<f[x - 1], x>>] ELSE f[k]]
    <3>3. /\ f \in [0..(x - 1) -> A] /\ f[0] = base
          /\ \A k \in 1..(x - 1) : f[k] = g[<<f[k - 1], k>>]
      BY <3>2
    <3>4. g[<<f[x - 1], x>>] \in A
      BY <3>1, <3>3
    <3>5. h \in [0..x -> A] /\ h[0] = base
      BY <2>3, <3>1, <3>3, <3>4
    <3>6. ASSUME NEW k \in 1..x PROVE h[k] = g[<<h[k - 1], k>>]
      <4>1. k \in 0..x /\ k - 1 \in 0..x /\ k - 1 # x /\ (k = x \/ k \in 1..(x - 1))
        BY <3>1
      <4>2. h[k] = (IF k = x THEN g[<<f[x - 1], x>>] ELSE f[k]) /\ h[k - 1] = f[k - 1]
        BY <4>1
      <4> HIDE DEF h
      <4> QED BY <3>3, <4>1, <4>2
    <3>7. h \in Partial(x)
      BY <3>5, <3>6
    <3> QED BY <2>1, <3>7
  <2> QED BY <2>2, <2>3
<1>2. n \in 0..n
  OBVIOUS
<1>3. PICK f : f \in Partial(n)
  BY <1>1, <1>2
<1> QED BY <1>3 DEF Folded

(* What holds at the beginning and is kept by each step holds at the end.  *)
Carries(h, A, n) == h[0] \in A /\ \A m \in 1..n : h[m - 1] \in A => h[m] \in A
(* What holds at the start of a fold and is kept by each step holds at its *)
(* end.                                                                    *)
LEMMA FoldKeeps ==
  ASSUME NEW A, NEW n \in Nat, NEW h, Carries(h, A, n)
  PROVE  h[n] \in A
<1> USE DEF Carries
<1> DEFINE T == {m \in 0..n : h[m] \notin A}
<1> SUFFICES ASSUME T # {} PROVE FALSE
  OBVIOUS
<1>0. T \subseteq Nat
  OBVIOUS
<1>1. PICK x \in T : \A y \in T : x <= y
  <2> HIDE DEF T
  <2> QED BY <1>0, LeastNumber
<1>2. x \in 1..n
  <2>1. x \in 0..n /\ h[x] \notin A
    BY <1>1
  <2> QED BY <2>1
<1>3. x - 1 \in 0..n /\ x - 1 \notin T
  BY <1>1, <1>2
<1> QED BY <1>1, <1>2, <1>3

(* Only keeps a sequence's order and members of the set, and no other.     *)
LEMMA OnlyType ==
  ASSUME NEW S, NEW seq \in Seq(S), NEW set
  PROVE  Only(seq, set) \in Seq(S \cap set)
<1> DEFINE n == Len(seq)
           A == Seq(S \cap set)
           op(kept, e) == IF e \in set THEN Append(kept, e) ELSE kept
           g == [p \in A \X (1..n) |-> op(p[1], seq[p[2]])]
           Is(f) == f = [m \in 0..n |-> IF m = 0 THEN << >> ELSE op(f[m - 1], seq[m])]
           after == CHOOSE f : Is(f)
<1>1. n \in Nat /\ << >> \in A
  OBVIOUS
<1>2. \A a \in A, m \in 1..n : op(a, seq[m]) \in A
  OBVIOUS
<1> HIDE DEF op, A, n
<1>3. g \in [A \X (1..n) -> A]
  BY <1>2
<1>4. PICK f : Folded(f, A, n, << >>, g)
  <2> HIDE DEF g
  <2> QED BY <1>1, <1>3, FoldExists
<1>5. Is(f)
  <2>1. ASSUME NEW m \in 1..n PROVE f[m] = op(f[m - 1], seq[m])
    <3>1. m - 1 \in 0..n /\ m \in 1..n
      BY <1>1
    <3>2. f[m - 1] \in A /\ f[m] = g[<<f[m - 1], m>>]
      <4> HIDE DEF g
      <4> QED BY <1>4, <3>1 DEF Folded
    <3> QED BY <3>1, <3>2
  <2> HIDE DEF g
  <2> QED BY <1>1, <1>4, <2>1 DEF Folded
<1>6. Is(after)
  <2> HIDE DEF Is
  <2> QED BY <1>5
<1>7. after[n] \in A
  <2>1. Carries(after, A, n)
    <3> HIDE DEF after
    <3>1. after[0] \in A
      BY <1>1, <1>6
    <3>2. ASSUME NEW m \in 1..n, after[m - 1] \in A PROVE after[m] \in A
      <4>1. m \in 0..n /\ m # 0
        BY <1>1
      <4>2. after[m] = op(after[m - 1], seq[m])
        BY <1>6, <4>1
      <4> QED BY <1>2, <3>2, <4>2
    <3> QED BY <3>1, <3>2 DEF Carries
  <2> HIDE DEF after
  <2> QED BY <1>1, <2>1, FoldKeeps
<1> QED BY <1>7 DEF Only, Fold, op, A, n

(* A function on 1..n is a sequence of what its values are in.             *)
LEMMA FunctionIsSeq ==
  ASSUME NEW S, NEW m \in Nat, NEW f \in [1..m -> S]
  PROVE  f \in Seq(S) /\ Len(f) = m
OBVIOUS

(* Finitely many numbers have a greatest.                                  *)
LEMMA MaxType ==
  ASSUME NEW b \in Int, NEW n \in Nat, NEW f \in [1..n -> Int]
  PROVE  /\ Max({b} \cup {f[k] : k \in 1..n}) \in Int
         /\ \A x \in {b} \cup {f[k] : k \in 1..n} : Max({b} \cup {f[k] : k \in 1..n}) >= x
<1> DEFINE Up(m) == {b} \cup {f[k] : k \in 1..m}
           T == {m \in 0..n : \A x \in Up(m) : \E y \in Up(m) : ~ (x >= y)}
<1>1. T = {}
  <2> SUFFICES ASSUME T # {} PROVE FALSE
    OBVIOUS
  <2>0. T \subseteq Nat
    OBVIOUS
  <2>1. PICK m \in T : \A y \in T : m <= y
    <3> HIDE DEF T
    <3> QED BY <2>0, LeastNumber
  <2>2. m # 0
    <3>1. Up(0) = {b}
      OBVIOUS
    <3> QED BY <3>1
  <2>3. m \in 1..n /\ m - 1 \in 0..n /\ m - 1 \notin T
    <3>1. m \in 1..n /\ m - 1 \in 0..n /\ ~ (m <= m - 1)
      BY <2>1, <2>2
    <3> HIDE DEF T
    <3> QED BY <2>1, <3>1
  <2>4. PICK x \in Up(m - 1) : \A y \in Up(m - 1) : x >= y
    BY <2>3
  <2>5. Up(m) = Up(m - 1) \cup {f[m]} /\ f[m] \in Int
    BY <2>3
  <2>6. x \in Int /\ \A y \in Up(m - 1) : y \in Int
    BY <2>3
  <2>7. CASE x >= f[m]
    <3>1. x \in Up(m) /\ \A y \in Up(m) : x >= y
      BY <2>4, <2>5, <2>7
    <3> QED BY <3>1
  <2>8. CASE ~ (x >= f[m])
    <3>1. f[m] \in Up(m) /\ \A y \in Up(m) : f[m] >= y
      BY <2>4, <2>5, <2>6, <2>8
    <3> QED BY <3>1
  <2> QED BY <2>7, <2>8
<1>2. n \notin T /\ n \in 0..n
  <2> HIDE DEF T
  <2> QED BY <1>1
<1>3. \E x \in Up(n) : \A y \in Up(n) : x >= y
  BY <1>2
<1>4. Max(Up(n)) \in Up(n) /\ \A x \in Up(n) : Max(Up(n)) >= x
  <2> HIDE DEF Up
  <2> QED BY <1>3 DEF Max
<1> QED BY <1>4

(* The fields of an instruction and of a block, and blocks with others.    *)
LEMMA InstructionFields ==
  ASSUME NEW n, NEW i \in Instructions(n)
  PROVE  /\ i.op \in Assigning \cup {"close", "return", "jump", "test", "label"}
         /\ i.dst \in 0..n /\ i.srcs \in Seq(1..n) /\ i.val \in Int /\ i.to \in Int
         /\ i.dst = None <=> i.op \notin Assigning
         /\ i.op = "move" => Len(i.srcs) = 1
         /\ i.op \in Operators => Len(i.srcs) = 2
BY DEF Instructions

(* So has one that is no label.                                            *)
LEMMA UnlabelledFields ==
  ASSUME NEW n, NEW i \in Unlabelled(n)
  PROVE  /\ i \in Instructions(n) /\ i.op # "label"
         /\ i.op \in Assigning \cup {"close", "return", "jump", "test"}
         /\ i.dst \in 0..n /\ i.srcs \in Seq(1..n) /\ i.val \in Int /\ i.to \in Int
         /\ i.dst = None <=> i.op \notin Assigning
         /\ i.op = "move" => Len(i.srcs) = 1
         /\ i.op \in Operators => Len(i.srcs) = 2
BY InstructionFields DEF Unlabelled

(* A block has its fields, and stays one with any of them replaced.        *)
LEMMA BlockFields ==
  ASSUME NEW n, NEW b \in Blocks(n)
  PROVE  /\ b.label \in Int /\ b.code \in Seq(Unlabelled(n))
         /\ b.succs \in Seq(Int) /\ b.preds \in Seq(Int)
         /\ \A c \in Seq(Unlabelled(n)) : [b EXCEPT !.code = c] \in Blocks(n)
         /\ \A l \in Seq(Int) : [b EXCEPT !.succs = l] \in Blocks(n)
         /\ \A l \in Seq(Int) : [b EXCEPT !.preds = l] \in Blocks(n)
<1> DEFINE S == Seq(Unlabelled(n))
           T == Seq(Int)
<1>1. Blocks(n) = [label : Int, code : S, succs : T, preds : T]
  BY DEF Blocks
<1> HIDE DEF S, T
<1>2. /\ b.label \in Int /\ b.code \in S /\ b.succs \in T /\ b.preds \in T
      /\ b = [label |-> b.label, code |-> b.code, succs |-> b.succs, preds |-> b.preds]
  BY <1>1
<1>3. ASSUME NEW c \in S, NEW l \in T
      PROVE  /\ [b EXCEPT !.code = c] \in Blocks(n)
             /\ [b EXCEPT !.succs = l] \in Blocks(n)
             /\ [b EXCEPT !.preds = l] \in Blocks(n)
  <2>1. /\ [b EXCEPT !.code = c] =
             [label |-> b.label, code |-> c, succs |-> b.succs, preds |-> b.preds]
        /\ [b EXCEPT !.succs = l] =
             [label |-> b.label, code |-> b.code, succs |-> l, preds |-> b.preds]
        /\ [b EXCEPT !.preds = l] =
             [label |-> b.label, code |-> b.code, succs |-> b.succs, preds |-> l]
    BY <1>2
  <2> QED BY <1>1, <1>2, <2>1
<1>4. << >> \in S /\ << >> \in T
  BY DEF S, T
<1> QED BY <1>2, <1>3, <1>4 DEF S, T

(* The code of a block is of instructions.                                 *)
LEMMA BlockCode ==
  ASSUME NEW n, NEW b \in Blocks(n)
  PROVE  b.code \in Seq(Instructions(n))
<1>1. b.code \in Seq(Unlabelled(n))
  BY BlockFields
<1>2. Unlabelled(n) \subseteq Instructions(n)
  BY DEF Unlabelled
<1> QED BY <1>1, <1>2

(* The block build_cfg starts with.                                        *)
LEMMA EmptyBlockType ==
  ASSUME NEW n, NEW l \in Int PROVE EmptyBlock(l) \in Blocks(n)
BY DEF EmptyBlock, Blocks

(* The labels build_cfg makes up start above the greatest there is.        *)
LEMMA MaxLabelType ==
  ASSUME NEW n \in Nat, NEW code \in Seq(Instructions(n))
  PROVE  MaxLabel(code) \in Int
<1> DEFINE f == [k \in 1..Len(code) |-> code[k].to]
<1>1. f \in [1..Len(code) -> Int] /\ Len(code) \in Nat
  <2>1. Len(code) \in Nat /\ \A k \in 1..Len(code) : code[k] \in Instructions(n)
    OBVIOUS
  <2>2. \A k \in 1..Len(code) : code[k].to \in Int
    BY <2>1, InstructionFields
  <2> QED BY <2>1, <2>2
<1>2. {code[k].to : k \in DOMAIN code} = {f[k] : k \in 1..Len(code)}
  OBVIOUS
<1>3. FirstAutoLabel \in Int
  BY DEF FirstAutoLabel
<1> HIDE DEF f
<1>4. Max({FirstAutoLabel} \cup {f[k] : k \in 1..Len(code)}) \in Int
  BY <1>1, <1>3, MaxType
<1> QED BY <1>2, <1>4 DEF MaxLabel

(* A block where there is one.                                             *)
LEMMA FindBlockType ==
  ASSUME NEW blocks, NEW l, HasBlock(blocks, l)
  PROVE  FindBlock(blocks, l) \in DOMAIN blocks /\ blocks[FindBlock(blocks, l)].label = l
BY DEF FindBlock, HasBlock

(* One instruction more is cut into blocks.                                *)
LEMMA AddToBlocksType ==
  ASSUME NEW n \in Nat, NEW code \in Seq(Instructions(n)), NEW k \in 1..Len(code),
         NEW bs \in Seq(Blocks(n))
  PROVE  AddToBlocks(code, bs, k) \in Seq(Blocks(n))
<1>1. code[k] \in Instructions(n) /\ code[k].to \in Int /\ MaxLabel(code) + k \in Int
  <2>1. code[k] \in Instructions(n)
    OBVIOUS
  <2> QED BY <2>1, MaxLabelType, InstructionFields
<1>2. \A l \in Int : EmptyBlock(l) \in Blocks(n)
  BY EmptyBlockType
<1>6. ~IsLeader(code, k) \/ code[k].op # "label" => code[k] \in Unlabelled(n)
  BY <1>1 DEF IsLeader, Unlabelled
<1>3. CASE ~IsLeader(code, k)
  <2>1. CASE Len(bs) = 0
    <3>1. [bs EXCEPT ![Len(bs)].code = Append(@, code[k])] = bs
      BY <2>1
    <3> QED BY <1>3, <3>1 DEF AddToBlocks
  <2>2. CASE Len(bs) # 0
    <3>1. Len(bs) \in DOMAIN bs /\ bs[Len(bs)] \in Blocks(n)
      BY <2>2
    <3>2. [bs[Len(bs)] EXCEPT !.code = Append(@, code[k])] \in Blocks(n)
      <4>1. Append(bs[Len(bs)].code, code[k]) \in Seq(Unlabelled(n))
        BY <1>3, <1>6, <3>1, BlockFields
      <4> QED BY <3>1, <4>1, BlockFields
    <3> QED BY <1>3, <3>1, <3>2 DEF AddToBlocks
  <2> QED BY <2>1, <2>2
<1>4. CASE IsLeader(code, k) /\ code[k].op = "label"
  BY <1>1, <1>2, <1>4 DEF AddToBlocks
<1>5. CASE IsLeader(code, k) /\ code[k].op # "label"
  <2>1. [EmptyBlock(MaxLabel(code) + k) EXCEPT !.code = <<code[k]>>] \in Blocks(n)
    <3>1. <<code[k]>> \in Seq(Unlabelled(n)) /\ EmptyBlock(MaxLabel(code) + k) \in Blocks(n)
      BY <1>1, <1>2, <1>5, <1>6
    <3> QED BY <3>1, BlockFields
  <2> QED BY <1>5, <2>1 DEF AddToBlocks
<1> QED BY <1>3, <1>4, <1>5

(* The blocks of flat code, before they are connected.                     *)
LEMMA CutBlocksType ==
  ASSUME NEW N \in Nat, NEW code \in Seq(Instructions(N))
  PROVE  CutBlocks(code) \in Seq(Blocks(N))
<1> DEFINE seq == [k \in DOMAIN code |-> k]
           n == Len(seq)
           A == Seq(Blocks(N))
           op(bs, k) == AddToBlocks(code, bs, k)
           g == [p \in A \X (1..n) |-> op(p[1], seq[p[2]])]
           Is(f) == f = [m \in 0..n |-> IF m = 0 THEN << >> ELSE op(f[m - 1], seq[m])]
           after == CHOOSE f : Is(f)
<1>1. n \in Nat /\ << >> \in A
  OBVIOUS
<1>2. \A a \in A, m \in 1..n : op(a, seq[m]) \in A
  BY AddToBlocksType
<1> HIDE DEF op, A, n, seq
<1>3. g \in [A \X (1..n) -> A]
  BY <1>2
<1>4. PICK f : Folded(f, A, n, << >>, g)
  <2> HIDE DEF g
  <2> QED BY <1>1, <1>3, FoldExists
<1>5. Is(f)
  <2>1. ASSUME NEW m \in 1..n PROVE f[m] = op(f[m - 1], seq[m])
    <3>1. m - 1 \in 0..n /\ m \in 1..n
      BY <1>1
    <3>2. f[m - 1] \in A /\ f[m] = g[<<f[m - 1], m>>]
      <4> HIDE DEF g
      <4> QED BY <1>4, <3>1 DEF Folded
    <3> QED BY <3>1, <3>2
  <2> HIDE DEF g
  <2> QED BY <1>1, <1>4, <2>1 DEF Folded
<1>6. Is(after)
  <2> HIDE DEF Is
  <2> QED BY <1>5
<1>7. after[n] \in A
  <2>1. Carries(after, A, n)
    <3> HIDE DEF after
    <3>1. after[0] \in A
      BY <1>1, <1>6
    <3>2. ASSUME NEW m \in 1..n, after[m - 1] \in A PROVE after[m] \in A
      <4>1. m \in 0..n /\ m # 0
        BY <1>1
      <4>2. after[m] = op(after[m - 1], seq[m])
        BY <1>6, <4>1
      <4> QED BY <1>2, <3>2, <4>2
    <3> QED BY <3>1, <3>2 DEF Carries
  <2> HIDE DEF after
  <2> QED BY <1>1, <2>1, FoldKeeps
<1> QED BY <1>7 DEF CutBlocks, Fold, op, A, n, seq

(* A block and the labels it goes on to.                                   *)
LEMMA ConnectType ==
  ASSUME NEW n \in Nat, NEW blocks \in Seq(Blocks(n)), NEW k \in DOMAIN blocks
  PROVE  Connect(blocks, k) \in Blocks(n)
<1> DEFINE b == blocks[k]
           falls == Ends(b) \notin {"return", "jump"} /\ k < Len(blocks)
           taken == IF Ends(b) \in {"jump", "test"} THEN <<Last(b.code).to>> ELSE << >>
           next == IF falls THEN <<blocks[k + 1].label>> ELSE << >>
           jumps == [m \in 1..Len(next) |-> Jump(next[m])]
<1>1. b \in Blocks(n) /\ k \in 1..Len(blocks) /\ Len(blocks) \in Nat
  OBVIOUS
<1>2. taken \in Seq(Int)
  <2>1. ASSUME Ends(b) \in {"jump", "test"} PROVE Last(b.code).to \in Int
    <3>1. b.code \in Seq(Unlabelled(n)) /\ b.code # << >>
      BY <1>1, <2>1 DEF Blocks, Ends
    <3>2. Last(b.code) \in Unlabelled(n)
      BY <3>1 DEF Last
    <3> QED BY <3>2, UnlabelledFields
  <2> HIDE DEF b
  <2> QED BY <2>1
<1>3. next \in Seq(Int)
  <2>1. ASSUME falls PROVE blocks[k + 1].label \in Int
    <3>1. blocks[k + 1] \in Blocks(n)
      BY <1>1, <2>1
    <3> QED BY <3>1 DEF Blocks
  <2> HIDE DEF falls
  <2> QED BY <2>1
<1>4. jumps \in Seq(Unlabelled(n))
  <2>1. \A l \in Int : Jump(l) \in Unlabelled(n)
    BY DEF Jump, Inst, Unlabelled, Instructions, None, Assigning, Operators
  <2> HIDE DEF next
  <2> QED BY <1>3, <2>1
<1>5. Connect(blocks, k) =
        [b EXCEPT !.code = @ \o jumps, !.succs = IF taken = next THEN taken ELSE taken \o next]
  BY DEF Connect
<1> HIDE DEF b, taken, next, jumps
<1>6. b.code \o jumps \in Seq(Unlabelled(n))
  BY <1>1, <1>4 DEF Blocks
<1>7. (IF taken = next THEN taken ELSE taken \o next) \in Seq(Int)
  BY <1>2, <1>3
<1> QED BY <1>1, <1>5, <1>6, <1>7 DEF Blocks

(* The labels of the blocks that go on to one.                             *)
LEMMA PredecessorsType ==
  ASSUME NEW n \in Nat, NEW blocks \in Seq(Blocks(n)), NEW l
  PROVE  Predecessors(blocks, l) \in Seq(Int)
<1> DEFINE from == Only(blocks, {b \in ToSet(blocks) : Contains(b.succs, l)})
           labels == [k \in DOMAIN from |-> from[k].label]
<1>1. from \in Seq(Blocks(n))
  <2>1. from \in Seq(Blocks(n) \cap {b \in ToSet(blocks) : Contains(b.succs, l)})
    BY OnlyType
  <2> HIDE DEF from
  <2> QED BY <2>1
<1>2. labels \in Seq(Int)
  <2> HIDE DEF from
  <2>1. \A k \in DOMAIN from : from[k] \in Blocks(n)
    BY <1>1
  <2>2. \A k \in DOMAIN from : from[k].label \in Int
    BY <2>1, BlockFields
  <2> QED BY <1>1, <2>2
<1>3. Predecessors(blocks, l) = << >> \o labels
  BY DEF Predecessors, Map
<1> HIDE DEF labels
<1> QED BY <1>2, <1>3

(* build_cfg makes a graph of any code.                                    *)
LEMMA BuildCfgType ==
  ASSUME NEW n \in Nat, NEW code \in Seq(Instructions(n))
  PROVE  BuildCfg(code) \in Graphs(n)
<1> DEFINE cut == CutBlocks(code)
           blocks == [k \in DOMAIN cut |-> Connect(cut, k)]
           known == [k \in DOMAIN blocks |->
                       [blocks[k] EXCEPT !.preds = Predecessors(blocks, blocks[k].label)]]
<1>1. cut \in Seq(Blocks(n))
  BY CutBlocksType
<1>2. BuildCfg(code) = IF cut = << >> THEN [entry |-> None, blocks |-> <<EmptyBlock(None)>>]
                       ELSE [entry |-> blocks[1].label, blocks |-> << >> \o known]
  BY DEF BuildCfg, Map
<1>3. <<EmptyBlock(None)>> \in Seq(Blocks(n)) /\ None \in Int
  <2>1. None \in Int
    BY DEF None
  <2>2. EmptyBlock(None) \in Blocks(n)
    BY <2>1, EmptyBlockType
  <2> QED BY <2>1, <2>2
<1> HIDE DEF cut
<1>4. blocks \in Seq(Blocks(n))
  <2>1. \A k \in DOMAIN cut : blocks[k] \in Blocks(n)
    BY <1>1, ConnectType
  <2>2. blocks = [k \in 1..Len(cut) |-> blocks[k]] /\ Len(cut) \in Nat
    BY <1>1
  <2>3. DOMAIN cut = 1..Len(cut)
    BY <1>1
  <2> HIDE DEF blocks
  <2> QED BY <2>1, <2>2, <2>3
<1>5. cut # << >> => blocks[1].label \in Int
  <2>1. cut # << >> => 1 \in DOMAIN blocks
    BY <1>1
  <2> HIDE DEF blocks
  <2>2. cut # << >> => blocks[1] \in Blocks(n)
    BY <1>4, <2>1
  <2> QED BY <2>2, BlockFields
<1>6. known \in Seq(Blocks(n))
  <2> HIDE DEF blocks
  <2>1. \A k \in DOMAIN blocks : known[k] \in Blocks(n)
    <3>1. ASSUME NEW k \in DOMAIN blocks PROVE blocks[k] \in Blocks(n)
      BY <1>4
    <3>2. \A l : Predecessors(blocks, l) \in Seq(Int)
      BY <1>4, PredecessorsType
    <3> QED BY <3>1, <3>2, BlockFields
  <2> QED BY <1>4, <2>1
<1> HIDE DEF blocks, known
<1> QED BY <1>2, <1>3, <1>5, <1>6 DEF Graphs

(* What is laid out is what the blocks hold, and their labels.             *)
LEMMA LaidOutOver ==
  ASSUME NEW X, NEW blocks, NEW k, Label(blocks[k].label) \in X, blocks[k].code \in Seq(X)
  PROVE  LaidOut(blocks, k) \in Seq(X)
<1>1. <<Label(blocks[k].label)>> \in Seq(X)
  OBVIOUS
<1>2. IsNeedless(blocks, k) => Front(blocks[k].code) \in Seq(X)
  BY DEF IsNeedless, Front
<1> QED BY <1>1, <1>2 DEF LaidOut

(* What a graph is laid out into is made of its code and its labels.       *)
LEMMA FlattenOver ==
  ASSUME NEW X, NEW cfg, NEW S, cfg.blocks \in Seq(S),
         \A k \in DOMAIN cfg.blocks :
           Label(cfg.blocks[k].label) \in X /\ cfg.blocks[k].code \in Seq(X)
  PROVE  Flatten(cfg) \in Seq(X)
<1> DEFINE seq == [k \in DOMAIN cfg.blocks |-> k]
           n == Len(seq)
           A == Seq(X)
           op(out, k) == out \o LaidOut(cfg.blocks, k)
           g == [p \in A \X (1..n) |-> op(p[1], seq[p[2]])]
           Is(f) == f = [m \in 0..n |-> IF m = 0 THEN << >> ELSE op(f[m - 1], seq[m])]
           after == CHOOSE f : Is(f)
<1>1. n \in Nat /\ << >> \in A
  OBVIOUS
<1>2. \A a \in A, m \in 1..n : op(a, seq[m]) \in A
  <2>1. \A m \in 1..n : seq[m] \in DOMAIN cfg.blocks
    OBVIOUS
  <2>2. \A k \in DOMAIN cfg.blocks : LaidOut(cfg.blocks, k) \in Seq(X)
    BY LaidOutOver
  <2> HIDE DEF n, seq
  <2> QED BY <2>1, <2>2
<1> HIDE DEF op, A, n, seq
<1>3. g \in [A \X (1..n) -> A]
  BY <1>2
<1>4. PICK f : Folded(f, A, n, << >>, g)
  <2> HIDE DEF g
  <2> QED BY <1>1, <1>3, FoldExists
<1>5. Is(f)
  <2>1. ASSUME NEW m \in 1..n PROVE f[m] = op(f[m - 1], seq[m])
    <3>1. m - 1 \in 0..n /\ m \in 1..n
      BY <1>1
    <3>2. f[m - 1] \in A /\ f[m] = g[<<f[m - 1], m>>]
      <4> HIDE DEF g
      <4> QED BY <1>4, <3>1 DEF Folded
    <3> QED BY <3>1, <3>2
  <2> HIDE DEF g
  <2> QED BY <1>1, <1>4, <2>1 DEF Folded
<1>6. Is(after)
  <2> HIDE DEF Is
  <2> QED BY <1>5
<1>7. after[n] \in A
  <2>1. Carries(after, A, n)
    <3> HIDE DEF after
    <3>1. after[0] \in A
      BY <1>1, <1>6
    <3>2. ASSUME NEW m \in 1..n, after[m - 1] \in A PROVE after[m] \in A
      <4>1. m \in 0..n /\ m # 0
        BY <1>1
      <4>2. after[m] = op(after[m - 1], seq[m])
        BY <1>6, <4>1
      <4> QED BY <1>2, <3>2, <4>2
    <3> QED BY <3>1, <3>2 DEF Carries
  <2> HIDE DEF after
  <2> QED BY <1>1, <2>1, FoldKeeps
<1> QED BY <1>7 DEF Flatten, Fold, op, A, n, seq

(* to_flat_instructions makes code of any graph.                           *)
LEMMA FlattenType ==
  ASSUME NEW N \in Nat, NEW cfg \in Graphs(N)
  PROVE  Flatten(cfg) \in Seq(Instructions(N))
<1>1. cfg.blocks \in Seq(Blocks(N))
  BY DEF Graphs
<1>2. ASSUME NEW k \in DOMAIN cfg.blocks
      PROVE  /\ Label(cfg.blocks[k].label) \in Instructions(N)
             /\ cfg.blocks[k].code \in Seq(Instructions(N))
  <2>1. cfg.blocks[k].label \in Int /\ cfg.blocks[k].code \in Seq(Unlabelled(N))
    BY <1>1, BlockFields
  <2>2. Unlabelled(N) \subseteq Instructions(N)
    BY DEF Unlabelled
  <2>3. cfg.blocks[k].code \in Seq(Instructions(N))
    BY <2>1, <2>2
  <2> QED BY <2>1, <2>3 DEF Label, Inst, Instructions, None, Assigning, Operators
<1> QED BY <1>1, <1>2, FlattenOver

-----------------------------------------------------------------------------
(* A graph has its fields, and is one with other blocks.                   *)
LEMMA GraphFields ==
  ASSUME NEW n, NEW cfg \in Graphs(n)
  PROVE  /\ cfg.entry \in Int /\ cfg.blocks \in Seq(Blocks(n))
         /\ \A bs \in Seq(Blocks(n)) : [cfg EXCEPT !.blocks = bs] \in Graphs(n)
         /\ \A k \in DOMAIN cfg.blocks : cfg.blocks[k] \in Blocks(n)
<1> DEFINE S == Seq(Blocks(n))
<1>1. Graphs(n) = [entry : Int, blocks : S]
  BY DEF Graphs
<1>2. cfg.entry \in Int /\ cfg.blocks \in S
      /\ cfg = [entry |-> cfg.entry, blocks |-> cfg.blocks]
  <2> HIDE DEF S
  <2> QED BY <1>1
<1>3. \A bs \in S : [cfg EXCEPT !.blocks = bs] = [entry |-> cfg.entry, blocks |-> bs]
  BY <1>2
<1>4. \A k \in DOMAIN cfg.blocks : cfg.blocks[k] \in Blocks(n)
  BY <1>2
<1> HIDE DEF S
<1>5. \A bs \in S : [cfg EXCEPT !.blocks = bs] \in Graphs(n)
  BY <1>1, <1>2, <1>3
<1> QED BY <1>2, <1>4, <1>5 DEF S

(* A block found by its label.                                             *)
LEMMA BlockType ==
  ASSUME NEW n, NEW cfg \in Graphs(n), NEW l \in Int
  PROVE  Block(cfg, l) \in Blocks(n)
BY GraphFields, FindBlockType, EmptyBlockType DEF Block

(* Instructions like others, or made anew.                                 *)
LEMMA InstructionsLike ==
  ASSUME NEW n \in Nat, NEW i \in Instructions(n)
  PROVE  /\ \A t \in Int : [i EXCEPT !.to = t] \in Instructions(n)
         /\ \A q \in Seq(1..n) : Len(q) = Len(i.srcs) => [i EXCEPT !.srcs = q] \in Instructions(n)
<1> DEFINE S == Seq(1..n)
           D == 0..n
           Ops == Assigning \cup {"close", "return", "jump", "test", "label"}
           Right(j) == /\ j.dst = None <=> j.op \notin Assigning
                       /\ j.op = "move" => Len(j.srcs) = 1
                       /\ j.op \in Operators => Len(j.srcs) = 2
                       /\ j.op = "jump" => Len(j.srcs) = 0 /\ j.val = None
           R == [op : Ops, dst : D, srcs : S, val : Int, to : Int]
<1>1. \A j : j \in Instructions(n) <=> j \in R /\ Right(j)
  BY DEF Instructions
<1>2. i \in R /\ Right(i)
  BY <1>1
<1> HIDE DEF S, D, Ops
<1>3. i = [op |-> i.op, dst |-> i.dst, srcs |-> i.srcs, val |-> i.val, to |-> i.to]
      /\ i.op \in Ops /\ i.dst \in D /\ i.srcs \in S /\ i.val \in Int /\ i.to \in Int
  BY <1>2
<1>4. ASSUME NEW t \in Int PROVE [i EXCEPT !.to = t] \in R /\ Right([i EXCEPT !.to = t])
  <2>1. [i EXCEPT !.to = t] = [op |-> i.op, dst |-> i.dst, srcs |-> i.srcs, val |-> i.val, to |-> t]
    BY <1>3
  <2> QED BY <1>2, <1>3, <2>1
<1>5. ASSUME NEW q \in S, Len(q) = Len(i.srcs)
      PROVE [i EXCEPT !.srcs = q] \in R /\ Right([i EXCEPT !.srcs = q])
  <2>1. [i EXCEPT !.srcs = q] = [op |-> i.op, dst |-> i.dst, srcs |-> q, val |-> i.val, to |-> i.to]
    BY <1>3
  <2> QED BY <1>2, <1>3, <1>5, <2>1
<1> HIDE DEF R, Right
<1> QED BY <1>1, <1>4, <1>5 DEF S

(* The instructions the builder and the passes make are instructions.      *)
LEMMA NewInstructions ==
  ASSUME NEW n \in Nat
  PROVE  /\ \A d, v \in 1..n : Move(d, v) \in Instructions(n)
         /\ \A d \in 1..n, c \in Int : LoadConst(d, c) \in Instructions(n)
         /\ \A l \in Int : Jump(l) \in Instructions(n)
         /\ \A l \in Int : Label(l) \in Instructions(n)
         /\ \A v \in 1..n, l \in Int : JumpIfFalse(v, l) \in Instructions(n)
         /\ \A vs \in Seq(1..n) : Return(vs) \in Instructions(n)
         /\ \A vs \in Seq(1..n) : CloseUpvals(vs) \in Instructions(n)
         /\ \A d \in 1..n, vs \in Seq(1..n) : Call(d, vs) \in Instructions(n)
         /\ \A d \in 1..n, vs \in Seq(1..n) : Closure(d, vs) \in Instructions(n)
         /\ \A d, v, w \in 1..n, o \in Operators : BinOp(d, o, v, w) \in Instructions(n)
BY DEF Move, LoadConst, Jump, Label, JumpIfFalse, Return, CloseUpvals, Call, Closure, BinOp,
       Inst, Instructions, Assigning, Operators, None

(* Those inside blocks among them.                                         *)
LEMMA NewUnlabelled ==
  ASSUME NEW n \in Nat
  PROVE  /\ \A d, v \in 1..n : Move(d, v) \in Unlabelled(n)
         /\ \A d \in 1..n, c \in Int : LoadConst(d, c) \in Unlabelled(n)
         /\ \A l \in Int : Jump(l) \in Unlabelled(n)
         /\ \A i \in Unlabelled(n) :
              /\ \A t \in Int : [i EXCEPT !.to = t] \in Unlabelled(n)
              /\ \A q \in Seq(1..n) : Len(q) = Len(i.srcs) => [i EXCEPT !.srcs = q] \in Unlabelled(n)
<1>1. /\ \A d, v \in 1..n : Move(d, v).op = "move"
      /\ \A d \in 1..n, c \in Int : LoadConst(d, c).op = "const"
      /\ \A l \in Int : Jump(l).op = "jump"
  BY DEF Move, LoadConst, Jump, Inst
<1>2. ASSUME NEW i \in Unlabelled(n)
      PROVE  /\ \A t \in Int : [i EXCEPT !.to = t] \in Unlabelled(n)
             /\ \A q \in Seq(1..n) : Len(q) = Len(i.srcs) => [i EXCEPT !.srcs = q] \in Unlabelled(n)
  <2>1. i \in Instructions(n) /\ i.op # "label"
    BY DEF Unlabelled
  <2>2. \A x : [i EXCEPT !.to = x].op = i.op /\ [i EXCEPT !.srcs = x].op = i.op
    <3>1. i = [op |-> i.op, dst |-> i.dst, srcs |-> i.srcs, val |-> i.val, to |-> i.to]
      BY <2>1 DEF Instructions
    <3> QED BY <3>1
  <2>3. ASSUME NEW t \in Int PROVE [i EXCEPT !.to = t] \in Unlabelled(n)
    <3>1. [i EXCEPT !.to = t] \in Instructions(n)
      BY <2>1, InstructionsLike
    <3> QED BY <2>1, <2>2, <3>1 DEF Unlabelled
  <2>4. ASSUME NEW q \in Seq(1..n), Len(q) = Len(i.srcs) PROVE [i EXCEPT !.srcs = q] \in Unlabelled(n)
    <3>1. [i EXCEPT !.srcs = q] \in Instructions(n)
      BY <2>1, <2>4, InstructionsLike
    <3> QED BY <2>1, <2>2, <3>1 DEF Unlabelled
  <2> QED BY <2>3, <2>4
<1> QED BY <1>1, <1>2, NewInstructions DEF Unlabelled

(* 1. Loop invariant code motion.                                          *)
LEMMA LabelsType ==
  ASSUME NEW n, NEW cfg \in Graphs(n)
  PROVE  Labels(cfg) \in Seq(Int) /\ Len(Labels(cfg)) = Len(cfg.blocks)
<1> DEFINE labels == [k \in DOMAIN cfg.blocks |-> cfg.blocks[k].label]
<1>1. \A k \in DOMAIN cfg.blocks : cfg.blocks[k].label \in Int
  BY GraphFields, BlockFields
<1>2. cfg.blocks \in Seq(Blocks(n))
  BY GraphFields
<1>3. labels \in Seq(Int) /\ Len(labels) = Len(cfg.blocks)
  BY <1>1, <1>2
<1>4. Labels(cfg) = << >> \o labels
  BY DEF Labels, Map
<1> HIDE DEF labels
<1> QED BY <1>3, <1>4

(* The loops a block closes, with their bodies.                            *)
LEMMA LoopsBackFromType ==
  ASSUME NEW n, NEW cfg \in Graphs(n), NEW b \in Blocks(n)
  PROVE  LoopsBackFrom(cfg, b) \in
           Seq({[header |-> h, body |-> LoopBody(cfg, h, l)] : h \in Int, l \in Int})
<1> DEFINE heads == Only(b.succs, {h \in ToSet(b.succs) : Dominates(cfg, h, b.label)})
           loops == [k \in DOMAIN heads |->
                       [header |-> heads[k], body |-> LoopBody(cfg, heads[k], b.label)]]
<1>1. b.succs \in Seq(Int) /\ b.label \in Int
  BY BlockFields
<1>2. heads \in Seq(Int)
  <2> DEFINE S == {h \in ToSet(b.succs) : Dominates(cfg, h, b.label)}
  <2> HIDE DEF S
  <2>1. Only(b.succs, S) \in Seq(Int \cap S)
    BY <1>1, OnlyType
  <2>2. Only(b.succs, S) \in Seq(Int)
    BY <2>1
  <2> QED BY <2>2 DEF S
<1>3. LoopsBackFrom(cfg, b) = << >> \o loops
  BY DEF LoopsBackFrom, Map
<1> HIDE DEF heads
<1>4. loops \in Seq({[header |-> h, body |-> LoopBody(cfg, h, l)] : h \in Int, l \in Int})
  BY <1>1, <1>2
<1> QED BY <1>3, <1>4

(* The natural loops of a graph.                                           *)
LEMMA NaturalLoopsType ==
  ASSUME NEW N, NEW cfg \in Graphs(N)
  PROVE  /\ Len(NaturalLoops(cfg)) \in Nat
         /\ \A k \in 1..Len(NaturalLoops(cfg)) : NaturalLoops(cfg)[k].header \in Int
<1> DEFINE seq == cfg.blocks
           n == Len(seq)
           A == Seq({[header |-> h, body |-> LoopBody(cfg, h, l)] : h \in Int, l \in Int})
           op(loops, b) == loops \o LoopsBackFrom(cfg, b)
           g == [p \in A \X (1..n) |-> op(p[1], seq[p[2]])]
           Is(f) == f = [m \in 0..n |-> IF m = 0 THEN << >> ELSE op(f[m - 1], seq[m])]
           after == CHOOSE f : Is(f)
<1>1. n \in Nat /\ << >> \in A
  BY GraphFields
<1>2. \A a \in A, m \in 1..n : op(a, seq[m]) \in A
  <2>1. \A m \in 1..n : seq[m] \in Blocks(N)
    BY GraphFields
  <2>2. \A m \in 1..n : LoopsBackFrom(cfg, seq[m]) \in A
    <3> HIDE DEF n, seq
    <3> QED BY <2>1, LoopsBackFromType
  <2> HIDE DEF n, seq
  <2> QED BY <2>2
<1> HIDE DEF op, A, n, seq
<1>3. g \in [A \X (1..n) -> A]
  BY <1>2
<1>4. PICK f : Folded(f, A, n, << >>, g)
  <2> HIDE DEF g
  <2> QED BY <1>1, <1>3, FoldExists
<1>5. Is(f)
  <2>1. ASSUME NEW m \in 1..n PROVE f[m] = op(f[m - 1], seq[m])
    <3>1. m - 1 \in 0..n /\ m \in 1..n
      BY <1>1
    <3>2. f[m - 1] \in A /\ f[m] = g[<<f[m - 1], m>>]
      <4> HIDE DEF g
      <4> QED BY <1>4, <3>1 DEF Folded
    <3> QED BY <3>1, <3>2
  <2> HIDE DEF g
  <2> QED BY <1>1, <1>4, <2>1 DEF Folded
<1>6. Is(after)
  <2> HIDE DEF Is
  <2> QED BY <1>5
<1>7. after[n] \in A
  <2>1. Carries(after, A, n)
    <3> HIDE DEF after
    <3>1. after[0] \in A
      BY <1>1, <1>6
    <3>2. ASSUME NEW m \in 1..n, after[m - 1] \in A PROVE after[m] \in A
      <4>1. m \in 0..n /\ m # 0
        BY <1>1
      <4>2. after[m] = op(after[m - 1], seq[m])
        BY <1>6, <4>1
      <4> QED BY <1>2, <3>2, <4>2
    <3> QED BY <3>1, <3>2 DEF Carries
  <2> HIDE DEF after
  <2> QED BY <1>1, <2>1, FoldKeeps
<1>8. NaturalLoops(cfg) \in A
  BY <1>7 DEF NaturalLoops, Fold, op, n, seq
<1> QED BY <1>8 DEF A

(* What is left of each block and what is given up are instructions.       *)
Split(n, body) == [left : [body -> Seq(Unlabelled(n))], hoisted : Seq(Unlabelled(n))]

(* An instruction of a loop is taken out of it or left.                    *)
LEMMA TakeOrLeaveType ==
  ASSUME NEW n, NEW cfg, NEW lp, NEW l, NEW acc \in Split(n, lp.body), NEW i \in Unlabelled(n)
  PROVE  TakeOrLeave(cfg, lp, l, acc, i) \in Split(n, lp.body)
<1> DEFINE S == Seq(Unlabelled(n))
           F == [lp.body -> S]
           took == [acc EXCEPT !.hoisted = Append(@, i)]
           leaves == [acc EXCEPT !.left[l] = Append(@, i)]
<1>1. Split(n, lp.body) = [left : F, hoisted : S]
  BY DEF Split
<1>2. \A q \in S : Append(q, i) \in S
  OBVIOUS
<1> HIDE DEF S
<1>3. acc.left \in F /\ acc.hoisted \in S /\ acc = [left |-> acc.left, hoisted |-> acc.hoisted]
  <2> HIDE DEF F
  <2> QED BY <1>1
<1>4. [acc.left EXCEPT ![l] = Append(@, i)] \in F
  <2>1. l \in lp.body => Append(acc.left[l], i) \in S
    BY <1>2, <1>3
  <2> QED BY <1>3, <2>1
<1>5. took = [left |-> acc.left, hoisted |-> Append(acc.hoisted, i)]
      /\ leaves = [left |-> [acc.left EXCEPT ![l] = Append(@, i)], hoisted |-> acc.hoisted]
  <2> DEFINE L == [acc.left EXCEPT ![l] = Append(@, i)]
             H == Append(acc.hoisted, i)
  <2>1. took = [acc EXCEPT !.hoisted = H] /\ leaves = [acc EXCEPT !.left = L]
    OBVIOUS
  <2> HIDE DEF L, H, took, leaves, F
  <2>2. [acc EXCEPT !.hoisted = H] = [left |-> acc.left, hoisted |-> H]
        /\ [acc EXCEPT !.left = L] = [left |-> L, hoisted |-> acc.hoisted]
    BY <1>3
  <2> QED BY <2>1, <2>2 DEF L, H
<1>6. TakeOrLeave(cfg, lp, l, acc, i) \in {took, leaves}
  BY DEF TakeOrLeave
<1> HIDE DEF F, took, leaves
<1>7. took \in [left : F, hoisted : S] /\ leaves \in [left : F, hoisted : S]
  BY <1>2, <1>3, <1>4, <1>5
<1> QED BY <1>1, <1>6, <1>7

(* What is taken out of one block of a loop.                               *)
LEMMA HoistFromBlockType ==
  ASSUME NEW N, NEW cfg \in Graphs(N), NEW lp, NEW l \in Int, NEW acc \in Split(N, lp.body)
  PROVE  HoistFromBlock(cfg, lp, acc, l) \in Split(N, lp.body)
<1> DEFINE seq == Block(cfg, l).code
           n == Len(seq)
           A == Split(N, lp.body)
           op(a, i) == TakeOrLeave(cfg, lp, l, a, i)
           g == [p \in A \X (1..n) |-> op(p[1], seq[p[2]])]
           Is(f) == f = [m \in 0..n |-> IF m = 0 THEN acc ELSE op(f[m - 1], seq[m])]
           after == CHOOSE f : Is(f)
<1>0. seq \in Seq(Unlabelled(N))
  BY BlockType, BlockFields
<1>1. n \in Nat /\ acc \in A
  BY <1>0
<1>2. \A a \in A, m \in 1..n : op(a, seq[m]) \in A
  <2>1. \A m \in 1..n : seq[m] \in Unlabelled(N)
    BY <1>0
  <2> HIDE DEF n, seq
  <2> QED BY <2>1, TakeOrLeaveType
<1> HIDE DEF op, A, n, seq
<1>3. g \in [A \X (1..n) -> A]
  BY <1>2
<1>4. PICK f : Folded(f, A, n, acc, g)
  <2> HIDE DEF g
  <2> QED BY <1>1, <1>3, FoldExists
<1>5. Is(f)
  <2>1. ASSUME NEW m \in 1..n PROVE f[m] = op(f[m - 1], seq[m])
    <3>1. m - 1 \in 0..n /\ m \in 1..n
      BY <1>1
    <3>2. f[m - 1] \in A /\ f[m] = g[<<f[m - 1], m>>]
      <4> HIDE DEF g
      <4> QED BY <1>4, <3>1 DEF Folded
    <3> QED BY <3>1, <3>2
  <2> HIDE DEF g
  <2> QED BY <1>1, <1>4, <2>1 DEF Folded
<1>6. Is(after)
  <2> HIDE DEF Is
  <2> QED BY <1>5
<1>7. after[n] \in A
  <2>1. Carries(after, A, n)
    <3> HIDE DEF after
    <3>1. after[0] \in A
      BY <1>1, <1>6
    <3>2. ASSUME NEW m \in 1..n, after[m - 1] \in A PROVE after[m] \in A
      <4>1. m \in 0..n /\ m # 0
        BY <1>1
      <4>2. after[m] = op(after[m - 1], seq[m])
        BY <1>6, <4>1
      <4> QED BY <1>2, <3>2, <4>2
    <3> QED BY <3>1, <3>2 DEF Carries
  <2> HIDE DEF after
  <2> QED BY <1>1, <2>1, FoldKeeps
<1> QED BY <1>7 DEF HoistFromBlock, Fold, op, A, n, seq

(* What is taken out of a loop is code, and so is what is left.            *)
LEMMA HoistFromType ==
  ASSUME NEW N, NEW cfg \in Graphs(N), NEW lp, lp.header \in Int
  PROVE  HoistFrom(cfg, lp) \in Split(N, lp.body)
<1> DEFINE start == [left |-> [l \in lp.body |-> << >>], hoisted |-> << >>]
           seq == <<lp.header>> \o Only(Labels(cfg), lp.body \ {lp.header})
           n == Len(seq)
           A == Split(N, lp.body)
           op(acc, l) == HoistFromBlock(cfg, lp, acc, l)
           g == [p \in A \X (1..n) |-> op(p[1], seq[p[2]])]
           Is(f) == f = [m \in 0..n |-> IF m = 0 THEN start ELSE op(f[m - 1], seq[m])]
           after == CHOOSE f : Is(f)
<1>0. seq \in Seq(Int)
  <2> DEFINE S == lp.body \ {lp.header}
  <2> HIDE DEF S
  <2>1. Only(Labels(cfg), S) \in Seq(Int \cap S)
    BY LabelsType, OnlyType
  <2>2. Only(Labels(cfg), S) \in Seq(Int)
    BY <2>1
  <2> QED BY <2>2 DEF S
<1>1. n \in Nat /\ start \in A
  BY <1>0 DEF Split
<1>2. \A a \in A, m \in 1..n : op(a, seq[m]) \in A
  <2>1. \A m \in 1..n : seq[m] \in Int
    BY <1>0
  <2> HIDE DEF n, seq
  <2> QED BY <2>1, HoistFromBlockType
<1> HIDE DEF op, A, n, seq, start
<1>3. g \in [A \X (1..n) -> A]
  BY <1>2
<1>4. PICK f : Folded(f, A, n, start, g)
  <2> HIDE DEF g
  <2> QED BY <1>1, <1>3, FoldExists
<1>5. Is(f)
  <2>1. ASSUME NEW m \in 1..n PROVE f[m] = op(f[m - 1], seq[m])
    <3>1. m - 1 \in 0..n /\ m \in 1..n
      BY <1>1
    <3>2. f[m - 1] \in A /\ f[m] = g[<<f[m - 1], m>>]
      <4> HIDE DEF g
      <4> QED BY <1>4, <3>1 DEF Folded
    <3> QED BY <3>1, <3>2
  <2> HIDE DEF g
  <2> QED BY <1>1, <1>4, <2>1 DEF Folded
<1>6. Is(after)
  <2> HIDE DEF Is
  <2> QED BY <1>5
<1>7. after[n] \in A
  <2>1. Carries(after, A, n)
    <3> HIDE DEF after
    <3>1. after[0] \in A
      BY <1>1, <1>6
    <3>2. ASSUME NEW m \in 1..n, after[m - 1] \in A PROVE after[m] \in A
      <4>1. m \in 0..n /\ m # 0
        BY <1>1
      <4>2. after[m] = op(after[m - 1], seq[m])
        BY <1>6, <4>1
      <4> QED BY <1>2, <3>2, <4>2
    <3> QED BY <3>1, <3>2 DEF Carries
  <2> HIDE DEF after
  <2> QED BY <1>1, <2>1, FoldKeeps
<1> QED BY <1>7 DEF HoistFrom, Fold, op, A, n, seq, start

(* A terminator with another target.                                       *)
LEMMA RetargetType ==
  ASSUME NEW n \in Nat, NEW code \in Seq(Unlabelled(n)), NEW from, NEW to \in Int
  PROVE  Retarget(code, from, to) \in Seq(Unlabelled(n))
<1> DEFINE new == [k \in DOMAIN code |->
                     IF code[k].op \in {"jump", "test"} /\ code[k].to = from
                     THEN [code[k] EXCEPT !.to = to] ELSE code[k]]
<1>1. \A k \in DOMAIN code : [code[k] EXCEPT !.to = to] \in Unlabelled(n)
  <2>1. \A k \in DOMAIN code : code[k] \in Unlabelled(n)
    OBVIOUS
  <2> QED BY <2>1, NewUnlabelled
<1>2. new \in Seq(Unlabelled(n))
  BY <1>1
<1>3. Retarget(code, from, to) = << >> \o new
  BY DEF Retarget, Map
<1> HIDE DEF new
<1> QED BY <1>2, <1>3

(* A block whose edges lead elsewhere.                                     *)
LEMMA RenamedType ==
  ASSUME NEW labels \in Seq(Int), NEW from, NEW to \in Int
  PROVE  Renamed(labels, from, to) \in Seq(Int)
<1> DEFINE new == [k \in DOMAIN labels |-> IF labels[k] = from THEN to ELSE labels[k]]
<1>1. new \in Seq(Int)
  OBVIOUS
<1>2. Renamed(labels, from, to) = << >> \o new
  BY DEF Renamed, Map
<1> HIDE DEF new
<1> QED BY <1>1, <1>2

(* What is kept of a sequence of labels are labels, and so on.             *)
LEMMA OnlySome ==
  ASSUME NEW S, NEW seq \in Seq(S), NEW set
  PROVE  Only(seq, set) \in Seq(S)
<1>1. Only(seq, set) \in Seq(S \cap set)
  BY OnlyType
<1> QED BY <1>1

(* Who comes to a loop from outside it.                                    *)
LEMMA OutsidePredsType ==
  ASSUME NEW n, NEW cfg \in Graphs(n), NEW lp, lp.header \in Int
  PROVE  OutsidePreds(cfg, lp) \in Seq(Int)
<1>1. Block(cfg, lp.header).preds \in Seq(Int)
  BY BlockType, BlockFields
<1> QED BY <1>1, OnlySome DEF OutsidePreds

(* A sequence with one member more.                                        *)
LEMMA InsertAtType ==
  ASSUME NEW S, NEW seq \in Seq(S), NEW k \in 1..(Len(seq) + 1), NEW e \in S
  PROVE  InsertAt(seq, k, e) \in Seq(S)
<1>1. SubSeq(seq, 1, k - 1) \in Seq(S) /\ SubSeq(seq, k, Len(seq)) \in Seq(S)
  OBVIOUS
<1>2. <<e>> \in Seq(S)
  OBVIOUS
<1> QED BY <1>1, <1>2 DEF InsertAt

(* A block that is there has an index.                                     *)
LEMMA FindBlockRange ==
  ASSUME NEW S, NEW blocks \in Seq(S), NEW l
  PROVE  FindBlock(blocks, l) \in 1..(Len(blocks) + 1)
<1>1. FindBlock(blocks, l) \in DOMAIN blocks \/ FindBlock(blocks, l) = 1
  BY FindBlockType DEF FindBlock
<1> QED BY <1>1

(* A loop is given a block before its header.                              *)
LEMMA WithPreheaderType ==
  ASSUME NEW n \in Nat, NEW cfg \in Graphs(n), NEW lp, lp.header \in Int, NEW new \in Int
  PROVE  WithPreheader(cfg, lp, new) \in Graphs(n)
<1> DEFINE out == OutsidePreds(cfg, lp)
           h == lp.header
           block == [label |-> new, code |-> <<Jump(h)>>, succs |-> <<h>>, preds |-> out]
           led(b) == IF Contains(out, b.label)
                     THEN [b EXCEPT !.code = Retarget(@, h, new), !.succs = Renamed(@, h, new)]
                     ELSE IF b.label = h
                     THEN [b EXCEPT !.preds = Append(Only(@, lp.body), new)]
                     ELSE b
           map == [k \in DOMAIN cfg.blocks |-> led(cfg.blocks[k])]
           blocks == << >> \o map
<1>1. block \in Blocks(n)
  <2>1. Jump(h) \in Unlabelled(n) /\ out \in Seq(Int)
    BY NewUnlabelled, OutsidePredsType
  <2> HIDE DEF out
  <2> QED BY <2>1 DEF Blocks
<1>2. ASSUME NEW b \in Blocks(n) PROVE led(b) \in Blocks(n)
  <2>1. Retarget(b.code, h, new) \in Seq(Unlabelled(n)) /\ Renamed(b.succs, h, new) \in Seq(Int)
    BY BlockFields, RetargetType, RenamedType
  <2>2. Append(Only(b.preds, lp.body), new) \in Seq(Int)
    <3>1. Only(b.preds, lp.body) \in Seq(Int)
      BY BlockFields, OnlySome
    <3> QED BY <3>1
  <2>3. [b EXCEPT !.code = Retarget(@, h, new)] \in Blocks(n)
    BY <2>1, BlockFields
  <2>4. [[b EXCEPT !.code = Retarget(@, h, new)] EXCEPT !.succs = Renamed(b.succs, h, new)] \in Blocks(n)
    BY <2>1, <2>3, BlockFields
  <2>5. [b EXCEPT !.code = Retarget(@, h, new), !.succs = Renamed(@, h, new)]
        = [[b EXCEPT !.code = Retarget(@, h, new)] EXCEPT !.succs = Renamed(b.succs, h, new)]
    BY DEF Blocks
  <2>6. [b EXCEPT !.preds = Append(Only(@, lp.body), new)] \in Blocks(n)
    BY <2>2, BlockFields
  <2> QED BY <2>4, <2>5, <2>6
<1> HIDE DEF block, led
<1>3. map \in Seq(Blocks(n))
  BY <1>2, GraphFields
<1>4. blocks \in Seq(Blocks(n))
  <2> HIDE DEF map
  <2> QED BY <1>3
<1>5. InsertAt(blocks, FindBlock(blocks, h), block) \in Seq(Blocks(n))
  <2> HIDE DEF blocks
  <2>1. FindBlock(blocks, h) \in 1..(Len(blocks) + 1)
    BY <1>4, FindBlockRange
  <2> QED BY <1>1, <1>4, <2>1, InsertAtType
<1>6. (IF cfg.entry = h THEN new ELSE cfg.entry) \in Int
  BY GraphFields
<1>7. WithPreheader(cfg, lp, new) =
        [entry |-> IF cfg.entry = h THEN new ELSE cfg.entry,
         blocks |-> InsertAt(blocks, FindBlock(blocks, h), block)]
  BY DEF WithPreheader, Map, block, led
<1> HIDE DEF blocks
<1> QED BY <1>5, <1>6, <1>7 DEF Graphs

(* Code is put before the jump a block ends with.                          *)
LEMMA BeforeTerminatorType ==
  ASSUME NEW S, NEW code \in Seq(S), NEW more \in Seq(S)
  PROVE  BeforeTerminator(code, more) \in Seq(S)
<1> DEFINE ends == {k \in DOMAIN code : IsTerminator(code[k])}
           at == IF ends = {} THEN Len(code) + 1 ELSE CHOOSE k \in ends : \A j \in ends : k <= j
<1>1. at \in 1..(Len(code) + 1)
  <2>1. ends \subseteq Nat /\ ends \subseteq 1..Len(code)
    OBVIOUS
  <2> HIDE DEF ends
  <2>2. CASE ends = {}
    BY <2>2
  <2>3. CASE ends # {}
    <3>1. \E k \in ends : \A j \in ends : k <= j
      BY <2>1, <2>3, LeastNumber
    <3>2. (CHOOSE k \in ends : \A j \in ends : k <= j) \in ends
      BY <3>1
    <3>3. at \in 1..Len(code)
      BY <2>1, <2>3, <3>2
    <3> HIDE DEF at
    <3> QED BY <3>3
  <2> QED BY <2>2, <2>3
<1>2. BeforeTerminator(code, more) = SubSeq(code, 1, at - 1) \o more \o SubSeq(code, at, Len(code))
  BY DEF BeforeTerminator
<1> HIDE DEF at
<1>3. SubSeq(code, 1, at - 1) \in Seq(S) /\ SubSeq(code, at, Len(code)) \in Seq(S)
  BY <1>1
<1> QED BY <1>2, <1>3

(* One loop is hoisted from.                                               *)
LEMMA HoistLoopType ==
  ASSUME NEW n \in Nat, NEW cfg \in Graphs(n), NEW lp, lp.header \in Int
  PROVE  HoistLoop(cfg, lp) \in Graphs(n)
<1> DEFINE got == HoistFrom(cfg, lp)
           left(b) == IF b.label \in lp.body THEN [b EXCEPT !.code = got.left[b.label]] ELSE b
           map == [k \in DOMAIN cfg.blocks |-> left(cfg.blocks[k])]
           cut == [cfg EXCEPT !.blocks = << >> \o map]
           new == 1 + Max({0} \cup ToSet(Labels(cfg)))
           there == HasPreheader(cut, lp)
           front == IF there THEN OutsidePreds(cut, lp)[1] ELSE new
           led == IF there THEN cut ELSE WithPreheader(cut, lp, new)
           at == FindBlock(led.blocks, front)
           better == [led EXCEPT !.blocks[at].code = BeforeTerminator(@, got.hoisted)]
<1>1. got \in Split(n, lp.body)
  BY HoistFromType
<1>2. got.hoisted \in Seq(Unlabelled(n)) /\ \A l \in lp.body : got.left[l] \in Seq(Unlabelled(n))
  BY <1>1 DEF Split
<1>3. HoistLoop(cfg, lp) \in {cfg, better}
  BY DEF HoistLoop, Map
<1> HIDE DEF got
<1>4. ASSUME NEW b \in Blocks(n) PROVE left(b) \in Blocks(n)
  BY <1>2, BlockFields
<1> HIDE DEF left
<1>5. map \in Seq(Blocks(n))
  BY <1>4, GraphFields
<1> HIDE DEF map
<1>6. cut \in Graphs(n)
  <2>1. << >> \o map \in Seq(Blocks(n))
    BY <1>5
  <2> QED BY <2>1, GraphFields
<1> HIDE DEF cut
<1>7. new \in Int
  <2> DEFINE f == [k \in 1..Len(Labels(cfg)) |-> Labels(cfg)[k]]
  <2>1. Labels(cfg) \in Seq(Int)
    BY LabelsType
  <2>2. f \in [1..Len(Labels(cfg)) -> Int] /\ Len(Labels(cfg)) \in Nat
        /\ ToSet(Labels(cfg)) = {f[k] : k \in 1..Len(Labels(cfg))}
    BY <2>1 DEF ToSet
  <2> HIDE DEF f
  <2>3. Max({0} \cup {f[k] : k \in 1..Len(Labels(cfg))}) \in Int
    BY <2>2, MaxType
  <2> QED BY <2>2, <2>3
<1> HIDE DEF new
<1>8. led \in Graphs(n)
  BY <1>6, <1>7, WithPreheaderType
<1> HIDE DEF led, front
<1>9. better \in Graphs(n)
  <2>1. led.blocks \in Seq(Blocks(n)) /\ \A k \in DOMAIN led.blocks : led.blocks[k] \in Blocks(n)
    BY <1>8, GraphFields
  <2> DEFINE with == [led.blocks EXCEPT ![at].code = BeforeTerminator(@, got.hoisted)]
  <2>2. better = [led EXCEPT !.blocks = with]
    BY <1>8 DEF Graphs
  <2>3. with \in Seq(Blocks(n))
    <3>1. CASE at \in DOMAIN led.blocks
      <4>1. BeforeTerminator(led.blocks[at].code, got.hoisted) \in Seq(Unlabelled(n))
        BY <1>2, <2>1, <3>1, BlockFields, BeforeTerminatorType
      <4> DEFINE b == [led.blocks[at] EXCEPT !.code = BeforeTerminator(@, got.hoisted)]
      <4>2. b \in Blocks(n)
        BY <2>1, <3>1, <4>1, BlockFields
      <4>3. with = [led.blocks EXCEPT ![at] = b]
        OBVIOUS
      <4> HIDE DEF at, b, with
      <4> QED BY <2>1, <3>1, <4>2, <4>3
    <3>2. CASE at \notin DOMAIN led.blocks
      <4>1. with = led.blocks
        <5> HIDE DEF at
        <5> QED BY <2>1, <3>2
      <4> QED BY <2>1, <4>1
    <3> QED BY <3>1, <3>2
  <2> HIDE DEF with, better
  <2> QED BY <1>8, <2>2, <2>3, GraphFields
<1> QED BY <1>3, <1>9

(* The loop-invariant pass makes a graph of a graph.                       *)
LEMMA HoistInvariantsType ==
  ASSUME NEW N \in Nat, NEW cfg \in Graphs(N)
  PROVE  HoistInvariants(cfg) \in Graphs(N)
<1> DEFINE seq == NaturalLoops(cfg)
           n == Len(seq)
           A == Graphs(N)
           op(c, lp) == HoistLoop(c, lp)
           g == [p \in A \X (1..n) |-> op(p[1], seq[p[2]])]
           Is(f) == f = [m \in 0..n |-> IF m = 0 THEN cfg ELSE op(f[m - 1], seq[m])]
           after == CHOOSE f : Is(f)
<1>0. Len(seq) \in Nat /\ \A m \in 1..Len(seq) : seq[m].header \in Int
  BY NaturalLoopsType
<1>1. n \in Nat /\ cfg \in A
  BY <1>0
<1>2. \A a \in A, m \in 1..n : op(a, seq[m]) \in A
  <2>1. \A m \in 1..n : seq[m].header \in Int
    BY <1>0
  <2> HIDE DEF n, seq
  <2> QED BY <2>1, HoistLoopType
<1> HIDE DEF op, A, n, seq
<1>3. g \in [A \X (1..n) -> A]
  BY <1>2
<1>4. PICK f : Folded(f, A, n, cfg, g)
  <2> HIDE DEF g
  <2> QED BY <1>1, <1>3, FoldExists
<1>5. Is(f)
  <2>1. ASSUME NEW m \in 1..n PROVE f[m] = op(f[m - 1], seq[m])
    <3>1. m - 1 \in 0..n /\ m \in 1..n
      BY <1>1
    <3>2. f[m - 1] \in A /\ f[m] = g[<<f[m - 1], m>>]
      <4> HIDE DEF g
      <4> QED BY <1>4, <3>1 DEF Folded
    <3> QED BY <3>1, <3>2
  <2> HIDE DEF g
  <2> QED BY <1>1, <1>4, <2>1 DEF Folded
<1>6. Is(after)
  <2> HIDE DEF Is
  <2> QED BY <1>5
<1>7. after[n] \in A
  <2>1. Carries(after, A, n)
    <3> HIDE DEF after
    <3>1. after[0] \in A
      BY <1>1, <1>6
    <3>2. ASSUME NEW m \in 1..n, after[m - 1] \in A PROVE after[m] \in A
      <4>1. m \in 0..n /\ m # 0
        BY <1>1
      <4>2. after[m] = op(after[m - 1], seq[m])
        BY <1>6, <4>1
      <4> QED BY <1>2, <3>2, <4>2
    <3> QED BY <3>1, <3>2 DEF Carries
  <2> HIDE DEF after
  <2> QED BY <1>1, <2>1, FoldKeeps
<1> QED BY <1>7 DEF HoistInvariants, Fold, op, A, n, seq

(* 2. Common subexpressions.                                               *)
Shared(n) ==
  [code : Seq(Unlabelled(n)),
   known : SUBSET [key : {ExpressionKey(i) : i \in Unlabelled(n)}, var : 1..n]]

(* One instruction of common-subexpression elimination.                    *)
LEMMA ShareType ==
  ASSUME NEW n \in Nat, NEW acc \in Shared(n), NEW i \in Unlabelled(n)
  PROVE  Share(acc, i) \in Shared(n)
<1> DEFINE S == Seq(Unlabelled(n))
           K == {ExpressionKey(j) : j \in Unlabelled(n)}
           R == [key : K, var : 1..n]
           known == IF i.op = "call" THEN {} ELSE acc.known
           isExpr == i.op \in Operators
           same == {e \in known : isExpr /\ e.key = ExpressionKey(i)}
           var == (CHOOSE e \in same : TRUE).var
           new == IF same # {} /\ var # i.dst THEN Move(i.dst, var) ELSE i
           more == IF isExpr /\ same = {} THEN {[key |-> ExpressionKey(i), var |-> i.dst]} ELSE {}
<1>1. Shared(n) = [code : S, known : SUBSET R]
  BY DEF Shared
<1>2. isExpr => i.dst \in 1..n
  BY UnlabelledFields DEF Assigning, None
<1>3. ExpressionKey(i) \in K
  OBVIOUS
<1> HIDE DEF K
<1>4. acc.code \in S /\ acc.known \subseteq R
  <2> HIDE DEF S, R
  <2> QED BY <1>1
<1>5. new \in Unlabelled(n)
  <2>1. same # {} => var \in 1..n /\ isExpr
    <3>1. same # {} => (CHOOSE e \in same : TRUE) \in same
      OBVIOUS
    <3>2. same \subseteq R /\ (same # {} => isExpr)
      BY <1>4
    <3> HIDE DEF same
    <3> QED BY <3>1, <3>2
  <2> HIDE DEF same, var, isExpr
  <2>2. same # {} => Move(i.dst, var) \in Unlabelled(n)
    BY <1>2, <2>1, NewUnlabelled
  <2> QED BY <2>2
<1>6. Without(known, i.dst) \cup more \subseteq R
  <2>1. Without(known, i.dst) \subseteq R
    BY <1>4 DEF Without
  <2>2. more \subseteq R
    <3> HIDE DEF same
    <3> QED BY <1>2, <1>3
  <2> QED BY <2>1, <2>2
<1>7. Share(acc, i) = [code |-> Append(acc.code, new), known |-> Without(known, i.dst) \cup more]
  BY DEF Share
<1> HIDE DEF known, same, new, more, isExpr, R
<1>8. Append(acc.code, new) \in S
  BY <1>4, <1>5
<1> HIDE DEF S
<1> QED BY <1>1, <1>6, <1>7, <1>8

(* Common-subexpression elimination makes code of code.                    *)
LEMMA ShareExpressionsType ==
  ASSUME NEW N \in Nat, NEW code \in Seq(Unlabelled(N))
  PROVE  ShareExpressions(code) \in Seq(Unlabelled(N))
<1> DEFINE start == [code |-> << >>, known |-> {}]
           n == Len(code)
           A == Shared(N)
           op(acc, i) == Share(acc, i)
           g == [p \in A \X (1..n) |-> op(p[1], code[p[2]])]
           Is(f) == f = [m \in 0..n |-> IF m = 0 THEN start ELSE op(f[m - 1], code[m])]
           after == CHOOSE f : Is(f)
<1>1. n \in Nat /\ start \in A
  BY DEF Shared
<1>2. \A a \in A, m \in 1..n : op(a, code[m]) \in A
  <2>1. \A m \in 1..n : code[m] \in Unlabelled(N)
    OBVIOUS
  <2> HIDE DEF n
  <2> QED BY <2>1, ShareType
<1> HIDE DEF op, A, n, start
<1>3. g \in [A \X (1..n) -> A]
  BY <1>2
<1>4. PICK f : Folded(f, A, n, start, g)
  <2> HIDE DEF g
  <2> QED BY <1>1, <1>3, FoldExists
<1>5. Is(f)
  <2>1. ASSUME NEW m \in 1..n PROVE f[m] = op(f[m - 1], code[m])
    <3>1. m - 1 \in 0..n /\ m \in 1..n
      BY <1>1
    <3>2. f[m - 1] \in A /\ f[m] = g[<<f[m - 1], m>>]
      <4> HIDE DEF g
      <4> QED BY <1>4, <3>1 DEF Folded
    <3> QED BY <3>1, <3>2
  <2> HIDE DEF g
  <2> QED BY <1>1, <1>4, <2>1 DEF Folded
<1>6. Is(after)
  <2> HIDE DEF Is
  <2> QED BY <1>5
<1>7. after[n] \in A
  <2>1. Carries(after, A, n)
    <3> HIDE DEF after
    <3>1. after[0] \in A
      BY <1>1, <1>6
    <3>2. ASSUME NEW m \in 1..n, after[m - 1] \in A PROVE after[m] \in A
      <4>1. m \in 0..n /\ m # 0
        BY <1>1
      <4>2. after[m] = op(after[m - 1], code[m])
        BY <1>6, <4>1
      <4> QED BY <1>2, <3>2, <4>2
    <3> QED BY <3>1, <3>2 DEF Carries
  <2> HIDE DEF after
  <2> QED BY <1>1, <2>1, FoldKeeps
<1>8. ShareExpressions(code) = after[n].code
  BY DEF ShareExpressions, Fold, op, n, start
<1> HIDE DEF after
<1> QED BY <1>7, <1>8 DEF A, Shared

(* 3. Copies.                                                              *)
Copied(n) == [code : Seq(Unlabelled(n)), copies : SUBSET [of : 1..n, is : 1..n]]

(* One instruction of copy propagation.                                    *)
LEMMA FollowType ==
  ASSUME NEW n \in Nat, NEW captured, NEW acc \in Copied(n), NEW i \in Unlabelled(n)
  PROVE  Follow(captured, acc, i) \in Copied(n)
<1> DEFINE S == Seq(Unlabelled(n))
           R == [of : 1..n, is : 1..n]
           read == [k \in DOMAIN i.srcs |-> Original(acc.copies, i.srcs[k])]
           new == IF i.op \in {"closure", "close"} THEN i ELSE [i EXCEPT !.srcs = << >> \o read]
           kept == {c \in acc.copies : i.dst \notin {c.of, c.is}}
           made == IF new.op = "move" /\ new.srcs[1] # new.dst
                      /\ {new.dst, new.srcs[1]} \cap captured = {}
                   THEN {[of |-> new.dst, is |-> new.srcs[1]]} ELSE {}
<1>1. Copied(n) = [code : S, copies : SUBSET R]
  BY DEF Copied
<1>2. acc.code \in S /\ acc.copies \subseteq R
  <2> HIDE DEF S, R
  <2> QED BY <1>1
<1>3. \A v \in 1..n : Original(acc.copies, v) \in 1..n
  <2> SUFFICES ASSUME NEW v \in 1..n PROVE Original(acc.copies, v) \in 1..n
    OBVIOUS
  <2>1. CASE \E c \in acc.copies : c.of = v
    <3>1. (CHOOSE c \in acc.copies : c.of = v) \in R
      BY <1>2, <2>1
    <3> QED BY <2>1, <3>1 DEF Original
  <2>2. CASE ~ \E c \in acc.copies : c.of = v
    BY <2>2 DEF Original
  <2> QED BY <2>1, <2>2
<1>4. << >> \o read \in Seq(1..n) /\ Len(<< >> \o read) = Len(i.srcs)
  <2>1. i.srcs \in Seq(1..n)
    BY UnlabelledFields
  <2>2. read \in Seq(1..n) /\ Len(read) = Len(i.srcs)
    <3> DEFINE V == 1..n
    <3>1. DOMAIN i.srcs = 1..Len(i.srcs) /\ Len(i.srcs) \in Nat
      BY <2>1
    <3>2. \A k \in DOMAIN i.srcs : i.srcs[k] \in V
      BY <2>1
    <3>3. \A k \in DOMAIN i.srcs : read[k] \in V
      BY <1>3, <3>2
    <3> HIDE DEF V
    <3>4. read \in [1..Len(i.srcs) -> V]
      BY <3>1, <3>3
    <3> HIDE DEF read
    <3>5. read \in Seq(V) /\ Len(read) = Len(i.srcs)
      BY <3>1, <3>4, FunctionIsSeq
    <3> QED BY <3>5 DEF V
  <2> HIDE DEF read
  <2> QED BY <2>2
<1> HIDE DEF read
<1>5. new \in Unlabelled(n)
  <2> DEFINE q == << >> \o read
  <2>1. new = IF i.op \in {"closure", "close"} THEN i ELSE [i EXCEPT !.srcs = q]
    OBVIOUS
  <2> HIDE DEF q, new
  <2>2. q \in Seq(1..n) /\ Len(q) = Len(i.srcs)
    BY <1>4 DEF q
  <2>3. [i EXCEPT !.srcs = q] \in Unlabelled(n)
    BY <2>2, NewUnlabelled
  <2> QED BY <2>1, <2>3
<1>6. Follow(captured, acc, i) = [code |-> Append(acc.code, new), copies |-> kept \cup made]
  BY DEF Follow, Map, read
<1> HIDE DEF new
<1>7. made \subseteq R
  <2>1. new.op = "move" => new.dst \in 1..n /\ Len(new.srcs) = 1 /\ new.srcs \in Seq(1..n)
    BY <1>5, UnlabelledFields DEF Assigning, None
  <2>2. new.op = "move" => new.dst \in 1..n /\ new.srcs[1] \in 1..n
    BY <2>1
  <2> QED BY <2>2
<1>8. kept \cup made \subseteq R
  <2> HIDE DEF made
  <2> QED BY <1>2, <1>7
<1> HIDE DEF R, kept, made
<1>9. Append(acc.code, new) \in S
  BY <1>2, <1>5
<1> HIDE DEF S
<1> QED BY <1>1, <1>6, <1>8, <1>9

(* Copy propagation makes code of code.                                    *)
LEMMA PropagateCopiesType ==
  ASSUME NEW N \in Nat, NEW captured, NEW code \in Seq(Unlabelled(N))
  PROVE  PropagateCopies(code, captured) \in Seq(Unlabelled(N))
<1> DEFINE start == [code |-> << >>, copies |-> {}]
           n == Len(code)
           A == Copied(N)
           op(acc, i) == Follow(captured, acc, i)
           g == [p \in A \X (1..n) |-> op(p[1], code[p[2]])]
           Is(f) == f = [m \in 0..n |-> IF m = 0 THEN start ELSE op(f[m - 1], code[m])]
           after == CHOOSE f : Is(f)
<1>1. n \in Nat /\ start \in A
  BY DEF Copied
<1>2. \A a \in A, m \in 1..n : op(a, code[m]) \in A
  <2>1. \A m \in 1..n : code[m] \in Unlabelled(N)
    OBVIOUS
  <2> HIDE DEF n
  <2> QED BY <2>1, FollowType
<1> HIDE DEF op, A, n, start
<1>3. g \in [A \X (1..n) -> A]
  BY <1>2
<1>4. PICK f : Folded(f, A, n, start, g)
  <2> HIDE DEF g
  <2> QED BY <1>1, <1>3, FoldExists
<1>5. Is(f)
  <2>1. ASSUME NEW m \in 1..n PROVE f[m] = op(f[m - 1], code[m])
    <3>1. m - 1 \in 0..n /\ m \in 1..n
      BY <1>1
    <3>2. f[m - 1] \in A /\ f[m] = g[<<f[m - 1], m>>]
      <4> HIDE DEF g
      <4> QED BY <1>4, <3>1 DEF Folded
    <3> QED BY <3>1, <3>2
  <2> HIDE DEF g
  <2> QED BY <1>1, <1>4, <2>1 DEF Folded
<1>6. Is(after)
  <2> HIDE DEF Is
  <2> QED BY <1>5
<1>7. after[n] \in A
  <2>1. Carries(after, A, n)
    <3> HIDE DEF after
    <3>1. after[0] \in A
      BY <1>1, <1>6
    <3>2. ASSUME NEW m \in 1..n, after[m - 1] \in A PROVE after[m] \in A
      <4>1. m \in 0..n /\ m # 0
        BY <1>1
      <4>2. after[m] = op(after[m - 1], code[m])
        BY <1>6, <4>1
      <4> QED BY <1>2, <3>2, <4>2
    <3> QED BY <3>1, <3>2 DEF Carries
  <2> HIDE DEF after
  <2> QED BY <1>1, <2>1, FoldKeeps
<1> DEFINE done == after[n].code
           rest == {i \in ToSet(done) : ~(i.op = "move" /\ i.srcs = <<i.dst>>)}
<1>8. PropagateCopies(code, captured) = Only(done, rest)
  BY DEF PropagateCopies, Fold, op, n, start
<1>9. done \in Seq(Unlabelled(N))
  <2> HIDE DEF after
  <2> QED BY <1>7 DEF A, Copied
<1> HIDE DEF done, rest
<1> QED BY <1>8, <1>9, OnlySome

(* 4. Constants.                                                           *)
Tracked(n) == [code : Seq(Unlabelled(n)), known : SUBSET [of : 1..n, is : Int]]

(* Folding two constants gives one.                                        *)
LEMMA ApplyType ==
  ASSUME NEW op, NEW l \in Int, NEW r \in Int
  PROVE  Apply(op, l, r) \in Int
BY DEF Apply

(* One instruction of value tracking.                                      *)
LEMMA TrackType ==
  ASSUME NEW n \in Nat, NEW captured, NEW acc \in Tracked(n), NEW i \in Unlabelled(n)
  PROVE  Track(captured, acc, i) \in Tracked(n)
<1> DEFINE S == Seq(Unlabelled(n))
           R == [of : 1..n, is : Int]
           kept == {c \in acc.known : c.of # i.dst /\ ~(i.op = "call" /\ c.of \in captured)}
           known == i.op = "const" \/ /\ i.op \in Operators \cup {"move"}
                                      /\ \A v \in Uses(i) : IsKnown(acc.known, v)
           value(k) == ValueOf(acc.known, i.srcs[k])
           result == IF i.op = "const" THEN i.val
                     ELSE IF i.op = "move" THEN value(1) ELSE Apply(i.op, value(1), value(2))
           held == (Defs(i) \cup (IF i.op = "move" THEN Uses(i) ELSE {})) \cap captured
           new == IF known /\ held = {} THEN LoadConst(i.dst, result) ELSE i
           made == IF known THEN {[of |-> i.dst, is |-> result]} ELSE {}
<1>1. Tracked(n) = [code : S, known : SUBSET R]
  BY DEF Tracked
<1>2. acc.code \in S /\ acc.known \subseteq R
  <2> HIDE DEF S, R
  <2> QED BY <1>1
<1>3. \A v : IsKnown(acc.known, v) => ValueOf(acc.known, v) \in Int
  <2> SUFFICES ASSUME NEW v, IsKnown(acc.known, v) PROVE ValueOf(acc.known, v) \in Int
    OBVIOUS
  <2>1. (CHOOSE c \in acc.known : c.of = v) \in R
    BY <1>2 DEF IsKnown
  <2> QED BY <2>1 DEF ValueOf
<1>4. known => i.dst \in 1..n
  BY UnlabelledFields DEF Assigning, None
<1>5. known => result \in Int
  <2>1. CASE i.op = "const"
    BY <2>1, UnlabelledFields
  <2>2. ASSUME known, i.op = "move" PROVE result \in Int
    <3>1. 1 \in DOMAIN i.srcs
      BY <2>2, UnlabelledFields
    <3>2. IsKnown(acc.known, i.srcs[1])
      BY <2>2, <3>1 DEF Uses, ToSet
    <3> QED BY <1>3, <2>2, <3>2
  <2>3. ASSUME known, i.op \in Operators PROVE result \in Int
    <3>1. 1 \in DOMAIN i.srcs /\ 2 \in DOMAIN i.srcs
      BY <2>3, UnlabelledFields
    <3>2. i.op # "const" /\ i.op # "move"
      BY <2>3 DEF Operators
    <3>3. IsKnown(acc.known, i.srcs[1]) /\ IsKnown(acc.known, i.srcs[2])
      BY <2>3, <3>1, <3>2 DEF Uses, ToSet
    <3> QED BY <1>3, <3>2, <3>3, ApplyType
  <2> QED BY <2>1, <2>2, <2>3
<1>6. Track(captured, acc, i) = [code |-> Append(acc.code, new), known |-> kept \cup made]
  BY DEF Track
<1> HIDE DEF known, result, held
<1>7. new \in Unlabelled(n)
  BY <1>4, <1>5, NewUnlabelled
<1>8. kept \cup made \subseteq R
  BY <1>2, <1>4, <1>5
<1> HIDE DEF R, kept, made, new
<1>9. Append(acc.code, new) \in S
  BY <1>2, <1>7
<1> HIDE DEF S
<1> QED BY <1>1, <1>6, <1>8, <1>9

(* Value tracking makes code of code, about the same variables.            *)
LEMMA TrackValuesType ==
  ASSUME NEW N \in Nat, NEW captured, NEW code \in Seq(Unlabelled(N))
  PROVE  TrackValues(code, captured) \in Seq(Unlabelled(N))
<1> DEFINE start == [code |-> << >>, known |-> {}]
           n == Len(code)
           A == Tracked(N)
           op(acc, i) == Track(captured, acc, i)
           g == [p \in A \X (1..n) |-> op(p[1], code[p[2]])]
           Is(f) == f = [m \in 0..n |-> IF m = 0 THEN start ELSE op(f[m - 1], code[m])]
           after == CHOOSE f : Is(f)
<1>1. n \in Nat /\ start \in A
  BY DEF Tracked
<1>2. \A a \in A, m \in 1..n : op(a, code[m]) \in A
  <2>1. \A m \in 1..n : code[m] \in Unlabelled(N)
    OBVIOUS
  <2> HIDE DEF n
  <2> QED BY <2>1, TrackType
<1> HIDE DEF op, A, n, start
<1>3. g \in [A \X (1..n) -> A]
  BY <1>2
<1>4. PICK f : Folded(f, A, n, start, g)
  <2> HIDE DEF g
  <2> QED BY <1>1, <1>3, FoldExists
<1>5. Is(f)
  <2>1. ASSUME NEW m \in 1..n PROVE f[m] = op(f[m - 1], code[m])
    <3>1. m - 1 \in 0..n /\ m \in 1..n
      BY <1>1
    <3>2. f[m - 1] \in A /\ f[m] = g[<<f[m - 1], m>>]
      <4> HIDE DEF g
      <4> QED BY <1>4, <3>1 DEF Folded
    <3> QED BY <3>1, <3>2
  <2> HIDE DEF g
  <2> QED BY <1>1, <1>4, <2>1 DEF Folded
<1>6. Is(after)
  <2> HIDE DEF Is
  <2> QED BY <1>5
<1>7. after[n] \in A
  <2>1. Carries(after, A, n)
    <3> HIDE DEF after
    <3>1. after[0] \in A
      BY <1>1, <1>6
    <3>2. ASSUME NEW m \in 1..n, after[m - 1] \in A PROVE after[m] \in A
      <4>1. m \in 0..n /\ m # 0
        BY <1>1
      <4>2. after[m] = op(after[m - 1], code[m])
        BY <1>6, <4>1
      <4> QED BY <1>2, <3>2, <4>2
    <3> QED BY <3>1, <3>2 DEF Carries
  <2> HIDE DEF after
  <2> QED BY <1>1, <2>1, FoldKeeps
<1>8. TrackValues(code, captured) = after[n].code
  BY DEF TrackValues, Fold, op, n, start
<1> HIDE DEF after
<1> QED BY <1>7, <1>8 DEF A, Tracked

(* 5. Dead code.                                                           *)
LEMMA RetainIfNeededType ==
  ASSUME NEW n \in Nat, NEW captured, NEW i \in Unlabelled(n), NEW X, 1..n \subseteq X,
         NEW acc \in [code : Seq(Unlabelled(n)), live : SUBSET X]
  PROVE  RetainIfNeeded(captured, acc, i) \in [code : Seq(Unlabelled(n)), live : SUBSET X]
<1> DEFINE S == Seq(Unlabelled(n))
           better == [code |-> <<i>> \o acc.code, live |-> (acc.live \ Defs(i)) \cup Uses(i)]
<1>1. Uses(i) \subseteq 1..n
  <2>1. i.srcs \in Seq(1..n)
    BY UnlabelledFields
  <2> QED BY <2>1 DEF Uses, ToSet
<1>2. \A q \in S : <<i>> \o q \in S
  OBVIOUS
<1> HIDE DEF S
<1>3. acc \in [code : S, live : SUBSET X]
  BY DEF S
<1>4. better \in [code : S, live : SUBSET X]
  BY <1>1, <1>2, <1>3
<1>5. RetainIfNeeded(captured, acc, i) \in {acc, better}
  BY DEF RetainIfNeeded
<1> QED BY <1>3, <1>4, <1>5 DEF S

(* What is needed of the code of a block.                                  *)
LEMMA NeededType ==
  ASSUME NEW N \in Nat, NEW code \in Seq(Unlabelled(N)), NEW live, NEW captured
  PROVE  Needed(code, live, captured) \in Seq(Unlabelled(N))
<1> DEFINE X == live \cup 1..N
           seq == Reverse(code)
           start == [code |-> << >>, live |-> live]
           n == Len(seq)
           A == [code : Seq(Unlabelled(N)), live : SUBSET X]
           op(acc, i) == RetainIfNeeded(captured, acc, i)
           g == [p \in A \X (1..n) |-> op(p[1], seq[p[2]])]
           Is(f) == f = [m \in 0..n |-> IF m = 0 THEN start ELSE op(f[m - 1], seq[m])]
           after == CHOOSE f : Is(f)
<1>0. seq \in Seq(Unlabelled(N))
  BY DEF Reverse
<1>1. n \in Nat /\ start \in A
  BY <1>0
<1>2. \A a \in A, m \in 1..n : op(a, seq[m]) \in A
  <2>1. \A m \in 1..n : seq[m] \in Unlabelled(N)
    BY <1>0
  <2>2. 1..N \subseteq X
    OBVIOUS
  <2> HIDE DEF n, seq, X
  <2> QED BY <2>1, <2>2, RetainIfNeededType
<1> HIDE DEF op, A, n, start, X, seq
<1>3. g \in [A \X (1..n) -> A]
  BY <1>2
<1>4. PICK f : Folded(f, A, n, start, g)
  <2> HIDE DEF g
  <2> QED BY <1>1, <1>3, FoldExists
<1>5. Is(f)
  <2>1. ASSUME NEW m \in 1..n PROVE f[m] = op(f[m - 1], seq[m])
    <3>1. m - 1 \in 0..n /\ m \in 1..n
      BY <1>1
    <3>2. f[m - 1] \in A /\ f[m] = g[<<f[m - 1], m>>]
      <4> HIDE DEF g
      <4> QED BY <1>4, <3>1 DEF Folded
    <3> QED BY <3>1, <3>2
  <2> HIDE DEF g
  <2> QED BY <1>1, <1>4, <2>1 DEF Folded
<1>6. Is(after)
  <2> HIDE DEF Is
  <2> QED BY <1>5
<1>7. after[n] \in A
  <2>1. Carries(after, A, n)
    <3> HIDE DEF after
    <3>1. after[0] \in A
      BY <1>1, <1>6
    <3>2. ASSUME NEW m \in 1..n, after[m - 1] \in A PROVE after[m] \in A
      <4>1. m \in 0..n /\ m # 0
        BY <1>1
      <4>2. after[m] = op(after[m - 1], seq[m])
        BY <1>6, <4>1
      <4> QED BY <1>2, <3>2, <4>2
    <3> QED BY <3>1, <3>2 DEF Carries
  <2> HIDE DEF after
  <2> QED BY <1>1, <2>1, FoldKeeps
<1>8. Needed(code, live, captured) = after[n].code
  BY DEF Needed, Fold, op, n, start, seq
<1> HIDE DEF after
<1> QED BY <1>7, <1>8 DEF A

(* One round of dead-code elimination.                                     *)
LEMMA EliminateDeadOnceType ==
  ASSUME NEW n \in Nat, NEW cfg \in Graphs(n)
  PROVE  EliminateDeadOnce(cfg) \in Graphs(n)
<1> DEFINE captured == CapturedVars(cfg)
           after(b) == LiveOut(cfg.blocks, LiveIn(cfg.blocks), b)
           left(b) == [b EXCEPT !.code = Needed(@, after(b), captured)]
           map == [k \in DOMAIN cfg.blocks |-> left(cfg.blocks[k])]
<1> HIDE DEF captured, after
<1>1. ASSUME NEW b \in Blocks(n) PROVE left(b) \in Blocks(n)
  BY BlockFields, NeededType
<1>2. EliminateDeadOnce(cfg) = [cfg EXCEPT !.blocks = << >> \o map]
  BY DEF EliminateDeadOnce, Map, captured, after
<1> HIDE DEF left
<1>3. map \in Seq(Blocks(n))
  BY <1>1, GraphFields
<1> HIDE DEF map
<1>4. << >> \o map \in Seq(Blocks(n))
  BY <1>3
<1> QED BY <1>2, <1>4, GraphFields

(* Dead-code elimination, until nothing is dead any more.                  *)
LEMMA EliminateDeadType ==
  ASSUME NEW N \in Nat, NEW cfg \in Graphs(N)
  PROVE  EliminateDead(cfg) \in Graphs(N)
<1> DEFINE seq == [k \in 1..MAX_PASSES |-> k]
           start == [is |-> cfg, same |-> FALSE]
           n == Len(seq)
           A == [is : Graphs(N), same : BOOLEAN]
           op(acc, k) == IF acc.same THEN acc ELSE [is |-> EliminateDeadOnce(acc.is), same |-> EliminateDeadOnce(acc.is) = acc.is]
           g == [p \in A \X (1..n) |-> op(p[1], seq[p[2]])]
           Is(f) == f = [m \in 0..n |-> IF m = 0 THEN start ELSE op(f[m - 1], seq[m])]
           after == CHOOSE f : Is(f)
<1>1. n \in Nat /\ start \in A
  BY DEF MAX_PASSES
<1>2. \A a \in A, m \in 1..n : op(a, seq[m]) \in A
  <2> SUFFICES ASSUME NEW a \in A, NEW m \in 1..n PROVE op(a, seq[m]) \in A
    OBVIOUS
  <2>1. EliminateDeadOnce(a.is) \in Graphs(N)
    BY EliminateDeadOnceType
  <2> QED BY <2>1
<1> HIDE DEF op, A, n, start, seq
<1>3. g \in [A \X (1..n) -> A]
  BY <1>2
<1>4. PICK f : Folded(f, A, n, start, g)
  <2> HIDE DEF g
  <2> QED BY <1>1, <1>3, FoldExists
<1>5. Is(f)
  <2>1. ASSUME NEW m \in 1..n PROVE f[m] = op(f[m - 1], seq[m])
    <3>1. m - 1 \in 0..n /\ m \in 1..n
      BY <1>1
    <3>2. f[m - 1] \in A /\ f[m] = g[<<f[m - 1], m>>]
      <4> HIDE DEF g
      <4> QED BY <1>4, <3>1 DEF Folded
    <3> QED BY <3>1, <3>2
  <2> HIDE DEF g
  <2> QED BY <1>1, <1>4, <2>1 DEF Folded
<1>6. Is(after)
  <2> HIDE DEF Is
  <2> QED BY <1>5
<1>7. after[n] \in A
  <2>1. Carries(after, A, n)
    <3> HIDE DEF after
    <3>1. after[0] \in A
      BY <1>1, <1>6
    <3>2. ASSUME NEW m \in 1..n, after[m - 1] \in A PROVE after[m] \in A
      <4>1. m \in 0..n /\ m # 0
        BY <1>1
      <4>2. after[m] = op(after[m - 1], seq[m])
        BY <1>6, <4>1
      <4> QED BY <1>2, <3>2, <4>2
    <3> QED BY <3>1, <3>2 DEF Carries
  <2> HIDE DEF after
  <2> QED BY <1>1, <2>1, FoldKeeps
<1>8. EliminateDead(cfg) = after[n].is
  BY DEF EliminateDead, Repeated, Fold, op, n, start, seq
<1> HIDE DEF after
<1> QED BY <1>7, <1>8 DEF A

(* 6. Cleaning up the graph.                                               *)
LEMMA BlockWith ==
  ASSUME NEW n, NEW b \in Blocks(n), NEW c \in Seq(Unlabelled(n)),
         NEW succs \in Seq(Int), NEW preds \in Seq(Int)
  PROVE  /\ [b EXCEPT !.code = c, !.succs = succs] \in Blocks(n)
         /\ [b EXCEPT !.code = c, !.preds = preds] \in Blocks(n)
         /\ [b EXCEPT !.code = c, !.succs = succs, !.preds = preds] \in Blocks(n)
<1>1. [b EXCEPT !.code = c] \in Blocks(n)
  BY BlockFields
<1>2. [[b EXCEPT !.code = c] EXCEPT !.succs = succs] \in Blocks(n)
  BY <1>1, BlockFields
<1>3. [[b EXCEPT !.code = c] EXCEPT !.preds = preds] \in Blocks(n)
  BY <1>1, BlockFields
<1>4. [[[b EXCEPT !.code = c] EXCEPT !.succs = succs] EXCEPT !.preds = preds] \in Blocks(n)
  BY <1>2, BlockFields
<1> QED BY <1>2, <1>3, <1>4

(* A graph whose blocks are all rewritten is one if they are blocks.       *)
LEMMA MappedBlocks ==
  ASSUME NEW n, NEW bs \in Seq(Blocks(n)), NEW f \in [DOMAIN bs -> Blocks(n)]
  PROVE  << >> \o f \in Seq(Blocks(n)) /\ Len(<< >> \o f) = Len(bs)
<1>1. DOMAIN bs = 1..Len(bs) /\ Len(bs) \in Nat
  OBVIOUS
<1>2. f \in Seq(Blocks(n)) /\ Len(f) = Len(bs)
  BY <1>1, FunctionIsSeq
<1> QED BY <1>2

(* simplify_cfg: blocks nothing leads to are removed.                      *)
LEMMA RemoveUnreachableType ==
  ASSUME NEW n, NEW cfg \in Graphs(n)
  PROVE  RemoveUnreachable(cfg) \in Graphs(n)
<1> DEFINE reached == Reached(cfg, {})
           set == {b \in ToSet(cfg.blocks) : b.label \in reached}
           left == Only(cfg.blocks, set)
           map == [k \in DOMAIN left |-> [left[k] EXCEPT !.preds = Only(@, reached)]]
<1>1. RemoveUnreachable(cfg) = [cfg EXCEPT !.blocks = << >> \o map]
  BY DEF RemoveUnreachable, Map
<1> HIDE DEF reached, set
<1>2. left \in Seq(Blocks(n))
  BY GraphFields, OnlySome
<1> HIDE DEF left
<1>3. ASSUME NEW b \in Blocks(n) PROVE [b EXCEPT !.preds = Only(@, reached)] \in Blocks(n)
  BY BlockFields, OnlySome
<1>4. \A k \in DOMAIN left : left[k] \in Blocks(n)
  BY <1>2
<1>5. map \in [DOMAIN left -> Blocks(n)]
  BY <1>3, <1>4
<1> HIDE DEF map
<1> QED BY <1>1, <1>2, <1>5, MappedBlocks, GraphFields

(* simplify_cfg: the label a block is skipped for.                         *)
LEMMA InsteadType ==
  ASSUME NEW preds \in Seq(Int), NEW l, NEW more \in Seq(Int)
  PROVE  Instead(preds, l, more) \in Seq(Int)
<1> DEFINE kept == Only(preds, ToSet(preds) \ {l})
           new == Only(more, ToSet(more) \ ToSet(kept))
<1>1. kept \in Seq(Int)
  BY OnlySome
<1>2. new \in Seq(Int)
  BY OnlySome
<1>3. Instead(preds, l, more) = kept \o new
  BY DEF Instead
<1> HIDE DEF kept, new
<1> QED BY <1>1, <1>2, <1>3

(* simplify_cfg: one block of nothing but a jump is skipped.               *)
LEMMA BypassType ==
  ASSUME NEW n \in Nat, NEW cfg \in Graphs(n), NEW empty \in Blocks(n), Len(empty.code) = 1
  PROVE  Bypass(cfg, empty) \in Graphs(n)
<1> DEFINE l == empty.label
           to == empty.code[1].to
           others == Only(cfg.blocks, {b \in ToSet(cfg.blocks) : b.label # l})
           preds == Block(cfg, l).preds
           led(b) == [b EXCEPT !.code = Retarget(@, l, to), !.succs = Renamed(@, l, to),
                               !.preds = IF b.label = to THEN Instead(@, l, preds) ELSE @]
           map == [k \in DOMAIN others |-> led(others[k])]
           better == [cfg EXCEPT !.blocks = << >> \o map]
<1>1. Bypass(cfg, empty) \in {cfg, better}
  BY DEF Bypass, Map
<1>2. l \in Int /\ to \in Int
  <2>1. l \in Int /\ empty.code \in Seq(Unlabelled(n))
    BY BlockFields
  <2>2. empty.code[1] \in Unlabelled(n)
    BY <2>1
  <2> QED BY <2>1, <2>2, UnlabelledFields
<1>3. others \in Seq(Blocks(n))
  <2> DEFINE set == {b \in ToSet(cfg.blocks) : b.label # l}
  <2> HIDE DEF set
  <2>1. Only(cfg.blocks, set) \in Seq(Blocks(n))
    BY GraphFields, OnlySome
  <2> QED BY <2>1 DEF set
<1>4. preds \in Seq(Int)
  BY <1>2, BlockType, BlockFields
<1> HIDE DEF l, to, others, preds
<1>5. ASSUME NEW b \in Blocks(n) PROVE led(b) \in Blocks(n)
  <2>1. Retarget(b.code, l, to) \in Seq(Unlabelled(n))
    BY <1>2, BlockFields, RetargetType
  <2>2. Renamed(b.succs, l, to) \in Seq(Int)
    BY <1>2, BlockFields, RenamedType
  <2>3. (IF b.label = to THEN Instead(b.preds, l, preds) ELSE b.preds) \in Seq(Int)
    BY <1>2, <1>4, BlockFields, InsteadType
  <2> QED BY <2>1, <2>2, <2>3, BlockWith
<1> HIDE DEF led
<1>6. \A k \in DOMAIN others : others[k] \in Blocks(n)
  BY <1>3
<1>7. map \in [DOMAIN others -> Blocks(n)]
  BY <1>5, <1>6
<1> HIDE DEF map
<1>8. better \in Graphs(n)
  BY <1>3, <1>7, MappedBlocks, GraphFields
<1> QED BY <1>1, <1>8

(* simplify_cfg: all of them are.                                          *)
LEMMA EliminateEmptyJumpsType ==
  ASSUME NEW N \in Nat, NEW cfg \in Graphs(N)
  PROVE  EliminateEmptyJumps(cfg) \in Graphs(N)
<1> DEFINE seq == Only(cfg.blocks, {b \in ToSet(cfg.blocks) : OnlyJumps(cfg, b)})
           n == Len(seq)
           A == Graphs(N)
           op(c, b) == Bypass(c, b)
           g == [p \in A \X (1..n) |-> op(p[1], seq[p[2]])]
           Is(f) == f = [m \in 0..n |-> IF m = 0 THEN cfg ELSE op(f[m - 1], seq[m])]
           after == CHOOSE f : Is(f)
<1>0. Len(seq) \in Nat /\ \A m \in 1..Len(seq) : seq[m] \in Blocks(N) /\ Len(seq[m].code) = 1
  <2> DEFINE set == {b \in ToSet(cfg.blocks) : OnlyJumps(cfg, b)}
  <2>1. \A b \in set : Len(b.code) = 1
    BY DEF OnlyJumps
  <2>2. seq = Only(cfg.blocks, set)
    OBVIOUS
  <2> HIDE DEF set, seq
  <2>3. seq \in Seq(Blocks(N) \cap set)
    BY <2>2, GraphFields, OnlyType
  <2> QED BY <2>1, <2>3
<1>1. n \in Nat /\ cfg \in A
  BY <1>0
<1>2. \A a \in A, m \in 1..n : op(a, seq[m]) \in A
  <2>1. \A m \in 1..n : seq[m] \in Blocks(N) /\ Len(seq[m].code) = 1
    BY <1>0
  <2> HIDE DEF n, seq
  <2> QED BY <2>1, BypassType
<1> HIDE DEF op, A, n, seq
<1>3. g \in [A \X (1..n) -> A]
  BY <1>2
<1>4. PICK f : Folded(f, A, n, cfg, g)
  <2> HIDE DEF g
  <2> QED BY <1>1, <1>3, FoldExists
<1>5. Is(f)
  <2>1. ASSUME NEW m \in 1..n PROVE f[m] = op(f[m - 1], seq[m])
    <3>1. m - 1 \in 0..n /\ m \in 1..n
      BY <1>1
    <3>2. f[m - 1] \in A /\ f[m] = g[<<f[m - 1], m>>]
      <4> HIDE DEF g
      <4> QED BY <1>4, <3>1 DEF Folded
    <3> QED BY <3>1, <3>2
  <2> HIDE DEF g
  <2> QED BY <1>1, <1>4, <2>1 DEF Folded
<1>6. Is(after)
  <2> HIDE DEF Is
  <2> QED BY <1>5
<1>7. after[n] \in A
  <2>1. Carries(after, A, n)
    <3> HIDE DEF after
    <3>1. after[0] \in A
      BY <1>1, <1>6
    <3>2. ASSUME NEW m \in 1..n, after[m - 1] \in A PROVE after[m] \in A
      <4>1. m \in 0..n /\ m # 0
        BY <1>1
      <4>2. after[m] = op(after[m - 1], seq[m])
        BY <1>6, <4>1
      <4> QED BY <1>2, <3>2, <4>2
    <3> QED BY <3>1, <3>2 DEF Carries
  <2> HIDE DEF after
  <2> QED BY <1>1, <2>1, FoldKeeps
<1> QED BY <1>7 DEF EliminateEmptyJumps, Fold, op, A, n, seq

(* A sequence with one member less.                                        *)
LEMMA RemoveAtType ==
  ASSUME NEW S, NEW seq \in Seq(S), NEW k \in 1..(Len(seq) + 1)
  PROVE  RemoveAt(seq, k) \in Seq(S)
<1>1. SubSeq(seq, 1, k - 1) \in Seq(S) /\ SubSeq(seq, k + 1, Len(seq)) \in Seq(S)
  OBVIOUS
<1> QED BY <1>1 DEF RemoveAt

(* simplify_cfg: a block is joined to the only one that leads to it.       *)
LEMMA MergeBlocksType ==
  ASSUME NEW n \in Nat, NEW cfg \in Graphs(n)
  PROVE  MergeBlocks(cfg) \in Graphs(n)
<1> DEFINE bs == cfg.blocks
           next(k) == bs[k].succs[1]
           merges(k) == /\ Len(bs[k].succs) = 1 /\ next(k) \notin {bs[k].label, cfg.entry}
                        /\ HasBlock(bs, next(k)) /\ Block(cfg, next(k)).preds = <<bs[k].label>>
           able == {k \in DOMAIN bs : merges(k)}
           a == CHOOSE k \in able : \A j \in able : k <= j
           b == Block(cfg, next(a))
           own == IF bs[a].code # << >> /\ Last(bs[a].code) = Jump(b.label)
                  THEN Front(bs[a].code) ELSE bs[a].code
           first(x) == IF x = bs[a] THEN [x EXCEPT !.code = own \o b.code, !.succs = b.succs] ELSE x
           joined(x) == [first(x) EXCEPT
                           !.code = Retarget(@, b.label, bs[a].label),
                           !.preds = IF Contains(b.succs, first(x).label)
                                     THEN Renamed(@, b.label, bs[a].label) ELSE @]
           map == [k \in DOMAIN bs |-> joined(bs[k])]
           better == [cfg EXCEPT !.blocks = RemoveAt(<< >> \o map, FindBlock(bs, b.label))]
<1>1. MergeBlocks(cfg) = IF able = {} THEN cfg ELSE better
  BY DEF MergeBlocks, Map
<1> SUFFICES ASSUME able # {} PROVE better \in Graphs(n)
  <2> HIDE DEF able, better
  <2> QED BY <1>1
<1>2. bs \in Seq(Blocks(n)) /\ (\A k \in DOMAIN bs : bs[k] \in Blocks(n))
  BY GraphFields
<1>3. a \in able
  <2>1. able \subseteq Nat
    BY <1>2
  <2> HIDE DEF able
  <2>2. \E k \in able : \A j \in able : k <= j
    BY <2>1, LeastNumber
  <2> QED BY <2>2
<1>4. a \in DOMAIN bs /\ Len(bs[a].succs) = 1 /\ bs[a] \in Blocks(n)
  <2>1. \A k \in able : k \in DOMAIN bs /\ Len(bs[k].succs) = 1
    OBVIOUS
  <2> HIDE DEF able, a
  <2> QED BY <1>2, <1>3, <2>1
<1> HIDE DEF able, a
<1>5. b \in Blocks(n)
  <2>1. bs[a].succs \in Seq(Int)
    BY <1>4, BlockFields
  <2>2. next(a) \in Int
    BY <1>4, <2>1
  <2> HIDE DEF next
  <2> QED BY <2>2, BlockType
<1> HIDE DEF b
<1>6. own \in Seq(Unlabelled(n))
  <2>1. bs[a].code \in Seq(Unlabelled(n))
    BY <1>4, BlockFields
  <2> DEFINE c == bs[a].code
  <2>2. c # << >> => Front(c) \in Seq(Unlabelled(n))
    <3> HIDE DEF bs
    <3> QED BY <2>1 DEF Front
  <2> QED BY <2>1, <2>2
<1> HIDE DEF own
<1>7. ASSUME NEW x \in Blocks(n) PROVE first(x) \in Blocks(n)
  <2>1. own \o b.code \in Seq(Unlabelled(n)) /\ b.succs \in Seq(Int)
    <3>1. b.code \in Seq(Unlabelled(n)) /\ b.succs \in Seq(Int)
      BY <1>5, BlockFields
    <3> QED BY <1>6, <3>1
  <2>2. [x EXCEPT !.code = own \o b.code, !.succs = b.succs] \in Blocks(n)
    <3>1. x.preds \in Seq(Int)
      BY BlockFields
    <3> QED BY <2>1, <3>1, BlockWith
  <2> QED BY <2>2
<1>8. ASSUME NEW x \in Blocks(n) PROVE joined(x) \in Blocks(n)
  <2> DEFINE c == first(x)
  <2>1. c \in Blocks(n)
    BY <1>7
  <2>2. joined(x) = [c EXCEPT !.code = Retarget(@, b.label, bs[a].label),
                             !.preds = IF Contains(b.succs, c.label)
                                       THEN Renamed(@, b.label, bs[a].label) ELSE @]
    OBVIOUS
  <2> HIDE DEF c, first
  <2>3. c.code \in Seq(Unlabelled(n)) /\ c.preds \in Seq(Int) /\ c.succs \in Seq(Int)
    BY <2>1, BlockFields
  <2>4. bs[a].label \in Int
    BY <1>4, BlockFields
  <2>5. Retarget(c.code, b.label, bs[a].label) \in Seq(Unlabelled(n))
        /\ (IF Contains(b.succs, c.label) THEN Renamed(c.preds, b.label, bs[a].label) ELSE c.preds)
             \in Seq(Int)
    BY <2>3, <2>4, RetargetType, RenamedType
  <2> DEFINE code == Retarget(c.code, b.label, bs[a].label)
             preds == IF Contains(b.succs, c.label)
                      THEN Renamed(c.preds, b.label, bs[a].label) ELSE c.preds
  <2>6. joined(x) = [c EXCEPT !.code = code, !.preds = preds]
    BY <2>2
  <2>7. code \in Seq(Unlabelled(n)) /\ preds \in Seq(Int)
    BY <2>5
  <2> HIDE DEF joined, code, preds
  <2>8. [c EXCEPT !.code = code, !.preds = preds] \in Blocks(n)
    BY <2>1, <2>3, <2>7, BlockWith
  <2> QED BY <2>6, <2>8
<1> HIDE DEF joined, first
<1>9. map \in [DOMAIN bs -> Blocks(n)]
  BY <1>2, <1>8
<1> HIDE DEF map
<1>10. << >> \o map \in Seq(Blocks(n)) /\ Len(<< >> \o map) = Len(bs)
  BY <1>2, <1>9, MappedBlocks
<1>11. FindBlock(bs, b.label) \in 1..(Len(bs) + 1)
  BY <1>2, FindBlockRange
<1>12. RemoveAt(<< >> \o map, FindBlock(bs, b.label)) \in Seq(Blocks(n))
  BY <1>10, <1>11, RemoveAtType
<1> QED BY <1>12, GraphFields

(* One turn of simplify_cfg.                                               *)
LEMMA SimplifyOnceType ==
  ASSUME NEW n \in Nat, NEW cfg \in Graphs(n)
  PROVE  SimplifyOnce(cfg) \in Graphs(n)
BY RemoveUnreachableType, EliminateEmptyJumpsType, MergeBlocksType DEF SimplifyOnce

(* simplify_cfg makes a graph of a graph, however many turns it takes.     *)
LEMMA SimplifyCfgType ==
  ASSUME NEW N \in Nat, NEW cfg \in Graphs(N)
  PROVE  SimplifyCfg(cfg) \in Graphs(N)
<1> DEFINE seq == [k \in 1..MAX_PASSES |-> k]
           start == [is |-> cfg, same |-> FALSE]
           n == Len(seq)
           A == [is : Graphs(N), same : BOOLEAN]
           op(acc, k) == IF acc.same THEN acc ELSE [is |-> SimplifyOnce(acc.is), same |-> SimplifyOnce(acc.is) = acc.is]
           g == [p \in A \X (1..n) |-> op(p[1], seq[p[2]])]
           Is(f) == f = [m \in 0..n |-> IF m = 0 THEN start ELSE op(f[m - 1], seq[m])]
           after == CHOOSE f : Is(f)
<1>1. n \in Nat /\ start \in A
  BY DEF MAX_PASSES
<1>2. \A a \in A, m \in 1..n : op(a, seq[m]) \in A
  <2> SUFFICES ASSUME NEW a \in A, NEW m \in 1..n PROVE op(a, seq[m]) \in A
    OBVIOUS
  <2>1. SimplifyOnce(a.is) \in Graphs(N)
    BY SimplifyOnceType
  <2> QED BY <2>1
<1> HIDE DEF op, A, n, start, seq
<1>3. g \in [A \X (1..n) -> A]
  BY <1>2
<1>4. PICK f : Folded(f, A, n, start, g)
  <2> HIDE DEF g
  <2> QED BY <1>1, <1>3, FoldExists
<1>5. Is(f)
  <2>1. ASSUME NEW m \in 1..n PROVE f[m] = op(f[m - 1], seq[m])
    <3>1. m - 1 \in 0..n /\ m \in 1..n
      BY <1>1
    <3>2. f[m - 1] \in A /\ f[m] = g[<<f[m - 1], m>>]
      <4> HIDE DEF g
      <4> QED BY <1>4, <3>1 DEF Folded
    <3> QED BY <3>1, <3>2
  <2> HIDE DEF g
  <2> QED BY <1>1, <1>4, <2>1 DEF Folded
<1>6. Is(after)
  <2> HIDE DEF Is
  <2> QED BY <1>5
<1>7. after[n] \in A
  <2>1. Carries(after, A, n)
    <3> HIDE DEF after
    <3>1. after[0] \in A
      BY <1>1, <1>6
    <3>2. ASSUME NEW m \in 1..n, after[m - 1] \in A PROVE after[m] \in A
      <4>1. m \in 0..n /\ m # 0
        BY <1>1
      <4>2. after[m] = op(after[m - 1], seq[m])
        BY <1>6, <4>1
      <4> QED BY <1>2, <3>2, <4>2
    <3> QED BY <3>1, <3>2 DEF Carries
  <2> HIDE DEF after
  <2> QED BY <1>1, <2>1, FoldKeeps
<1>8. SimplifyCfg(cfg) = after[n].is
  BY DEF SimplifyCfg, Repeated, Fold, op, n, start, seq
<1> HIDE DEF after
<1> QED BY <1>7, <1>8 DEF A

-----------------------------------------------------------------------------
(***************************************************************************)
(* The graph that is built, and verify_cfg.                                *)
(***************************************************************************)

(* Only keeps whatever is in the set.                                      *)
LEMMA OnlyMembers ==
  ASSUME NEW S, NEW seq \in Seq(S), NEW set, NEW i \in DOMAIN seq, seq[i] \in set
  PROVE  Contains(Only(seq, set), seq[i])
<1> DEFINE n == Len(seq)
           A == Seq(S)
           op(kept, e) == IF e \in set THEN Append(kept, e) ELSE kept
           g == [p \in A \X (1..n) |-> op(p[1], seq[p[2]])]
           Is(f) == f = [m \in 0..n |-> IF m = 0 THEN << >> ELSE op(f[m - 1], seq[m])]
           after == CHOOSE f : Is(f)
<1>1. n \in Nat /\ << >> \in A /\ i \in 1..n
  OBVIOUS
<1>2. \A a \in A, m \in 1..n : op(a, seq[m]) \in A
  OBVIOUS
<1>3. \A a \in A, m \in 1..n :
        /\ \A e : Contains(a, e) => Contains(op(a, seq[m]), e)
        /\ seq[m] \in set => Contains(op(a, seq[m]), seq[m])
  <2> SUFFICES ASSUME NEW a \in A, NEW m \in 1..n
               PROVE /\ \A e : Contains(a, e) => Contains(op(a, seq[m]), e)
                     /\ seq[m] \in set => Contains(op(a, seq[m]), seq[m])
    OBVIOUS
  <2>1. seq[m] \in S
    OBVIOUS
  <2>2. Append(a, seq[m])[Len(a) + 1] = seq[m] /\ Len(a) + 1 \in 1..Len(Append(a, seq[m]))
    BY <2>1
  <2>3. \A j \in 1..Len(a) : Append(a, seq[m])[j] = a[j] /\ j \in 1..Len(Append(a, seq[m]))
    BY <2>1
  <2> QED BY <2>2, <2>3 DEF Contains
<1> HIDE DEF op, A, n
<1>4. g \in [A \X (1..n) -> A]
  BY <1>2
<1>5. PICK f : Folded(f, A, n, << >>, g)
  <2> HIDE DEF g
  <2> QED BY <1>1, <1>4, FoldExists
<1>6. Is(f)
  <2>1. ASSUME NEW m \in 1..n PROVE f[m] = op(f[m - 1], seq[m])
    <3>1. m - 1 \in 0..n /\ m \in 1..n
      BY <1>1
    <3>2. f[m - 1] \in A /\ f[m] = g[<<f[m - 1], m>>]
      <4> HIDE DEF g
      <4> QED BY <1>5, <3>1 DEF Folded
    <3> QED BY <3>1, <3>2
  <2> HIDE DEF g
  <2> QED BY <1>1, <1>5, <2>1 DEF Folded
<1>7. Is(after)
  <2> HIDE DEF Is
  <2> QED BY <1>6
<1>8. after[0] = << >> /\ \A m \in 1..n : after[m] = op(after[m - 1], seq[m])
  <2> HIDE DEF after
  <2>1. \A m \in 1..n : m \in 0..n /\ m # 0
    BY <1>1
  <2> QED BY <1>1, <1>7, <2>1
<1> HIDE DEF after
<1> DEFINE all(m) == after[m] \in A /\ (m >= i => Contains(after[m], seq[i]))
           h == [m \in 0..n |-> all(m)]
<1>9. all(0)
  BY <1>1, <1>8
<1>10. ASSUME NEW m \in 1..n, all(m - 1) PROVE all(m)
  <2>1. after[m - 1] \in A /\ after[m] = op(after[m - 1], seq[m])
    BY <1>8, <1>10
  <2>2. m >= i => m = i \/ m - 1 >= i
    BY <1>1
  <2>3. m >= i => Contains(after[m], seq[i])
    BY <1>3, <1>10, <2>1, <2>2
  <2> QED BY <1>2, <2>1, <2>3
<1>11. h[n] \in {TRUE}
  <2>1. Carries(h, {TRUE}, n)
    <3> HIDE DEF all
    <3>1. h[0] = all(0) /\ \A m \in 1..n : m - 1 \in 0..n /\ h[m] = all(m) /\ h[m - 1] = all(m - 1)
      BY <1>1
    <3>2. h[0] \in {TRUE}
      BY <1>9, <3>1
    <3>3. ASSUME NEW m \in 1..n, h[m - 1] \in {TRUE} PROVE h[m] \in {TRUE}
      <4>1. all(m - 1)
        BY <3>1, <3>3
      <4>2. all(m)
        BY <1>10, <4>1
      <4> QED BY <3>1, <4>2
    <3> HIDE DEF h
    <3> QED BY <3>2, <3>3 DEF Carries
  <2> HIDE DEF h
  <2> QED BY <1>1, <2>1, FoldKeeps
<1>12. all(n)
  <2> HIDE DEF all
  <2> QED BY <1>1, <1>11
<1>13. Contains(after[n], seq[i])
  BY <1>1, <1>12
<1>14. after[n] = Only(seq, set)
  BY DEF Only, Fold, op, n, after
<1> QED BY <1>13, <1>14

(* Finitely many numbers are no greater than their greatest.               *)
LEMMA MaxBounds ==
  ASSUME NEW n \in Nat, NEW code \in Seq(Instructions(n)), NEW k \in DOMAIN code
  PROVE  code[k].to <= MaxLabel(code)
<1> DEFINE f == [j \in 1..Len(code) |-> code[j].to]
           S == {FirstAutoLabel} \cup {f[j] : j \in 1..Len(code)}
<1>1. f \in [1..Len(code) -> Int] /\ Len(code) \in Nat
  <2>1. Len(code) \in Nat /\ \A j \in 1..Len(code) : code[j] \in Instructions(n)
    OBVIOUS
  <2>2. \A j \in 1..Len(code) : code[j].to \in Int
    BY <2>1, InstructionFields
  <2> QED BY <2>1, <2>2
<1>2. {code[j].to : j \in DOMAIN code} = {f[j] : j \in 1..Len(code)}
  OBVIOUS
<1>3. FirstAutoLabel \in Int
  BY DEF FirstAutoLabel
<1>4. code[k].to \in S
  OBVIOUS
<1>5. MaxLabel(code) = Max(S)
  BY <1>2 DEF MaxLabel
<1> HIDE DEF f
<1>6. \A x \in S : Max(S) >= x
  BY <1>1, <1>3, MaxType
<1>7. S \subseteq Int
  BY <1>1, <1>3
<1>8. Max(S) \in Int
  BY <1>1, <1>3, MaxType
<1> HIDE DEF S
<1> QED BY <1>4, <1>5, <1>6, <1>7, <1>8

-----------------------------------------------------------------------------
(* A sequence with a member is not empty.                                  *)
LEMMA NotEmpty ==
  ASSUME NEW q, Len(q) # 0
  PROVE  q # << >>
OBVIOUS

(* One member more, at the end.                                            *)
LEMMA AppendFields ==
  ASSUME NEW S, NEW q \in Seq(S), NEW e \in S
  PROVE  /\ Append(q, e) \in Seq(S) /\ Append(q, e) # << >>
         /\ Len(q) \in Nat /\ DOMAIN q = 1..Len(q) /\ Len(Append(q, e)) = Len(q) + 1
         /\ DOMAIN Append(q, e) = 1..(Len(q) + 1) /\ Append(q, e)[Len(q) + 1] = e
         /\ \A j \in 1..Len(q) : Append(q, e)[j] = q[j] /\ j \in 1..(Len(q) + 1)
         /\ \A j \in 1..(Len(q) + 1) : j \in 1..Len(q) \/ j = Len(q) + 1
<1>1. /\ Append(q, e) \in Seq(S) /\ Len(q) \in Nat /\ DOMAIN q = 1..Len(q)
      /\ Len(Append(q, e)) = Len(q) + 1 /\ DOMAIN Append(q, e) = 1..(Len(q) + 1)
  OBVIOUS
<1>2. Append(q, e)[Len(q) + 1] = e /\ \A j \in 1..Len(q) : Append(q, e)[j] = q[j]
  OBVIOUS
<1>3. /\ \A j \in 1..(Len(q) + 1) : j \in 1..Len(q) \/ j = Len(q) + 1
      /\ \A j \in 1..Len(q) : j \in 1..(Len(q) + 1)
  BY <1>1
<1>4. Append(q, e) # << >>
  <2>1. Len(Append(q, e)) # 0
    BY <1>1
  <2> QED BY <2>1, NotEmpty
<1> QED BY <1>1, <1>2, <1>3, <1>4

(* The labels code places and those it jumps to.                           *)
PlacedIn(c) == {i.to : i \in {j \in ToSet(c) : j.op = "label"}}
TargetsIn(c) == {i.to : i \in {j \in ToSet(c) : j.op \in {"jump", "test"}}}
PlacedOnce(c) ==
  \A i, k \in DOMAIN c : c[i].op = "label" /\ c[k].op = "label" /\ c[i].to = c[k].to => i = k
WellLabelled(c) == PlacedOnce(c) /\ TargetsIn(c) \subseteq PlacedIn(c)

(* What a block that begins with an instruction is called.                 *)
NameOf(c, k) == IF c[k].op = "label" THEN c[k].to ELSE MaxLabel(c) + k

(* No two have one name: those made up are above all labels there are.     *)
LEMMA NamesDiffer ==
  ASSUME NEW n \in Nat, NEW c \in Seq(Instructions(n)), PlacedOnce(c),
         NEW i \in DOMAIN c, NEW k \in DOMAIN c, NameOf(c, i) = NameOf(c, k)
  PROVE  i = k
<1>1. MaxLabel(c) \in Int /\ i \in Nat \ {0} /\ k \in Nat \ {0}
  BY MaxLabelType
<1>2. c[i].to <= MaxLabel(c) /\ c[k].to <= MaxLabel(c)
  BY MaxBounds
<1>3. c[i].to \in Int /\ c[k].to \in Int
  <2>1. c[i] \in Instructions(n) /\ c[k] \in Instructions(n)
    OBVIOUS
  <2> QED BY <2>1, InstructionFields
<1>4. CASE c[i].op = "label" /\ c[k].op = "label"
  BY <1>4 DEF NameOf, PlacedOnce
<1>5. CASE c[i].op # "label" /\ c[k].op # "label"
  BY <1>1, <1>5 DEF NameOf
<1>6. CASE ~ (c[i].op = "label" <=> c[k].op = "label")
  BY <1>1, <1>2, <1>3, <1>6 DEF NameOf
<1> QED BY <1>4, <1>5, <1>6

(* What a block holds is from the code, and only its last leaves it.       *)
FromCode(code, c) ==
  \A k \in DOMAIN c : c[k] \in ToSet(code) /\ (IsTerminator(c[k]) => k = Len(c))

(* The blocks so far, of the first m instructions.                         *)
CutFrom(code, m, bs) ==
  /\ m # 0 => bs # << >>
  /\ \A j \in DOMAIN bs : \E i \in 1..m : bs[j].label = NameOf(code, i)
  /\ LabelsOnce(bs)
  /\ \A i \in 1..m : code[i].op = "label" => code[i].to \in LabelSet(bs)
  /\ \A j \in DOMAIN bs : FromCode(code, bs[j].code)
  /\ m # 0 /\ bs[Len(bs)].code # << >> => bs[Len(bs)].code[Len(bs[Len(bs)].code)] = code[m]

(* Blocks with the same labels.                                            *)
LEMMA SameLabels ==
  ASSUME NEW bs, NEW others, DOMAIN others = DOMAIN bs,
         \A j \in DOMAIN bs : others[j].label = bs[j].label
  PROVE  (LabelsOnce(bs) => LabelsOnce(others)) /\ LabelSet(others) = LabelSet(bs)
BY DEF LabelsOnce, LabelSet

(* One instruction more.                                                   *)
LEMMA AddToBlocksCut ==
  ASSUME NEW n \in Nat, NEW code \in Seq(Instructions(n)), PlacedOnce(code),
         NEW k \in 1..Len(code), NEW bs \in Seq(Blocks(n)), CutFrom(code, k - 1, bs)
  PROVE  CutFrom(code, k, AddToBlocks(code, bs, k))
<1> DEFINE new == AddToBlocks(code, bs, k)
           L == Len(bs)
<1>0. new = AddToBlocks(code, bs, k)
  OBVIOUS
<1> HIDE DEF new
<1>1. /\ L \in Nat /\ DOMAIN bs = 1..L /\ code[k] \in Instructions(n) /\ code[k] \in ToSet(code)
      /\ k \in Nat /\ k \in DOMAIN code /\ k \in 1..k
      /\ \A i \in 1..(k - 1) : i \in 1..k /\ i \in DOMAIN code /\ i # k
  BY DEF ToSet
<1>2. \A i \in 1..k : i \in 1..(k - 1) \/ i = k
  BY <1>1
<1>3. CASE IsLeader(code, k)
  <2>1. PICK e \in Blocks(n) :
          /\ new = Append(bs, e) /\ e.label = NameOf(code, k)
          /\ e.code = << >> \/ e.code = <<code[k]>>
    <3>1. code[k].to \in Int /\ MaxLabel(code) + k \in Int
      BY <1>1, InstructionFields, MaxLabelType
    <3>2. \A l \in Int : EmptyBlock(l) \in Blocks(n) /\ EmptyBlock(l).label = l /\ EmptyBlock(l).code = << >>
      BY EmptyBlockType DEF EmptyBlock
    <3>3. CASE code[k].op = "label"
      BY <1>3, <3>1, <3>2, <3>3 DEF AddToBlocks, new, NameOf
    <3>4. CASE code[k].op # "label"
      <4> DEFINE x == EmptyBlock(MaxLabel(code) + k)
                 e == [x EXCEPT !.code = <<code[k]>>]
      <4>1. x \in Blocks(n) /\ x.label = MaxLabel(code) + k
        BY <3>1, <3>2
      <4>2. code[k] \in Unlabelled(n)
        BY <1>1, <3>4 DEF Unlabelled
      <4>3. <<code[k]>> \in Seq(Unlabelled(n))
        BY <4>2
      <4>4. e \in Blocks(n)
        BY <4>1, <4>3, BlockFields
      <4>5. e.label = x.label /\ e.code = <<code[k]>>
        BY DEF EmptyBlock
      <4>6. new = Append(bs, e)
        BY <1>3, <3>4 DEF AddToBlocks, new
      <4> HIDE DEF e, x
      <4> QED BY <3>4, <4>1, <4>4, <4>5, <4>6 DEF NameOf
    <3> QED BY <3>3, <3>4
  <2>2. /\ Len(new) = L + 1 /\ DOMAIN new = 1..(L + 1) /\ new[L + 1] = e
        /\ \A j \in 1..L : new[j] = bs[j] /\ j \in 1..(L + 1)
        /\ \A j \in 1..(L + 1) : j \in 1..L \/ j = L + 1
        /\ new # << >> /\ L + 1 \in 1..(L + 1)
    <3>1. L + 1 \in 1..(L + 1)
      BY <1>1
    <3> QED BY <2>1, <3>1, AppendFields
  <2>4. \A j \in 1..L : new[j].label # e.label
    <3> SUFFICES ASSUME NEW j \in 1..L, bs[j].label = e.label PROVE FALSE
      BY <2>2
    <3>1. PICK i \in 1..(k - 1) : bs[j].label = NameOf(code, i)
      BY <1>1 DEF CutFrom
    <3>2. NameOf(code, i) = NameOf(code, k) /\ i \in DOMAIN code
      BY <1>1, <2>1, <3>1
    <3>3. i = k
      BY <1>1, <3>2, NamesDiffer
    <3> QED BY <1>1, <3>1, <3>3
  <2>5. LabelsOnce(new)
    <3>1. \A i, j \in 1..L : bs[i].label = bs[j].label => i = j
      BY <1>1 DEF CutFrom, LabelsOnce
    <3>2. \A i, j \in 1..(L + 1) : new[i].label = new[j].label => i = j
      BY <2>2, <2>4, <3>1
    <3> QED BY <2>2, <3>2 DEF LabelsOnce
  <2>6. \A j \in DOMAIN new : \E i \in 1..k : new[j].label = NameOf(code, i)
    <3>1. ASSUME NEW j \in 1..L PROVE \E i \in 1..k : new[j].label = NameOf(code, i)
      <4>1. PICK i \in 1..(k - 1) : bs[j].label = NameOf(code, i)
        BY <1>1 DEF CutFrom
      <4> QED BY <1>1, <2>2, <4>1
    <3>2. new[L + 1].label = NameOf(code, k)
      BY <2>1, <2>2
    <3> QED BY <1>1, <2>2, <3>1, <3>2
  <2>7. ASSUME NEW i \in 1..k, code[i].op = "label" PROVE code[i].to \in LabelSet(new)
    <3>1. CASE i = k
      <4>1. new[L + 1].label = code[i].to
        BY <2>1, <2>2, <2>7, <3>1 DEF NameOf
      <4> QED BY <2>2, <4>1 DEF LabelSet
    <3>2. CASE i \in 1..(k - 1)
      <4>1. PICK j \in 1..L : code[i].to = bs[j].label
        BY <1>1, <2>7, <3>2 DEF CutFrom, LabelSet
      <4> QED BY <2>2, <4>1 DEF LabelSet
    <3> QED BY <1>2, <3>1, <3>2
  <2>8. FromCode(code, e.code)
    <3>1. CASE e.code = << >>
      BY <3>1 DEF FromCode
    <3>2. CASE e.code = <<code[k]>>
      BY <1>1, <3>2 DEF FromCode
    <3> QED BY <2>1, <3>1, <3>2
  <2>9. \A j \in DOMAIN new : FromCode(code, new[j].code)
    BY <1>1, <2>2, <2>8 DEF CutFrom
  <2>10. e.code # << >> => e.code[Len(e.code)] = code[k]
    BY <2>1
  <2> QED BY <2>2, <2>5, <2>6, <2>7, <2>9, <2>10 DEF CutFrom, new
<1>4. CASE ~ IsLeader(code, k)
  <2>1. k # 1 /\ code[k].op # "label" /\ ~ IsTerminator(code[k - 1])
    BY <1>4 DEF IsLeader
  <2>2. bs # << >> /\ L \in DOMAIN bs /\ bs[L] \in Blocks(n)
    BY <1>1, <2>1 DEF CutFrom
  <2> DEFINE c == bs[L].code
             d == Append(c, code[k])
  <2>3. c \in Seq(Unlabelled(n)) /\ code[k] \in Unlabelled(n)
    BY <1>1, <2>1, <2>2, BlockFields DEF Unlabelled
  <2>4. /\ new = [bs EXCEPT ![L] = [bs[L] EXCEPT !.code = d]]
    BY <1>4 DEF AddToBlocks, new
  <2>5. [bs[L] EXCEPT !.code = d].label = bs[L].label /\ [bs[L] EXCEPT !.code = d].code = d
    BY <2>2 DEF Blocks
  <2>6. /\ Len(d) = Len(c) + 1 /\ DOMAIN d = 1..(Len(c) + 1) /\ d[Len(c) + 1] = code[k]
        /\ Len(c) \in Nat /\ DOMAIN c = 1..Len(c) /\ \A j \in 1..Len(c) : d[j] = c[j]
        /\ d # << >>
    <3> HIDE DEF c
    <3> QED BY <2>3, SMTT(30)
  <2>7. /\ Len(new) = L /\ DOMAIN new = 1..L
        /\ \A j \in 1..L : new[j].label = bs[j].label
        /\ new[L].code = d /\ \A j \in 1..L : j # L => new[j] = bs[j]
    <3> HIDE DEF d
    <3>1. DOMAIN new = DOMAIN bs /\ Len(new) = L
      BY <1>1, <2>2, <2>4
    <3>2. \A j \in DOMAIN bs : new[j] = IF j = L THEN [bs[L] EXCEPT !.code = d] ELSE bs[j]
      BY <2>4
    <3> QED BY <1>1, <2>2, <2>5, <3>1, <3>2
  <2> HIDE DEF c, d
  <2>8. FromCode(code, d)
    <3> SUFFICES ASSUME NEW j \in DOMAIN d PROVE d[j] \in ToSet(code) /\ (IsTerminator(d[j]) => j = Len(d))
      BY DEF FromCode
    <3>1. CASE j = Len(c) + 1
      BY <1>1, <2>6, <3>1
    <3>2. CASE j # Len(c) + 1
      <4>1. j \in 1..Len(c) /\ d[j] = c[j]
        BY <2>6, <3>2
      <4>2. c[j] \in ToSet(code) /\ (IsTerminator(c[j]) => j = Len(c))
        BY <1>1, <2>2, <2>6, <4>1 DEF CutFrom, FromCode, c
      <4>3. c # << >> /\ k - 1 # 0 => c[Len(c)] = code[k - 1]
        BY DEF CutFrom, c
      <4>4. ~ IsTerminator(c[Len(c)])
        BY <1>1, <2>1, <2>6, <4>1, <4>3
      <4> QED BY <4>1, <4>2, <4>4
    <3> QED BY <3>1, <3>2
  <2>9. \A j \in DOMAIN new : FromCode(code, new[j].code)
    BY <1>1, <2>7, <2>8 DEF CutFrom
  <2>10. LabelsOnce(new) /\ LabelSet(new) = LabelSet(bs)
    <3>1. LabelsOnce(bs)
      BY DEF CutFrom
    <3>2. DOMAIN new = DOMAIN bs /\ \A j \in DOMAIN bs : new[j].label = bs[j].label
      BY <1>1, <2>7
    <3> QED BY <3>1, <3>2, SameLabels
  <2>11. \A j \in DOMAIN new : \E i \in 1..k : new[j].label = NameOf(code, i)
    BY <1>1, <2>7 DEF CutFrom
  <2>12. \A i \in 1..k : code[i].op = "label" => code[i].to \in LabelSet(new)
    BY <1>1, <1>2, <2>1, <2>10 DEF CutFrom
  <2>13. new # << >>
    <3>1. L # 0 /\ Len(new) = L
      <4>1. L \in 1..L /\ L \in Nat
        BY <1>1, <2>2
      <4> HIDE DEF L
      <4> QED BY <2>7, <4>1
    <3>2. Len(new) # 0
      BY <3>1
    <3> QED BY <3>2, NotEmpty
  <2> QED BY <2>6, <2>7, <2>9, <2>10, <2>11, <2>12, <2>13 DEF CutFrom, new
<1> QED BY <1>3, <1>4

(* The blocks that code is cut into.                                       *)
LEMMA CutBlocksCut ==
  ASSUME NEW N \in Nat, NEW code \in Seq(Instructions(N)), PlacedOnce(code)
  PROVE  CutFrom(code, Len(code), CutBlocks(code))
<1> DEFINE seq == [k \in DOMAIN code |-> k]
           n == Len(seq)
           A == Seq(Blocks(N))
           op(bs, k) == AddToBlocks(code, bs, k)
           g == [p \in A \X (1..n) |-> op(p[1], seq[p[2]])]
           Is(f) == f = [m \in 0..n |-> IF m = 0 THEN << >> ELSE op(f[m - 1], seq[m])]
           after == CHOOSE f : Is(f)
<1>1. n \in Nat /\ << >> \in A /\ n = Len(code)
  OBVIOUS
<1>2. \A a \in A, m \in 1..n : op(a, seq[m]) \in A
  BY AddToBlocksType
<1>3. \A a \in A, m \in 1..n : CutFrom(code, m - 1, a) => CutFrom(code, m, op(a, seq[m]))
  BY AddToBlocksCut
<1>4. CutFrom(code, 0, << >>)
  BY DEF CutFrom, LabelsOnce
<1> HIDE DEF op, A, n, seq
<1>5. g \in [A \X (1..n) -> A]
  BY <1>2
<1>6. PICK f : Folded(f, A, n, << >>, g)
  <2> HIDE DEF g
  <2> QED BY <1>1, <1>5, FoldExists
<1>7. Is(f)
  <2>1. ASSUME NEW m \in 1..n PROVE f[m] = op(f[m - 1], seq[m])
    <3>1. m - 1 \in 0..n /\ m \in 1..n
      BY <1>1
    <3>2. f[m - 1] \in A /\ f[m] = g[<<f[m - 1], m>>]
      <4> HIDE DEF g
      <4> QED BY <1>6, <3>1 DEF Folded
    <3> QED BY <3>1, <3>2
  <2> HIDE DEF g
  <2> QED BY <1>1, <1>6, <2>1 DEF Folded
<1>8. Is(after)
  <2> HIDE DEF Is
  <2> QED BY <1>7
<1>9. after[0] = << >> /\ \A m \in 1..n : after[m] = op(after[m - 1], seq[m])
  <2> HIDE DEF after
  <2>1. \A m \in 1..n : m \in 0..n /\ m # 0
    BY <1>1
  <2> QED BY <1>1, <1>8, <2>1
<1> HIDE DEF after
<1> DEFINE all(m) == after[m] \in A /\ CutFrom(code, m, after[m])
           h == [m \in 0..n |-> all(m)]
<1>10. all(0)
  BY <1>1, <1>4, <1>9
<1>11. ASSUME NEW m \in 1..n, all(m - 1) PROVE all(m)
  <2>1. after[m - 1] \in A /\ after[m] = op(after[m - 1], seq[m])
    BY <1>9, <1>11
  <2> QED BY <1>2, <1>3, <1>11, <2>1
<1>12. h[n] \in {TRUE}
  <2>1. Carries(h, {TRUE}, n)
    <3> HIDE DEF all
    <3>1. h[0] = all(0) /\ \A m \in 1..n : m - 1 \in 0..n /\ h[m] = all(m) /\ h[m - 1] = all(m - 1)
      BY <1>1
    <3>2. h[0] \in {TRUE}
      BY <1>10, <3>1
    <3>3. ASSUME NEW m \in 1..n, h[m - 1] \in {TRUE} PROVE h[m] \in {TRUE}
      <4>1. all(m - 1)
        BY <3>1, <3>3
      <4>2. all(m)
        BY <1>11, <4>1
      <4> QED BY <3>1, <4>2
    <3> HIDE DEF h
    <3> QED BY <3>2, <3>3 DEF Carries
  <2> HIDE DEF h
  <2> QED BY <1>1, <2>1, FoldKeeps
<1>13. all(n)
  <2> HIDE DEF all
  <2> QED BY <1>1, <1>12
<1>14. CutFrom(code, Len(code), after[n])
  BY <1>1, <1>13
<1>15. after[n] = CutBlocks(code)
  BY DEF CutBlocks, Fold, op, n, seq, after
<1> QED BY <1>14, <1>15

(* A sequence that has a member at most.                                   *)
LEMMA AtMostOne ==
  ASSUME NEW S, NEW q, q # << >> => \E e \in S : q = <<e>>
  PROVE  q \in Seq(S)
<1>1. CASE q = << >>
  BY <1>1
<1>2. CASE q # << >>
  <2>1. PICK e \in S : q = <<e>>
    BY <1>2
  <2> QED BY <2>1
<1> QED BY <1>1, <1>2

(* A block that goes nowhere but to blocks there are, as its end says.     *)
GoesTo(labels, b) ==
  /\ ToSet(b.succs) \subseteq labels
  /\ \A i \in ToSet(b.code) : i.op \in {"jump", "test"} => i.to \in labels
  /\ EndAgrees(b)

(* Each block is led to where its last instruction says.                   *)
LEMMA ConnectGoes ==
  ASSUME NEW n \in Nat, NEW code \in Seq(Instructions(n)), WellLabelled(code),
         NEW cut \in Seq(Blocks(n)), CutFrom(code, Len(code), cut), NEW k \in DOMAIN cut
  PROVE  Connect(cut, k).label = cut[k].label /\ GoesTo(LabelSet(cut), Connect(cut, k))
<1> DEFINE b == cut[k]
           c == b.code
           falls == Ends(b) \notin {"return", "jump"} /\ k < Len(cut)
           taken == IF Ends(b) \in {"jump", "test"} THEN <<Last(b.code).to>> ELSE << >>
           L == cut[k + 1].label
           next == IF falls THEN <<L>> ELSE << >>
           jumps == [m \in 1..Len(next) |-> Jump(next[m])]
           succs == IF taken = next THEN taken ELSE taken \o next
           new == Connect(cut, k)
<1>1. k \in 1..Len(cut) /\ Len(cut) \in Nat /\ b \in Blocks(n) /\ DOMAIN cut = 1..Len(cut)
  OBVIOUS
<1>2. c \in Seq(Unlabelled(n)) /\ Len(c) \in Nat /\ DOMAIN c = 1..Len(c)
  <2>1. c \in Seq(Unlabelled(n))
    BY <1>1, BlockFields
  <2> QED BY <2>1
<1>3. FromCode(code, c)
  BY DEF CutFrom
<1>4. new.label = b.label /\ new.code = c \o jumps /\ new.succs = succs
  <2>1. new = [b EXCEPT !.code = @ \o jumps, !.succs = succs]
    BY DEF Connect
  <2> HIDE DEF new, jumps, succs
  <2> QED BY <1>1, <2>1 DEF Blocks
<1>5. \A i \in ToSet(code) : i.op \in {"jump", "test"} => i.to \in LabelSet(cut)
  <2> SUFFICES ASSUME NEW i \in ToSet(code), i.op \in {"jump", "test"} PROVE i.to \in LabelSet(cut)
    OBVIOUS
  <2>1. i.to \in PlacedIn(code)
    BY DEF WellLabelled, TargetsIn
  <2>2. PICK j \in 1..Len(code) : code[j].op = "label" /\ code[j].to = i.to
    BY <2>1 DEF PlacedIn, ToSet
  <2> QED BY <2>2 DEF CutFrom
<1>6. \A i \in ToSet(c) : i.op \in {"jump", "test"} => i.to \in LabelSet(cut)
  BY <1>3, <1>5 DEF FromCode, ToSet
<1>7. falls => L \in LabelSet(cut)
  <2>1. falls => k + 1 \in DOMAIN cut
    BY <1>1
  <2> HIDE DEF falls
  <2> QED BY <2>1 DEF LabelSet
<1>8. c # << >> => Len(c) \in DOMAIN c /\ Last(c) = c[Len(c)] /\ c[Len(c)] \in ToSet(c) /\ Ends(b) = c[Len(c)].op
  <2>1. c # << >> => Len(c) \in DOMAIN c
    BY <1>2
  <2>2. c # << >> => Ends(b) = Last(c).op
    BY DEF Ends
  <2> HIDE DEF c, b
  <2> QED BY <2>1, <2>2 DEF Last, ToSet
<1>9. c = << >> => Ends(b) = "none"
  BY DEF Ends
<1>10. Ends(b) \in {"jump", "test"} => Last(c).to \in LabelSet(cut)
  <2> HIDE DEF c, b
  <2> QED BY <1>6, <1>8, <1>9
<1>11. taken \in Seq(LabelSet(cut)) /\ next \in Seq(LabelSet(cut))
  <2>1. taken # << >> => Ends(b) \in {"jump", "test"} /\ taken = <<Last(c).to>>
    OBVIOUS
  <2>2. next # << >> => falls /\ next = <<L>>
    OBVIOUS
  <2>3. taken \in Seq(LabelSet(cut))
    <3> HIDE DEF taken, c, b
    <3> QED BY <1>10, <2>1, AtMostOne
  <2>4. next \in Seq(LabelSet(cut))
    <3> HIDE DEF next, falls, L
    <3> QED BY <1>7, <2>2, AtMostOne
  <2> QED BY <2>3, <2>4
<1>14. ToSet(succs) \subseteq LabelSet(cut)
  <2>1. succs \in Seq(LabelSet(cut))
    <3> HIDE DEF taken, next
    <3> QED BY <1>11
  <2> HIDE DEF succs
  <2> QED BY <2>1 DEF ToSet
<1>12. CASE ~ falls
  <2>1. next = << >> /\ jumps = << >>
    BY <1>12
  <2>2. new.code = c /\ succs = taken
    <3>1. c \o << >> = c
      <4> HIDE DEF c
      <4> QED BY <1>2
    <3>2. succs = taken
      <4>1. taken \o << >> = taken
        <5> HIDE DEF taken
        <5> QED BY <1>11
      <4> HIDE DEF taken
      <4> QED BY <2>1, <4>1
    <3> HIDE DEF c, jumps, new, succs
    <3> QED BY <1>4, <2>1, <3>1, <3>2
  <2>3. ASSUME NEW m \in DOMAIN c, LastTerminator(c, m)
        PROVE  /\ c[m].op = "return" => succs = << >>
               /\ c[m].op = "jump" => Contains(succs, c[m].to)
    <3>1. m = Len(c) /\ c # << >>
      BY <1>3, <2>3 DEF FromCode, LastTerminator
    <3>2. Ends(b) = c[m].op /\ Last(c) = c[m]
      <4> HIDE DEF c, b
      <4> QED BY <1>8, <3>1
    <3>3. Ends(b) = "return" => taken = << >>
      OBVIOUS
    <3>4. Ends(b) = "jump" => taken = <<c[m].to>>
      BY <3>2
    <3> HIDE DEF c, b, taken, succs
    <3> QED BY <2>2, <3>2, <3>3, <3>4 DEF Contains
  <2> HIDE DEF c, b, taken, next, succs, jumps, new, falls
  <2>4. EndAgrees(new)
    BY <1>4, <2>2, <2>3 DEF EndAgrees
  <2> QED BY <1>4, <1>6, <1>14, <2>2, <2>4 DEF GoesTo, new, b
<1>13. CASE falls
  <2>1. next = <<L>> /\ jumps = <<Jump(L)>>
    BY <1>13
  <2>2. Jump(L) \in Unlabelled(n) /\ Jump(L).op = "jump" /\ Jump(L).to = L
    <3>1. cut[k + 1] \in Blocks(n)
      BY <1>1, <1>13
    <3>2. L \in Int
      BY <3>1, BlockFields
    <3> HIDE DEF L
    <3> QED BY <3>2 DEF Jump, Inst, Unlabelled, Instructions, None, Assigning, Operators
  <2>3. new.code = Append(c, Jump(L))
    <3>1. c \o <<Jump(L)>> = Append(c, Jump(L))
      <4> HIDE DEF c, L
      <4> QED BY <1>2, <2>2
    <3> HIDE DEF c, L, new, jumps
    <3> QED BY <1>4, <2>1, <3>1
  <2>4. Contains(succs, L)
    <3>1. succs = IF taken = next THEN taken ELSE taken \o next
      OBVIOUS
    <3>2. taken = << >> \/ taken = <<Last(c).to>>
      OBVIOUS
    <3>3. next = <<L>>
      BY <2>1
    <3> HIDE DEF taken, succs, L, next
    <3>4. CASE taken = next
      BY <3>1, <3>3, <3>4 DEF Contains
    <3>5. CASE taken = << >> /\ taken # next
      <4>1. succs = << >> \o <<L>>
        BY <3>1, <3>3, <3>5
      <4> QED BY <4>1 DEF Contains
    <3>6. CASE taken = <<Last(c).to>> /\ taken # next
      <4> DEFINE t == Last(c).to
      <4> HIDE DEF t
      <4>1. succs = <<t>> \o <<L>>
        BY <3>1, <3>3, <3>6 DEF t
      <4>2. Len(<<t>> \o <<L>>) = 2 /\ (<<t>> \o <<L>>)[2] = L
        OBVIOUS
      <4> QED BY <4>1, <4>2 DEF Contains
    <3> QED BY <3>2, <3>4, <3>5, <3>6
  <2> HIDE DEF c, b, taken, next, succs, jumps, new, falls, L
  <2> DEFINE d == Append(c, Jump(L))
  <2>5. /\ Len(d) = Len(c) + 1 /\ DOMAIN d = 1..(Len(c) + 1) /\ d[Len(c) + 1] = Jump(L)
        /\ \A j \in 1..Len(c) : d[j] = c[j]
        /\ \A j \in 1..(Len(c) + 1) : j \in 1..Len(c) \/ j = Len(c) + 1
    BY <1>2, <2>2, AppendFields
  <2> HIDE DEF d
  <2>6. ASSUME NEW m \in DOMAIN d, LastTerminator(d, m)
        PROVE  /\ d[m].op = "return" => succs = << >>
               /\ d[m].op = "jump" => Contains(succs, d[m].to)
    <3>1. m \in 1..Len(c) => Len(c) + 1 \in (m + 1)..Len(d)
      BY <1>2, <2>5
    <3>2. IsTerminator(d[Len(c) + 1])
      BY <2>2, <2>5 DEF IsTerminator
    <3>3. m = Len(c) + 1
      BY <2>5, <2>6, <3>1, <3>2 DEF LastTerminator
    <3> QED BY <2>2, <2>4, <2>5, <3>3
  <2>7. EndAgrees(new)
    BY <1>4, <2>3, <2>6 DEF EndAgrees, d
  <2>8. \A i \in ToSet(d) : i.op \in {"jump", "test"} => i.to \in LabelSet(cut)
    <3> SUFFICES ASSUME NEW j \in DOMAIN d, d[j].op \in {"jump", "test"} PROVE d[j].to \in LabelSet(cut)
      BY DEF ToSet
    <3>1. CASE j = Len(c) + 1
      BY <1>7, <1>13, <2>2, <2>5, <3>1
    <3>2. CASE j \in 1..Len(c)
      <4>1. c[j] \in ToSet(c) /\ d[j] = c[j]
        BY <1>2, <2>5, <3>2 DEF ToSet
      <4> QED BY <1>6, <4>1
    <3> QED BY <2>5, <3>1, <3>2
  <2> QED BY <1>4, <1>14, <2>3, <2>7, <2>8 DEF GoesTo, new, b, d
<1> QED BY <1>12, <1>13

(* Predecessors are the blocks that go on to one, and no others.           *)
LEMMA PredecessorsAre ==
  ASSUME NEW n \in Nat, NEW blocks \in Seq(Blocks(n)), NEW l
  PROVE  /\ \A k \in DOMAIN blocks :
              Contains(blocks[k].succs, l) => Contains(Predecessors(blocks, l), blocks[k].label)
         /\ \A m \in ToSet(Predecessors(blocks, l)) :
              \E k \in DOMAIN blocks : blocks[k].label = m /\ Contains(blocks[k].succs, l)
<1> DEFINE set == {b \in ToSet(blocks) : Contains(b.succs, l)}
           from == Only(blocks, set)
           labels == [k \in DOMAIN from |-> from[k].label]
<1>1. from \in Seq(Blocks(n) \cap set)
  BY OnlyType
<1>2. Predecessors(blocks, l) = << >> \o labels
  BY DEF Predecessors, Map
<1>3. labels \in Seq({b.label : b \in set})
  <2> HIDE DEF from, set
  <2>1. \A k \in DOMAIN from : from[k] \in set
    BY <1>1
  <2> QED BY <1>1, <2>1
<1>4. Predecessors(blocks, l) = labels
  <2> HIDE DEF labels, set
  <2> QED BY <1>2, <1>3
<1>5. ASSUME NEW k \in DOMAIN blocks, Contains(blocks[k].succs, l)
      PROVE  Contains(labels, blocks[k].label)
  <2>1. blocks[k] \in set
    BY <1>5 DEF ToSet
  <2>2. Contains(from, blocks[k])
    <3> HIDE DEF set
    <3> QED BY <2>1, OnlyMembers
  <2> HIDE DEF from
  <2>3. PICK j \in DOMAIN from : from[j] = blocks[k]
    <3>1. DOMAIN from = 1..Len(from)
      BY <1>1
    <3> QED BY <2>2, <3>1 DEF Contains
  <2>4. j \in DOMAIN labels /\ labels[j] = blocks[k].label
    BY <2>3
  <2>5. DOMAIN labels = 1..Len(labels)
    <3> HIDE DEF labels, set
    <3> QED BY <1>3
  <2> HIDE DEF labels
  <2> QED BY <2>4, <2>5 DEF Contains
<1>6. ASSUME NEW m \in ToSet(labels)
      PROVE  \E k \in DOMAIN blocks : blocks[k].label = m /\ Contains(blocks[k].succs, l)
  <2>1. PICK b \in set : m = b.label
    <3> HIDE DEF labels, set
    <3> QED BY <1>3, <1>6 DEF ToSet
  <2>2. PICK k \in DOMAIN blocks : b = blocks[k]
    BY <2>1 DEF ToSet
  <2> QED BY <2>1, <2>2
<1> HIDE DEF labels
<1> QED BY <1>4, <1>5, <1>6

(* Code in which every label is placed once and every jump's target is,    *)
(* makes a graph that verify_cfg accepts.                                  *)
THEOREM BuildCfgVerified ==
  ASSUME NEW n \in Nat, NEW code \in Seq(Instructions(n)), WellLabelled(code)
  PROVE  VerifyCfg(BuildCfg(code))
<1> DEFINE cut == CutBlocks(code)
           blocks == [k \in DOMAIN cut |-> Connect(cut, k)]
           known == [k \in DOMAIN blocks |->
                       [blocks[k] EXCEPT !.preds = Predecessors(blocks, blocks[k].label)]]
           S == LabelSet(cut)
<1>1. cut \in Seq(Blocks(n))
  BY CutBlocksType
<1>2. BuildCfg(code) = IF cut = << >> THEN [entry |-> None, blocks |-> <<EmptyBlock(None)>>]
                       ELSE [entry |-> blocks[1].label, blocks |-> << >> \o known]
  BY DEF BuildCfg, Map
<1>3. CutFrom(code, Len(code), cut)
  BY CutBlocksCut DEF WellLabelled
<1>4. CASE cut = << >>
  <2>1. BuildCfg(code) = [entry |-> None, blocks |-> <<EmptyBlock(None)>>]
    BY <1>2, <1>4
  <2>2. VerifyCfg([entry |-> None, blocks |-> <<EmptyBlock(None)>>])
    BY DEF VerifyCfg, LabelSet, LabelsOnce, TargetsKnown, EdgesAgree, EndAgrees, EmptyBlock, ToSet
  <2> QED BY <2>1, <2>2
<1>5. CASE cut # << >>
  <2> HIDE DEF cut
  <2>1. blocks \in Seq(Blocks(n)) /\ DOMAIN blocks = DOMAIN cut
    <3>1. \A k \in DOMAIN cut : blocks[k] \in Blocks(n)
      BY <1>1, ConnectType
    <3>2. blocks = [k \in 1..Len(cut) |-> blocks[k]] /\ Len(cut) \in Nat
      BY <1>1
    <3>3. DOMAIN cut = 1..Len(cut)
      BY <1>1
    <3> HIDE DEF blocks
    <3> QED BY <3>1, <3>2, <3>3
  <2>2. \A k \in DOMAIN cut : blocks[k].label = cut[k].label /\ GoesTo(S, blocks[k])
    BY <1>1, <1>3, ConnectGoes
  <2> HIDE DEF blocks
  <2>3. known \in Seq(Blocks(n)) /\ << >> \o known = known
    <3>1. \A k \in DOMAIN blocks : known[k] \in Blocks(n)
      <4>1. ASSUME NEW k \in DOMAIN blocks PROVE blocks[k] \in Blocks(n)
        BY <2>1
      <4>2. \A l : Predecessors(blocks, l) \in Seq(Int)
        BY <2>1, PredecessorsType
      <4> QED BY <4>1, <4>2, BlockFields
    <3>2. known \in Seq(Blocks(n))
      BY <2>1, <3>1
    <3> HIDE DEF known
    <3> QED BY <3>2
  <2>4. ASSUME NEW k \in DOMAIN blocks
        PROVE  /\ known[k].label = blocks[k].label /\ known[k].code = blocks[k].code
               /\ known[k].succs = blocks[k].succs
               /\ known[k].preds = Predecessors(blocks, blocks[k].label)
    <3>1. blocks[k] \in Blocks(n)
      BY <2>1
    <3> QED BY <3>1 DEF Blocks
  <2>5. DOMAIN known = DOMAIN blocks
    OBVIOUS
  <2> HIDE DEF known
  <2>6. LabelsOnce(known) /\ LabelSet(known) = S
    <3>1. LabelsOnce(cut)
      BY <1>3 DEF CutFrom
    <3>2. \A k \in DOMAIN cut : known[k].label = cut[k].label
      BY <2>1, <2>2, <2>4
    <3> QED BY <2>1, <2>5, <3>1, <3>2, SameLabels
  <2>7. blocks[1].label \in LabelSet(known)
    <3>1. 1 \in DOMAIN cut
      BY <1>1, <1>5
    <3> QED BY <2>1, <2>4, <2>5, <3>1 DEF LabelSet
  <2>8. ASSUME NEW k \in DOMAIN known
        PROVE  TargetsKnown(known, known[k]) /\ EndAgrees(known[k])
    <3>1. GoesTo(S, blocks[k])
      BY <2>1, <2>2, <2>5
    <3> QED BY <2>4, <2>5, <2>6, <3>1 DEF GoesTo, TargetsKnown, EndAgrees
  <2>9. \A l \in S : /\ FindBlock(known, l) \in DOMAIN known
                     /\ known[FindBlock(known, l)].label = l
                     /\ \A j \in DOMAIN known : known[j].label = l => j = FindBlock(known, l)
    <3> SUFFICES ASSUME NEW l \in S
                 PROVE  /\ FindBlock(known, l) \in DOMAIN known
                        /\ known[FindBlock(known, l)].label = l
                        /\ \A j \in DOMAIN known : known[j].label = l => j = FindBlock(known, l)
      OBVIOUS
    <3>1. HasBlock(known, l)
      BY <2>6 DEF HasBlock, LabelSet
    <3> HIDE DEF S
    <3> QED BY <2>6, <3>1, FindBlockType DEF LabelsOnce
  <2>10. ASSUME NEW k \in DOMAIN known PROVE EdgesAgree(known, known[k])
    <3>1. ASSUME NEW l \in ToSet(known[k].succs)
          PROVE  l \in S /\ Contains(known[FindBlock(known, l)].preds, known[k].label)
      <4>1. l \in S
        BY <2>1, <2>2, <2>4, <2>5, <3>1 DEF GoesTo
      <4>2. known[FindBlock(known, l)].preds = Predecessors(blocks, l)
        BY <2>4, <2>5, <2>9, <4>1
      <4>3. Contains(blocks[k].succs, l)
        <5>1. blocks[k] \in Blocks(n)
          BY <2>1, <2>5
        <5>2. blocks[k].succs \in Seq(Int)
          BY <5>1, BlockFields
        <5> QED BY <2>4, <2>5, <3>1, <5>2 DEF ToSet, Contains
      <4>4. Contains(Predecessors(blocks, l), blocks[k].label)
        BY <2>1, <2>5, <4>3, PredecessorsAre
      <4> QED BY <2>4, <2>5, <4>1, <4>2, <4>4
    <3>2. ASSUME NEW l \in ToSet(known[k].preds)
          PROVE  l \in S /\ Contains(known[FindBlock(known, l)].succs, known[k].label)
      <4>1. PICK j \in DOMAIN blocks : blocks[j].label = l /\ Contains(blocks[j].succs, blocks[k].label)
        BY <2>1, <2>4, <2>5, <3>2, PredecessorsAre
      <4>2. l \in S
        BY <2>1, <2>2, <4>1 DEF LabelSet
      <4>3. j = FindBlock(known, l)
        BY <2>4, <2>5, <2>9, <4>1, <4>2
      <4> QED BY <2>4, <2>5, <4>1, <4>2, <4>3
    <3> QED BY <2>6, <3>1, <3>2 DEF EdgesAgree
  <2>11. BuildCfg(code) = [entry |-> blocks[1].label, blocks |-> known]
    BY <1>2, <1>5, <2>3
  <2> QED BY <2>6, <2>7, <2>8, <2>10, <2>11 DEF VerifyCfg
<1> QED BY <1>4, <1>5

(* One instruction more.                                                   *)
LEMMA OneMoreInstruction ==
  ASSUME NEW S, NEW c \in Seq(S), NEW i \in S
  PROVE  /\ PlacedIn(Append(c, i)) = PlacedIn(c) \cup (IF i.op = "label" THEN {i.to} ELSE {})
         /\ TargetsIn(Append(c, i)) = TargetsIn(c) \cup (IF i.op \in {"jump", "test"} THEN {i.to} ELSE {})
         /\ PlacedOnce(c) /\ (i.op = "label" => i.to \notin PlacedIn(c)) => PlacedOnce(Append(c, i))
<1> DEFINE d == Append(c, i)
           C == Len(c)
<1>1. /\ DOMAIN c = 1..C /\ DOMAIN d = 1..(C + 1) /\ d[C + 1] = i
      /\ \A j \in 1..C : d[j] = c[j] /\ j \in 1..(C + 1)
      /\ \A j \in 1..(C + 1) : j \in 1..C \/ j = C + 1
      /\ C + 1 \in 1..(C + 1)
  <2>1. C + 1 \in 1..(C + 1)
    OBVIOUS
  <2> QED BY <2>1, AppendFields
<1> HIDE DEF d, C
<1>2. ToSet(d) = ToSet(c) \cup {i}
  BY <1>1 DEF ToSet
<1>3. /\ PlacedIn(d) = PlacedIn(c) \cup (IF i.op = "label" THEN {i.to} ELSE {})
      /\ TargetsIn(d) = TargetsIn(c) \cup (IF i.op \in {"jump", "test"} THEN {i.to} ELSE {})
  BY <1>2 DEF PlacedIn, TargetsIn
<1>4. ASSUME PlacedOnce(c), i.op = "label" => i.to \notin PlacedIn(c)
      PROVE  PlacedOnce(d)
  <2>1. \A j \in 1..C : d[j].op = "label" /\ i.op = "label" => d[j].to # i.to
    BY <1>1, <1>4 DEF PlacedIn, ToSet
  <2>2. \A j, k \in 1..C : d[j].op = "label" /\ d[k].op = "label" /\ d[j].to = d[k].to => j = k
    BY <1>1, <1>4 DEF PlacedOnce
  <2> QED BY <1>1, <2>1, <2>2 DEF PlacedOnce
<1> QED BY <1>3, <1>4 DEF d

-----------------------------------------------------------------------------
(* Two pieces of code, one after the other.                                *)
LEMMA JoinedMembers ==
  ASSUME NEW S, NEW c \in Seq(S), NEW d \in Seq(S)
  PROVE  /\ ToSet(c \o d) = ToSet(c) \cup ToSet(d)
         /\ PlacedIn(c \o d) = PlacedIn(c) \cup PlacedIn(d)
         /\ TargetsIn(c \o d) = TargetsIn(c) \cup TargetsIn(d)
<1>1. /\ Len(c) \in Nat /\ Len(d) \in Nat /\ DOMAIN c = 1..Len(c) /\ DOMAIN d = 1..Len(d)
      /\ DOMAIN (c \o d) = 1..(Len(c) + Len(d))
      /\ \A j \in 1..(Len(c) + Len(d)) :
           (c \o d)[j] = IF j <= Len(c) THEN c[j] ELSE d[j - Len(c)]
  OBVIOUS
<1>2. ToSet(c \o d) = ToSet(c) \cup ToSet(d)
  <2> DEFINE e == c \o d
             C == Len(c)
             D == Len(d)
  <2>1. /\ C \in Nat /\ D \in Nat /\ DOMAIN c = 1..C /\ DOMAIN d = 1..D /\ DOMAIN e = 1..(C + D)
        /\ \A j \in 1..(C + D) : e[j] = IF j <= C THEN c[j] ELSE d[j - C]
    BY <1>1
  <2> HIDE DEF e, C, D
  <2>2. ASSUME NEW x \in ToSet(e) PROVE x \in ToSet(c) \cup ToSet(d)
    <3>1. PICK j \in 1..(C + D) : x = e[j]
      BY <2>1, <2>2 DEF ToSet
    <3>2. j <= C => j \in 1..C
      BY <2>1
    <3>3. ~ (j <= C) => j - C \in 1..D
      BY <2>1
    <3> QED BY <2>1, <3>1, <3>2, <3>3 DEF ToSet
  <2>3. ASSUME NEW j \in 1..C PROVE c[j] \in ToSet(e)
    <3>1. j \in 1..(C + D) /\ j <= C
      BY <2>1
    <3> QED BY <2>1, <3>1 DEF ToSet
  <2>4. ASSUME NEW j \in 1..D PROVE d[j] \in ToSet(e)
    <3>1. C + j \in 1..(C + D) /\ ~ (C + j <= C) /\ (C + j) - C = j
      BY <2>1
    <3>2. e[C + j] = d[j]
      BY <2>1, <3>1
    <3> QED BY <2>1, <3>1, <3>2 DEF ToSet
  <2>5. ToSet(e) = ToSet(c) \cup ToSet(d)
    BY <2>1, <2>2, <2>3, <2>4 DEF ToSet
  <2> QED BY <2>5 DEF e
<1>3. PlacedIn(c \o d) = PlacedIn(c) \cup PlacedIn(d)
  BY <1>2 DEF PlacedIn
<1>4. TargetsIn(c \o d) = TargetsIn(c) \cup TargetsIn(d)
  BY <1>2 DEF TargetsIn
<1> QED BY <1>2, <1>3, <1>4

(* Code that places each label once, behind code that places others.       *)
LEMMA JoinedOnce ==
  ASSUME NEW S, NEW c \in Seq(S), NEW d \in Seq(S), PlacedOnce(c), PlacedOnce(d),
         PlacedIn(c) \cap PlacedIn(d) = {}
  PROVE  PlacedOnce(c \o d)
<1> DEFINE e == c \o d
           C == Len(c)
           D == Len(d)
<1>1. /\ C \in Nat /\ D \in Nat /\ DOMAIN c = 1..C /\ DOMAIN d = 1..D /\ DOMAIN e = 1..(C + D)
      /\ \A j \in 1..(C + D) : e[j] = IF j <= C THEN c[j] ELSE d[j - C]
  OBVIOUS
<1> HIDE DEF e, C, D
<1>2. ASSUME NEW i \in 1..(C + D), NEW k \in 1..(C + D), i <= C, ~ (k <= C),
             e[i].op = "label", e[k].op = "label"
      PROVE  e[i].to # e[k].to
  <2>1. i \in 1..C /\ k - C \in 1..D
    BY <1>1, <1>2
  <2>2. e[i] = c[i] /\ e[k] = d[k - C]
    BY <1>1, <1>2
  <2>3. e[i].to \in PlacedIn(c) /\ e[k].to \in PlacedIn(d)
    BY <1>1, <1>2, <2>1, <2>2 DEF PlacedIn, ToSet
  <2> QED BY <2>3
<1>3. ASSUME NEW i \in 1..(C + D), NEW k \in 1..(C + D), i <= C, k <= C,
             e[i].op = "label", e[k].op = "label", e[i].to = e[k].to
      PROVE  i = k
  <2>1. i \in 1..C /\ k \in 1..C /\ e[i] = c[i] /\ e[k] = c[k]
    BY <1>1, <1>3
  <2> QED BY <1>1, <1>3, <2>1 DEF PlacedOnce
<1>4. ASSUME NEW i \in 1..(C + D), NEW k \in 1..(C + D), ~ (i <= C), ~ (k <= C),
             e[i].op = "label", e[k].op = "label", e[i].to = e[k].to
      PROVE  i = k
  <2>1. i - C \in 1..D /\ k - C \in 1..D /\ e[i] = d[i - C] /\ e[k] = d[k - C]
    BY <1>1, <1>4
  <2>2. i - C = k - C
    BY <1>1, <1>4, <2>1 DEF PlacedOnce
  <2> QED BY <1>1, <2>2
<1>5. PlacedOnce(e)
  BY <1>1, <1>2, <1>3, <1>4 DEF PlacedOnce
<1> QED BY <1>5 DEF e

(* Code without labels.                                                    *)
LEMMA NonePlaced ==
  ASSUME NEW c, \A i \in ToSet(c) : i.op # "label"
  PROVE  PlacedIn(c) = {} /\ PlacedOnce(c)
BY DEF PlacedIn, PlacedOnce, ToSet

(* A label, and nothing else.                                              *)
LEMMA OnePlaced ==
  ASSUME NEW l
  PROVE  /\ PlacedIn(<<Label(l)>>) = {l} /\ TargetsIn(<<Label(l)>>) = {}
         /\ PlacedOnce(<<Label(l)>>)
<1>1. Label(l).op = "label" /\ Label(l).to = l
  BY DEF Label, Inst
<1>2. ToSet(<<Label(l)>>) = {Label(l)} /\ DOMAIN <<Label(l)>> = {1}
  BY DEF ToSet
<1> HIDE DEF Label
<1>3. PlacedOnce(<<Label(l)>>)
  BY <1>2 DEF PlacedOnce
<1> QED BY <1>1, <1>2, <1>3 DEF PlacedIn, TargetsIn

(* A block laid out: its label, and jumps to blocks there are.             *)
LEMMA LaidOutLabels ==
  ASSUME NEW n \in Nat, NEW bs \in Seq(Blocks(n)), NEW k \in DOMAIN bs, TargetsKnown(bs, bs[k])
  PROVE  /\ LaidOut(bs, k) \in Seq(Instructions(n))
         /\ PlacedIn(LaidOut(bs, k)) = {bs[k].label} /\ PlacedOnce(LaidOut(bs, k))
         /\ TargetsIn(LaidOut(bs, k)) \subseteq LabelSet(bs)
<1> DEFINE c == bs[k].code
           l == bs[k].label
           d == IF IsNeedless(bs, k) THEN Front(c) ELSE c
           head == <<Label(l)>>
<1>1. bs[k] \in Blocks(n)
  OBVIOUS
<1>2. c \in Seq(Unlabelled(n)) /\ l \in Int
  BY <1>1, BlockFields
<1>3. LaidOut(bs, k) = head \o d
  BY DEF LaidOut
<1>4. d \in Seq(Unlabelled(n)) /\ ToSet(d) \subseteq ToSet(c)
  <2>1. IsNeedless(bs, k) => c # << >>
    BY DEF IsNeedless
  <2> HIDE DEF c
  <2>2. c # << >> => Front(c) \in Seq(Unlabelled(n)) /\ ToSet(Front(c)) \subseteq ToSet(c)
    BY <1>2 DEF Front, ToSet
  <2> QED BY <1>2, <2>1, <2>2
<1> HIDE DEF d
<1>5. d \in Seq(Instructions(n)) /\ \A i \in ToSet(d) : i.op # "label"
  <2>1. Unlabelled(n) \subseteq Instructions(n) /\ \A i \in Unlabelled(n) : i.op # "label"
    BY DEF Unlabelled
  <2>2. ToSet(d) \subseteq Unlabelled(n)
    BY <1>4 DEF ToSet
  <2> QED BY <1>4, <2>1, <2>2
<1>6. head \in Seq(Instructions(n))
  <2>1. Label(l) \in Instructions(n)
    BY <1>2 DEF Label, Inst, Instructions, None, Assigning, Operators
  <2> QED BY <2>1
<1>7. PlacedIn(d) = {} /\ PlacedOnce(d)
  BY <1>5, NonePlaced
<1>8. TargetsIn(d) \subseteq LabelSet(bs)
  BY <1>4 DEF TargetsIn, TargetsKnown
<1>9. /\ PlacedIn(head) = {l} /\ TargetsIn(head) = {}
      /\ PlacedOnce(head)
  BY OnePlaced
<1> HIDE DEF head
<1>10. /\ PlacedIn(head \o d) = {l}
       /\ TargetsIn(head \o d) \subseteq LabelSet(bs)
  <2>1. /\ PlacedIn(head \o d) = PlacedIn(head) \cup PlacedIn(d)
        /\ TargetsIn(head \o d) = TargetsIn(head) \cup TargetsIn(d)
    BY <1>5, <1>6, JoinedMembers
  <2> QED BY <1>7, <1>8, <1>9, <2>1
<1>11. PlacedOnce(head \o d)
  BY <1>5, <1>6, <1>7, <1>9, JoinedOnce
<1>12. head \o d \in Seq(Instructions(n))
  BY <1>5, <1>6
<1> QED BY <1>3, <1>10, <1>11, <1>12 DEF head

(* The first m blocks laid out.                                            *)
LaidUpTo(bs, m, out) ==
  /\ PlacedIn(out) = {bs[j].label : j \in 1..m} /\ PlacedOnce(out)
  /\ TargetsIn(out) \subseteq LabelSet(bs)

(* A block more laid out places its label and jumps to labels there are.   *)
LEMMA OneMoreLaid ==
  ASSUME NEW n \in Nat, NEW bs \in Seq(Blocks(n)), LabelsOnce(bs), NEW k \in DOMAIN bs,
         TargetsKnown(bs, bs[k]),
         NEW out \in Seq(Instructions(n)), LaidUpTo(bs, k - 1, out)
  PROVE  /\ out \o LaidOut(bs, k) \in Seq(Instructions(n))
         /\ LaidUpTo(bs, k, out \o LaidOut(bs, k))
<1> DEFINE more == LaidOut(bs, k)
<1>1. /\ more \in Seq(Instructions(n)) /\ PlacedIn(more) = {bs[k].label} /\ PlacedOnce(more)
      /\ TargetsIn(more) \subseteq LabelSet(bs)
  BY LaidOutLabels
<1> HIDE DEF more
<1>2. /\ k \in Nat /\ DOMAIN bs = 1..Len(bs)
      /\ \A j \in 1..(k - 1) : j \in DOMAIN bs /\ j \in 1..k /\ j # k
      /\ \A j \in 1..k : j \in 1..(k - 1) \/ j = k
      /\ k \in 1..k
  OBVIOUS
<1>3. bs[k].label \notin PlacedIn(out)
  BY <1>2 DEF LaidUpTo, LabelsOnce
<1>4. PlacedIn(out \o more) = PlacedIn(out) \cup PlacedIn(more)
      /\ TargetsIn(out \o more) = TargetsIn(out) \cup TargetsIn(more)
  BY <1>1, JoinedMembers
<1>5. PlacedOnce(out \o more)
  <2>1. PlacedIn(out) \cap PlacedIn(more) = {} /\ PlacedOnce(out)
    BY <1>1, <1>3 DEF LaidUpTo
  <2> QED BY <1>1, <2>1, JoinedOnce
<1>6. PlacedIn(out \o more) = {bs[j].label : j \in 1..k}
  <2>1. PlacedIn(out) = {bs[j].label : j \in 1..(k - 1)}
    BY DEF LaidUpTo
  <2> QED BY <1>1, <1>2, <1>4, <2>1
<1>7. TargetsIn(out \o more) \subseteq LabelSet(bs)
  BY <1>1, <1>4 DEF LaidUpTo
<1>8. out \o more \in Seq(Instructions(n))
  BY <1>1
<1> QED BY <1>5, <1>6, <1>7, <1>8 DEF LaidUpTo, more

(* A graph that verify_cfg accepts is laid out into code from which a      *)
(* graph that it accepts can be built.                                     *)
LEMMA FlattenLabels ==
  ASSUME NEW N \in Nat, NEW cfg \in Graphs(N), VerifyCfg(cfg)
  PROVE  WellLabelled(Flatten(cfg))
<1> DEFINE bs == cfg.blocks
           seq == [k \in DOMAIN bs |-> k]
           n == Len(seq)
           A == Seq(Instructions(N))
           op(out, k) == out \o LaidOut(bs, k)
           g == [p \in A \X (1..n) |-> op(p[1], seq[p[2]])]
           Is(f) == f = [m \in 0..n |-> IF m = 0 THEN << >> ELSE op(f[m - 1], seq[m])]
           after == CHOOSE f : Is(f)
<1>1. bs \in Seq(Blocks(N)) /\ LabelsOnce(bs) /\ \A k \in DOMAIN bs : TargetsKnown(bs, bs[k])
  BY GraphFields DEF VerifyCfg
<1> HIDE DEF bs
<1>2. n \in Nat /\ << >> \in A /\ n = Len(bs) /\ 1..n = DOMAIN bs /\ \A m \in 1..n : seq[m] = m
  BY <1>1
<1> HIDE DEF n, seq
<1>3. \A a \in A, m \in 1..n : op(a, seq[m]) \in A
  <2>1. \A m \in 1..n : LaidOut(bs, m) \in A
    BY <1>1, <1>2, LaidOutLabels
  <2> HIDE DEF LaidOut
  <2> QED BY <1>2, <2>1
<1>4. \A a \in A, m \in 1..n : LaidUpTo(bs, m - 1, a) => LaidUpTo(bs, m, op(a, seq[m]))
  BY <1>1, <1>2, OneMoreLaid
<1>5. LaidUpTo(bs, 0, << >>)
  BY DEF LaidUpTo, PlacedIn, PlacedOnce, TargetsIn, ToSet
<1> HIDE DEF op, A
<1>6. g \in [A \X (1..n) -> A]
  BY <1>3
<1>7. PICK f : Folded(f, A, n, << >>, g)
  <2> HIDE DEF g
  <2> QED BY <1>2, <1>6, FoldExists
<1>8. Is(f)
  <2>1. ASSUME NEW m \in 1..n PROVE f[m] = op(f[m - 1], seq[m])
    <3>1. m - 1 \in 0..n /\ m \in 1..n
      BY <1>2
    <3>2. f[m - 1] \in A /\ f[m] = g[<<f[m - 1], m>>]
      <4> HIDE DEF g
      <4> QED BY <1>7, <3>1 DEF Folded
    <3> QED BY <3>1, <3>2
  <2> HIDE DEF g
  <2> QED BY <1>2, <1>7, <2>1 DEF Folded
<1>9. Is(after)
  <2> HIDE DEF Is
  <2> QED BY <1>8
<1>10. after[0] = << >> /\ \A m \in 1..n : after[m] = op(after[m - 1], seq[m])
  <2> HIDE DEF after
  <2>1. \A m \in 1..n : m \in 0..n /\ m # 0
    BY <1>2
  <2> QED BY <1>2, <1>9, <2>1
<1> HIDE DEF after
<1> DEFINE all(m) == after[m] \in A /\ LaidUpTo(bs, m, after[m])
           h == [m \in 0..n |-> all(m)]
<1>11. all(0)
  BY <1>2, <1>5, <1>10
<1>12. ASSUME NEW m \in 1..n, all(m - 1) PROVE all(m)
  <2>1. after[m - 1] \in A /\ after[m] = op(after[m - 1], seq[m])
    BY <1>10, <1>12
  <2> QED BY <1>3, <1>4, <1>12, <2>1
<1>13. h[n] \in {TRUE}
  <2>1. Carries(h, {TRUE}, n)
    <3> HIDE DEF all
    <3>1. h[0] = all(0) /\ \A m \in 1..n : m - 1 \in 0..n /\ h[m] = all(m) /\ h[m - 1] = all(m - 1)
      BY <1>2
    <3>2. h[0] \in {TRUE}
      BY <1>11, <3>1
    <3>3. ASSUME NEW m \in 1..n, h[m - 1] \in {TRUE} PROVE h[m] \in {TRUE}
      <4>1. all(m - 1)
        BY <3>1, <3>3
      <4>2. all(m)
        BY <1>12, <4>1
      <4> QED BY <3>1, <4>2
    <3> HIDE DEF h
    <3> QED BY <3>2, <3>3 DEF Carries
  <2> HIDE DEF h
  <2> QED BY <1>2, <2>1, FoldKeeps
<1>14. all(n)
  <2> HIDE DEF all
  <2> QED BY <1>2, <1>13
<1>15. LaidUpTo(bs, Len(bs), after[n])
  BY <1>2, <1>14
<1>16. after[n] = Flatten(cfg)
  BY DEF Flatten, Fold, op, n, seq, after, bs
<1>17. {bs[j].label : j \in 1..Len(bs)} = LabelSet(bs)
  BY <1>1 DEF LabelSet
<1> QED BY <1>15, <1>16, <1>17 DEF WellLabelled, LaidUpTo

(* Laid out and built again, a graph that was accepted is accepted.        *)
THEOREM RebuiltVerified ==
  ASSUME NEW n \in Nat, NEW cfg \in Graphs(n), VerifyCfg(cfg)
  PROVE  VerifyCfg(BuildCfg(Flatten(cfg)))
BY FlattenType, FlattenLabels, BuildCfgVerified

-----------------------------------------------------------------------------
(***************************************************************************)
(* Where code leads: what its last jump, test or return is, and all it     *)
(* jumps to; and whether it jumps or returns before its end.  A pass that  *)
(* keeps these leaves a graph's edges right.                               *)
(***************************************************************************)
Jumped(i) == [op |-> i.op, to |-> i.to]
EndOf(c) == {Jumped(c[k]) : k \in {j \in DOMAIN c : LastTerminator(c, j)}}
Leaves(i) == i.op \in {"return", "jump"}
Bare(c) == \A k \in DOMAIN c : ~Leaves(c[k])
EndsOnce(c) == \A k \in DOMAIN c : Leaves(c[k]) => k = Len(c)

SameFlow(c, d) ==
  /\ EndOf(d) = EndOf(c) /\ TargetsIn(d) = TargetsIn(c)
  /\ (Bare(c) => Bare(d)) /\ (EndsOnce(c) => EndsOnce(d)) /\ (c = << >> => d = << >>)

(* An instruction more at the end: it is the last one if it leads away.    *)
LEMMA EndAppended ==
  ASSUME NEW S, NEW c \in Seq(S), NEW i \in S
  PROVE  /\ IsTerminator(i) => EndOf(Append(c, i)) = {Jumped(i)}
         /\ ~IsTerminator(i) => EndOf(Append(c, i)) = EndOf(c)
<1> DEFINE d == Append(c, i)
           C == Len(c)
<1>1. /\ C \in Nat /\ Len(d) = C + 1 /\ DOMAIN d = 1..(C + 1) /\ DOMAIN c = 1..C /\ d[C + 1] = i
      /\ \A j \in 1..C : d[j] = c[j] /\ j \in 1..(C + 1)
      /\ \A j \in 1..(C + 1) : j \in 1..C \/ j = C + 1
  BY AppendFields
<1> HIDE DEF d, C
<1>2. ASSUME IsTerminator(i) PROVE EndOf(d) = {Jumped(i)}
  <2>1. LastTerminator(d, C + 1)
    <3>1. (C + 1 + 1)..(C + 1) = {}
      BY <1>1
    <3> QED BY <1>1, <1>2, <3>1 DEF LastTerminator
  <2>2. \A j \in 1..C : ~LastTerminator(d, j)
    <3>1. \A j \in 1..C : C + 1 \in (j + 1)..(C + 1)
      BY <1>1
    <3> QED BY <1>1, <1>2, <3>1 DEF LastTerminator
  <2>3. {j \in DOMAIN d : LastTerminator(d, j)} = {C + 1}
    BY <1>1, <2>1, <2>2
  <2> QED BY <1>1, <2>3 DEF EndOf
<1>3. ASSUME ~IsTerminator(i) PROVE EndOf(d) = EndOf(c)
  <2>1. ~LastTerminator(d, C + 1)
    BY <1>1, <1>3 DEF LastTerminator
  <2>2. \A j \in 1..C : LastTerminator(d, j) <=> LastTerminator(c, j)
    <3> SUFFICES ASSUME NEW j \in 1..C PROVE LastTerminator(d, j) <=> LastTerminator(c, j)
      OBVIOUS
    <3>1. \A m \in (j + 1)..(C + 1) : m \in (j + 1)..C \/ m = C + 1
      BY <1>1
    <3>2. \A m \in (j + 1)..C : m \in (j + 1)..(C + 1) /\ m \in 1..C
      BY <1>1
    <3>3. Len(c) = C /\ Len(d) = C + 1 /\ d[j] = c[j]
      BY <1>1 DEF C
    <3> QED BY <1>1, <1>3, <3>1, <3>2, <3>3 DEF LastTerminator
  <2>3. {j \in DOMAIN d : LastTerminator(d, j)} = {j \in DOMAIN c : LastTerminator(c, j)}
    BY <1>1, <2>1, <2>2
  <2> QED BY <1>1, <2>3 DEF EndOf
<1> QED BY <1>2, <1>3 DEF d

(* Nothing ends code that no instruction leads away from.                  *)
LEMMA EndIsThere ==
  ASSUME NEW S, NEW c \in Seq(S)
  PROVE  EndOf(c) = {} <=> \A k \in DOMAIN c : ~IsTerminator(c[k])
<1>1. Len(c) \in Nat /\ DOMAIN c = 1..Len(c)
  OBVIOUS
<1>2. ASSUME NEW k \in DOMAIN c, IsTerminator(c[k]) PROVE EndOf(c) # {}
  <2> DEFINE T == {m \in 0..Len(c) : Len(c) - m \in DOMAIN c /\ IsTerminator(c[Len(c) - m])}
  <2>1. Len(c) - k \in T
    <3>1. Len(c) - k \in 0..Len(c) /\ Len(c) - (Len(c) - k) = k
      BY <1>1
    <3> QED BY <1>2, <3>1
  <2>2. T \subseteq Nat
    BY <1>1
  <2>3. PICK x \in T : \A y \in T : x <= y
    <3> HIDE DEF T
    <3> QED BY <2>1, <2>2, LeastNumber
  <2>4. x \in 0..Len(c) /\ Len(c) - x \in DOMAIN c /\ IsTerminator(c[Len(c) - x])
    BY <2>3
  <2>5. ASSUME NEW m \in (Len(c) - x + 1)..Len(c), IsTerminator(c[m]) PROVE FALSE
    <3>1. Len(c) - m \in 0..Len(c) /\ Len(c) - (Len(c) - m) = m /\ m \in DOMAIN c /\ ~ (x <= Len(c) - m)
      BY <1>1, <2>4
    <3>2. Len(c) - m \in T
      BY <2>5, <3>1
    <3> QED BY <2>3, <3>1, <3>2
  <2>6. LastTerminator(c, Len(c) - x)
    BY <2>4, <2>5 DEF LastTerminator
  <2> QED BY <2>4, <2>6 DEF EndOf
<1>3. ASSUME \A k \in DOMAIN c : ~IsTerminator(c[k]) PROVE EndOf(c) = {}
  BY <1>3 DEF EndOf, LastTerminator
<1> QED BY <1>2, <1>3

(* An instruction more in front: it is the last one if no other is.        *)
LEMMA EndPrepended ==
  ASSUME NEW S, NEW c \in Seq(S), NEW i \in S
  PROVE  /\ EndOf(c) # {} \/ ~IsTerminator(i) => EndOf(<<i>> \o c) = EndOf(c)
         /\ EndOf(c) = {} /\ IsTerminator(i) => EndOf(<<i>> \o c) = {Jumped(i)}
<1> DEFINE d == <<i>> \o c
           C == Len(c)
<1>1. /\ C \in Nat /\ Len(d) = C + 1 /\ DOMAIN d = 1..(C + 1) /\ DOMAIN c = 1..C /\ d[1] = i
      /\ \A j \in 1..C : d[j + 1] = c[j]
  OBVIOUS
<1>2. /\ \A j \in 1..(C + 1) : j = 1 \/ (j - 1 \in 1..C /\ j - 1 + 1 = j)
      /\ \A j \in 1..C : j + 1 \in 1..(C + 1) /\ j + 1 # 1
      /\ 1 \in 1..(C + 1) /\ Len(c) = C
  BY <1>1
<1> HIDE DEF d, C
<1>3. \A j \in 1..C : LastTerminator(d, j + 1) <=> LastTerminator(c, j)
  <2> SUFFICES ASSUME NEW j \in 1..C PROVE LastTerminator(d, j + 1) <=> LastTerminator(c, j)
    OBVIOUS
  <2>1. \A m \in (j + 1 + 1)..(C + 1) : m - 1 \in (j + 1)..C /\ m - 1 \in 1..C /\ m - 1 + 1 = m
    BY <1>1
  <2>2. \A m \in (j + 1)..C : m \in 1..C /\ m + 1 \in (j + 1 + 1)..(C + 1)
    BY <1>1
  <2>3. d[j + 1] = c[j] /\ Len(d) = C + 1 /\ Len(c) = C
    BY <1>1, <1>2
  <2>4. \A m \in (j + 1 + 1)..(C + 1) : d[m] = c[m - 1]
    BY <1>1, <2>1
  <2>5. \A m \in (j + 1)..C : d[m + 1] = c[m]
    BY <1>1, <2>2
  <2> QED BY <2>1, <2>2, <2>3, <2>4, <2>5 DEF LastTerminator
<1>4. ASSUME EndOf(c) # {} \/ ~IsTerminator(i) PROVE EndOf(d) = EndOf(c)
  <2>1. ~LastTerminator(d, 1)
    <3>1. CASE ~IsTerminator(i)
      BY <1>1, <3>1 DEF LastTerminator
    <3>2. CASE EndOf(c) # {}
      <4>1. PICK k \in 1..C : IsTerminator(c[k])
        BY <1>1, <3>2, EndIsThere
      <4>2. k + 1 \in (1 + 1)..Len(d) /\ d[k + 1] = c[k]
        BY <1>1
      <4> QED BY <4>1, <4>2 DEF LastTerminator
    <3> QED BY <1>4, <3>1, <3>2
  <2>2. \A k \in DOMAIN d : LastTerminator(d, k) =>
          k - 1 \in DOMAIN c /\ LastTerminator(c, k - 1) /\ d[k] = c[k - 1]
    BY <1>1, <1>2, <1>3, <2>1
  <2>3. \A k \in DOMAIN c : LastTerminator(c, k) =>
          k + 1 \in DOMAIN d /\ LastTerminator(d, k + 1) /\ d[k + 1] = c[k]
    BY <1>1, <1>2, <1>3
  <2>4. EndOf(d) \subseteq EndOf(c)
    BY <2>2 DEF EndOf
  <2>5. EndOf(c) \subseteq EndOf(d)
    BY <2>3 DEF EndOf
  <2> QED BY <2>4, <2>5
<1>5. ASSUME EndOf(c) = {}, IsTerminator(i) PROVE EndOf(d) = {Jumped(i)}
  <2>1. \A k \in 1..C : ~IsTerminator(c[k])
    BY <1>1, <1>5, EndIsThere
  <2>2. \A j \in 1..C : ~LastTerminator(d, j + 1)
    BY <1>3, <2>1 DEF LastTerminator
  <2>3. LastTerminator(d, 1)
    <3>1. \A m \in (1 + 1)..(C + 1) : m \in 1..(C + 1) /\ m # 1
      BY <1>1
    <3>2. \A m \in (1 + 1)..(C + 1) : m - 1 \in 1..C /\ d[m] = c[m - 1]
      BY <1>1, <1>2, <3>1
    <3> QED BY <1>1, <1>5, <2>1, <3>2 DEF LastTerminator
  <2>4. {j \in DOMAIN d : LastTerminator(d, j)} = {1}
    <3>1. \A j \in 1..(C + 1) : LastTerminator(d, j) => j = 1
      BY <1>2, <2>2
    <3> QED BY <1>1, <1>2, <2>3, <3>1
  <2> QED BY <1>1, <2>4 DEF EndOf
<1> QED BY <1>4, <1>5 DEF d

(* An instruction more, and jumps before the end.                          *)
LEMMA FormAppended ==
  ASSUME NEW S, NEW c \in Seq(S), NEW i \in S
  PROVE  /\ Bare(Append(c, i)) <=> Bare(c) /\ ~Leaves(i)
         /\ EndsOnce(Append(c, i)) <=> Bare(c)
         /\ Append(c, i) # << >>
<1> DEFINE d == Append(c, i)
           C == Len(c)
<1>1. /\ C \in Nat /\ Len(d) = C + 1 /\ DOMAIN d = 1..(C + 1) /\ DOMAIN c = 1..C /\ d[C + 1] = i
      /\ \A j \in 1..C : d[j] = c[j] /\ j \in 1..(C + 1)
      /\ \A j \in 1..(C + 1) : j \in 1..C \/ j = C + 1
      /\ d # << >>
  BY AppendFields
<1>2. C + 1 \in 1..(C + 1) /\ \A j \in 1..C : j # C + 1
  BY <1>1
<1> HIDE DEF d, C
<1>3. Bare(d) <=> Bare(c) /\ ~Leaves(i)
  BY <1>1, <1>2 DEF Bare
<1>4. EndsOnce(d) <=> Bare(c)
  BY <1>1, <1>2 DEF Bare, EndsOnce
<1> QED BY <1>1, <1>3, <1>4 DEF d

(* An instruction more in front, and jumps before the end.                 *)
LEMMA FormPrepended ==
  ASSUME NEW S, NEW c \in Seq(S), NEW i \in S
  PROVE  /\ Bare(<<i>> \o c) <=> Bare(c) /\ ~Leaves(i)
         /\ EndsOnce(<<i>> \o c) <=> EndsOnce(c) /\ (Leaves(i) => c = << >>)
         /\ <<i>> \o c # << >>
<1> DEFINE d == <<i>> \o c
           C == Len(c)
<1>1. /\ C \in Nat /\ Len(d) = C + 1 /\ DOMAIN d = 1..(C + 1) /\ DOMAIN c = 1..C /\ d[1] = i
      /\ \A j \in 1..C : d[j + 1] = c[j]
      /\ c = << >> <=> C = 0
  OBVIOUS
<1>3. d # << >>
  <2>1. Len(d) # 0
    BY <1>1
  <2> HIDE DEF d
  <2> QED BY <2>1, NotEmpty
<1>2. /\ \A j \in 1..(C + 1) : j = 1 \/ (j - 1 \in 1..C /\ j - 1 + 1 = j)
      /\ \A j \in 1..C : j + 1 \in 1..(C + 1) /\ (j + 1 = C + 1 <=> j = C)
      /\ 1 \in 1..(C + 1) /\ Len(c) = C /\ (1 = C + 1 <=> C = 0)
  <2>1. C \in Nat /\ Len(c) = C
    BY <1>1
  <2> HIDE DEF C
  <2>2. \A j \in 1..(C + 1) : j = 1 \/ (j - 1 \in 1..C /\ j - 1 + 1 = j)
    BY <2>1
  <2>3. \A j \in 1..C : j + 1 \in 1..(C + 1) /\ (j + 1 = C + 1 <=> j = C)
    BY <2>1
  <2>4. 1 \in 1..(C + 1) /\ (1 = C + 1 <=> C = 0)
    BY <2>1
  <2> QED BY <2>1, <2>2, <2>3, <2>4
<1> HIDE DEF d, C
<1>4. \A j \in 1..(C + 1) : j = 1 \/ (j - 1 \in 1..C /\ d[j] = c[j - 1])
  BY <1>1, <1>2
<1>5. Bare(d) <=> Bare(c) /\ ~Leaves(i)
  BY <1>1, <1>2, <1>4, ZenonT(40) DEF Bare
<1>6. EndsOnce(d) <=> EndsOnce(c) /\ (Leaves(i) => c = << >>)
  <2>1. ASSUME EndsOnce(d) PROVE EndsOnce(c) /\ (Leaves(i) => c = << >>)
    BY <1>1, <1>2, <2>1 DEF EndsOnce
  <2>2. ASSUME EndsOnce(c), Leaves(i) => c = << >> PROVE EndsOnce(d)
    <3> SUFFICES ASSUME NEW j \in 1..(C + 1), Leaves(d[j]) PROVE j = C + 1
      BY <1>1 DEF EndsOnce
    <3>1. CASE j = 1
      BY <1>1, <1>2, <2>2, <3>1
    <3>2. CASE j - 1 \in 1..C /\ d[j] = c[j - 1]
      <4>1. j - 1 = C
        BY <1>1, <1>2, <2>2, <3>2 DEF EndsOnce
      <4> QED BY <1>1, <4>1
    <3> QED BY <1>4, <3>1, <3>2
  <2> QED BY <2>1, <2>2
<1> QED BY <1>3, <1>5, <1>6 DEF d

(* One instruction more, of each of two pieces of code.                    *)
LEMMA FlowAppended ==
  ASSUME NEW S, NEW c \in Seq(S), NEW d \in Seq(S), SameFlow(c, d), NEW i \in S, NEW j \in S,
         Jumped(i) = Jumped(j) \/ (~IsTerminator(i) /\ ~IsTerminator(j))
  PROVE  SameFlow(Append(c, i), Append(d, j))
<1>1. /\ IsTerminator(i) => EndOf(Append(c, i)) = {Jumped(i)}
      /\ ~IsTerminator(i) => EndOf(Append(c, i)) = EndOf(c)
  BY EndAppended
<1>2. /\ IsTerminator(j) => EndOf(Append(d, j)) = {Jumped(j)}
      /\ ~IsTerminator(j) => EndOf(Append(d, j)) = EndOf(d)
  BY EndAppended
<1>3. /\ TargetsIn(Append(c, i)) = TargetsIn(c) \cup (IF i.op \in {"jump", "test"} THEN {i.to} ELSE {})
      /\ TargetsIn(Append(d, j)) = TargetsIn(d) \cup (IF j.op \in {"jump", "test"} THEN {j.to} ELSE {})
  BY OneMoreInstruction
<1>4. Jumped(i) = Jumped(j) => i.op = j.op /\ i.to = j.to
  BY DEF Jumped
<1>5. (IsTerminator(i) <=> IsTerminator(j)) /\ (IsTerminator(i) => i.op = j.op /\ i.to = j.to)
  BY <1>4 DEF IsTerminator
<1>6. TargetsIn(Append(d, j)) = TargetsIn(Append(c, i))
  BY <1>3, <1>5 DEF SameFlow, IsTerminator
<1>7. EndOf(Append(d, j)) = EndOf(Append(c, i))
  BY <1>1, <1>2, <1>4, <1>5 DEF SameFlow
<1>8. Leaves(i) <=> Leaves(j)
  BY <1>5 DEF IsTerminator, Leaves
<1> QED BY <1>6, <1>7, <1>8, FormAppended DEF SameFlow

(* An instruction that goes nowhere is left out.                           *)
LEMMA FlowDropped ==
  ASSUME NEW S, NEW c \in Seq(S), NEW d, SameFlow(c, d), NEW i \in S, ~IsTerminator(i)
  PROVE  SameFlow(Append(c, i), d) /\ SameFlow(<<i>> \o c, d)
<1>1. EndOf(Append(c, i)) = EndOf(c) /\ EndOf(<<i>> \o c) = EndOf(c)
  BY EndAppended, EndPrepended
<1>2. TargetsIn(Append(c, i)) = TargetsIn(c)
  BY OneMoreInstruction, ZenonT(40) DEF IsTerminator
<1>3. TargetsIn(<<i>> \o c) = TargetsIn(c)
  <2> DEFINE one == <<i>>
  <2>1. one \in Seq(S)
    OBVIOUS
  <2> HIDE DEF one
  <2>2. TargetsIn(one \o c) = TargetsIn(one) \cup TargetsIn(c)
    BY <2>1, JoinedMembers
  <2>3. TargetsIn(one) = {}
    BY DEF TargetsIn, ToSet, IsTerminator, one
  <2> QED BY <2>2, <2>3 DEF one
<1>4. ~Leaves(i)
  BY DEF IsTerminator, Leaves
<1>5. /\ Bare(Append(c, i)) => Bare(d)
      /\ EndsOnce(Append(c, i)) => EndsOnce(d)
      /\ Append(c, i) # << >>
  <2>1. Bare(c) => EndsOnce(c)
    BY DEF Bare, EndsOnce
  <2> QED BY <2>1, FormAppended DEF SameFlow
<1>6. /\ Bare(<<i>> \o c) => Bare(d)
      /\ EndsOnce(<<i>> \o c) => EndsOnce(d)
      /\ <<i>> \o c # << >>
  BY FormPrepended DEF SameFlow
<1> QED BY <1>1, <1>2, <1>3, <1>5, <1>6 DEF SameFlow

(* The same instruction in front of both.                                  *)
LEMMA FlowPrepended ==
  ASSUME NEW S, NEW c \in Seq(S), NEW d \in Seq(S), SameFlow(c, d), NEW i \in S
  PROVE  SameFlow(<<i>> \o c, <<i>> \o d)
<1>1. /\ EndOf(c) # {} \/ ~IsTerminator(i) => EndOf(<<i>> \o c) = EndOf(c)
      /\ EndOf(c) = {} /\ IsTerminator(i) => EndOf(<<i>> \o c) = {Jumped(i)}
  BY EndPrepended
<1>2. /\ EndOf(d) # {} \/ ~IsTerminator(i) => EndOf(<<i>> \o d) = EndOf(d)
      /\ EndOf(d) = {} /\ IsTerminator(i) => EndOf(<<i>> \o d) = {Jumped(i)}
  BY EndPrepended
<1>3. TargetsIn(<<i>> \o c) = TargetsIn(<<i>>) \cup TargetsIn(c)
      /\ TargetsIn(<<i>> \o d) = TargetsIn(<<i>>) \cup TargetsIn(d)
  <2> DEFINE one == <<i>>
  <2>1. one \in Seq(S)
    OBVIOUS
  <2> HIDE DEF one
  <2>2. TargetsIn(one \o c) = TargetsIn(one) \cup TargetsIn(c)
    BY <2>1, JoinedMembers
  <2>3. TargetsIn(one \o d) = TargetsIn(one) \cup TargetsIn(d)
    BY <2>1, JoinedMembers
  <2> QED BY <2>2, <2>3 DEF one
<1>4. /\ Bare(<<i>> \o c) => Bare(<<i>> \o d)
      /\ EndsOnce(<<i>> \o c) => EndsOnce(<<i>> \o d)
      /\ <<i>> \o c # << >>
  BY FormPrepended DEF SameFlow
<1> QED BY <1>1, <1>2, <1>3, <1>4 DEF SameFlow

(* Code is read from its first instruction to its last.                    *)
LEMMA PrefixGrows ==
  ASSUME NEW S, NEW c \in Seq(S)
  PROVE  /\ SubSeq(c, 1, 0) = << >> /\ SubSeq(c, 1, Len(c)) = c
         /\ \A m \in 1..Len(c) : /\ SubSeq(c, 1, m - 1) \in Seq(S) /\ c[m] \in S
                                /\ SubSeq(c, 1, m) = Append(SubSeq(c, 1, m - 1), c[m])
<1>1. SubSeq(c, 1, 0) = << >> /\ SubSeq(c, 1, Len(c)) = c
  OBVIOUS
<1>2. ASSUME NEW m \in 1..Len(c)
      PROVE  /\ SubSeq(c, 1, m - 1) \in Seq(S) /\ c[m] \in S
             /\ SubSeq(c, 1, m) = Append(SubSeq(c, 1, m - 1), c[m])
  OBVIOUS
<1> QED BY <1>1, <1>2

(* No code at all goes nowhere.                                            *)
LEMMA NoFlow == SameFlow(<< >>, << >>)
BY DEF SameFlow

(* What was appended to make a sequence of a set is of the set.            *)
LEMMA LastOfAppended ==
  ASSUME NEW S, NEW q, NEW e, q \in Seq(S), Append(q, e) \in Seq(S)
  PROVE  e \in S
<1> DEFINE p == Append(q, e)
           x == Len(q) + 1
<1>1. p \in Seq(S) /\ x \in 1..Len(p) /\ p[x] = e
  OBVIOUS
<1> HIDE DEF p, x
<1> QED BY <1>1

(* Common-subexpression elimination puts moves in place of operators.      *)
LEMMA ShareFlow ==
  ASSUME NEW n \in Nat, NEW acc \in Shared(n), NEW i \in Unlabelled(n),
         NEW c \in Seq(Unlabelled(n)), SameFlow(c, acc.code)
  PROVE  SameFlow(Append(c, i), Share(acc, i).code)
<1> DEFINE known == IF i.op = "call" THEN {} ELSE acc.known
           isExpr == i.op \in Operators
           same == {e \in known : isExpr /\ e.key = ExpressionKey(i)}
           var == (CHOOSE e \in same : TRUE).var
           new == IF same # {} /\ var # i.dst THEN Move(i.dst, var) ELSE i
<1>1. Share(acc, i).code = Append(acc.code, new)
  BY DEF Share
<1>2. new = i \/ (~IsTerminator(i) /\ ~IsTerminator(new))
  <2>1. same # {} => i.op \in Operators
    OBVIOUS
  <2>2. ~IsTerminator(Move(i.dst, var))
    BY DEF IsTerminator, Move, Inst
  <2>3. i.op \in Operators => ~IsTerminator(i)
    BY DEF IsTerminator, Operators
  <2> HIDE DEF same, var
  <2> QED BY <2>1, <2>2, <2>3
<1>3. acc.code \in Seq(Unlabelled(n))
  BY DEF Shared
<1>4. Share(acc, i).code \in Seq(Unlabelled(n))
  BY ShareType DEF Shared
<1> HIDE DEF new
<1>5. new \in Unlabelled(n)
  BY <1>1, <1>3, <1>4, LastOfAppended
<1> QED BY <1>1, <1>2, <1>3, <1>5, FlowAppended

(* Common-subexpression elimination leaves alone where code leads.         *)
LEMMA ShareExpressionsFlow ==
  ASSUME NEW N \in Nat, NEW code \in Seq(Unlabelled(N))
  PROVE  SameFlow(code, ShareExpressions(code))
<1> DEFINE seq == code
           start == [code |-> << >>, known |-> {}]
           n == Len(seq)
           A == Shared(N)
           op(acc, i) == Share(acc, i)
           g == [p \in A \X (1..n) |-> op(p[1], seq[p[2]])]
           Is(f) == f = [m \in 0..n |-> IF m = 0 THEN start ELSE op(f[m - 1], seq[m])]
           after == CHOOSE f : Is(f)
<1>1. n \in Nat /\ start \in A
  BY DEF Shared
<1>2. \A a \in A, m \in 1..n : op(a, seq[m]) \in A
  <2>1. \A m \in 1..n : seq[m] \in Unlabelled(N)
    OBVIOUS
  <2> HIDE DEF n, seq
  <2> QED BY <2>1, ShareType
<1> HIDE DEF op, A, n, start, seq
<1>3. g \in [A \X (1..n) -> A]
  BY <1>2
<1>4. PICK f : Folded(f, A, n, start, g)
  <2> HIDE DEF g
  <2> QED BY <1>1, <1>3, FoldExists
<1>5. Is(f)
  <2>1. ASSUME NEW m \in 1..n PROVE f[m] = op(f[m - 1], seq[m])
    <3>1. m - 1 \in 0..n /\ m \in 1..n
      BY <1>1
    <3>2. f[m - 1] \in A /\ f[m] = g[<<f[m - 1], m>>]
      <4> HIDE DEF g
      <4> QED BY <1>4, <3>1 DEF Folded
    <3> QED BY <3>1, <3>2
  <2> HIDE DEF g
  <2> QED BY <1>1, <1>4, <2>1 DEF Folded
<1>6. Is(after)
  <2> HIDE DEF Is
  <2> QED BY <1>5
<1>7. after[0] = start /\ \A m \in 1..n : after[m] = op(after[m - 1], seq[m])
  <2> HIDE DEF after
  <2>1. \A m \in 1..n : m \in 0..n /\ m # 0
    BY <1>1
  <2> QED BY <1>1, <1>6, <2>1
<1> HIDE DEF after
<1> DEFINE all(m) == after[m] \in A /\ SameFlow(SubSeq(code, 1, m), after[m].code)
           h == [m \in 0..n |-> all(m)]
<1>8. all(0)
  <2>1. start.code = << >> /\ SubSeq(code, 1, 0) = << >>
    BY PrefixGrows DEF start
  <2>2. SameFlow(SubSeq(code, 1, 0), start.code)
    BY <2>1, NoFlow
  <2> QED BY <1>1, <1>7, <2>2
<1>9. ASSUME NEW m \in 1..n, all(m - 1) PROVE all(m)
  <2>1. after[m - 1] \in A /\ after[m] = op(after[m - 1], seq[m])
    BY <1>7, <1>9
  <2>2. /\ SubSeq(code, 1, m - 1) \in Seq(Unlabelled(N)) /\ seq[m] \in Unlabelled(N)
        /\ SubSeq(code, 1, m) = Append(SubSeq(code, 1, m - 1), seq[m])
    BY PrefixGrows DEF n, seq
  <2>3. SameFlow(Append(SubSeq(code, 1, m - 1), seq[m]), op(after[m - 1], seq[m]).code)
    <3> DEFINE c == SubSeq(code, 1, m - 1)
               a == after[m - 1]
    <3> HIDE DEF c, a
    <3>1. c \in Seq(Unlabelled(N)) /\ SameFlow(c, a.code) /\ a \in A
      BY <1>9, <2>2 DEF c, a
    <3>2. SameFlow(Append(c, seq[m]), op(a, seq[m]).code)
      BY <2>2, <3>1, ShareFlow DEF A, op
    <3> QED BY <3>2 DEF c, a
  <2> QED BY <1>2, <2>1, <2>2, <2>3
<1>10. h[n] \in {TRUE}
  <2>1. Carries(h, {TRUE}, n)
    <3> HIDE DEF all
    <3>1. h[0] = all(0) /\ \A m \in 1..n : m - 1 \in 0..n /\ h[m] = all(m) /\ h[m - 1] = all(m - 1)
      BY <1>1
    <3>2. h[0] \in {TRUE}
      BY <1>8, <3>1
    <3>3. ASSUME NEW m \in 1..n, h[m - 1] \in {TRUE} PROVE h[m] \in {TRUE}
      <4>1. all(m - 1)
        BY <3>1, <3>3
      <4>2. all(m)
        BY <1>9, <4>1
      <4> QED BY <3>1, <4>2
    <3> HIDE DEF h
    <3> QED BY <3>2, <3>3 DEF Carries
  <2> HIDE DEF h
  <2> QED BY <1>1, <2>1, FoldKeeps
<1>11. all(n)
  <2> HIDE DEF all
  <2> QED BY <1>1, <1>10
<1>12. SameFlow(code, after[n].code)
  BY <1>11, PrefixGrows DEF n, seq
<1>13. ShareExpressions(code) = after[n].code
  BY DEF ShareExpressions, Fold, op, n, start, seq, after
<1> QED BY <1>12, <1>13

(* Value tracking puts constants in place of moves and operators.          *)
LEMMA TrackFlow ==
  ASSUME NEW n \in Nat, NEW captured, NEW acc \in Tracked(n), NEW i \in Unlabelled(n),
         NEW c \in Seq(Unlabelled(n)), SameFlow(c, acc.code)
  PROVE  SameFlow(Append(c, i), Track(captured, acc, i).code)
<1> DEFINE known == i.op = "const" \/ /\ i.op \in Operators \cup {"move"}
                                      /\ \A v \in Uses(i) : IsKnown(acc.known, v)
           value(k) == ValueOf(acc.known, i.srcs[k])
           result == IF i.op = "const" THEN i.val
                     ELSE IF i.op = "move" THEN value(1) ELSE Apply(i.op, value(1), value(2))
           held == (Defs(i) \cup (IF i.op = "move" THEN Uses(i) ELSE {})) \cap captured
           new == IF known /\ held = {} THEN LoadConst(i.dst, result) ELSE i
<1>1. Track(captured, acc, i).code = Append(acc.code, new)
  BY DEF Track
<1>2. new = i \/ (~IsTerminator(i) /\ ~IsTerminator(new))
  <2>1. known => ~IsTerminator(i)
    BY DEF IsTerminator, Operators
  <2> HIDE DEF known, held, result
  <2>2. ~IsTerminator(LoadConst(i.dst, result))
    BY DEF IsTerminator, LoadConst, Inst
  <2> QED BY <2>1, <2>2
<1>3. acc.code \in Seq(Unlabelled(n))
  BY DEF Tracked
<1>4. Track(captured, acc, i).code \in Seq(Unlabelled(n))
  BY TrackType DEF Tracked
<1> HIDE DEF new
<1>5. new \in Unlabelled(n)
  BY <1>1, <1>3, <1>4, LastOfAppended
<1> QED BY <1>1, <1>2, <1>3, <1>5, FlowAppended

(* So does value tracking.                                                 *)
LEMMA TrackValuesFlow ==
  ASSUME NEW N \in Nat, NEW captured, NEW code \in Seq(Unlabelled(N))
  PROVE  SameFlow(code, TrackValues(code, captured))
<1> DEFINE seq == code
           start == [code |-> << >>, known |-> {}]
           n == Len(seq)
           A == Tracked(N)
           op(acc, i) == Track(captured, acc, i)
           g == [p \in A \X (1..n) |-> op(p[1], seq[p[2]])]
           Is(f) == f = [m \in 0..n |-> IF m = 0 THEN start ELSE op(f[m - 1], seq[m])]
           after == CHOOSE f : Is(f)
<1>1. n \in Nat /\ start \in A
  BY DEF Tracked
<1>2. \A a \in A, m \in 1..n : op(a, seq[m]) \in A
  <2>1. \A m \in 1..n : seq[m] \in Unlabelled(N)
    OBVIOUS
  <2> HIDE DEF n, seq
  <2> QED BY <2>1, TrackType
<1> HIDE DEF op, A, n, start, seq
<1>3. g \in [A \X (1..n) -> A]
  BY <1>2
<1>4. PICK f : Folded(f, A, n, start, g)
  <2> HIDE DEF g
  <2> QED BY <1>1, <1>3, FoldExists
<1>5. Is(f)
  <2>1. ASSUME NEW m \in 1..n PROVE f[m] = op(f[m - 1], seq[m])
    <3>1. m - 1 \in 0..n /\ m \in 1..n
      BY <1>1
    <3>2. f[m - 1] \in A /\ f[m] = g[<<f[m - 1], m>>]
      <4> HIDE DEF g
      <4> QED BY <1>4, <3>1 DEF Folded
    <3> QED BY <3>1, <3>2
  <2> HIDE DEF g
  <2> QED BY <1>1, <1>4, <2>1 DEF Folded
<1>6. Is(after)
  <2> HIDE DEF Is
  <2> QED BY <1>5
<1>7. after[0] = start /\ \A m \in 1..n : after[m] = op(after[m - 1], seq[m])
  <2> HIDE DEF after
  <2>1. \A m \in 1..n : m \in 0..n /\ m # 0
    BY <1>1
  <2> QED BY <1>1, <1>6, <2>1
<1> HIDE DEF after
<1> DEFINE all(m) == after[m] \in A /\ SameFlow(SubSeq(code, 1, m), after[m].code)
           h == [m \in 0..n |-> all(m)]
<1>8. all(0)
  <2>1. start.code = << >> /\ SubSeq(code, 1, 0) = << >>
    BY PrefixGrows DEF start
  <2>2. SameFlow(SubSeq(code, 1, 0), start.code)
    BY <2>1, NoFlow
  <2> QED BY <1>1, <1>7, <2>2
<1>9. ASSUME NEW m \in 1..n, all(m - 1) PROVE all(m)
  <2>1. after[m - 1] \in A /\ after[m] = op(after[m - 1], seq[m])
    BY <1>7, <1>9
  <2>2. /\ SubSeq(code, 1, m - 1) \in Seq(Unlabelled(N)) /\ seq[m] \in Unlabelled(N)
        /\ SubSeq(code, 1, m) = Append(SubSeq(code, 1, m - 1), seq[m])
    BY PrefixGrows DEF n, seq
  <2>3. SameFlow(Append(SubSeq(code, 1, m - 1), seq[m]), op(after[m - 1], seq[m]).code)
    <3> DEFINE c == SubSeq(code, 1, m - 1)
               a == after[m - 1]
    <3> HIDE DEF c, a
    <3>1. c \in Seq(Unlabelled(N)) /\ SameFlow(c, a.code) /\ a \in A
      BY <1>9, <2>2 DEF c, a
    <3>2. SameFlow(Append(c, seq[m]), op(a, seq[m]).code)
      BY <2>2, <3>1, TrackFlow DEF A, op
    <3> QED BY <3>2 DEF c, a
  <2> QED BY <1>2, <2>1, <2>2, <2>3
<1>10. h[n] \in {TRUE}
  <2>1. Carries(h, {TRUE}, n)
    <3> HIDE DEF all
    <3>1. h[0] = all(0) /\ \A m \in 1..n : m - 1 \in 0..n /\ h[m] = all(m) /\ h[m - 1] = all(m - 1)
      BY <1>1
    <3>2. h[0] \in {TRUE}
      BY <1>8, <3>1
    <3>3. ASSUME NEW m \in 1..n, h[m - 1] \in {TRUE} PROVE h[m] \in {TRUE}
      <4>1. all(m - 1)
        BY <3>1, <3>3
      <4>2. all(m)
        BY <1>9, <4>1
      <4> QED BY <3>1, <4>2
    <3> HIDE DEF h
    <3> QED BY <3>2, <3>3 DEF Carries
  <2> HIDE DEF h
  <2> QED BY <1>1, <2>1, FoldKeeps
<1>11. all(n)
  <2> HIDE DEF all
  <2> QED BY <1>1, <1>10
<1>12. SameFlow(code, after[n].code)
  BY <1>11, PrefixGrows DEF n, seq
<1>13. TrackValues(code, captured) = after[n].code
  BY DEF TrackValues, Fold, op, n, start, seq, after
<1> QED BY <1>12, <1>13

(* Leaving out what goes nowhere changes nothing about where code leads.   *)
LEMMA OnlyFlow ==
  ASSUME NEW N, NEW code \in Seq(Unlabelled(N)), NEW set,
         \A k \in DOMAIN code : IsTerminator(code[k]) => code[k] \in set
  PROVE  SameFlow(code, Only(code, set))
<1> DEFINE seq == code
           start == << >>
           n == Len(seq)
           A == Seq(Unlabelled(N))
           op(kept, e) == IF e \in set THEN Append(kept, e) ELSE kept
           g == [p \in A \X (1..n) |-> op(p[1], seq[p[2]])]
           Is(f) == f = [m \in 0..n |-> IF m = 0 THEN start ELSE op(f[m - 1], seq[m])]
           after == CHOOSE f : Is(f)
<1>1. n \in Nat /\ start \in A
  OBVIOUS
<1>2. \A a \in A, m \in 1..n : op(a, seq[m]) \in A
  OBVIOUS
<1> HIDE DEF op, A, n, start, seq
<1>3. g \in [A \X (1..n) -> A]
  BY <1>2
<1>4. PICK f : Folded(f, A, n, start, g)
  <2> HIDE DEF g
  <2> QED BY <1>1, <1>3, FoldExists
<1>5. Is(f)
  <2>1. ASSUME NEW m \in 1..n PROVE f[m] = op(f[m - 1], seq[m])
    <3>1. m - 1 \in 0..n /\ m \in 1..n
      BY <1>1
    <3>2. f[m - 1] \in A /\ f[m] = g[<<f[m - 1], m>>]
      <4> HIDE DEF g
      <4> QED BY <1>4, <3>1 DEF Folded
    <3> QED BY <3>1, <3>2
  <2> HIDE DEF g
  <2> QED BY <1>1, <1>4, <2>1 DEF Folded
<1>6. Is(after)
  <2> HIDE DEF Is
  <2> QED BY <1>5
<1>7. after[0] = start /\ \A m \in 1..n : after[m] = op(after[m - 1], seq[m])
  <2> HIDE DEF after
  <2>1. \A m \in 1..n : m \in 0..n /\ m # 0
    BY <1>1
  <2> QED BY <1>1, <1>6, <2>1
<1> HIDE DEF after
<1> DEFINE all(m) == after[m] \in A /\ SameFlow(SubSeq(code, 1, m), after[m])
           h == [m \in 0..n |-> all(m)]
<1>8. all(0)
  BY <1>1, <1>7, PrefixGrows, NoFlow DEF start
<1>9. ASSUME NEW m \in 1..n, all(m - 1) PROVE all(m)
  <2> DEFINE c == SubSeq(code, 1, m - 1)
             d == after[m - 1]
             i == seq[m]
  <2>1. d \in Seq(Unlabelled(N)) /\ SameFlow(c, d) /\ after[m] = op(d, i)
    BY <1>7, <1>9 DEF A
  <2>2. /\ c \in Seq(Unlabelled(N)) /\ i \in Unlabelled(N) /\ SubSeq(code, 1, m) = Append(c, i)
        /\ (IsTerminator(i) => i \in set)
    BY PrefixGrows DEF n, seq
  <2> HIDE DEF c, d, i
  <2>3. SameFlow(Append(c, i), op(d, i))
    <3>1. CASE i \in set
      BY <2>1, <2>2, <3>1, FlowAppended DEF op
    <3>2. CASE i \notin set
      BY <2>1, <2>2, <3>2, FlowDropped DEF op
    <3> QED BY <3>1, <3>2
  <2>4. op(d, i) \in A
    BY <2>1, <2>2 DEF op, A
  <2> QED BY <2>1, <2>2, <2>3, <2>4
<1>10. h[n] \in {TRUE}
  <2>1. Carries(h, {TRUE}, n)
    <3> HIDE DEF all
    <3>1. h[0] = all(0) /\ \A m \in 1..n : m - 1 \in 0..n /\ h[m] = all(m) /\ h[m - 1] = all(m - 1)
      BY <1>1
    <3>2. h[0] \in {TRUE}
      BY <1>8, <3>1
    <3>3. ASSUME NEW m \in 1..n, h[m - 1] \in {TRUE} PROVE h[m] \in {TRUE}
      <4>1. all(m - 1)
        BY <3>1, <3>3
      <4>2. all(m)
        BY <1>9, <4>1
      <4> QED BY <3>1, <4>2
    <3> HIDE DEF h
    <3> QED BY <3>2, <3>3 DEF Carries
  <2> HIDE DEF h
  <2> QED BY <1>1, <2>1, FoldKeeps
<1>11. all(n)
  <2> HIDE DEF all
  <2> QED BY <1>1, <1>10
<1>12. SameFlow(code, after[n])
  BY <1>11, PrefixGrows DEF n, seq
<1>13. Only(code, set) = after[n]
  BY DEF Only, Fold, op, n, start, seq, after
<1> QED BY <1>12, <1>13

(* Copy propagation changes what instructions read.                        *)
LEMMA FollowFlow ==
  ASSUME NEW n \in Nat, NEW captured, NEW acc \in Copied(n), NEW i \in Unlabelled(n),
         NEW c \in Seq(Unlabelled(n)), SameFlow(c, acc.code)
  PROVE  SameFlow(Append(c, i), Follow(captured, acc, i).code)
<1> DEFINE srcs == Map(LAMBDA v : Original(acc.copies, v), i.srcs)
           new == IF i.op \in {"closure", "close"} THEN i ELSE [i EXCEPT !.srcs = srcs]
<1>1. Follow(captured, acc, i).code = Append(acc.code, new)
  BY DEF Follow, Map
<1> HIDE DEF srcs
<1>2. Jumped(new) = Jumped(i)
  BY DEF Jumped, Unlabelled, Instructions
<1>3. acc.code \in Seq(Unlabelled(n))
  BY DEF Copied
<1>4. Follow(captured, acc, i).code \in Seq(Unlabelled(n))
  BY FollowType DEF Copied
<1> HIDE DEF new
<1>5. new \in Unlabelled(n)
  BY <1>1, <1>3, <1>4, LastOfAppended
<1> QED BY <1>1, <1>2, <1>3, <1>5, FlowAppended

(* So does copy propagation, which leaves out moves of a variable to itself.*)
LEMMA PropagateCopiesFlow ==
  ASSUME NEW N \in Nat, NEW captured, NEW code \in Seq(Unlabelled(N))
  PROVE  SameFlow(code, PropagateCopies(code, captured))
<1> DEFINE seq == code
           start == [code |-> << >>, copies |-> {}]
           n == Len(seq)
           A == Copied(N)
           op(acc, i) == Follow(captured, acc, i)
           g == [p \in A \X (1..n) |-> op(p[1], seq[p[2]])]
           Is(f) == f = [m \in 0..n |-> IF m = 0 THEN start ELSE op(f[m - 1], seq[m])]
           after == CHOOSE f : Is(f)
<1>1. n \in Nat /\ start \in A
  BY DEF Copied
<1>2. \A a \in A, m \in 1..n : op(a, seq[m]) \in A
  <2>1. \A m \in 1..n : seq[m] \in Unlabelled(N)
    OBVIOUS
  <2> HIDE DEF n, seq
  <2> QED BY <2>1, FollowType
<1> HIDE DEF op, A, n, start, seq
<1>3. g \in [A \X (1..n) -> A]
  BY <1>2
<1>4. PICK f : Folded(f, A, n, start, g)
  <2> HIDE DEF g
  <2> QED BY <1>1, <1>3, FoldExists
<1>5. Is(f)
  <2>1. ASSUME NEW m \in 1..n PROVE f[m] = op(f[m - 1], seq[m])
    <3>1. m - 1 \in 0..n /\ m \in 1..n
      BY <1>1
    <3>2. f[m - 1] \in A /\ f[m] = g[<<f[m - 1], m>>]
      <4> HIDE DEF g
      <4> QED BY <1>4, <3>1 DEF Folded
    <3> QED BY <3>1, <3>2
  <2> HIDE DEF g
  <2> QED BY <1>1, <1>4, <2>1 DEF Folded
<1>6. Is(after)
  <2> HIDE DEF Is
  <2> QED BY <1>5
<1>7. after[0] = start /\ \A m \in 1..n : after[m] = op(after[m - 1], seq[m])
  <2> HIDE DEF after
  <2>1. \A m \in 1..n : m \in 0..n /\ m # 0
    BY <1>1
  <2> QED BY <1>1, <1>6, <2>1
<1> HIDE DEF after
<1> DEFINE all(m) == after[m] \in A /\ SameFlow(SubSeq(code, 1, m), after[m].code)
           h == [m \in 0..n |-> all(m)]
<1>8. all(0)
  <2>1. start.code = << >> /\ SubSeq(code, 1, 0) = << >>
    BY PrefixGrows DEF start
  <2>2. SameFlow(SubSeq(code, 1, 0), start.code)
    BY <2>1, NoFlow
  <2> QED BY <1>1, <1>7, <2>2
<1>9. ASSUME NEW m \in 1..n, all(m - 1) PROVE all(m)
  <2>1. after[m - 1] \in A /\ after[m] = op(after[m - 1], seq[m])
    BY <1>7, <1>9
  <2>2. /\ SubSeq(code, 1, m - 1) \in Seq(Unlabelled(N)) /\ seq[m] \in Unlabelled(N)
        /\ SubSeq(code, 1, m) = Append(SubSeq(code, 1, m - 1), seq[m])
    BY PrefixGrows DEF n, seq
  <2>3. SameFlow(Append(SubSeq(code, 1, m - 1), seq[m]), op(after[m - 1], seq[m]).code)
    <3> DEFINE c == SubSeq(code, 1, m - 1)
               a == after[m - 1]
    <3> HIDE DEF c, a
    <3>1. c \in Seq(Unlabelled(N)) /\ SameFlow(c, a.code) /\ a \in A
      BY <1>9, <2>2 DEF c, a
    <3>2. SameFlow(Append(c, seq[m]), op(a, seq[m]).code)
      BY <2>2, <3>1, FollowFlow DEF A, op
    <3> QED BY <3>2 DEF c, a
  <2> QED BY <1>2, <2>1, <2>2, <2>3
<1>10. h[n] \in {TRUE}
  <2>1. Carries(h, {TRUE}, n)
    <3> HIDE DEF all
    <3>1. h[0] = all(0) /\ \A m \in 1..n : m - 1 \in 0..n /\ h[m] = all(m) /\ h[m - 1] = all(m - 1)
      BY <1>1
    <3>2. h[0] \in {TRUE}
      BY <1>8, <3>1
    <3>3. ASSUME NEW m \in 1..n, h[m - 1] \in {TRUE} PROVE h[m] \in {TRUE}
      <4>1. all(m - 1)
        BY <3>1, <3>3
      <4>2. all(m)
        BY <1>9, <4>1
      <4> QED BY <3>1, <4>2
    <3> HIDE DEF h
    <3> QED BY <3>2, <3>3 DEF Carries
  <2> HIDE DEF h
  <2> QED BY <1>1, <2>1, FoldKeeps
<1>11. all(n)
  <2> HIDE DEF all
  <2> QED BY <1>1, <1>10
<1>12. SameFlow(code, after[n].code) /\ after[n].code \in Seq(Unlabelled(N))
  <2>1. after[n] \in A
    BY <1>11
  <2>2. after[n].code \in Seq(Unlabelled(N))
    BY <2>1 DEF A, Copied
  <2> QED BY <1>11, <2>2, PrefixGrows DEF n, seq
<1> DEFINE done == after[n].code
           rest == {i \in ToSet(done) : ~(i.op = "move" /\ i.srcs = <<i.dst>>)}
<1>13. PropagateCopies(code, captured) = Only(done, rest)
  BY DEF PropagateCopies, Fold, op, n, start, seq, after
<1>14. \A i \in ToSet(done) : IsTerminator(i) => i \in rest
  BY DEF IsTerminator
<1> HIDE DEF done
<1>15. SameFlow(code, done) /\ done \in Seq(Unlabelled(N))
  BY <1>12 DEF done
<1> HIDE DEF rest
<1>16. \A k \in DOMAIN done : IsTerminator(done[k]) => done[k] \in rest
  BY <1>14 DEF ToSet
<1>17. SameFlow(done, Only(done, rest))
  BY <1>15, <1>16, OnlyFlow
<1> QED BY <1>13, <1>15, <1>17 DEF SameFlow

(* Code is read from its last instruction to its first.                    *)
LEMMA SuffixGrows ==
  ASSUME NEW S, NEW c \in Seq(S)
  PROVE  /\ SubSeq(c, Len(c) + 1, Len(c)) = << >> /\ SubSeq(c, 1, Len(c)) = c
         /\ \A k \in 1..Len(c) :
              /\ SubSeq(c, k + 1, Len(c)) \in Seq(S) /\ c[k] \in S
              /\ SubSeq(c, k, Len(c)) = <<c[k]>> \o SubSeq(c, k + 1, Len(c))
<1>1. SubSeq(c, Len(c) + 1, Len(c)) = << >> /\ SubSeq(c, 1, Len(c)) = c
  OBVIOUS
<1>2. ASSUME NEW k \in 1..Len(c)
      PROVE  /\ SubSeq(c, k + 1, Len(c)) \in Seq(S) /\ c[k] \in S
             /\ SubSeq(c, k, Len(c)) = <<c[k]>> \o SubSeq(c, k + 1, Len(c))
  OBVIOUS
<1> QED BY <1>1, <1>2

(* What dead-code elimination leaves out goes nowhere.                     *)
LEMMA RetainFlow ==
  ASSUME NEW n, NEW captured, NEW acc, acc.code \in Seq(Unlabelled(n)), NEW i \in Unlabelled(n),
         NEW c \in Seq(Unlabelled(n)), SameFlow(c, acc.code)
  PROVE  SameFlow(<<i>> \o c, RetainIfNeeded(captured, acc, i).code)
<1>1. CASE IsPure(i) /\ Defs(i) \cap (acc.live \cup captured) = {}
  <2>1. ~IsTerminator(i)
    BY <1>1 DEF IsPure, IsTerminator, Operators
  <2>2. RetainIfNeeded(captured, acc, i).code = acc.code
    BY <1>1 DEF RetainIfNeeded
  <2> QED BY <2>1, <2>2, FlowDropped
<1>2. CASE ~(IsPure(i) /\ Defs(i) \cap (acc.live \cup captured) = {})
  <2>1. RetainIfNeeded(captured, acc, i).code = <<i>> \o acc.code
    BY <1>2 DEF RetainIfNeeded
  <2> QED BY <2>1, FlowPrepended
<1> QED BY <1>1, <1>2

(* Dead-code elimination leaves alone where code leads.                    *)
LEMMA NeededFlow ==
  ASSUME NEW N \in Nat, NEW code \in Seq(Unlabelled(N)), NEW live, NEW captured
  PROVE  SameFlow(code, Needed(code, live, captured))
<1> DEFINE X == live \cup 1..N
           seq == Reverse(code)
           start == [code |-> << >>, live |-> live]
           n == Len(seq)
           A == [code : Seq(Unlabelled(N)), live : SUBSET X]
           op(acc, i) == RetainIfNeeded(captured, acc, i)
           g == [p \in A \X (1..n) |-> op(p[1], seq[p[2]])]
           Is(f) == f = [m \in 0..n |-> IF m = 0 THEN start ELSE op(f[m - 1], seq[m])]
           after == CHOOSE f : Is(f)
<1>0. /\ seq \in Seq(Unlabelled(N)) /\ n = Len(code) /\ n \in Nat
      /\ \A m \in 1..n : seq[m] = code[n - m + 1]
  BY DEF Reverse
<1>1. n \in Nat /\ start \in A
  BY <1>0
<1>2. \A a \in A, m \in 1..n : op(a, seq[m]) \in A
  <2>1. \A m \in 1..n : seq[m] \in Unlabelled(N)
    BY <1>0
  <2>2. 1..N \subseteq X
    OBVIOUS
  <2> HIDE DEF n, seq, X
  <2> QED BY <2>1, <2>2, RetainIfNeededType
<1> HIDE DEF op, A, n, start, seq
<1>3. g \in [A \X (1..n) -> A]
  BY <1>2
<1>4. PICK f : Folded(f, A, n, start, g)
  <2> HIDE DEF g
  <2> QED BY <1>1, <1>3, FoldExists
<1>5. Is(f)
  <2>1. ASSUME NEW m \in 1..n PROVE f[m] = op(f[m - 1], seq[m])
    <3>1. m - 1 \in 0..n /\ m \in 1..n
      BY <1>1
    <3>2. f[m - 1] \in A /\ f[m] = g[<<f[m - 1], m>>]
      <4> HIDE DEF g
      <4> QED BY <1>4, <3>1 DEF Folded
    <3> QED BY <3>1, <3>2
  <2> HIDE DEF g
  <2> QED BY <1>1, <1>4, <2>1 DEF Folded
<1>6. Is(after)
  <2> HIDE DEF Is
  <2> QED BY <1>5
<1>7. after[0] = start /\ \A m \in 1..n : after[m] = op(after[m - 1], seq[m])
  <2> HIDE DEF after
  <2>1. \A m \in 1..n : m \in 0..n /\ m # 0
    BY <1>1
  <2> QED BY <1>1, <1>6, <2>1
<1> HIDE DEF after
<1> DEFINE all(m) == after[m] \in A /\ SameFlow(SubSeq(code, n - m + 1, n), after[m].code)
           h == [m \in 0..n |-> all(m)]
<1>8. all(0)
  <2>1. n - 0 + 1 = n + 1
    BY <1>1
  <2>2. start.code = << >> /\ SubSeq(code, n + 1, n) = << >>
    BY <1>0, SuffixGrows DEF start
  <2>3. SameFlow(SubSeq(code, n - 0 + 1, n), start.code)
    BY <2>1, <2>2, NoFlow
  <2> QED BY <1>1, <1>7, <2>3
<1>9. ASSUME NEW m \in 1..n, all(m - 1) PROVE all(m)
  <2> DEFINE k == n - m + 1
             c == SubSeq(code, k + 1, n)
             a == after[m - 1]
             i == seq[m]
  <2>1. k \in 1..n /\ n - (m - 1) + 1 = k + 1
    BY <1>1
  <2>2. a \in A /\ SameFlow(c, a.code) /\ after[m] = op(a, i)
    BY <1>7, <1>9, <2>1
  <2>3. c \in Seq(Unlabelled(N)) /\ i \in Unlabelled(N) /\ SubSeq(code, k, n) = <<i>> \o c
    <3> HIDE DEF k
    <3>1. i = code[k]
      BY <1>0 DEF k
    <3>2. k \in 1..Len(code) /\ n = Len(code)
      BY <1>0, <2>1
    <3>3. /\ SubSeq(code, k + 1, Len(code)) \in Seq(Unlabelled(N)) /\ code[k] \in Unlabelled(N)
          /\ SubSeq(code, k, Len(code)) = <<code[k]>> \o SubSeq(code, k + 1, Len(code))
      BY <3>2, SuffixGrows
    <3> QED BY <3>1, <3>2, <3>3
  <2> HIDE DEF c, a, i
  <2>4. a.code \in Seq(Unlabelled(N))
    BY <2>2 DEF A
  <2>5. SameFlow(<<i>> \o c, op(a, i).code)
    BY <2>2, <2>3, <2>4, RetainFlow DEF op
  <2>6. op(a, i) \in A
    BY <1>2, <2>2 DEF i
  <2> QED BY <2>2, <2>3, <2>5, <2>6
<1>10. h[n] \in {TRUE}
  <2>1. Carries(h, {TRUE}, n)
    <3> HIDE DEF all
    <3>1. h[0] = all(0) /\ \A m \in 1..n : m - 1 \in 0..n /\ h[m] = all(m) /\ h[m - 1] = all(m - 1)
      BY <1>1
    <3>2. h[0] \in {TRUE}
      BY <1>8, <3>1
    <3>3. ASSUME NEW m \in 1..n, h[m - 1] \in {TRUE} PROVE h[m] \in {TRUE}
      <4>1. all(m - 1)
        BY <3>1, <3>3
      <4>2. all(m)
        BY <1>9, <4>1
      <4> QED BY <3>1, <4>2
    <3> HIDE DEF h
    <3> QED BY <3>2, <3>3 DEF Carries
  <2> HIDE DEF h
  <2> QED BY <1>1, <2>1, FoldKeeps
<1>11. all(n)
  <2> HIDE DEF all
  <2> QED BY <1>1, <1>10
<1>12. SameFlow(code, after[n].code)
  <2>1. n - n + 1 = 1
    BY <1>1
  <2> QED BY <1>0, <1>11, <2>1, SuffixGrows
<1>13. Needed(code, live, captured) = after[n].code
  BY DEF Needed, Fold, op, n, start, seq, after
<1> QED BY <1>12, <1>13

-----------------------------------------------------------------------------
(***************************************************************************)
(* What a pass has to keep for verify_cfg to accept the graph: a block     *)
(* jumps or returns at its end only, its code leads where its edges do, a  *)
(* block that ends with a jump has no other edges than jumps, and edges    *)
(* are noted at both ends.                                                 *)
(***************************************************************************)
Tidy(b) ==
  /\ EndsOnce(b.code) /\ TargetsIn(b.code) \subseteq ToSet(b.succs) \cup {b.label}
  /\ \A e \in EndOf(b.code) :
       /\ e.op = "return" => ToSet(b.succs) = {}
       /\ e.op = "jump" => e.to \in ToSet(b.succs) /\ ToSet(b.succs) \subseteq TargetsIn(b.code)
Joins(B, b) ==
  /\ \A l \in ToSet(b.succs) : \E c \in B : c.label = l /\ b.label \in ToSet(c.preds)
  /\ \A l \in ToSet(b.preds) : \E c \in B : c.label = l /\ b.label \in ToSet(c.succs)
Sound(cfg) ==
  /\ LabelsOnce(cfg.blocks)
  /\ \E b \in ToSet(cfg.blocks) : b.label = cfg.entry
  /\ \A b \in ToSet(cfg.blocks) : Joins(ToSet(cfg.blocks), b) /\ Tidy(b)

(* A block is found by its label.                                          *)
LEMMA Found ==
  ASSUME NEW bs, LabelsOnce(bs), NEW k \in DOMAIN bs
  PROVE  HasBlock(bs, bs[k].label) /\ FindBlock(bs, bs[k].label) = k
BY DEF HasBlock, FindBlock, LabelsOnce

(* What is in a sequence, by its positions.                                *)
LEMMA ContainsMember ==
  ASSUME NEW S, NEW q \in Seq(S), NEW e
  PROVE  Contains(q, e) <=> e \in ToSet(q)
<1>1. DOMAIN q = 1..Len(q)
  OBVIOUS
<1> QED BY <1>1 DEF Contains, ToSet

(* A sequence of nothing.                                                  *)
LEMMA NoMembers ==
  ASSUME NEW S, NEW q \in Seq(S), ToSet(q) = {}
  PROVE  q = << >>
<1>1. DOMAIN q = 1..Len(q) /\ Len(q) \in Nat
  OBVIOUS
<1>2. \A k \in 1..Len(q) : FALSE
  BY <1>1 DEF ToSet
<1>3. Len(q) = 0
  BY <1>1, <1>2
<1> QED BY <1>3

(* A graph that is sound is one verify_cfg accepts: what a pass has to   *)
(* keep for the assertion behind it to hold.                             *)
THEOREM SoundVerified ==
  ASSUME NEW n, NEW cfg \in Graphs(n), Sound(cfg)
  PROVE  VerifyCfg(cfg)
<1> DEFINE bs == cfg.blocks
           B == ToSet(bs)
<1>1. LabelsOnce(bs) /\ cfg.entry \in LabelSet(bs)
  BY DEF Sound, LabelSet, ToSet
<1>2. ASSUME NEW k \in DOMAIN bs PROVE TargetsKnown(bs, bs[k]) /\ EdgesAgree(bs, bs[k]) /\ EndAgrees(bs[k])
  <2> DEFINE b == bs[k]
  <2>1. b \in B /\ b \in Blocks(n)
    BY GraphFields DEF ToSet
  <2>2. Joins(B, b) /\ Tidy(b)
    BY <2>1 DEF Sound
  <2>3. \A c \in B : c \in Blocks(n) /\ c.succs \in Seq(Int) /\ c.preds \in Seq(Int)
    <3>1. \A c \in B : c \in Blocks(n)
      BY GraphFields DEF ToSet
    <3> QED BY <3>1, BlockFields
  <2>4. \A c \in B : c.label \in LabelSet(bs) /\ bs[FindBlock(bs, c.label)] = c
    BY <1>1, Found DEF LabelSet, ToSet
  <2> HIDE DEF bs, B, b
  <2>5. \A c \in B : \A e : /\ e \in ToSet(c.preds) <=> Contains(c.preds, e)
                            /\ e \in ToSet(c.succs) <=> Contains(c.succs, e)
    BY <2>3, ContainsMember
  <2>6. EdgesAgree(bs, b)
    <3>1. ASSUME NEW l \in ToSet(b.succs)
          PROVE  l \in LabelSet(bs) /\ Contains(bs[FindBlock(bs, l)].preds, b.label)
      <4>1. PICK c \in B : c.label = l /\ b.label \in ToSet(c.preds)
        BY <2>2, <3>1 DEF Joins
      <4>2. Contains(c.preds, b.label)
        BY <2>5, <4>1
      <4> QED BY <2>4, <4>1, <4>2
    <3>2. ASSUME NEW l \in ToSet(b.preds)
          PROVE  l \in LabelSet(bs) /\ Contains(bs[FindBlock(bs, l)].succs, b.label)
      <4>1. PICK c \in B : c.label = l /\ b.label \in ToSet(c.succs)
        BY <2>2, <3>2 DEF Joins
      <4>2. Contains(c.succs, b.label)
        BY <2>5, <4>1
      <4> QED BY <2>4, <4>1, <4>2
    <3> QED BY <3>1, <3>2 DEF EdgesAgree
  <2>7. TargetsKnown(bs, b)
    <3>1. TargetsIn(b.code) \subseteq LabelSet(bs)
      BY <2>1, <2>2, <2>4 DEF Tidy, Joins
    <3> QED BY <3>1 DEF TargetsKnown, TargetsIn
  <2>8. EndAgrees(b)
    <3> SUFFICES ASSUME NEW m \in DOMAIN b.code, LastTerminator(b.code, m)
                 PROVE  /\ b.code[m].op = "return" => b.succs = << >>
                        /\ b.code[m].op = "jump" => Contains(b.succs, b.code[m].to)
      BY DEF EndAgrees
    <3>1. Jumped(b.code[m]) \in EndOf(b.code)
      BY DEF EndOf
    <3>2. /\ b.code[m].op = "return" => ToSet(b.succs) = {}
          /\ b.code[m].op = "jump" => b.code[m].to \in ToSet(b.succs)
      BY <2>2, <3>1 DEF Tidy, Jumped
    <3>3. ToSet(b.succs) = {} => b.succs = << >>
      <4>1. b.succs \in Seq(Int)
        BY <2>1, <2>3
      <4> QED BY <4>1, NoMembers
    <3> QED BY <2>1, <2>5, <3>2, <3>3
  <2> QED BY <2>6, <2>7, <2>8 DEF b, bs
<1> QED BY <1>1, <1>2 DEF VerifyCfg

(* A sequence mapped, position by position.                                *)
LEMMA MappedAre ==
  ASSUME NEW S, NEW q \in Seq(S), NEW T, NEW f \in [DOMAIN q -> T]
  PROVE  /\ << >> \o f \in Seq(T) /\ DOMAIN (<< >> \o f) = DOMAIN q /\ Len(<< >> \o f) = Len(q)
         /\ \A k \in DOMAIN q : (<< >> \o f)[k] = f[k]
         /\ ToSet(<< >> \o f) = {f[k] : k \in DOMAIN q}
<1>1. DOMAIN q = 1..Len(q) /\ Len(q) \in Nat
  OBVIOUS
<1>2. f \in Seq(T) /\ Len(f) = Len(q) /\ DOMAIN f = DOMAIN q
  BY <1>1, FunctionIsSeq
<1>3. << >> \o f = f
  BY <1>2
<1> QED BY <1>2, <1>3 DEF ToSet

(* A pass that rewrites the code of blocks and leaves alone where it leads *)
(* keeps a graph sound.                                                    *)
LEMMA RewrittenSound ==
  ASSUME NEW n, NEW cfg \in Graphs(n), Sound(cfg),
         NEW code \in [DOMAIN cfg.blocks -> Seq(Unlabelled(n))],
         \A k \in DOMAIN cfg.blocks : SameFlow(cfg.blocks[k].code, code[k]),
         NEW new \in [DOMAIN cfg.blocks -> Blocks(n)],
         \A k \in DOMAIN cfg.blocks : new[k] = [cfg.blocks[k] EXCEPT !.code = code[k]]
  PROVE  Sound([cfg EXCEPT !.blocks = << >> \o new])
<1> DEFINE bs == cfg.blocks
           ns == << >> \o new
<1>1. /\ bs \in Seq(Blocks(n)) /\ \A k \in DOMAIN bs : bs[k] \in Blocks(n)
      /\ [cfg EXCEPT !.blocks = ns].blocks = ns /\ [cfg EXCEPT !.blocks = ns].entry = cfg.entry
  <2>1. cfg = [entry |-> cfg.entry, blocks |-> cfg.blocks]
    BY DEF Graphs
  <2> HIDE DEF ns
  <2> QED BY <2>1, GraphFields
<1>2. DOMAIN ns = DOMAIN bs /\ (\A k \in DOMAIN bs : ns[k] = new[k]) /\ ToSet(ns) = {new[k] : k \in DOMAIN bs}
  <2>1. new \in [DOMAIN bs -> Blocks(n)] /\ bs \in Seq(Blocks(n))
    BY <1>1
  <2> HIDE DEF bs
  <2>2. DOMAIN (<< >> \o new) = DOMAIN bs
    BY <2>1, MappedAre
  <2>3. \A k \in DOMAIN bs : (<< >> \o new)[k] = new[k]
    BY <2>1, MappedAre
  <2>4. ToSet(<< >> \o new) = {new[k] : k \in DOMAIN bs}
    BY <2>2, <2>3 DEF ToSet
  <2> QED BY <2>2, <2>3, <2>4
<1>3. \A k \in DOMAIN bs : /\ new[k].label = bs[k].label /\ new[k].succs = bs[k].succs
                           /\ new[k].preds = bs[k].preds /\ new[k].code = code[k]
  <2> SUFFICES ASSUME NEW k \in DOMAIN bs
               PROVE  /\ new[k].label = bs[k].label /\ new[k].succs = bs[k].succs
                      /\ new[k].preds = bs[k].preds /\ new[k].code = code[k]
    OBVIOUS
  <2>1. bs[k] = [label |-> bs[k].label, code |-> bs[k].code, succs |-> bs[k].succs, preds |-> bs[k].preds]
    BY <1>1 DEF Blocks
  <2> QED BY <2>1
<1>4. ToSet(bs) = {bs[k] : k \in DOMAIN bs}
  BY DEF ToSet
<1>5. Sound(cfg) /\ \A k \in DOMAIN bs : SameFlow(bs[k].code, code[k])
  OBVIOUS
<1> HIDE DEF bs, ns
<1>6. LabelsOnce(ns)
  <2>1. LabelsOnce(bs)
    BY <1>5 DEF Sound, bs
  <2> QED BY <1>2, <1>3, <2>1, SameLabels
<1>7. \E b \in ToSet(ns) : b.label = cfg.entry
  BY <1>2, <1>3, <1>4, <1>5 DEF Sound, bs
<1>8. ASSUME NEW k \in DOMAIN bs PROVE Joins(ToSet(ns), new[k]) /\ Tidy(new[k])
  <2>1. bs[k] \in ToSet(bs) /\ Joins(ToSet(bs), bs[k]) /\ Tidy(bs[k]) /\ SameFlow(bs[k].code, code[k])
    BY <1>4, <1>5 DEF Sound, bs
  <2>2. Joins(ToSet(ns), new[k])
    BY <1>2, <1>3, <1>4, <2>1, SMTT(30) DEF Joins
  <2>3. Tidy(new[k])
    BY <1>3, <2>1 DEF Tidy, SameFlow
  <2> QED BY <2>2, <2>3
<1>9. \A b \in ToSet(ns) : Joins(ToSet(ns), b) /\ Tidy(b)
  BY <1>2, <1>8
<1> QED BY <1>1, <1>6, <1>7, <1>9 DEF Sound, ns

(* So does one that rewrites the code of every block alike.                *)
LEMMA RewrittenAlike ==
  ASSUME NEW n \in Nat, NEW cfg \in Graphs(n), Sound(cfg),
         NEW f \in [Seq(Unlabelled(n)) -> Seq(Unlabelled(n))],
         \A c \in Seq(Unlabelled(n)) : SameFlow(c, f[c])
  PROVE  Sound([cfg EXCEPT !.blocks = << >> \o [k \in DOMAIN cfg.blocks |->
                  [cfg.blocks[k] EXCEPT !.code = f[cfg.blocks[k].code]]]])
<1> DEFINE bs == cfg.blocks
           code == [k \in DOMAIN bs |-> f[bs[k].code]]
           new == [k \in DOMAIN bs |-> [bs[k] EXCEPT !.code = f[bs[k].code]]]
<1>1. \A k \in DOMAIN bs : bs[k] \in Blocks(n) /\ bs[k].code \in Seq(Unlabelled(n))
  BY GraphFields, BlockFields
<1>2. \A k \in DOMAIN bs : f[bs[k].code] \in Seq(Unlabelled(n)) /\ SameFlow(bs[k].code, f[bs[k].code])
  BY <1>1
<1>3. \A k \in DOMAIN bs : [bs[k] EXCEPT !.code = f[bs[k].code]] \in Blocks(n)
  BY <1>1, <1>2, BlockFields
<1>4. code \in [DOMAIN bs -> Seq(Unlabelled(n))] /\ new \in [DOMAIN bs -> Blocks(n)]
  BY <1>2, <1>3
<1>5. \A k \in DOMAIN bs : SameFlow(bs[k].code, code[k]) /\ new[k] = [bs[k] EXCEPT !.code = code[k]]
  BY <1>2
<1> HIDE DEF code, new
<1>6. Sound([cfg EXCEPT !.blocks = << >> \o new])
  BY <1>4, <1>5, RewrittenSound
<1> QED BY <1>6 DEF new

(* Common-subexpression elimination does.                                  *)
LEMMA SharedSound ==
  ASSUME NEW n \in Nat, NEW g \in Graphs(n), Sound(g)
  PROVE  Sound(Rewritten(g, ShareExpressions))
<1> DEFINE I == Seq(Unlabelled(n))
           f == [c \in I |-> ShareExpressions(c)]
<1>1. f \in [I -> I]
  BY ShareExpressionsType
<1>2. \A c \in I : SameFlow(c, f[c])
  BY ShareExpressionsFlow
<1>3. \A k \in DOMAIN g.blocks : f[g.blocks[k].code] = ShareExpressions(g.blocks[k].code)
  BY GraphFields, BlockFields
<1>4. Rewritten(g, ShareExpressions) =
        [g EXCEPT !.blocks = << >> \o [k \in DOMAIN g.blocks |->
           [g.blocks[k] EXCEPT !.code = ShareExpressions(g.blocks[k].code)]]]
  BY DEF Rewritten, Map
<1> HIDE DEF f
<1>5. [k \in DOMAIN g.blocks |-> [g.blocks[k] EXCEPT !.code = f[g.blocks[k].code]]] =
      [k \in DOMAIN g.blocks |-> [g.blocks[k] EXCEPT !.code = ShareExpressions(g.blocks[k].code)]]
  BY <1>3
<1>6. Sound([g EXCEPT !.blocks = << >> \o [k \in DOMAIN g.blocks |->
         [g.blocks[k] EXCEPT !.code = f[g.blocks[k].code]]]])
  BY <1>1, <1>2, RewrittenAlike
<1> QED BY <1>4, <1>5, <1>6

(* Copy propagation does.                                                 *)
LEMMA CopiedSound ==
  ASSUME NEW n \in Nat, NEW g \in Graphs(n), Sound(g), NEW held
  PROVE  Sound(Rewritten(g, LAMBDA c : PropagateCopies(c, held)))
<1> DEFINE I == Seq(Unlabelled(n))
           f == [c \in I |-> PropagateCopies(c, held)]
<1>1. f \in [I -> I]
  BY PropagateCopiesType
<1>2. \A c \in I : SameFlow(c, f[c])
  BY PropagateCopiesFlow
<1>3. \A k \in DOMAIN g.blocks : f[g.blocks[k].code] = PropagateCopies(g.blocks[k].code, held)
  BY GraphFields, BlockFields
<1>4. Rewritten(g, LAMBDA c : PropagateCopies(c, held)) =
        [g EXCEPT !.blocks = << >> \o [k \in DOMAIN g.blocks |->
           [g.blocks[k] EXCEPT !.code = PropagateCopies(g.blocks[k].code, held)]]]
  BY DEF Rewritten, Map
<1> HIDE DEF f
<1>5. [k \in DOMAIN g.blocks |-> [g.blocks[k] EXCEPT !.code = f[g.blocks[k].code]]] =
      [k \in DOMAIN g.blocks |-> [g.blocks[k] EXCEPT !.code = PropagateCopies(g.blocks[k].code, held)]]
  BY <1>3
<1>6. Sound([g EXCEPT !.blocks = << >> \o [k \in DOMAIN g.blocks |->
         [g.blocks[k] EXCEPT !.code = f[g.blocks[k].code]]]])
  BY <1>1, <1>2, RewrittenAlike
<1> QED BY <1>4, <1>5, <1>6

(* Value tracking does.                                                    *)
LEMMA TrackedSound ==
  ASSUME NEW n \in Nat, NEW g \in Graphs(n), Sound(g), NEW held
  PROVE  Sound(Rewritten(g, LAMBDA c : TrackValues(c, held)))
<1> DEFINE I == Seq(Unlabelled(n))
           f == [c \in I |-> TrackValues(c, held)]
<1>1. f \in [I -> I]
  BY TrackValuesType
<1>2. \A c \in I : SameFlow(c, f[c])
  BY TrackValuesFlow
<1>3. \A k \in DOMAIN g.blocks : f[g.blocks[k].code] = TrackValues(g.blocks[k].code, held)
  BY GraphFields, BlockFields
<1>4. Rewritten(g, LAMBDA c : TrackValues(c, held)) =
        [g EXCEPT !.blocks = << >> \o [k \in DOMAIN g.blocks |->
           [g.blocks[k] EXCEPT !.code = TrackValues(g.blocks[k].code, held)]]]
  BY DEF Rewritten, Map
<1> HIDE DEF f
<1>5. [k \in DOMAIN g.blocks |-> [g.blocks[k] EXCEPT !.code = f[g.blocks[k].code]]] =
      [k \in DOMAIN g.blocks |-> [g.blocks[k] EXCEPT !.code = TrackValues(g.blocks[k].code, held)]]
  BY <1>3
<1>6. Sound([g EXCEPT !.blocks = << >> \o [k \in DOMAIN g.blocks |->
         [g.blocks[k] EXCEPT !.code = f[g.blocks[k].code]]]])
  BY <1>1, <1>2, RewrittenAlike
<1> QED BY <1>4, <1>5, <1>6

(* One round of dead-code elimination does.                                *)
LEMMA EliminateDeadOnceSound ==
  ASSUME NEW n \in Nat, NEW cfg \in Graphs(n), Sound(cfg)
  PROVE  Sound(EliminateDeadOnce(cfg))
<1> DEFINE captured == CapturedVars(cfg)
           after(b) == LiveOut(cfg.blocks, LiveIn(cfg.blocks), b)
           bs == cfg.blocks
           code == [k \in DOMAIN bs |-> Needed(bs[k].code, after(bs[k]), captured)]
           new == [k \in DOMAIN bs |-> [bs[k] EXCEPT !.code = Needed(@, after(bs[k]), captured)]]
<1>1. EliminateDeadOnce(cfg) = [cfg EXCEPT !.blocks = << >> \o new]
  BY DEF EliminateDeadOnce, Map
<1> HIDE DEF captured, after
<1>2. \A k \in DOMAIN bs : bs[k] \in Blocks(n) /\ bs[k].code \in Seq(Unlabelled(n))
  BY GraphFields, BlockFields
<1>3. \A k \in DOMAIN bs : /\ Needed(bs[k].code, after(bs[k]), captured) \in Seq(Unlabelled(n))
                           /\ SameFlow(bs[k].code, Needed(bs[k].code, after(bs[k]), captured))
  BY <1>2, NeededType, NeededFlow
<1>4. \A k \in DOMAIN bs : [bs[k] EXCEPT !.code = Needed(@, after(bs[k]), captured)] \in Blocks(n)
  BY <1>2, <1>3, BlockFields
<1>5. code \in [DOMAIN bs -> Seq(Unlabelled(n))] /\ new \in [DOMAIN bs -> Blocks(n)]
  BY <1>3, <1>4
<1>6. \A k \in DOMAIN bs : SameFlow(bs[k].code, code[k]) /\ new[k] = [bs[k] EXCEPT !.code = code[k]]
  BY <1>3
<1> HIDE DEF code, new
<1>7. Sound([cfg EXCEPT !.blocks = << >> \o new])
  BY <1>5, <1>6, RewrittenSound
<1> QED BY <1>1, <1>7

(* eliminate_dead_code leaves a sound graph sound: the code it removes is*)
(* never where a block leads.                                            *)
THEOREM EliminateDeadSound ==
  ASSUME NEW N \in Nat, NEW cfg \in Graphs(N), Sound(cfg)
  PROVE  EliminateDead(cfg) \in Graphs(N) /\ Sound(EliminateDead(cfg))
<1> DEFINE seq == [k \in 1..MAX_PASSES |-> k]
           start == [is |-> cfg, same |-> FALSE]
           n == Len(seq)
           G == {h \in Graphs(N) : Sound(h)}
           A == [is : G, same : BOOLEAN]
           op(acc, k) == IF acc.same THEN acc ELSE [is |-> EliminateDeadOnce(acc.is), same |-> EliminateDeadOnce(acc.is) = acc.is]
           g == [p \in A \X (1..n) |-> op(p[1], seq[p[2]])]
           Is(f) == f = [m \in 0..n |-> IF m = 0 THEN start ELSE op(f[m - 1], seq[m])]
           after == CHOOSE f : Is(f)
<1>1. n \in Nat /\ start \in A
  BY DEF MAX_PASSES
<1>2. \A a \in A, m \in 1..n : op(a, seq[m]) \in A
  <2> SUFFICES ASSUME NEW a \in A, NEW m \in 1..n PROVE op(a, seq[m]) \in A
    OBVIOUS
  <2>1. EliminateDeadOnce(a.is) \in G
    BY EliminateDeadOnceType, EliminateDeadOnceSound
  <2> QED BY <2>1
<1> HIDE DEF op, A, n, start, seq
<1>3. g \in [A \X (1..n) -> A]
  BY <1>2
<1>4. PICK f : Folded(f, A, n, start, g)
  <2> HIDE DEF g
  <2> QED BY <1>1, <1>3, FoldExists
<1>5. Is(f)
  <2>1. ASSUME NEW m \in 1..n PROVE f[m] = op(f[m - 1], seq[m])
    <3>1. m - 1 \in 0..n /\ m \in 1..n
      BY <1>1
    <3>2. f[m - 1] \in A /\ f[m] = g[<<f[m - 1], m>>]
      <4> HIDE DEF g
      <4> QED BY <1>4, <3>1 DEF Folded
    <3> QED BY <3>1, <3>2
  <2> HIDE DEF g
  <2> QED BY <1>1, <1>4, <2>1 DEF Folded
<1>6. Is(after)
  <2> HIDE DEF Is
  <2> QED BY <1>5
<1>7. after[n] \in A
  <2>1. Carries(after, A, n)
    <3> HIDE DEF after
    <3>1. after[0] \in A
      BY <1>1, <1>6
    <3>2. ASSUME NEW m \in 1..n, after[m - 1] \in A PROVE after[m] \in A
      <4>1. m \in 0..n /\ m # 0
        BY <1>1
      <4>2. after[m] = op(after[m - 1], seq[m])
        BY <1>6, <4>1
      <4> QED BY <1>2, <3>2, <4>2
    <3> QED BY <3>1, <3>2 DEF Carries
  <2> HIDE DEF after
  <2> QED BY <1>1, <2>1, FoldKeeps
<1>8. EliminateDead(cfg) = after[n].is
  BY DEF EliminateDead, Repeated, Fold, op, n, start, seq
<1> HIDE DEF after
<1> QED BY <1>7, <1>8 DEF A

-----------------------------------------------------------------------------
(* A block that only jumps or returns at its end, and where it goes.       *)
LEMMA ConnectTidy ==
  ASSUME NEW n \in Nat, NEW code \in Seq(Instructions(n)), NEW cut \in Seq(Blocks(n)),
         CutFrom(code, Len(code), cut), NEW k \in DOMAIN cut
  PROVE  Tidy(Connect(cut, k))
<1> DEFINE b == cut[k]
           c == b.code
           falls == Ends(b) \notin {"return", "jump"} /\ k < Len(cut)
           taken == IF Ends(b) \in {"jump", "test"} THEN <<Last(b.code).to>> ELSE << >>
           L == cut[k + 1].label
           next == IF falls THEN <<L>> ELSE << >>
           jumps == [m \in 1..Len(next) |-> Jump(next[m])]
           succs == IF taken = next THEN taken ELSE taken \o next
           new == Connect(cut, k)
<1>1. k \in 1..Len(cut) /\ Len(cut) \in Nat /\ b \in Blocks(n) /\ DOMAIN cut = 1..Len(cut)
  OBVIOUS
<1>2. c \in Seq(Unlabelled(n)) /\ Len(c) \in Nat /\ DOMAIN c = 1..Len(c)
  <2>1. c \in Seq(Unlabelled(n))
    BY <1>1, BlockFields
  <2> QED BY <2>1
<1>3. FromCode(code, c)
  BY DEF CutFrom
<1>4. new.label = b.label /\ new.code = c \o jumps /\ new.succs = succs
  <2>1. new = [b EXCEPT !.code = @ \o jumps, !.succs = succs]
    BY DEF Connect
  <2> HIDE DEF new, jumps, succs
  <2> QED BY <1>1, <2>1 DEF Blocks
<1>5. \A j \in DOMAIN c : IsTerminator(c[j]) => j = Len(c) /\ Ends(b) = c[j].op /\ Last(c) = c[j]
  <2> SUFFICES ASSUME NEW j \in DOMAIN c, IsTerminator(c[j])
               PROVE  j = Len(c) /\ Ends(b) = c[j].op /\ Last(c) = c[j]
    OBVIOUS
  <2>1. j = Len(c)
    BY <1>3 DEF FromCode
  <2>2. c # << >>
    <3> HIDE DEF c
    <3>1. Len(c) # 0
      BY <1>2, <2>1
    <3> QED BY <3>1, NotEmpty
  <2>3. c # << >> => Ends(b) = Last(c).op
    BY DEF Ends
  <2> HIDE DEF c, b
  <2> QED BY <2>1, <2>2, <2>3 DEF Last
<1>6. Ends(b) \in {"jump", "test"} => Last(c).to \in TargetsIn(c)
  <2> SUFFICES ASSUME Ends(b) \in {"jump", "test"} PROVE Last(c).to \in TargetsIn(c)
    OBVIOUS
  <2>1. c # << >> /\ Ends(b) = Last(c).op
    BY DEF Ends
  <2> HIDE DEF c, b
  <2>2. Len(c) \in DOMAIN c /\ Last(c) = c[Len(c)]
    BY <1>2, <2>1 DEF Last
  <2> QED BY <2>1, <2>2 DEF TargetsIn, ToSet
<1>7. \A t \in TargetsIn(c) : Ends(b) \in {"jump", "test"} /\ t = Last(c).to
  <2> SUFFICES ASSUME NEW t \in TargetsIn(c) PROVE Ends(b) \in {"jump", "test"} /\ t = Last(c).to
    OBVIOUS
  <2>1. PICK j \in DOMAIN c : c[j].op \in {"jump", "test"} /\ t = c[j].to
    BY DEF TargetsIn, ToSet
  <2>2. IsTerminator(c[j])
    BY <2>1 DEF IsTerminator
  <2> HIDE DEF c, b
  <2> QED BY <1>5, <2>1, <2>2
<1>8. ToSet(taken) = TargetsIn(c)
  <2>1. CASE Ends(b) \in {"jump", "test"}
    <3> DEFINE t == Last(c).to
    <3>1. taken = <<t>>
      BY <2>1
    <3>2. ToSet(<<t>>) = {t}
      BY DEF ToSet
    <3>3. TargetsIn(c) = {t}
      <4> HIDE DEF c, b
      <4> QED BY <1>6, <1>7, <2>1
    <3> HIDE DEF c, b, taken, t
    <3> QED BY <3>1, <3>2, <3>3
  <2>2. CASE Ends(b) \notin {"jump", "test"}
    <3>1. taken = << >>
      BY <2>2
    <3>2. ToSet(<< >>) = {}
      BY DEF ToSet
    <3>3. TargetsIn(c) = {}
      <4> HIDE DEF c, b
      <4> QED BY <1>7, <2>2
    <3> HIDE DEF c, b, taken
    <3> QED BY <3>1, <3>2, <3>3
  <2> QED BY <2>1, <2>2
<1>9. ToSet(<< >>) = {}
  BY DEF ToSet
<1>10. \A e \in EndOf(c) : Ends(b) = e.op
  <2> HIDE DEF c, b
  <2> QED BY <1>5 DEF EndOf, LastTerminator, Jumped
<1>11. \A e \in EndOf(c) : e.op = "jump" => e.to \in TargetsIn(c)
  <2> SUFFICES ASSUME NEW j \in DOMAIN c, c[j].op = "jump" PROVE c[j].to \in TargetsIn(c)
    BY DEF EndOf, Jumped
  <2> HIDE DEF c
  <2> QED BY DEF TargetsIn, ToSet
<1>12. CASE ~ falls
  <2>1. next = << >> /\ jumps = << >>
    BY <1>12
  <2>2. new.code = c /\ succs = taken
    <3>1. c \o << >> = c
      <4> HIDE DEF c
      <4> QED BY <1>2
    <3>2. succs = taken
      <4>0. taken = << >> \/ taken = <<Last(c).to>>
        OBVIOUS
      <4>1. taken \o << >> = taken
        <5> HIDE DEF taken, c
        <5>1. CASE taken = << >>
          BY <5>1
        <5>2. CASE taken = <<Last(c).to>>
          BY <5>2
        <5> QED BY <4>0, <5>1, <5>2
      <4> HIDE DEF taken
      <4> QED BY <2>1, <4>1
    <3> HIDE DEF c, jumps, new, succs
    <3> QED BY <1>4, <2>1, <3>1, <3>2
  <2>3. EndsOnce(c)
    <3> HIDE DEF c, b
    <3> QED BY <1>5 DEF EndsOnce, Leaves, IsTerminator
  <2>4. Ends(b) = "return" => taken = << >>
    OBVIOUS
  <2>5. \A e \in EndOf(c) : /\ e.op = "return" => ToSet(taken) = {}
                            /\ e.op = "jump" => e.to \in ToSet(taken)
    <3> HIDE DEF c, b, taken
    <3> QED BY <1>8, <1>9, <1>10, <1>11, <2>4
  <2> HIDE DEF c, b, taken, next, succs, jumps, new, falls
  <2> QED BY <1>4, <1>8, <2>2, <2>3, <2>5 DEF Tidy, new
<1>13. CASE falls
  <2>1. next = <<L>> /\ jumps = <<Jump(L)>>
    BY <1>13
  <2>2. Jump(L) \in Unlabelled(n) /\ Jump(L).op = "jump" /\ Jump(L).to = L
    <3>1. cut[k + 1] \in Blocks(n)
      BY <1>1, <1>13
    <3>2. L \in Int
      BY <3>1, BlockFields
    <3> HIDE DEF L
    <3> QED BY <3>2 DEF Jump, Inst, Unlabelled, Instructions, None, Assigning, Operators
  <2>3. new.code = Append(c, Jump(L))
    <3>1. c \o <<Jump(L)>> = Append(c, Jump(L))
      <4> HIDE DEF c, L
      <4> QED BY <1>2, <2>2
    <3> HIDE DEF c, L, new, jumps
    <3> QED BY <1>4, <2>1, <3>1
  <2>4. Bare(c)
    <3>1. Ends(b) \notin {"return", "jump"}
      BY <1>13
    <3> HIDE DEF c, b
    <3> QED BY <1>5, <3>1 DEF Bare, Leaves, IsTerminator
  <2>5. ToSet(succs) = TargetsIn(c) \cup {L}
    <3>0. taken = << >> \/ taken = <<Last(c).to>>
      OBVIOUS
    <3>1. succs = IF taken = next THEN taken ELSE taken \o next
      OBVIOUS
    <3>2. ToSet(<<L>>) = {L} /\ << >> \o <<L>> = <<L>>
      BY DEF ToSet
    <3> HIDE DEF taken, succs, L, next, c, b
    <3>3. CASE taken = next
      BY <1>8, <2>1, <3>1, <3>2, <3>3
    <3>4. CASE taken = << >> /\ taken # next
      BY <1>8, <1>9, <2>1, <3>1, <3>2, <3>4
    <3>5. CASE taken = <<Last(c).to>> /\ taken # next
      <4> DEFINE t == Last(c).to
      <4> HIDE DEF t
      <4>1. ToSet(<<t>> \o <<L>>) = {t, L} /\ ToSet(<<t>>) = {t}
        BY DEF ToSet
      <4>2. taken = <<t>>
        BY <3>5 DEF t
      <4> QED BY <1>8, <2>1, <3>1, <3>5, <4>1, <4>2
    <3> QED BY <3>0, <3>3, <3>4, <3>5
  <2> HIDE DEF c, b, taken, next, succs, jumps, new, falls, L
  <2> DEFINE d == Append(c, Jump(L))
  <2>6. EndOf(d) = {Jumped(Jump(L))} /\ EndsOnce(d)
    BY <1>2, <2>2, <2>4, EndAppended, FormAppended DEF IsTerminator
  <2>7. TargetsIn(d) = TargetsIn(c) \cup {L}
    BY <1>2, <2>2, OneMoreInstruction
  <2> HIDE DEF d
  <2>8. Jumped(Jump(L)).op = "jump" /\ Jumped(Jump(L)).to = L
    BY <2>2 DEF Jumped
  <2> QED BY <1>4, <2>3, <2>5, <2>6, <2>7, <2>8 DEF Tidy, new, d
<1> QED BY <1>12, <1>13

(* The edges of a graph verify_cfg accepts are noted at both ends.         *)
LEMMA VerifiedJoins ==
  ASSUME NEW n, NEW cfg \in Graphs(n), VerifyCfg(cfg), NEW b \in ToSet(cfg.blocks)
  PROVE  Joins(ToSet(cfg.blocks), b)
<1> DEFINE bs == cfg.blocks
           B == ToSet(bs)
<1>1. PICK k \in DOMAIN bs : b = bs[k]
  BY DEF ToSet
<1>2. LabelsOnce(bs) /\ EdgesAgree(bs, b)
  BY <1>1 DEF VerifyCfg
<1>3. \A c \in B : c \in Blocks(n) /\ c.succs \in Seq(Int) /\ c.preds \in Seq(Int)
  <2>1. \A c \in B : c \in Blocks(n)
    BY GraphFields DEF ToSet
  <2> QED BY <2>1, BlockFields
<1>4. \A l \in LabelSet(bs) : bs[FindBlock(bs, l)] \in B /\ bs[FindBlock(bs, l)].label = l
  <2> SUFFICES ASSUME NEW j \in DOMAIN bs
               PROVE  bs[FindBlock(bs, bs[j].label)] \in B /\ bs[FindBlock(bs, bs[j].label)].label = bs[j].label
    BY DEF LabelSet
  <2>1. FindBlock(bs, bs[j].label) = j
    BY <1>2, Found
  <2> QED BY <2>1 DEF ToSet
<1> HIDE DEF bs, B
<1>5. \A c \in B : \A e : /\ e \in ToSet(c.preds) <=> Contains(c.preds, e)
                          /\ e \in ToSet(c.succs) <=> Contains(c.succs, e)
  BY <1>3, ContainsMember
<1>6. ASSUME NEW l \in ToSet(b.succs) PROVE \E c \in B : c.label = l /\ b.label \in ToSet(c.preds)
  <2>1. l \in LabelSet(bs) /\ Contains(bs[FindBlock(bs, l)].preds, b.label)
    BY <1>2, <1>6 DEF EdgesAgree
  <2> QED BY <1>4, <1>5, <2>1
<1>7. ASSUME NEW l \in ToSet(b.preds) PROVE \E c \in B : c.label = l /\ b.label \in ToSet(c.succs)
  <2>1. l \in LabelSet(bs) /\ Contains(bs[FindBlock(bs, l)].succs, b.label)
    BY <1>2, <1>7 DEF EdgesAgree
  <2> QED BY <1>4, <1>5, <2>1
<1> QED BY <1>6, <1>7 DEF Joins, B, bs

(* build_cfg makes a graph that is sound of any code in which each label *)
(* is placed once and jumps go to labels only.                           *)
THEOREM BuildCfgSound ==
  ASSUME NEW n \in Nat, NEW code \in Seq(Instructions(n)), WellLabelled(code)
  PROVE  Sound(BuildCfg(code))
<1> DEFINE cfg == BuildCfg(code)
           cut == CutBlocks(code)
           blocks == [k \in DOMAIN cut |-> Connect(cut, k)]
           known == [k \in DOMAIN blocks |->
                       [blocks[k] EXCEPT !.preds = Predecessors(blocks, blocks[k].label)]]
<1>1. cfg \in Graphs(n) /\ VerifyCfg(cfg)
  BY BuildCfgType, BuildCfgVerified
<1>2. cut \in Seq(Blocks(n)) /\ CutFrom(code, Len(code), cut)
  BY CutBlocksType, CutBlocksCut DEF WellLabelled
<1>3. cfg = IF cut = << >> THEN [entry |-> None, blocks |-> <<EmptyBlock(None)>>]
            ELSE [entry |-> blocks[1].label, blocks |-> << >> \o known]
  BY DEF BuildCfg, Map
<1>4. \A b \in ToSet(cfg.blocks) : Tidy(b)
  <2>1. CASE cut = << >>
    <3>1. cfg.blocks = <<EmptyBlock(None)>>
      BY <1>3, <2>1
    <3>2. ToSet(<<EmptyBlock(None)>>) = {EmptyBlock(None)}
      BY DEF ToSet
    <3>3. Tidy(EmptyBlock(None))
      BY DEF Tidy, EmptyBlock, EndsOnce, TargetsIn, EndOf, ToSet
    <3> HIDE DEF cfg
    <3> QED BY <3>1, <3>2, <3>3
  <2>2. CASE cut # << >>
    <3> HIDE DEF cut
    <3>1. blocks \in [DOMAIN cut -> Blocks(n)] /\ \A k \in DOMAIN cut : Tidy(blocks[k])
      BY <1>2, ConnectType, ConnectTidy
    <3>2. DOMAIN cut = 1..Len(cut) /\ Len(cut) \in Nat
      BY <1>2
    <3>3. blocks \in Seq(Blocks(n)) /\ DOMAIN blocks = DOMAIN cut
      <4> HIDE DEF blocks
      <4> QED BY <3>1, <3>2, FunctionIsSeq
    <3> HIDE DEF blocks
    <3>4. \A k \in DOMAIN blocks : known[k] \in Blocks(n)
      <4>1. \A k \in DOMAIN blocks : blocks[k] \in Blocks(n)
        BY <3>3
      <4>2. \A l : Predecessors(blocks, l) \in Seq(Int)
        BY <3>3, PredecessorsType
      <4> QED BY <4>1, <4>2, BlockFields
    <3>5. known \in [DOMAIN blocks -> Blocks(n)]
      BY <3>4
    <3>6. ASSUME NEW k \in DOMAIN blocks
          PROVE  known[k].label = blocks[k].label /\ known[k].code = blocks[k].code /\ known[k].succs = blocks[k].succs
      <4>1. blocks[k] \in Blocks(n)
        BY <3>3
      <4> QED BY <4>1 DEF Blocks
    <3> HIDE DEF known
    <3>7. DOMAIN (<< >> \o known) = DOMAIN blocks /\ \A k \in DOMAIN blocks : (<< >> \o known)[k] = known[k]
      BY <3>3, <3>5, MappedAre
    <3>8. \A k \in DOMAIN blocks : Tidy(known[k])
      BY <3>1, <3>3, <3>6 DEF Tidy
    <3>9. cfg.blocks = << >> \o known
      BY <1>3, <2>2
    <3> HIDE DEF cfg
    <3> QED BY <3>7, <3>8, <3>9 DEF ToSet
  <2> QED BY <2>1, <2>2
<1> HIDE DEF cfg
<1>5. \A b \in ToSet(cfg.blocks) : Joins(ToSet(cfg.blocks), b)
  BY <1>1, VerifiedJoins
<1>6. LabelsOnce(cfg.blocks) /\ \E b \in ToSet(cfg.blocks) : b.label = cfg.entry
  BY <1>1 DEF VerifyCfg, LabelSet, ToSet
<1> QED BY <1>4, <1>5, <1>6 DEF Sound, cfg

-----------------------------------------------------------------------------
(* Only keeps what is in the sequence and in the set.                      *)
LEMMA OnlyOf ==
  ASSUME NEW S, NEW seq \in Seq(S), NEW set
  PROVE  ToSet(Only(seq, set)) = ToSet(seq) \cap set
<1>1. DOMAIN seq = 1..Len(seq) /\ Len(seq) \in Nat
  OBVIOUS
<1>2. seq \in Seq(ToSet(seq))
  <2>1. seq = [k \in 1..Len(seq) |-> seq[k]]
    OBVIOUS
  <2>2. \A k \in 1..Len(seq) : seq[k] \in ToSet(seq)
    BY <1>1 DEF ToSet
  <2>3. seq \in [1..Len(seq) -> ToSet(seq)]
    BY <2>1, <2>2
  <2> QED BY <1>1, <2>3, FunctionIsSeq
<1>3. Only(seq, set) \in Seq(ToSet(seq) \cap set)
  BY <1>2, OnlyType
<1>4. ToSet(Only(seq, set)) \subseteq ToSet(seq) \cap set
  <2> DEFINE q == Only(seq, set)
             T == ToSet(seq) \cap set
  <2>1. q \in Seq(T)
    BY <1>3
  <2> HIDE DEF q, T
  <2>2. ToSet(q) \subseteq T
    BY <2>1 DEF ToSet
  <2> QED BY <2>2 DEF q, T
<1>5. ASSUME NEW e \in ToSet(seq), e \in set PROVE e \in ToSet(Only(seq, set))
  <2>1. PICK i \in DOMAIN seq : e = seq[i]
    BY DEF ToSet
  <2>2. Contains(Only(seq, set), e)
    BY <1>5, <2>1, OnlyMembers
  <2> QED BY <1>3, <2>2, ContainsMember
<1> QED BY <1>4, <1>5

(* A sequence in which nothing is there twice.                             *)
Distinct(q) == \A j, k \in DOMAIN q : q[j] = q[k] => j = k

(* A block has a label of its own if it is there once and no other has it. *)
LEMMA OnceIs ==
  ASSUME NEW bs
  PROVE  LabelsOnce(bs) <=> Distinct(bs) /\ \A b, c \in ToSet(bs) : b.label = c.label => b = c
BY DEF LabelsOnce, Distinct, ToSet
(* Only leaves such a sequence one.                                         *)
LEMMA OnlyDistinct ==
  ASSUME NEW S, NEW s \in Seq(S), NEW set, Distinct(s)
  PROVE  Distinct(Only(s, set))
<1> DEFINE seq == s
           start == << >>
           n == Len(seq)
           A == Seq(S)
           op(kept, e) == IF e \in set THEN Append(kept, e) ELSE kept
           g == [p \in A \X (1..n) |-> op(p[1], seq[p[2]])]
           Is(f) == f = [m \in 0..n |-> IF m = 0 THEN start ELSE op(f[m - 1], seq[m])]
           after == CHOOSE f : Is(f)
<1>1. n \in Nat /\ start \in A
  OBVIOUS
<1>2. \A a \in A, m \in 1..n : op(a, seq[m]) \in A
  OBVIOUS
<1> HIDE DEF op, A, n, start, seq
<1>3. g \in [A \X (1..n) -> A]
  BY <1>2
<1>4. PICK f : Folded(f, A, n, start, g)
  <2> HIDE DEF g
  <2> QED BY <1>1, <1>3, FoldExists
<1>5. Is(f)
  <2>1. ASSUME NEW m \in 1..n PROVE f[m] = op(f[m - 1], seq[m])
    <3>1. m - 1 \in 0..n /\ m \in 1..n
      BY <1>1
    <3>2. f[m - 1] \in A /\ f[m] = g[<<f[m - 1], m>>]
      <4> HIDE DEF g
      <4> QED BY <1>4, <3>1 DEF Folded
    <3> QED BY <3>1, <3>2
  <2> HIDE DEF g
  <2> QED BY <1>1, <1>4, <2>1 DEF Folded
<1>6. Is(after)
  <2> HIDE DEF Is
  <2> QED BY <1>5
<1>7. after[0] = start /\ \A m \in 1..n : after[m] = op(after[m - 1], seq[m])
  <2> HIDE DEF after
  <2>1. \A m \in 1..n : m \in 0..n /\ m # 0
    BY <1>1
  <2> QED BY <1>1, <1>6, <2>1
<1> HIDE DEF after
<1> DEFINE all(m) == /\ after[m] \in A /\ Distinct(after[m])
                     /\ \A e \in ToSet(after[m]) : \E j \in 1..m : e = s[j]
           h == [m \in 0..n |-> all(m)]
<1>8. all(0)
  <2>1. ToSet(<< >>) = {} /\ Distinct(<< >>)
    BY DEF ToSet, Distinct
  <2>2. start = << >>
    BY DEF start
  <2> QED BY <1>1, <1>7, <2>1, <2>2
<1>9. ASSUME NEW m \in 1..n, all(m - 1) PROVE all(m)
  <2> DEFINE c == after[m - 1]
             i == seq[m]
             d == Append(c, i)
  <2>1. /\ c \in Seq(S) /\ Distinct(c) /\ after[m] = op(c, i) /\ i \in S
        /\ \A e \in ToSet(c) : \E j \in 1..(m - 1) : e = s[j]
    BY <1>7, <1>9 DEF A, n, seq
  <2>2. \A j \in 1..(m - 1) : j \in 1..m /\ j \in DOMAIN s /\ j # m
    <3>1. n \in Nat /\ DOMAIN s = 1..n
      BY <1>1 DEF n, seq
    <3> QED BY <3>1
  <2>3. m \in DOMAIN s /\ i = s[m] /\ m \in 1..m
    BY DEF n, seq
  <2>4. after[m] \in A
    BY <1>2, <2>1 DEF A
  <2> HIDE DEF c, i
  <2>5. CASE i \in set
    <3>1. after[m] = d
      BY <2>1, <2>5 DEF op
    <3>2. i \notin ToSet(c)
      BY <2>1, <2>2, <2>3 DEF Distinct
    <3>3. /\ DOMAIN c = 1..Len(c) /\ DOMAIN d = 1..(Len(c) + 1) /\ d[Len(c) + 1] = i
          /\ \A j \in 1..Len(c) : d[j] = c[j]
          /\ \A j \in 1..(Len(c) + 1) : j \in 1..Len(c) \/ j = Len(c) + 1
      BY <2>1, AppendFields
    <3> HIDE DEF d
    <3>4. Distinct(d)
      <4>1. \A j \in 1..Len(c) : d[j] # i
        BY <3>2, <3>3 DEF ToSet
      <4>2. \A j, k \in 1..Len(c) : d[j] = d[k] => j = k
        BY <2>1, <3>3 DEF Distinct
      <4> QED BY <3>3, <4>1, <4>2 DEF Distinct
    <3>5. \A e \in ToSet(d) : e \in ToSet(c) \/ e = i
      BY <3>3 DEF ToSet
    <3> QED BY <2>1, <2>2, <2>3, <2>4, <3>1, <3>4, <3>5
  <2>6. CASE i \notin set
    <3>1. after[m] = c
      BY <2>1, <2>6 DEF op
    <3> QED BY <2>1, <2>2, <2>4, <3>1
  <2> QED BY <2>5, <2>6
<1>10. h[n] \in {TRUE}
  <2>1. Carries(h, {TRUE}, n)
    <3> HIDE DEF all
    <3>1. h[0] = all(0) /\ \A m \in 1..n : m - 1 \in 0..n /\ h[m] = all(m) /\ h[m - 1] = all(m - 1)
      BY <1>1
    <3>2. h[0] \in {TRUE}
      BY <1>8, <3>1
    <3>3. ASSUME NEW m \in 1..n, h[m - 1] \in {TRUE} PROVE h[m] \in {TRUE}
      <4>1. all(m - 1)
        BY <3>1, <3>3
      <4>2. all(m)
        BY <1>9, <4>1
      <4> QED BY <3>1, <4>2
    <3> HIDE DEF h
    <3> QED BY <3>2, <3>3 DEF Carries
  <2> HIDE DEF h
  <2> QED BY <1>1, <2>1, FoldKeeps
<1>11. all(n)
  <2> HIDE DEF all
  <2> QED BY <1>1, <1>10
<1>12. Only(s, set) = after[n]
  BY DEF Only, Fold, op, n, start, seq, after
<1> QED BY <1>11, <1>12

(* A block of a sound graph is the one that is found by its label.         *)
LEMMA BlockIs ==
  ASSUME NEW cfg, LabelsOnce(cfg.blocks), NEW b \in ToSet(cfg.blocks)
  PROVE  HasBlock(cfg.blocks, b.label) /\ Block(cfg, b.label) = b
<1>1. PICK k \in DOMAIN cfg.blocks : b = cfg.blocks[k]
  BY DEF ToSet
<1> QED BY <1>1, Found DEF Block

(* There are no more labels than blocks.                                   *)
LEMMA FewLabels ==
  ASSUME NEW S, NEW bs \in Seq(S)
  PROVE  IsFiniteSet(LabelSet(bs)) /\ Cardinality(LabelSet(bs)) \in Nat /\ Cardinality(LabelSet(bs)) <= Len(bs)
<1> DEFINE f == [k \in 1..Len(bs) |-> bs[k].label]
<1>1. Len(bs) \in Nat /\ DOMAIN bs = 1..Len(bs)
  OBVIOUS
<1>2. f \in Surjection(1..Len(bs), LabelSet(bs))
  BY <1>1 DEF Surjection, LabelSet
<1>3. IsFiniteSet(1..Len(bs)) /\ Cardinality(1..Len(bs)) = Len(bs)
  <2>1. Cardinality(1..Len(bs)) = IF 1 > Len(bs) THEN 0 ELSE Len(bs) - 1 + 1
    BY <1>1, FS_Interval, SMTT(30)
  <2>2. IsFiniteSet(1..Len(bs))
    BY <1>1, FS_Interval
  <2> QED BY <1>1, <2>1, <2>2
<1>4. IsFiniteSet(LabelSet(bs)) /\ Cardinality(LabelSet(bs)) <= Cardinality(1..Len(bs))
  BY <1>2, <1>3, FS_Surjection
<1> QED BY <1>3, <1>4, FS_CardinalityType
(* What is reached from the entry goes on only to what is reached: one more *)
(* block at least is reached with each step until none is.                 *)
LEMMA ReachedClosed ==
  ASSUME NEW N, NEW cfg \in Graphs(N), Sound(cfg)
  PROVE  /\ cfg.entry \in Reached(cfg, {}) /\ Reached(cfg, {}) \subseteq LabelSet(cfg.blocks)
         /\ \A b \in ToSet(cfg.blocks) : b.label \in Reached(cfg, {}) => ToSet(b.succs) \subseteq Reached(cfg, {})
<1> DEFINE seq == cfg.blocks
           first == {cfg.entry} \ {}
           start == [all |-> first, last |-> first]
           n == Len(seq)
           B == ToSet(cfg.blocks)
           L == LabelSet(cfg.blocks)
           A == [all : SUBSET L, last : SUBSET L]
           known(a) == {l \in a.last : HasBlock(cfg.blocks, l)}
           more(a) == (UNION {ToSet(Block(cfg, l).succs) : l \in known(a)}) \ ({} \cup a.all)
           op(a, b) == [all |-> a.all \cup more(a), last |-> more(a)]
           g == [p \in A \X (1..n) |-> op(p[1], seq[p[2]])]
           Is(f) == f = [m \in 0..n |-> IF m = 0 THEN start ELSE op(f[m - 1], seq[m])]
           after == CHOOSE f : Is(f)
<1>1. n \in Nat /\ start \in A
  <2>1. cfg.entry \in L
    BY DEF Sound, LabelSet, ToSet
  <2>2. n \in Nat
    BY GraphFields
  <2> QED BY <2>1, <2>2
<1>2. \A a \in A, m \in 1..n : op(a, seq[m]) \in A
  <2>0. \A l \in L : \E b \in B : b.label = l
    BY DEF LabelSet, ToSet
  <2>1. \A b \in B : ToSet(b.succs) \subseteq L /\ Block(cfg, b.label) = b
    <3>1. \A b \in B : Joins(B, b)
      BY DEF Sound
    <3>2. \A c \in B : c.label \in L
      BY DEF LabelSet, ToSet
    <3>3. \A b \in B : Block(cfg, b.label) = b
      BY BlockIs DEF Sound
    <3> HIDE DEF B, L
    <3> QED BY <3>1, <3>2, <3>3 DEF Joins
  <2>2. \A l \in L : ToSet(Block(cfg, l).succs) \subseteq L
    <3> HIDE DEF B, L
    <3> QED BY <2>0, <2>1
  <2> HIDE DEF B, L, seq
  <2> SUFFICES ASSUME NEW a \in A PROVE [all |-> a.all \cup more(a), last |-> more(a)] \in A
    OBVIOUS
  <2>3. a.all \subseteq L /\ a.last \subseteq L
    OBVIOUS
  <2>4. more(a) \subseteq L
    BY <2>2, <2>3
  <2> HIDE DEF more
  <2> QED BY <2>3, <2>4
<1> HIDE DEF op, A, n, start, seq
<1>3. g \in [A \X (1..n) -> A]
  BY <1>2
<1>4. PICK f : Folded(f, A, n, start, g)
  <2> HIDE DEF g
  <2> QED BY <1>1, <1>3, FoldExists
<1>5. Is(f)
  <2>1. ASSUME NEW m \in 1..n PROVE f[m] = op(f[m - 1], seq[m])
    <3>1. m - 1 \in 0..n /\ m \in 1..n
      BY <1>1
    <3>2. f[m - 1] \in A /\ f[m] = g[<<f[m - 1], m>>]
      <4> HIDE DEF g
      <4> QED BY <1>4, <3>1 DEF Folded
    <3> QED BY <3>1, <3>2
  <2> HIDE DEF g
  <2> QED BY <1>1, <1>4, <2>1 DEF Folded
<1>6. Is(after)
  <2> HIDE DEF Is
  <2> QED BY <1>5
<1>7. after[0] = start /\ \A m \in 1..n : after[m] = op(after[m - 1], seq[m])
  <2> HIDE DEF after
  <2>1. \A m \in 1..n : m \in 0..n /\ m # 0
    BY <1>1
  <2> QED BY <1>1, <1>6, <2>1
<1> HIDE DEF after
<1> DEFINE all(m) == /\ after[m] \in A /\ cfg.entry \in after[m].all /\ after[m].last \subseteq after[m].all
                     /\ \A b \in B : b.label \in after[m].all \ after[m].last => ToSet(b.succs) \subseteq after[m].all
                     /\ after[m].last = {} \/ Cardinality(after[m].all) >= m + 1
           h == [m \in 0..n |-> all(m)]
<1>8. all(0)
  <2>1. first = {cfg.entry} /\ Cardinality(first) = 1
    <3>1. first = {cfg.entry}
      OBVIOUS
    <3> QED BY <3>1, FS_Singleton
  <2>2. start.all = first /\ start.last = first /\ start \in A
    BY <1>1 DEF start
  <2>3. \A b \in B : b.label \notin first \ first
    OBVIOUS
  <2>4. Cardinality(first) >= 0 + 1
    BY <2>1
  <2> HIDE DEF first
  <2> QED BY <1>7, <2>1, <2>2, <2>3, <2>4
<1>9. ASSUME NEW m \in 1..n, all(m - 1) PROVE all(m)
  <2> DEFINE a == after[m - 1]
             M == more(a)
  <2>1. /\ a \in A /\ cfg.entry \in a.all /\ a.last \subseteq a.all /\ after[m] = op(a, seq[m])
        /\ \A b \in B : b.label \in a.all \ a.last => ToSet(b.succs) \subseteq a.all
        /\ a.last = {} \/ Cardinality(a.all) >= m
    <3>1. m - 1 + 1 = m
      BY <1>1
    <3> QED BY <1>7, <1>9, <3>1
  <2>2. after[m] \in A
    BY <1>2, <2>1
  <2> HIDE DEF a
  <2>3. after[m].all = a.all \cup M /\ after[m].last = M /\ M \cap a.all = {}
    BY <2>1 DEF op
  <2>4. ASSUME NEW b \in B, b.label \in a.all PROVE ToSet(b.succs) \subseteq a.all \cup M
    <3>1. CASE b.label \in a.last
      <4>1. HasBlock(cfg.blocks, b.label) /\ Block(cfg, b.label) = b
        BY BlockIs DEF Sound, B
      <4>2. b.label \in known(a)
        BY <3>1, <4>1
      <4> HIDE DEF known
      <4>3. ToSet(b.succs) \subseteq UNION {ToSet(Block(cfg, l).succs) : l \in known(a)}
        BY <4>1, <4>2
      <4> QED BY <4>3
    <3>2. CASE b.label \notin a.last
      BY <2>1, <2>4, <3>2
    <3> QED BY <3>1, <3>2
  <2>5. M # {} => a.last # {}
    OBVIOUS
  <2> HIDE DEF M, more, known
  <2>6. M # {} => Cardinality(a.all \cup M) >= m + 1
    <3> SUFFICES ASSUME M # {} PROVE Cardinality(a.all \cup M) >= m + 1
      OBVIOUS
    <3> DEFINE T == a.all
               U == a.all \cup M
    <3>1. U \subseteq L
      BY <2>2, <2>3 DEF A
    <3>2. IsFiniteSet(L)
      BY FewLabels, GraphFields DEF L
    <3>3. IsFiniteSet(U)
      BY <3>1, <3>2, FS_Subset
    <3>4. T \in SUBSET U /\ T # U
      BY <2>3
    <3>5. Cardinality(T) >= m
      BY <2>1, <2>5
    <3> HIDE DEF T, U
    <3>6. Cardinality(T) <= Cardinality(U) /\ Cardinality(T) # Cardinality(U) /\ IsFiniteSet(T)
      BY <3>3, <3>4, FS_Subset
    <3>7. Cardinality(T) \in Nat /\ Cardinality(U) \in Nat
      BY <3>3, <3>6, FS_CardinalityType
    <3>8. m \in Nat
      BY <1>1
    <3>9. Cardinality(U) >= m + 1
      BY <3>5, <3>6, <3>7, <3>8
    <3> QED BY <3>9 DEF U
  <2>7. (a.all \cup M) \ M = a.all
    BY <2>3
  <2> QED BY <2>1, <2>2, <2>3, <2>4, <2>6, <2>7
<1>10. h[n] \in {TRUE}
  <2>1. Carries(h, {TRUE}, n)
    <3> HIDE DEF all
    <3>1. h[0] = all(0) /\ \A m \in 1..n : m - 1 \in 0..n /\ h[m] = all(m) /\ h[m - 1] = all(m - 1)
      BY <1>1
    <3>2. h[0] \in {TRUE}
      BY <1>8, <3>1
    <3>3. ASSUME NEW m \in 1..n, h[m - 1] \in {TRUE} PROVE h[m] \in {TRUE}
      <4>1. all(m - 1)
        BY <3>1, <3>3
      <4>2. all(m)
        BY <1>9, <4>1
      <4> QED BY <3>1, <4>2
    <3> HIDE DEF h
    <3> QED BY <3>2, <3>3 DEF Carries
  <2> HIDE DEF h
  <2> QED BY <1>1, <2>1, FoldKeeps
<1>11. all(n)
  <2> HIDE DEF all
  <2> QED BY <1>1, <1>10
<1>12. Reached(cfg, {}) = after[n].all
  BY DEF Reached, Fold, op, more, known, n, start, seq, after
<1>13. after[n].last = {}
  <2> DEFINE all0 == after[n].all
  <2>1. Cardinality(L) \in Nat /\ Cardinality(L) <= n /\ IsFiniteSet(L)
    BY FewLabels, GraphFields DEF L, n, seq
  <2>2. all0 \in SUBSET L
    BY <1>11 DEF A
  <2> HIDE DEF all0, L
  <2>3. Cardinality(all0) <= Cardinality(L) /\ Cardinality(all0) \in Nat
    BY <2>1, <2>2, FS_Subset, FS_CardinalityType
  <2>4. ~ (Cardinality(all0) >= n + 1)
    BY <1>1, <2>1, <2>3
  <2> QED BY <1>11, <2>4 DEF all0
<1> QED BY <1>11, <1>12, <1>13 DEF A, B, L

(* Removing blocks that are not reached does.                              *)
LEMMA RemoveUnreachableSound ==
  ASSUME NEW n, NEW cfg \in Graphs(n), Sound(cfg)
  PROVE  Sound(RemoveUnreachable(cfg))
<1> DEFINE reached == Reached(cfg, {})
           bs == cfg.blocks
           B == ToSet(bs)
           set == {b \in B : b.label \in reached}
           left == Only(bs, set)
           map == [k \in DOMAIN left |-> [left[k] EXCEPT !.preds = Only(@, reached)]]
           ns == << >> \o map
<1>1. RemoveUnreachable(cfg) = [cfg EXCEPT !.blocks = ns]
  BY DEF RemoveUnreachable, Map
<1>2. bs \in Seq(Blocks(n)) /\ \A b \in B : b \in Blocks(n)
  BY GraphFields DEF ToSet
<1>3. /\ cfg.entry \in reached
      /\ \A b \in B : b.label \in reached => ToSet(b.succs) \subseteq reached
  BY ReachedClosed
<1>4. [cfg EXCEPT !.blocks = ns].blocks = ns /\ [cfg EXCEPT !.blocks = ns].entry = cfg.entry
  <2>1. cfg = [entry |-> cfg.entry, blocks |-> cfg.blocks]
    BY DEF Graphs
  <2> HIDE DEF ns
  <2> QED BY <2>1
<1> HIDE DEF reached
<1>5. left \in Seq(Blocks(n)) /\ ToSet(left) = set /\ LabelsOnce(left)
  <2>1. left \in Seq(Blocks(n) \cap set)
    <3> HIDE DEF set, bs
    <3> QED BY <1>2, OnlyType
  <2>2. left \in Seq(Blocks(n))
    <3> HIDE DEF left, set
    <3> QED BY <2>1
  <2>3. ToSet(left) = B \cap set
    <3> HIDE DEF set, bs
    <3> QED BY <1>2, OnlyOf DEF B
  <2>4. LabelsOnce(bs)
    BY DEF Sound
  <2>5. Distinct(left)
    <3> HIDE DEF set, bs
    <3> QED BY <1>2, <2>4, OnceIs, OnlyDistinct
  <2>6. \A b, c \in B : b.label = c.label => b = c
    <3> HIDE DEF bs
    <3> QED BY <2>4, OnceIs DEF B
  <2>7. ToSet(left) = set
    <3> HIDE DEF left
    <3> QED BY <2>3
  <2> HIDE DEF left, B
  <2> QED BY <2>2, <2>3, <2>5, <2>6, <2>7, OnceIs
<1> HIDE DEF left
<1>6. ASSUME NEW b \in Blocks(n)
      PROVE  LET d == [b EXCEPT !.preds = Only(@, reached)] IN
             /\ d \in Blocks(n) /\ d.label = b.label /\ d.code = b.code /\ d.succs = b.succs
             /\ d.preds = Only(b.preds, reached) /\ ToSet(d.preds) = ToSet(b.preds) \cap reached
  <2>1. b.preds \in Seq(Int)
    BY BlockFields
  <2>2. Only(b.preds, reached) \in Seq(Int)
    <3>1. Only(b.preds, reached) \in Seq(Int \cap reached)
      BY <2>1, OnlyType
    <3> QED BY <3>1
  <2>3. b = [label |-> b.label, code |-> b.code, succs |-> b.succs, preds |-> b.preds]
    BY DEF Blocks
  <2>4. ToSet(Only(b.preds, reached)) = ToSet(b.preds) \cap reached
    BY <2>1, OnlyOf
  <2> QED BY <2>2, <2>3, <2>4, BlockFields
<1>7. map \in [DOMAIN left -> Blocks(n)]
  <2>1. \A k \in DOMAIN left : left[k] \in Blocks(n)
    BY <1>5
  <2> QED BY <1>6, <2>1
<1>8. /\ \A k \in DOMAIN left : /\ map[k].label = left[k].label /\ map[k].code = left[k].code
                                /\ map[k].succs = left[k].succs
                                /\ ToSet(map[k].preds) = ToSet(left[k].preds) \cap reached
  <2>1. \A k \in DOMAIN left : left[k] \in Blocks(n)
    BY <1>5
  <2> QED BY <1>6, <2>1
<1> HIDE DEF map
<1>9. DOMAIN ns = DOMAIN left /\ \A k \in DOMAIN left : ns[k] = map[k]
  BY <1>5, <1>7, MappedAre
<1> HIDE DEF ns
<1>10. /\ \A b \in ToSet(ns) : \E c \in set : /\ b.label = c.label /\ b.code = c.code /\ b.succs = c.succs
                                             /\ ToSet(b.preds) = ToSet(c.preds) \cap reached
       /\ \A c \in set : \E b \in ToSet(ns) : /\ b.label = c.label /\ b.code = c.code /\ b.succs = c.succs
                                             /\ ToSet(b.preds) = ToSet(c.preds) \cap reached
  <2>1. set = {left[k] : k \in DOMAIN left} /\ ToSet(ns) = {map[k] : k \in DOMAIN left}
    BY <1>5, <1>9 DEF ToSet
  <2> HIDE DEF set
  <2> QED BY <1>8, <2>1
<1>11. LabelsOnce(ns)
  <2>1. \A k \in DOMAIN left : ns[k].label = left[k].label
    BY <1>8, <1>9
  <2> QED BY <1>5, <1>9, <2>1, SameLabels
<1>12. \E b \in ToSet(ns) : b.label = cfg.entry
  <2>1. PICK c \in B : c.label = cfg.entry
    BY DEF Sound
  <2>2. c \in set
    BY <1>3, <2>1
  <2> HIDE DEF set
  <2> QED BY <1>10, <2>1, <2>2
<1>13. ASSUME NEW b \in ToSet(ns) PROVE Joins(ToSet(ns), b) /\ Tidy(b)
  <2>1. PICK c \in set : /\ b.label = c.label /\ b.code = c.code /\ b.succs = c.succs
                         /\ ToSet(b.preds) = ToSet(c.preds) \cap reached
    BY <1>10
  <2>2. c \in B /\ c.label \in reached /\ Joins(B, c) /\ Tidy(c)
    BY DEF Sound
  <2>3. Tidy(b)
    BY <2>1, <2>2 DEF Tidy
  <2>4. ASSUME NEW l \in ToSet(b.succs) PROVE \E d \in ToSet(ns) : d.label = l /\ b.label \in ToSet(d.preds)
    <3>1. PICK e \in B : e.label = l /\ c.label \in ToSet(e.preds)
      BY <2>1, <2>2, <2>4 DEF Joins
    <3>2. l \in reached
      BY <1>3, <2>1, <2>2, <2>4
    <3>3. e \in set
      BY <3>1, <3>2
    <3> HIDE DEF set, B
    <3> QED BY <1>10, <2>1, <2>2, <3>1, <3>3
  <2>5. ASSUME NEW l \in ToSet(b.preds) PROVE \E d \in ToSet(ns) : d.label = l /\ b.label \in ToSet(d.succs)
    <3>1. l \in reached /\ l \in ToSet(c.preds)
      BY <2>1, <2>5
    <3>2. PICK e \in B : e.label = l /\ c.label \in ToSet(e.succs)
      BY <2>2, <3>1 DEF Joins
    <3>3. e \in set
      BY <3>1, <3>2
    <3> HIDE DEF set, B
    <3> QED BY <1>10, <2>1, <3>2, <3>3
  <2> QED BY <2>3, <2>4, <2>5 DEF Joins
<1> QED BY <1>1, <1>4, <1>11, <1>12, <1>13 DEF Sound

(* A graph with such blocks.                                               *)
LEMMA SoundFrom ==
  ASSUME NEW n, NEW cfg \in Graphs(n), NEW ns, LabelsOnce(ns),
         \E b \in ToSet(ns) : b.label = cfg.entry,
         \A b \in ToSet(ns) : Joins(ToSet(ns), b) /\ Tidy(b)
  PROVE  Sound([cfg EXCEPT !.blocks = ns])
<1>1. [cfg EXCEPT !.blocks = ns].blocks = ns /\ [cfg EXCEPT !.blocks = ns].entry = cfg.entry
  <2>1. cfg = [entry |-> cfg.entry, blocks |-> cfg.blocks]
    BY DEF Graphs
  <2> QED BY <2>1
<1> QED BY <1>1 DEF Sound

(* A label, led elsewhere.                                                 *)
Led(l, from, to) == IF l = from THEN to ELSE l

(* Retargeted code has the same kinds of instructions in the same places.  *)
LEMMA Retargeted ==
  ASSUME NEW n \in Nat, NEW code \in Seq(Unlabelled(n)), NEW from, NEW to \in Int
  PROVE  /\ DOMAIN Retarget(code, from, to) = DOMAIN code
         /\ Len(Retarget(code, from, to)) = Len(code)
         /\ \A k \in DOMAIN code :
              /\ Retarget(code, from, to)[k].op = code[k].op
              /\ code[k].op \in {"jump", "test"} =>
                   Retarget(code, from, to)[k].to = Led(code[k].to, from, to)
<1> DEFINE new == [k \in DOMAIN code |->
                     IF code[k].op \in {"jump", "test"} /\ code[k].to = from
                     THEN [code[k] EXCEPT !.to = to] ELSE code[k]]
<1>1. \A k \in DOMAIN code : [code[k] EXCEPT !.to = to] \in Unlabelled(n) /\ code[k] \in Unlabelled(n)
  <2>1. \A k \in DOMAIN code : code[k] \in Unlabelled(n)
    OBVIOUS
  <2> QED BY <2>1, NewUnlabelled
<1>2. new \in [DOMAIN code -> Unlabelled(n)]
  BY <1>1
<1>3. ASSUME NEW k \in DOMAIN code
      PROVE  /\ new[k].op = code[k].op
             /\ code[k].op \in {"jump", "test"} => new[k].to = Led(code[k].to, from, to)
  <2>1. code[k] = [op |-> code[k].op, dst |-> code[k].dst, srcs |-> code[k].srcs,
                   val |-> code[k].val, to |-> code[k].to]
    BY <1>1 DEF Unlabelled, Instructions
  <2>2. [code[k] EXCEPT !.to = to].op = code[k].op /\ [code[k] EXCEPT !.to = to].to = to
    BY <2>1
  <2> QED BY <2>2 DEF Led
<1>4. Retarget(code, from, to) = << >> \o new
  BY DEF Retarget, Map
<1> HIDE DEF new
<1>5. /\ DOMAIN (<< >> \o new) = DOMAIN code /\ Len(<< >> \o new) = Len(code)
      /\ \A k \in DOMAIN code : (<< >> \o new)[k] = new[k]
  BY <1>2, MappedAre
<1> QED BY <1>3, <1>4, <1>5

(* Where it leads.                                                         *)
LEMMA RetargetLeads ==
  ASSUME NEW n \in Nat, NEW code \in Seq(Unlabelled(n)), NEW from, NEW to \in Int
  PROVE  /\ TargetsIn(Retarget(code, from, to)) = {Led(t, from, to) : t \in TargetsIn(code)}
         /\ \A e \in EndOf(Retarget(code, from, to)) : \E f \in EndOf(code) :
              e.op = f.op /\ (f.op = "jump" => e.to = Led(f.to, from, to))
         /\ EndsOnce(code) => EndsOnce(Retarget(code, from, to))
<1> DEFINE d == Retarget(code, from, to)
<1>1. /\ DOMAIN d = DOMAIN code /\ Len(d) = Len(code)
      /\ \A k \in DOMAIN code : /\ d[k].op = code[k].op
                                /\ code[k].op \in {"jump", "test"} => d[k].to = Led(code[k].to, from, to)
  BY Retargeted
<1>2. DOMAIN code = 1..Len(code) /\ Len(code) \in Nat
  OBVIOUS
<1> HIDE DEF d
<1>3. TargetsIn(d) = {Led(t, from, to) : t \in TargetsIn(code)}
  <2>1. \A k \in DOMAIN code : d[k].op \in {"jump", "test"} <=> code[k].op \in {"jump", "test"}
    BY <1>1
  <2>2. TargetsIn(d) \subseteq {Led(t, from, to) : t \in TargetsIn(code)}
    <3> SUFFICES ASSUME NEW k \in DOMAIN code, d[k].op \in {"jump", "test"}
                 PROVE  d[k].to \in {Led(t, from, to) : t \in TargetsIn(code)}
      BY <1>1 DEF TargetsIn, ToSet
    <3>1. code[k].to \in TargetsIn(code)
      BY <2>1 DEF TargetsIn, ToSet
    <3>2. d[k].to = Led(code[k].to, from, to)
      BY <1>1, <2>1
    <3> QED BY <3>1, <3>2
  <2>3. ASSUME NEW t \in TargetsIn(code) PROVE Led(t, from, to) \in TargetsIn(d)
    <3>1. PICK k \in DOMAIN code : code[k].op \in {"jump", "test"} /\ code[k].to = t
      BY DEF TargetsIn, ToSet
    <3>2. d[k] \in ToSet(d) /\ d[k].op \in {"jump", "test"} /\ d[k].to = Led(t, from, to)
      BY <1>1, <3>1 DEF ToSet
    <3> QED BY <3>2 DEF TargetsIn
  <2> QED BY <2>2, <2>3
<1>4. ASSUME NEW e \in EndOf(d)
      PROVE  \E f \in EndOf(code) : e.op = f.op /\ (f.op = "jump" => e.to = Led(f.to, from, to))
  <2>1. PICK k \in DOMAIN d : LastTerminator(d, k) /\ e = Jumped(d[k])
    BY DEF EndOf
  <2>2. \A m \in (k + 1)..Len(code) : m \in DOMAIN code
    BY <1>1, <1>2
  <2>3. LastTerminator(code, k)
    BY <1>1, <2>1, <2>2 DEF LastTerminator, IsTerminator
  <2>4. Jumped(code[k]) \in EndOf(code)
    BY <1>1, <2>3 DEF EndOf
  <2>5. /\ e.op = Jumped(code[k]).op
        /\ Jumped(code[k]).op = "jump" => e.to = Led(Jumped(code[k]).to, from, to)
    BY <1>1, <2>1 DEF Jumped
  <2> QED BY <2>4, <2>5
<1>5. EndsOnce(code) => EndsOnce(d)
  BY <1>1 DEF EndsOnce, Leaves
<1> QED BY <1>3, <1>4, <1>5 DEF d

(* Edges led elsewhere.                                                    *)
LEMMA RenamedAre ==
  ASSUME NEW labels \in Seq(Int), NEW from, NEW to \in Int
  PROVE  ToSet(Renamed(labels, from, to)) = {Led(l, from, to) : l \in ToSet(labels)}
<1> DEFINE new == [k \in DOMAIN labels |-> IF labels[k] = from THEN to ELSE labels[k]]
<1>1. new \in [DOMAIN labels -> Int]
  OBVIOUS
<1>2. Renamed(labels, from, to) = << >> \o new
  BY DEF Renamed, Map
<1>3. \A k \in DOMAIN labels : new[k] = Led(labels[k], from, to)
  BY DEF Led
<1> HIDE DEF new
<1>4. /\ DOMAIN (<< >> \o new) = DOMAIN labels
      /\ \A k \in DOMAIN labels : (<< >> \o new)[k] = new[k]
  BY <1>1, MappedAre
<1> QED BY <1>2, <1>3, <1>4 DEF ToSet

(* Code behind code that does not leave the block.                         *)
LEMMA JoinedCode ==
  ASSUME NEW S, NEW c \in Seq(S), NEW d \in Seq(S), Bare(c)
  PROVE  /\ EndsOnce(d) => EndsOnce(c \o d)
         /\ \A e \in EndOf(c \o d) : e \in EndOf(d) \/ e.op \notin {"return", "jump"}
<1> DEFINE j == c \o d
           C == Len(c)
           D == Len(d)
<1>1. /\ C \in Nat /\ D \in Nat /\ DOMAIN c = 1..C /\ DOMAIN d = 1..D /\ DOMAIN j = 1..(C + D)
      /\ Len(j) = C + D
      /\ \A k \in 1..(C + D) : j[k] = IF k <= C THEN c[k] ELSE d[k - C]
  OBVIOUS
<1> HIDE DEF j, C, D
<1>2. ASSUME NEW k \in 1..(C + D) PROVE (k \in 1..C /\ j[k] = c[k]) \/ (k - C \in 1..D /\ j[k] = d[k - C])
  <2>1. CASE k <= C
    BY <1>1, <2>1
  <2>2. CASE ~ (k <= C)
    BY <1>1, <2>2
  <2> QED BY <2>1, <2>2
<1>3. \A k \in 1..C : ~ Leaves(c[k])
  BY <1>1 DEF Bare
<1>4. ASSUME EndsOnce(d) PROVE EndsOnce(j)
  <2> SUFFICES ASSUME NEW k \in 1..(C + D), Leaves(j[k]) PROVE k = C + D
    BY <1>1 DEF EndsOnce
  <2>1. k - C \in 1..D /\ j[k] = d[k - C]
    BY <1>2, <1>3
  <2>2. k - C = D
    BY <1>1, <1>4, <2>1 DEF EndsOnce, D
  <2> QED BY <1>1, <2>2
<1>5. ASSUME NEW e \in EndOf(j) PROVE e \in EndOf(d) \/ e.op \notin {"return", "jump"}
  <2>1. PICK k \in 1..(C + D) : LastTerminator(j, k) /\ e = Jumped(j[k])
    BY <1>1 DEF EndOf
  <2>2. e.op = j[k].op
    BY <2>1 DEF Jumped
  <2>3. CASE k \in 1..C /\ j[k] = c[k]
    BY <1>3, <2>2, <2>3 DEF Leaves
  <2>4. CASE k - C \in 1..D /\ j[k] = d[k - C]
    <3>1. \A m \in (k - C + 1)..D : m + C \in (k + 1)..(C + D) /\ ~ (m + C <= C) /\ m + C - C = m /\ m + C \in 1..(C + D)
      BY <1>1, <2>4
    <3>2. ASSUME NEW m \in (k - C + 1)..D PROVE j[m + C] = d[m]
      <4>1. m + C \in 1..(C + D) /\ ~ (m + C <= C) /\ m + C - C = m
        BY <3>1
      <4>2. j[m + C] = IF m + C <= C THEN c[m + C] ELSE d[m + C - C]
        BY <1>1, <4>1
      <4> QED BY <4>1, <4>2
    <3>3. IsTerminator(d[k - C]) /\ \A m \in (k + 1)..(C + D) : ~ IsTerminator(j[m])
      BY <1>1, <2>1, <2>4 DEF LastTerminator
    <3>4. \A m \in (k - C + 1)..D : ~ IsTerminator(d[m])
      BY <3>1, <3>2, <3>3
    <3>5. LastTerminator(d, k - C)
      BY <3>3, <3>4 DEF LastTerminator, D
    <3> QED BY <1>1, <2>1, <2>4, <3>5 DEF EndOf
  <2> QED BY <1>2, <2>3, <2>4
<1> QED BY <1>4, <1>5 DEF j

(* Code without its last instruction.                                      *)
LEMMA FrontCode ==
  ASSUME NEW S, NEW c \in Seq(S), c # << >>, EndsOnce(c)
  PROVE  Front(c) \in Seq(S) /\ Bare(Front(c)) /\ TargetsIn(Front(c)) \subseteq TargetsIn(c)
<1> DEFINE d == Front(c)
           C == Len(c)
<1>1. /\ C \in Nat /\ DOMAIN c = 1..C /\ C # 0
  OBVIOUS
<1>2. d = SubSeq(c, 1, C - 1)
  BY DEF Front
<1>3. d \in Seq(S) /\ DOMAIN d = 1..(C - 1) /\ \A k \in 1..(C - 1) : d[k] = c[k]
  BY <1>1, <1>2
<1> HIDE DEF d, C
<1>4. \A k \in 1..(C - 1) : k \in 1..C /\ k # C
  BY <1>1
<1>5. Bare(d)
  BY <1>1, <1>3, <1>4 DEF Bare, EndsOnce, C
<1>6. ToSet(d) \subseteq ToSet(c)
  BY <1>1, <1>3, <1>4 DEF ToSet
<1>7. TargetsIn(d) \subseteq TargetsIn(c)
  BY <1>6 DEF TargetsIn
<1> QED BY <1>3, <1>5, <1>7 DEF d

(* A jump is known by its target.                                          *)
LEMMA JumpIs ==
  ASSUME NEW n, NEW i \in Unlabelled(n), i.op = "jump"
  PROVE  i = Jump(i.to)
<1>1. i \in Instructions(n)
  BY DEF Unlabelled
<1>2. /\ i = [op |-> i.op, dst |-> i.dst, srcs |-> i.srcs, val |-> i.val, to |-> i.to]
      /\ i.srcs \in Seq(1..n) /\ Len(i.srcs) = 0 /\ i.val = None /\ i.dst = None
  BY <1>1 DEF Instructions, Assigning, Operators
<1>3. i.srcs = << >>
  BY <1>2
<1> QED BY <1>2, <1>3 DEF Jump, Inst

(* Blocks without one of them.                                             *)
LEMMA RemoveAtAre ==
  ASSUME NEW S, NEW q \in Seq(S), NEW i \in DOMAIN q, LabelsOnce(q)
  PROVE  LabelsOnce(RemoveAt(q, i)) /\ ToSet(RemoveAt(q, i)) = ToSet(q) \ {q[i]}
<1> DEFINE r == RemoveAt(q, i)
           C == Len(q)
<1>1. C \in Nat /\ DOMAIN q = 1..C /\ i \in 1..C
  OBVIOUS
<1>2. /\ DOMAIN r = 1..(C - 1)
      /\ \A k \in 1..(C - 1) : r[k] = IF k <= i - 1 THEN q[k] ELSE q[k + 1]
  <2>1. r = SubSeq(q, 1, i - 1) \o SubSeq(q, i + 1, C)
    BY DEF RemoveAt
  <2> DEFINE x == SubSeq(q, 1, i - 1)
             y == SubSeq(q, i + 1, C)
  <2>2. x \in Seq(S) /\ Len(x) = i - 1 /\ \A k \in 1..(i - 1) : x[k] = q[k]
    BY <1>1
  <2>3. y \in Seq(S) /\ Len(y) = C - i /\ \A k \in 1..(C - i) : y[k] = q[k + i]
    BY <1>1
  <2> HIDE DEF x, y, C
  <2>6. /\ Len(x \o y) = Len(x) + Len(y) /\ DOMAIN (x \o y) = 1..(Len(x) + Len(y))
        /\ \A k \in 1..(Len(x) + Len(y)) : (x \o y)[k] = IF k <= Len(x) THEN x[k] ELSE y[k - Len(x)]
    <3>1. x \in Seq(S) /\ y \in Seq(S)
      BY <2>2, <2>3
    <3> QED BY ONLY <3>1
  <2>7. Len(x) + Len(y) = C - 1
    <3>1. Len(x) = i - 1 /\ Len(y) = C - i /\ C \in Nat /\ i \in 1..C
      BY <1>1, <2>2, <2>3
    <3> QED BY ONLY <3>1
  <2>4. Len(x \o y) = C - 1 /\ DOMAIN (x \o y) = 1..(C - 1)
    BY <2>6, <2>7
  <2>5. ASSUME NEW k \in 1..(C - 1) PROVE (x \o y)[k] = IF k <= i - 1 THEN q[k] ELSE q[k + 1]
    <3>1. (x \o y)[k] = IF k <= Len(x) THEN x[k] ELSE y[k - Len(x)]
      BY <2>6, <2>7
    <3>2. CASE k <= i - 1
      <4>1. k \in 1..(i - 1)
        BY <1>1, <3>2
      <4> QED BY <2>2, <3>1, <3>2, <4>1
    <3>3. CASE ~ (k <= i - 1)
      <4>1. k - (i - 1) \in 1..(C - i) /\ k - (i - 1) + i = k + 1
        BY <1>1, <3>3
      <4> QED BY <2>2, <2>3, <3>1, <3>3, <4>1
    <3> QED BY <3>2, <3>3
  <2> QED BY <2>1, <2>4, <2>5 DEF x, y
<1> HIDE DEF r, C
<1> DEFINE from(k) == IF k <= i - 1 THEN k ELSE k + 1
<1>3. ASSUME NEW k \in 1..(C - 1) PROVE from(k) \in 1..C /\ from(k) # i /\ r[k] = q[from(k)]
  BY <1>1, <1>2
<1>4. \A j, k \in 1..(C - 1) : from(j) = from(k) => j = k
  BY <1>1
<1>5. \A j \in 1..C : j # i => \E k \in 1..(C - 1) : from(k) = j
  <2> SUFFICES ASSUME NEW j \in 1..C, j # i PROVE \E k \in 1..(C - 1) : from(k) = j
    OBVIOUS
  <2>1. CASE j < i
    <3>1. j \in 1..(C - 1) /\ from(j) = j
      BY <1>1, <2>1
    <3> QED BY <3>1
  <2>2. CASE ~ (j < i)
    <3>1. j - 1 \in 1..(C - 1) /\ ~ (j - 1 <= i - 1) /\ j - 1 + 1 = j
      BY <1>1, <2>2
    <3> QED BY <3>1
  <2> QED BY <2>1, <2>2
<1> HIDE DEF from
<1>6. LabelsOnce(r)
  BY <1>1, <1>2, <1>3, <1>4 DEF LabelsOnce
<1>7. \A j \in 1..C : q[j] = q[i] => j = i
  BY <1>1 DEF LabelsOnce
<1>8. ToSet(r) \subseteq ToSet(q) \ {q[i]}
  BY <1>1, <1>2, <1>3, <1>7 DEF ToSet
<1>9. ToSet(q) \ {q[i]} \subseteq ToSet(r)
  <2> SUFFICES ASSUME NEW j \in 1..C, j # i PROVE q[j] \in ToSet(r)
    BY <1>1 DEF ToSet
  <2>1. PICK k \in 1..(C - 1) : from(k) = j
    BY <1>5
  <2> QED BY <1>2, <1>3, <2>1 DEF ToSet
<1> QED BY <1>6, <1>8, <1>9 DEF r

(* Edges, when a block takes over those of the only one that follows it.   *)
LEMMA MergedJoins ==
  ASSUME NEW B, \A x, y \in B : x.label = y.label => x = y, \A x \in B : Joins(B, x),
         NEW a \in B, NEW b \in B, a # b, ToSet(a.succs) = {b.label}, ToSet(b.preds) = {a.label},
         NEW j, NEW M, M = {j[x] : x \in B \ {b}},
         \A x \in B \ {b} :
           /\ j[x].label = x.label
           /\ ToSet(j[x].succs) = IF x = a THEN ToSet(b.succs) ELSE ToSet(x.succs)
           /\ ToSet(j[x].preds) = IF x.label \in ToSet(b.succs)
                                  THEN {Led(p, b.label, a.label) : p \in ToSet(x.preds)}
                                  ELSE ToSet(x.preds),
         NEW x \in B \ {b}
  PROVE  Joins(M, j[x])
<1>1. b.label # a.label
  OBVIOUS
<1>7. ASSUME NEW y \in B \ {b}, y.label \in ToSet(b.succs), NEW p \in ToSet(y.preds)
      PROVE  Led(p, b.label, a.label) \in ToSet(j[y].preds)
  <2>1. ToSet(j[y].preds) = {Led(q, b.label, a.label) : q \in ToSet(y.preds)}
    BY <1>7
  <2> QED BY <1>7, <2>1
<1>8. ASSUME NEW y \in B \ {b}, y.label \notin ToSet(b.succs)
      PROVE  ToSet(j[y].preds) = ToSet(y.preds)
  BY <1>8
<1>9. ASSUME NEW y \in B \ {b}, NEW p \in ToSet(y.preds), Led(p, b.label, a.label) = p
      PROVE  p \in ToSet(j[y].preds)
  <2>1. CASE y.label \in ToSet(b.succs)
    BY <1>7, <1>9, <2>1
  <2>2. CASE y.label \notin ToSet(b.succs)
    BY <1>8, <1>9, <2>2
  <2> QED BY <2>1, <2>2
<1>10. ASSUME NEW y \in B \ {b}
       PROVE  j[y] \in M /\ j[y].label = y.label
  BY <1>10
<1>11. ASSUME NEW y \in B \ {b}, y.label = b.label PROVE FALSE
  BY <1>11
<1>12. ToSet(j[a].succs) = ToSet(b.succs)
  OBVIOUS
<1>13. ASSUME NEW y \in B \ {b}, y # a PROVE ToSet(j[y].succs) = ToSet(y.succs)
  BY <1>13
<1>2. b.label \notin ToSet(b.succs)
  BY <1>1 DEF Joins
<1>3. \A y \in B : b.label \in ToSet(y.succs) => y = a
  BY DEF Joins
<1>4. ASSUME NEW y \in B \ {b}, NEW l \in ToSet(y.preds)
      PROVE  l # b.label => \E c \in B \ {b} : c # a /\ c.label = l /\ y.label \in ToSet(c.succs)
  <2> SUFFICES ASSUME l # b.label PROVE \E c \in B \ {b} : c # a /\ c.label = l /\ y.label \in ToSet(c.succs)
    OBVIOUS
  <2>1. PICK c \in B : c.label = l /\ y.label \in ToSet(c.succs)
    BY <1>4 DEF Joins
  <2>2. c # a
    BY <2>1
  <2> QED BY <2>1, <2>2
<1>5. ASSUME NEW l \in ToSet(j[x].succs) PROVE \E c \in M : c.label = l /\ j[x].label \in ToSet(c.preds)
  <2>1. CASE x = a
    <3>1. l \in ToSet(b.succs)
      BY <1>5, <2>1
    <3>2. PICK c \in B : c.label = l /\ b.label \in ToSet(c.preds)
      BY <3>1 DEF Joins
    <3>3. c \in B \ {b}
      BY <1>2, <3>1, <3>2
    <3>4. Led(b.label, b.label, a.label) = a.label
      BY DEF Led
    <3>5. a.label \in ToSet(j[c].preds)
      BY <1>7, <3>1, <3>2, <3>3, <3>4
    <3>6. j[c] \in M /\ j[c].label = l
      BY <1>10, <3>2, <3>3
    <3>7. j[x].label = a.label
      BY <1>10, <2>1
    <3> QED BY <3>5, <3>6, <3>7
  <2>2. CASE x # a
    <3>1. l \in ToSet(x.succs)
      BY <1>5, <1>13, <2>2
    <3>2. PICK c \in B : c.label = l /\ x.label \in ToSet(c.preds)
      BY <3>1 DEF Joins
    <3>3. c \in B \ {b}
      BY <1>3, <2>2, <3>1, <3>2
    <3>4. Led(x.label, b.label, a.label) = x.label
      BY <1>11 DEF Led
    <3>5. x.label \in ToSet(j[c].preds)
      BY <1>9, <3>2, <3>3, <3>4
    <3>6. j[c] \in M /\ j[c].label = l /\ j[x].label = x.label
      BY <1>10, <3>2, <3>3
    <3> QED BY <3>5, <3>6
  <2> QED BY <2>1, <2>2
<1>6. ASSUME NEW l \in ToSet(j[x].preds) PROVE \E c \in M : c.label = l /\ j[x].label \in ToSet(c.succs)
  <2>1. CASE x.label \in ToSet(b.succs)
    <3>4. ToSet(j[x].preds) = {Led(q, b.label, a.label) : q \in ToSet(x.preds)}
      BY <2>1
    <3>1. PICK p \in ToSet(x.preds) : l = Led(p, b.label, a.label)
      BY <1>6, <3>4
    <3>2. CASE p = b.label
      <4>1. l = a.label
        BY <3>1, <3>2 DEF Led
      <4>2. j[a] \in M /\ j[a].label = a.label /\ x.label \in ToSet(j[a].succs)
        BY <1>10, <1>12, <2>1
      <4> QED BY <1>10, <4>1, <4>2
    <3>3. CASE p # b.label
      <4>1. l = p
        BY <3>1, <3>3 DEF Led
      <4>2. PICK c \in B \ {b} : c # a /\ c.label = l /\ x.label \in ToSet(c.succs)
        BY <1>4, <3>3, <4>1
      <4>3. j[c] \in M /\ j[c].label = l /\ x.label \in ToSet(j[c].succs)
        BY <1>10, <1>13, <4>2
      <4> QED BY <1>10, <4>3
    <3> QED BY <3>2, <3>3
  <2>2. CASE x.label \notin ToSet(b.succs)
    <3>1. l \in ToSet(x.preds)
      BY <1>6, <1>8, <2>2
    <3>2. l # b.label
      BY <2>2, <3>1 DEF Joins
    <3>3. PICK c \in B \ {b} : c # a /\ c.label = l /\ x.label \in ToSet(c.succs)
      BY <1>4, <3>1, <3>2
    <3>4. j[c] \in M /\ j[c].label = l /\ x.label \in ToSet(j[c].succs)
      BY <1>10, <1>13, <3>3
    <3> QED BY <1>10, <3>4
  <2> QED BY <2>1, <2>2
<1> QED BY <1>5, <1>6 DEF Joins

(* What leads elsewhere only where it does not lead stays as tidy.         *)
LEMMA LedTidy ==
  ASSUME NEW n \in Nat, NEW x \in Blocks(n), Tidy(x), NEW from, NEW to \in Int,
         from \notin ToSet(x.succs), from # x.label,
         NEW d, d.label = x.label, d.code = Retarget(x.code, from, to), d.succs = x.succs
  PROVE  Tidy(d)
<1>1. x.code \in Seq(Unlabelled(n))
  BY BlockFields
<1>2. /\ TargetsIn(d.code) = {Led(t, from, to) : t \in TargetsIn(x.code)}
      /\ \A e \in EndOf(d.code) : \E f \in EndOf(x.code) :
           e.op = f.op /\ (f.op = "jump" => e.to = Led(f.to, from, to))
      /\ EndsOnce(x.code) => EndsOnce(d.code)
  BY <1>1, RetargetLeads
<1>3. \A t \in ToSet(x.succs) \cup {x.label} : Led(t, from, to) = t
  BY DEF Led
<1>4. /\ EndsOnce(x.code) /\ TargetsIn(x.code) \subseteq ToSet(x.succs) \cup {x.label}
      /\ \A e \in EndOf(x.code) :
           /\ e.op = "return" => ToSet(x.succs) = {}
           /\ e.op = "jump" => e.to \in ToSet(x.succs) /\ ToSet(x.succs) \subseteq TargetsIn(x.code)
  BY DEF Tidy
<1>5. TargetsIn(d.code) = TargetsIn(x.code)
  BY <1>2, <1>3, <1>4
<1>6. ASSUME NEW e \in EndOf(d.code)
      PROVE  /\ e.op = "return" => ToSet(d.succs) = {}
             /\ e.op = "jump" => e.to \in ToSet(d.succs) /\ ToSet(d.succs) \subseteq TargetsIn(d.code)
  <2>1. PICK f \in EndOf(x.code) : e.op = f.op /\ (f.op = "jump" => e.to = Led(f.to, from, to))
    BY <1>2
  <2> QED BY <1>3, <1>4, <1>5, <2>1
<1> QED BY <1>2, <1>4, <1>5, <1>6 DEF Tidy

(* The code of a block that is followed by one block alone, without the    *)
(* jump there, does not leave it.                                          *)
LEMMA OwnCode ==
  ASSUME NEW n \in Nat, NEW x \in Blocks(n), Tidy(x), NEW l, ToSet(x.succs) = {l},
         NEW own, own = IF x.code # << >> /\ Last(x.code) = Jump(l) THEN Front(x.code) ELSE x.code
  PROVE  own \in Seq(Unlabelled(n)) /\ Bare(own) /\ TargetsIn(own) \subseteq TargetsIn(x.code)
<1> DEFINE c == x.code
<1>1. c \in Seq(Unlabelled(n)) /\ EndsOnce(c)
  BY BlockFields DEF Tidy
<1>2. /\ \A e \in EndOf(c) : e.op = "return" => ToSet(x.succs) = {}
      /\ \A e \in EndOf(c) : e.op = "jump" => e.to \in ToSet(x.succs)
  BY DEF Tidy
<1> HIDE DEF c
<1>3. CASE c # << >> /\ Last(c) = Jump(l)
  BY <1>1, <1>3, FrontCode DEF c
<1>4. CASE ~ (c # << >> /\ Last(c) = Jump(l))
  <2>1. own = c
    BY <1>4 DEF c
  <2>2. ASSUME NEW k \in DOMAIN c, Leaves(c[k]) PROVE FALSE
    <3>1. k = Len(c) /\ c # << >>
      BY <1>1, <2>2 DEF EndsOnce
    <3>2. LastTerminator(c, k)
      <4>1. Len(c) \in Nat
        BY <1>1
      <4>2. (k + 1)..Len(c) = {}
        BY <3>1, <4>1
      <4> QED BY <2>2, <4>2 DEF LastTerminator, Leaves, IsTerminator
    <3>3. Jumped(c[k]) \in EndOf(c)
      BY <3>2 DEF EndOf
    <3>4. Jumped(c[k]).op = c[k].op /\ Jumped(c[k]).to = c[k].to
      BY DEF Jumped
    <3>5. c[k].op = "jump" /\ c[k].to = l
      BY <1>2, <2>2, <3>3, <3>4 DEF Leaves
    <3>6. c[k] \in Unlabelled(n)
      BY <1>1
    <3>7. c[k] = Jump(l)
      BY <3>5, <3>6, JumpIs
    <3> QED BY <1>4, <3>1, <3>7 DEF Last
  <2> QED BY <1>1, <2>1, <2>2 DEF Bare, c
<1> QED BY <1>3, <1>4

(* Two blocks in one are as tidy as they were.                             *)
LEMMA MergedTidy ==
  ASSUME NEW n \in Nat, NEW x \in Blocks(n), Tidy(x), NEW b \in Blocks(n), Tidy(b),
         ToSet(x.succs) = {b.label}, b.label \notin ToSet(b.succs), b.label # x.label,
         NEW own, own = IF x.code # << >> /\ Last(x.code) = Jump(b.label) THEN Front(x.code) ELSE x.code,
         NEW d, d.label = x.label, d.succs = b.succs,
         d.code = Retarget(own \o b.code, b.label, x.label)
  PROVE  Tidy(d)
<1> DEFINE from == b.label
           to == x.label
           c == own \o b.code
           succs == ToSet(b.succs)
<1>1. /\ own \in Seq(Unlabelled(n)) /\ Bare(own) /\ TargetsIn(own) \subseteq TargetsIn(x.code)
  BY OwnCode
<1>2. b.code \in Seq(Unlabelled(n)) /\ to \in Int
  BY BlockFields
<1>3. c \in Seq(Unlabelled(n))
  BY <1>1, <1>2
<1>4. TargetsIn(c) = TargetsIn(own) \cup TargetsIn(b.code)
  BY <1>1, <1>2, JoinedMembers
<1>5. /\ EndsOnce(b.code) => EndsOnce(c)
      /\ \A e \in EndOf(c) : e \in EndOf(b.code) \/ e.op \notin {"return", "jump"}
  BY <1>1, <1>2, JoinedCode
<1>6. /\ EndsOnce(b.code) /\ TargetsIn(b.code) \subseteq succs \cup {from}
      /\ \A e \in EndOf(b.code) :
           /\ e.op = "return" => succs = {}
           /\ e.op = "jump" => e.to \in succs /\ succs \subseteq TargetsIn(b.code)
      /\ TargetsIn(x.code) \subseteq {from} \cup {to} /\ from \notin succs
  BY DEF Tidy
<1>11. d.code = Retarget(c, from, to)
  OBVIOUS
<1> HIDE DEF c, from, to, succs
<1>7. /\ TargetsIn(d.code) = {Led(t, from, to) : t \in TargetsIn(c)}
      /\ \A e \in EndOf(d.code) : \E f \in EndOf(c) :
           e.op = f.op /\ (f.op = "jump" => e.to = Led(f.to, from, to))
      /\ EndsOnce(c) => EndsOnce(d.code)
  BY <1>2, <1>3, <1>11, RetargetLeads
<1>8. /\ \A t \in succs : Led(t, from, to) = t
      /\ Led(from, from, to) = to /\ Led(to, from, to) = to
  BY <1>6 DEF Led
<1>9. TargetsIn(d.code) \subseteq succs \cup {to}
  BY <1>1, <1>4, <1>6, <1>7, <1>8
<1>10. ASSUME NEW e \in EndOf(d.code)
       PROVE  /\ e.op = "return" => succs = {}
              /\ e.op = "jump" => e.to \in succs /\ succs \subseteq TargetsIn(d.code)
  <2>1. PICK f \in EndOf(c) : e.op = f.op /\ (f.op = "jump" => e.to = Led(f.to, from, to))
    BY <1>7
  <2>2. e.op \in {"return", "jump"} => f \in EndOf(b.code)
    BY <1>5, <2>1
  <2>3. ASSUME e.op = "jump" PROVE e.to \in succs /\ succs \subseteq TargetsIn(d.code)
    <3>1. f.to \in succs /\ succs \subseteq TargetsIn(b.code)
      BY <1>6, <2>1, <2>2, <2>3
    <3>2. e.to = f.to
      BY <1>8, <2>1, <2>3, <3>1
    <3>3. succs \subseteq TargetsIn(d.code)
      BY <1>4, <1>7, <1>8, <3>1
    <3> QED BY <3>1, <3>2, <3>3
  <2> QED BY <1>6, <2>1, <2>2, <2>3
<1> QED BY <1>5, <1>6, <1>7, <1>9, <1>10 DEF Tidy, succs, to

(* A block is made of its fields.                                          *)
LEMMA BlockMade ==
  ASSUME NEW n, NEW x \in Blocks(n), NEW c \in Seq(Unlabelled(n)),
         NEW succs \in Seq(Int), NEW preds \in Seq(Int)
  PROVE  [label |-> x.label, code |-> c, succs |-> succs, preds |-> preds] \in Blocks(n)
<1> DEFINE S == Seq(Unlabelled(n))
           T == Seq(Int)
<1>1. Blocks(n) = [label : Int, code : S, succs : T, preds : T]
  BY DEF Blocks
<1>2. c \in S /\ succs \in T /\ preds \in T /\ x.label \in Int
  BY BlockFields
<1> HIDE DEF S, T
<1> QED BY <1>1, <1>2

(* Merging blocks keeps a graph sound.                                     *)
LEMMA MergeBlocksSound ==
  ASSUME NEW n \in Nat, NEW cfg \in Graphs(n), Sound(cfg)
  PROVE  Sound(MergeBlocks(cfg))
<1> DEFINE bs == cfg.blocks
           B == ToSet(bs)
           next(k) == bs[k].succs[1]
           merges(k) == /\ Len(bs[k].succs) = 1 /\ next(k) \notin {bs[k].label, cfg.entry}
                        /\ HasBlock(bs, next(k)) /\ Block(cfg, next(k)).preds = <<bs[k].label>>
           able == {k \in DOMAIN bs : merges(k)}
           at == CHOOSE k \in able : \A j \in able : k <= j
           a == bs[at]
           b == Block(cfg, next(at))
           own == IF a.code # << >> /\ Last(a.code) = Jump(b.label)
                  THEN Front(a.code) ELSE a.code
           first(x) == IF x = a THEN [x EXCEPT !.code = own \o b.code, !.succs = b.succs] ELSE x
           joined(x) == [first(x) EXCEPT
                           !.code = Retarget(@, b.label, a.label),
                           !.preds = IF Contains(b.succs, first(x).label)
                                     THEN Renamed(@, b.label, a.label) ELSE @]
           map == [k \in DOMAIN bs |-> joined(bs[k])]
           i == FindBlock(bs, b.label)
           ns == RemoveAt(<< >> \o map, i)
           better == [cfg EXCEPT !.blocks = ns]
<1>1. MergeBlocks(cfg) = IF able = {} THEN cfg ELSE better
  BY DEF MergeBlocks, Map
<1> SUFFICES ASSUME able # {} PROVE Sound(better)
  <2> HIDE DEF able, better
  <2> QED BY <1>1
<1>2. bs \in Seq(Blocks(n)) /\ (\A k \in DOMAIN bs : bs[k] \in Blocks(n))
  BY GraphFields
<1>3. at \in able
  <2>1. able \subseteq Nat
    BY <1>2
  <2> HIDE DEF able
  <2>2. \E k \in able : \A j \in able : k <= j
    BY <2>1, LeastNumber
  <2> QED BY <2>2
<1>4. /\ at \in DOMAIN bs /\ Len(a.succs) = 1 /\ next(at) \notin {a.label, cfg.entry}
      /\ HasBlock(bs, next(at)) /\ b.preds = <<a.label>>
  <2>1. \A k \in able : k \in DOMAIN bs /\ merges(k)
    OBVIOUS
  <2> HIDE DEF able, at
  <2> QED BY <1>3, <2>1
<1> HIDE DEF able, at
<1>5. a \in Blocks(n) /\ a \in B
  BY <1>2, <1>4 DEF ToSet
<1>6. ToSet(a.succs) = {next(at)}
  <2>1. a.succs \in Seq(Int) /\ DOMAIN a.succs = 1..1
    <3>1. a.succs \in Seq(Int)
      BY <1>5, BlockFields
    <3> QED BY <1>4, <3>1
  <2> QED BY <2>1 DEF ToSet
<1>7. b \in B /\ b \in Blocks(n) /\ b.label = next(at) /\ i \in DOMAIN bs /\ bs[i] = b
  <2>1. PICK k \in DOMAIN bs : bs[k].label = next(at)
    BY <1>4 DEF HasBlock
  <2>2. LabelsOnce(bs)
    BY DEF Sound
  <2>3. FindBlock(bs, next(at)) = k
    BY <2>1, <2>2, Found
  <2>4. b = bs[k]
    BY <1>4, <2>3 DEF Block
  <2> HIDE DEF b
  <2>5. i = k
    BY <2>1, <2>3, <2>4
  <2> QED BY <1>2, <2>1, <2>4, <2>5 DEF ToSet
<1> HIDE DEF b, i, next
<1>8. /\ ToSet(a.succs) = {b.label} /\ b.label # a.label /\ b.label # cfg.entry
      /\ ToSet(b.preds) = {a.label}
  <2>1. ToSet(<<a.label>>) = {a.label}
    BY DEF ToSet
  <2> QED BY <1>4, <1>6, <1>7, <2>1
<1>9. /\ LabelsOnce(bs) /\ (\A x, y \in B : x.label = y.label => x = y)
      /\ (\E x \in B : x.label = cfg.entry) /\ \A x \in B : Joins(B, x) /\ Tidy(x)
  <2>1. LabelsOnce(bs)
    BY DEF Sound
  <2> QED BY <2>1, OnceIs DEF Sound
<1>10. \A x \in B : x \in Blocks(n)
  BY <1>2 DEF ToSet
<1> HIDE DEF B, bs
<1>11. b.label \notin ToSet(b.succs) /\ \A x \in B : b.label \in ToSet(x.succs) => x = a
  <2>1. \A x \in B : b.label \in ToSet(x.succs) => x.label = a.label
    <3> SUFFICES ASSUME NEW x \in B, b.label \in ToSet(x.succs) PROVE x.label = a.label
      OBVIOUS
    <3>1. PICK c \in B : c.label = b.label /\ x.label \in ToSet(c.preds)
      BY <1>9 DEF Joins
    <3>2. c = b
      BY <1>7, <1>9, <3>1
    <3> QED BY <1>8, <3>1, <3>2
  <2> QED BY <1>5, <1>7, <1>8, <1>9, <2>1
<1>12. own \in Seq(Unlabelled(n))
  <2> HIDE DEF a
  <2> QED BY <1>5, <1>8, <1>9, OwnCode
<1>13. own = IF a.code # << >> /\ Last(a.code) = Jump(b.label) THEN Front(a.code) ELSE a.code
  OBVIOUS
<1> HIDE DEF own, a
<1>14. ASSUME NEW x \in B
       PROVE  /\ joined(x) \in Blocks(n) /\ joined(x).label = x.label
              /\ joined(x).code = Retarget(IF x = a THEN own \o b.code ELSE x.code, b.label, a.label)
              /\ joined(x).succs = IF x = a THEN b.succs ELSE x.succs
              /\ joined(x).preds = IF Contains(b.succs, x.label)
                                   THEN Renamed(x.preds, b.label, a.label) ELSE x.preds
  <2> DEFINE c0 == IF x = a THEN own \o b.code ELSE x.code
             s0 == IF x = a THEN b.succs ELSE x.succs
             c1 == Retarget(c0, b.label, a.label)
             p1 == IF Contains(b.succs, x.label) THEN Renamed(x.preds, b.label, a.label) ELSE x.preds
  <2>1. /\ x.label \in Int /\ x.code \in Seq(Unlabelled(n)) /\ x.succs \in Seq(Int) /\ x.preds \in Seq(Int)
        /\ b.code \in Seq(Unlabelled(n)) /\ b.succs \in Seq(Int) /\ a.label \in Int
    BY <1>5, <1>7, <1>10, BlockFields
  <2>2. own \o b.code \in Seq(Unlabelled(n))
    BY <1>12, <2>1
  <2>3. c0 \in Seq(Unlabelled(n)) /\ s0 \in Seq(Int)
    BY <2>1, <2>2
  <2> HIDE DEF c0, s0
  <2>4. c1 \in Seq(Unlabelled(n)) /\ p1 \in Seq(Int)
    BY <2>1, <2>3, RetargetType, RenamedType
  <2> HIDE DEF c1, p1
  <2>5. x = [label |-> x.label, code |-> x.code, succs |-> x.succs, preds |-> x.preds]
    BY <1>10 DEF Blocks
  <2>6. first(x) = [label |-> x.label, code |-> c0, succs |-> s0, preds |-> x.preds]
    BY <2>5 DEF c0, s0
  <2> HIDE DEF first
  <2>61. first(x).label = x.label /\ first(x).code = c0 /\ first(x).preds = x.preds
    BY <2>6
  <2>62. joined(x) = [first(x) EXCEPT !.code = c1, !.preds = p1]
    BY <2>61 DEF c1, p1
  <2> HIDE DEF joined
  <2>7. joined(x) = [label |-> x.label, code |-> c1, succs |-> s0, preds |-> p1]
    <3> DEFINE f == first(x)
               l == x.label
               p0 == x.preds
    <3>1. f = [label |-> l, code |-> c0, succs |-> s0, preds |-> p0]
      BY <2>6
    <3> HIDE DEF f, l, p0
    <3>2. [f EXCEPT !.code = c1, !.preds = p1] = [label |-> l, code |-> c1, succs |-> s0, preds |-> p1]
      <4>1. [f EXCEPT !.code = c1] = [label |-> l, code |-> c1, succs |-> s0, preds |-> p0]
        BY <3>1
      <4>2. [f EXCEPT !.code = c1, !.preds = p1] = [[f EXCEPT !.code = c1] EXCEPT !.preds = p1]
        OBVIOUS
      <4> DEFINE g == [f EXCEPT !.code = c1]
      <4> HIDE DEF g
      <4>3. g = [label |-> l, code |-> c1, succs |-> s0, preds |-> p0]
        BY <4>1 DEF g
      <4>4. [g EXCEPT !.preds = p1] = [label |-> l, code |-> c1, succs |-> s0, preds |-> p1]
        BY <4>3
      <4> QED BY <4>2, <4>4 DEF g
    <3> QED BY <2>62, <3>2 DEF f, l
  <2>8. x \in Blocks(n)
    BY <1>10
  <2>9. joined(x) \in Blocks(n)
    BY <2>3, <2>4, <2>7, <2>8, BlockMade
  <2> QED BY <2>7, <2>9 DEF c0, c1, s0, p1
<1> DEFINE j == [x \in B |-> joined(x)]
<1>15. map \in [DOMAIN bs -> Blocks(n)] /\ \A k \in DOMAIN bs : bs[k] \in B /\ map[k] = j[bs[k]]
  <2>1. \A k \in DOMAIN bs : bs[k] \in B
    BY DEF B, ToSet
  <2> HIDE DEF joined
  <2> QED BY <1>14, <2>1
<1> HIDE DEF map
<1>16. /\ << >> \o map \in Seq(Blocks(n)) /\ DOMAIN (<< >> \o map) = DOMAIN bs
       /\ \A k \in DOMAIN bs : (<< >> \o map)[k] = map[k]
       /\ ToSet(<< >> \o map) = {map[k] : k \in DOMAIN bs}
  <2>1. map \in [DOMAIN bs -> Blocks(n)]
    BY <1>15
  <2> HIDE DEF j
  <2>2. /\ << >> \o map \in Seq(Blocks(n)) /\ DOMAIN (<< >> \o map) = DOMAIN bs
        /\ \A k \in DOMAIN bs : (<< >> \o map)[k] = map[k]
    BY <1>2, <2>1, MappedAre
  <2> QED BY <2>2 DEF ToSet
<1> DEFINE q == << >> \o map
<1>17. ASSUME NEW x \in B PROVE j[x].label = x.label
  <2> HIDE DEF joined
  <2> QED BY <1>14
<1>18. \A x \in B : /\ j[x].succs = (IF x = a THEN b.succs ELSE x.succs)
                     /\ j[x].code = Retarget(IF x = a THEN own \o b.code ELSE x.code, b.label, a.label)
  <2> HIDE DEF joined
  <2> QED BY <1>14
<1>19. \A x \in B : ToSet(j[x].preds) = IF x.label \in ToSet(b.succs)
                                        THEN {Led(p, b.label, a.label) : p \in ToSet(x.preds)}
                                        ELSE ToSet(x.preds)
  <2> SUFFICES ASSUME NEW x \in B
               PROVE  ToSet(j[x].preds) = IF x.label \in ToSet(b.succs)
                                        THEN {Led(p, b.label, a.label) : p \in ToSet(x.preds)}
                                        ELSE ToSet(x.preds)
    OBVIOUS
  <2>1. x.preds \in Seq(Int) /\ b.succs \in Seq(Int) /\ a.label \in Int
    BY <1>5, <1>7, <1>10, BlockFields
  <2>2. Contains(b.succs, x.label) <=> x.label \in ToSet(b.succs)
    BY <2>1, ContainsMember
  <2>3. ToSet(Renamed(x.preds, b.label, a.label)) = {Led(p, b.label, a.label) : p \in ToSet(x.preds)}
    BY <2>1, RenamedAre
  <2>4. j[x].preds = IF Contains(b.succs, x.label)
                     THEN Renamed(x.preds, b.label, a.label) ELSE x.preds
    <3> HIDE DEF joined
    <3> QED BY <1>14
  <2> HIDE DEF j
  <2> QED BY <2>2, <2>3, <2>4
<1> HIDE DEF j, joined, first, q
<1>20. ToSet(q) = {j[x] : x \in B} /\ DOMAIN q = DOMAIN bs /\ q \in Seq(Blocks(n))
       /\ \A k \in DOMAIN bs : q[k] = j[bs[k]]
  <2>1. B = {bs[k] : k \in DOMAIN bs}
    BY DEF B, ToSet
  <2> QED BY <1>15, <1>16, <2>1 DEF q
<1>21. LabelsOnce(q)
  BY <1>9, <1>15, <1>17, <1>20, SameLabels
<1>22. LabelsOnce(RemoveAt(q, i)) /\ ToSet(RemoveAt(q, i)) = ToSet(q) \ {q[i]}
  BY <1>7, <1>20, <1>21, RemoveAtAre DEF bs
<1>23. q[i] = j[b]
  BY <1>7, <1>20 DEF bs
<1>24. ToSet(ns) = {j[x] : x \in B \ {b}} /\ LabelsOnce(ns)
  <2>1. ns = RemoveAt(q, i)
    BY DEF q
  <2> HIDE DEF ns
  <2>2. \A x \in B : j[x] = j[b] => x = b
    BY <1>7, <1>9, <1>17
  <2> QED BY <1>20, <1>22, <1>23, <2>1, <2>2
<1> HIDE DEF ns
<1>25. \E c \in ToSet(ns) : c.label = cfg.entry
  <2>1. PICK x \in B : x.label = cfg.entry
    BY <1>9
  <2>2. x \in B \ {b}
    BY <1>8, <2>1
  <2> QED BY <1>17, <1>24, <2>1, <2>2
<1>26. ASSUME NEW c \in ToSet(ns) PROVE Joins(ToSet(ns), c) /\ Tidy(c)
  <2>1. PICK x \in B \ {b} : c = j[x]
    BY <1>24
  <2>2. \A y \in B \ {b} :
           /\ j[y].label = y.label
           /\ ToSet(j[y].succs) = IF y = a THEN ToSet(b.succs) ELSE ToSet(y.succs)
           /\ ToSet(j[y].preds) = IF y.label \in ToSet(b.succs)
                                  THEN {Led(p, b.label, a.label) : p \in ToSet(y.preds)}
                                  ELSE ToSet(y.preds)
    BY <1>17, <1>18, <1>19
  <2>3. \A y \in B : Joins(B, y)
    BY <1>9
  <2>4. a \in B /\ b \in B /\ a # b
    BY <1>5, <1>7, <1>8
  <2>5. Joins(ToSet(ns), j[x])
    BY <1>8, <1>9, <1>24, <2>2, <2>3, <2>4, MergedJoins, ZenonT(40)
  <2>6. CASE x = a
    <3>1. j[x].label = a.label /\ j[x].succs = b.succs
          /\ j[x].code = Retarget(own \o b.code, b.label, a.label)
      BY <1>17, <1>18, <2>6
    <3>2. a \in Blocks(n) /\ Tidy(a) /\ b \in Blocks(n) /\ Tidy(b)
      BY <1>5, <1>7, <1>9
    <3>3. Tidy(j[x])
      BY <1>8, <1>11, <1>13, <3>1, <3>2, MergedTidy
    <3> QED BY <2>1, <2>5, <3>3
  <2>7. CASE x # a
    <3>1. j[x].label = x.label /\ j[x].succs = x.succs
          /\ j[x].code = Retarget(x.code, b.label, a.label)
      BY <1>17, <1>18, <2>7
    <3>2. x \in Blocks(n) /\ Tidy(x) /\ a.label \in Int
      <4>1. a.label \in Int
        BY <1>5, BlockFields
      <4> QED BY <1>9, <1>10, <4>1
    <3>3. b.label \notin ToSet(x.succs) /\ b.label # x.label
      BY <1>7, <1>9, <1>11, <2>7
    <3>4. Tidy(j[x])
      BY <3>1, <3>2, <3>3, LedTidy
    <3> QED BY <2>1, <2>5, <3>4
  <2> QED BY <2>6, <2>7
<1> QED BY <1>24, <1>25, <1>26, SoundFrom

-----------------------------------------------------------------------------
(* Code that does not lead there is not changed.                           *)
LEMMA RetargetKeeps ==
  ASSUME NEW n \in Nat, NEW code \in Seq(Unlabelled(n)), NEW from, NEW to \in Int,
         from \notin TargetsIn(code)
  PROVE  Retarget(code, from, to) = code
<1> DEFINE new == [k \in DOMAIN code |->
                     IF code[k].op \in {"jump", "test"} /\ code[k].to = from
                     THEN [code[k] EXCEPT !.to = to] ELSE code[k]]
<1>1. Retarget(code, from, to) = << >> \o new
  BY DEF Retarget, Map
<1>2. \A k \in DOMAIN code : ~ (code[k].op \in {"jump", "test"} /\ code[k].to = from)
  BY DEF TargetsIn, ToSet
<1>3. new = [k \in DOMAIN code |-> code[k]]
  BY <1>2
<1> HIDE DEF new
<1>4. code = [k \in DOMAIN code |-> code[k]]
  OBVIOUS
<1>5. new = code
  BY <1>3, <1>4
<1>6. << >> \o code = code
  OBVIOUS
<1> QED BY <1>1, <1>5, <1>6

(* Who comes to a block when those who came to another do.                 *)
LEMMA InsteadAre ==
  ASSUME NEW preds \in Seq(Int), NEW l, NEW more \in Seq(Int)
  PROVE  ToSet(Instead(preds, l, more)) = (ToSet(preds) \ {l}) \cup ToSet(more)
<1> DEFINE kept == Only(preds, ToSet(preds) \ {l})
           new == Only(more, ToSet(more) \ ToSet(kept))
<1>1. kept \in Seq(Int) /\ new \in Seq(Int)
  BY OnlySome
<1>2. ToSet(kept) = ToSet(preds) \ {l}
  <2>1. ToSet(kept) = ToSet(preds) \cap (ToSet(preds) \ {l})
    BY OnlyOf
  <2> QED BY <2>1
<1>3. ToSet(new) = ToSet(more) \ ToSet(kept)
  <2>1. ToSet(new) = ToSet(more) \cap (ToSet(more) \ ToSet(kept))
    BY OnlyOf
  <2> QED BY <2>1
<1>4. Instead(preds, l, more) = kept \o new
  BY DEF Instead
<1> HIDE DEF kept, new
<1>5. ToSet(kept \o new) = ToSet(kept) \cup ToSet(new)
  BY <1>1, JoinedMembers
<1> QED BY <1>2, <1>3, <1>4, <1>5

(* The other blocks, when one is bypassed.                                 *)
Around(B, e, to, j) ==
  \A x \in B \ {e} :
    /\ j[x].label = x.label
    /\ ToSet(j[x].succs) = {Led(s, e.label, to) : s \in ToSet(x.succs)}
    /\ ToSet(j[x].preds) = IF x.label = to THEN (ToSet(x.preds) \ {e.label}) \cup ToSet(e.preds)
                           ELSE ToSet(x.preds)

(* Their edges.                                                            *)
LEMMA BypassedJoins ==
  ASSUME NEW B, \A x, y \in B : x.label = y.label => x = y, \A x \in B : Joins(B, x),
         NEW e \in B, NEW to, ToSet(e.succs) = {to}, to # e.label,
         NEW j, NEW M, M = {j[x] : x \in B \ {e}}, Around(B, e, to, j),
         NEW x \in B \ {e}
  PROVE  Joins(M, j[x])
<1> USE DEF Around
<1>1. ASSUME NEW y \in B \ {e} PROVE j[y] \in M /\ j[y].label = y.label /\ y.label # e.label
  BY <1>1
<1>2. ASSUME NEW y \in B \ {e}, NEW s \in ToSet(y.succs)
      PROVE  Led(s, e.label, to) \in ToSet(j[y].succs)
  <2>1. ToSet(j[y].succs) = {Led(q, e.label, to) : q \in ToSet(y.succs)}
    OBVIOUS
  <2> QED BY <1>2, <2>1
<1>3. ASSUME NEW y \in B \ {e}, NEW p \in ToSet(y.preds), p # e.label
      PROVE  p \in ToSet(j[y].preds)
  BY <1>3
<1>4. ASSUME NEW y \in B \ {e}, y.label = to, NEW p \in ToSet(e.preds)
      PROVE  p \in ToSet(j[y].preds)
  BY <1>4
<1>5. ASSUME NEW l \in ToSet(j[x].succs) PROVE \E c \in M : c.label = l /\ j[x].label \in ToSet(c.preds)
  <2>1. ToSet(j[x].succs) = {Led(q, e.label, to) : q \in ToSet(x.succs)}
    OBVIOUS
  <2>2. PICK s \in ToSet(x.succs) : l = Led(s, e.label, to)
    BY <1>5, <2>1
  <2>3. CASE s = e.label
    <3>1. l = to
      BY <2>2, <2>3 DEF Led
    <3>2. PICK c \in B : c.label = to
      BY SMTT(30) DEF Joins
    <3>3. x.label \in ToSet(e.preds)
      <4>1. PICK f \in B : f.label = e.label /\ x.label \in ToSet(f.preds)
        BY <2>2, <2>3 DEF Joins
      <4> QED BY <4>1
    <3>4. c \in B \ {e}
      BY <3>2
    <3>5. x.label \in ToSet(j[c].preds)
      BY <1>4, <3>2, <3>3, <3>4
    <3> QED BY <1>1, <3>1, <3>2, <3>4, <3>5
  <2>4. CASE s # e.label
    <3>1. l = s
      BY <2>2, <2>4 DEF Led
    <3>2. PICK c \in B : c.label = s /\ x.label \in ToSet(c.preds)
      BY <2>2 DEF Joins
    <3>3. c \in B \ {e}
      BY <2>4, <3>2
    <3>4. x.label \in ToSet(j[c].preds)
      BY <1>1, <1>3, <3>2, <3>3
    <3> QED BY <1>1, <3>1, <3>2, <3>3, <3>4
  <2> QED BY <2>3, <2>4
<1>6. ASSUME NEW l \in ToSet(j[x].preds) PROVE \E c \in M : c.label = l /\ j[x].label \in ToSet(c.succs)
  <2>1. CASE l \in ToSet(x.preds) /\ l # e.label
    <3>1. PICK c \in B : c.label = l /\ x.label \in ToSet(c.succs)
      BY <2>1 DEF Joins
    <3>2. c \in B \ {e}
      BY <2>1, <3>1
    <3>3. Led(x.label, e.label, to) = x.label
      BY <1>1 DEF Led
    <3>4. x.label \in ToSet(j[c].succs)
      BY <1>2, <3>1, <3>2, <3>3
    <3> QED BY <1>1, <3>1, <3>2, <3>4
  <2>2. CASE x.label = to /\ l \in ToSet(e.preds)
    <3>1. PICK c \in B : c.label = l /\ e.label \in ToSet(c.succs)
      BY <2>2 DEF Joins
    <3>2. c \in B \ {e}
      BY <3>1
    <3>3. Led(e.label, e.label, to) = to
      BY DEF Led
    <3>4. x.label \in ToSet(j[c].succs)
      BY <1>2, <2>2, <3>1, <3>2, <3>3
    <3> QED BY <1>1, <3>1, <3>2, <3>4
  <2>3. CASE x.label # to
    <3>1. l \in ToSet(x.preds)
      BY <1>6, <2>3
    <3>2. l # e.label
      <4>1. PICK c \in B : c.label = l /\ x.label \in ToSet(c.succs)
        BY <3>1 DEF Joins
      <4>2. c # e
        BY <2>3, <4>1
      <4> QED BY <4>1, <4>2
    <3> QED BY <2>1, <3>1, <3>2
  <2>4. x.label = to => (l \in ToSet(x.preds) /\ l # e.label) \/ l \in ToSet(e.preds)
    BY <1>6
  <2> QED BY <2>1, <2>2, <2>3, <2>4
<1> QED BY <1>5, <1>6 DEF Joins

(* A block whose edges and code are led elsewhere alike stays as tidy.     *)
LEMMA BypassedTidy ==
  ASSUME NEW n \in Nat, NEW x \in Blocks(n), Tidy(x), NEW from, NEW to \in Int, from # x.label,
         NEW d, d.label = x.label, d.code = Retarget(x.code, from, to),
         ToSet(d.succs) = {Led(s, from, to) : s \in ToSet(x.succs)}
  PROVE  Tidy(d)
<1> DEFINE P == ToSet(x.succs)
           Q == ToSet(d.succs)
<1>1. x.code \in Seq(Unlabelled(n))
  BY BlockFields
<1>2. /\ TargetsIn(d.code) = {Led(t, from, to) : t \in TargetsIn(x.code)}
      /\ \A e \in EndOf(d.code) : \E f \in EndOf(x.code) :
           e.op = f.op /\ (f.op = "jump" => e.to = Led(f.to, from, to))
      /\ EndsOnce(x.code) => EndsOnce(d.code)
  BY <1>1, RetargetLeads
<1>3. Led(x.label, from, to) = x.label /\ \A s \in P : Led(s, from, to) \in Q
  BY DEF Led
<1>4. /\ EndsOnce(x.code) /\ TargetsIn(x.code) \subseteq P \cup {x.label}
      /\ \A e \in EndOf(x.code) :
           /\ e.op = "return" => P = {}
           /\ e.op = "jump" => e.to \in P /\ P \subseteq TargetsIn(x.code)
  BY DEF Tidy
<1>5. Q = {Led(s, from, to) : s \in P}
  OBVIOUS
<1> HIDE DEF P, Q
<1>6. TargetsIn(d.code) \subseteq Q \cup {x.label}
  BY <1>2, <1>3, <1>4
<1>7. ASSUME NEW e \in EndOf(d.code)
      PROVE  /\ e.op = "return" => Q = {}
             /\ e.op = "jump" => e.to \in Q /\ Q \subseteq TargetsIn(d.code)
  <2>1. PICK f \in EndOf(x.code) : e.op = f.op /\ (f.op = "jump" => e.to = Led(f.to, from, to))
    BY <1>2
  <2>2. e.op = "return" => Q = {}
    BY <1>4, <1>5, <2>1
  <2>3. e.op = "jump" => e.to \in Q
    BY <1>3, <1>4, <2>1
  <2>4. e.op = "jump" => Q \subseteq TargetsIn(d.code)
    BY <1>2, <1>4, <1>5, <2>1
  <2> QED BY <2>2, <2>3, <2>4
<1> QED BY <1>2, <1>4, <1>6, <1>7 DEF Tidy, Q

(* A block that only jumps is followed by its target.                      *)
LEMMA OnlyJumpLeads ==
  ASSUME NEW n, NEW e \in Blocks(n), Tidy(e), Len(e.code) = 1, e.code[1].op = "jump"
  PROVE  ToSet(e.succs) = {e.code[1].to} /\ TargetsIn(e.code) = {e.code[1].to}
<1> DEFINE c == e.code
<1>1. c \in Seq(Unlabelled(n)) /\ Len(c) = 1 /\ DOMAIN c = 1..1
  <2>1. c \in Seq(Unlabelled(n))
    BY BlockFields
  <2> QED BY <2>1
<1>2. LastTerminator(c, 1)
  <2>1. (1 + 1)..Len(c) = {}
    BY <1>1
  <2> QED BY <2>1 DEF LastTerminator, IsTerminator
<1>3. Jumped(c[1]) \in EndOf(c)
  BY <1>1, <1>2 DEF EndOf
<1>4. Jumped(c[1]).op = "jump" /\ Jumped(c[1]).to = c[1].to
  BY DEF Jumped
<1>5. TargetsIn(c) = {c[1].to}
  <2>1. ToSet(c) = {c[1]}
    BY <1>1 DEF ToSet
  <2> QED BY <2>1 DEF TargetsIn
<1>6. c[1].to \in ToSet(e.succs) /\ ToSet(e.succs) \subseteq TargetsIn(c)
  BY <1>3, <1>4 DEF Tidy
<1> QED BY <1>5, <1>6

(* Some of the blocks.                                                     *)
LEMMA SomeBlocks ==
  ASSUME NEW n, NEW cfg \in Graphs(n), LabelsOnce(cfg.blocks), NEW set
  PROVE  LET left == Only(cfg.blocks, set) IN
         /\ left \in Seq(Blocks(n)) /\ ToSet(left) = ToSet(cfg.blocks) \cap set /\ LabelsOnce(left)
<1> DEFINE bs == cfg.blocks
           left == Only(bs, set)
<1>1. bs \in Seq(Blocks(n))
  BY GraphFields
<1>2. \A b, c \in ToSet(bs) : b.label = c.label => b = c
  BY OnceIs
<1>3. Distinct(bs)
  BY OnceIs
<1> HIDE DEF bs
<1>4. left \in Seq(Blocks(n))
  BY <1>1, OnlySome
<1>5. ToSet(left) = ToSet(bs) \cap set
  BY <1>1, OnlyOf
<1>6. Distinct(left)
  BY <1>1, <1>3, OnlyDistinct
<1> HIDE DEF left
<1>7. LabelsOnce(left)
  BY <1>2, <1>5, <1>6, OnceIs
<1> QED BY <1>4, <1>5, <1>7 DEF left, bs

(* One block of nothing but a jump is bypassed.                            *)
LEMMA BypassSound ==
  ASSUME NEW n \in Nat, NEW cfg \in Graphs(n), Sound(cfg),
         NEW empty, empty.label # cfg.entry, Len(empty.code) = 1,
         empty.code[1].op = "jump", empty.code[1].to # empty.label,
         NEW e \in ToSet(cfg.blocks), e.label = empty.label, e.code = empty.code
  PROVE  /\ Sound(Bypass(cfg, empty)) /\ Bypass(cfg, empty).entry = cfg.entry
         /\ \A x \in ToSet(cfg.blocks) : x.label # empty.label /\ empty.label \notin TargetsIn(x.code) =>
              \E y \in ToSet(Bypass(cfg, empty).blocks) : y.label = x.label /\ y.code = x.code
<1> DEFINE l == empty.label
           to == empty.code[1].to
           B == ToSet(cfg.blocks)
           set == {b \in B : b.label # l}
           others == Only(cfg.blocks, set)
           preds == Block(cfg, l).preds
           led(b) == [b EXCEPT !.code = Retarget(@, l, to), !.succs = Renamed(@, l, to),
                               !.preds = IF b.label = to THEN Instead(@, l, preds) ELSE @]
           map == [k \in DOMAIN others |-> led(others[k])]
           ns == << >> \o map
           better == [cfg EXCEPT !.blocks = ns]
<1>1. Bypass(cfg, empty) \in {cfg, better}
  BY DEF Bypass, Map
<1> SUFFICES /\ Sound(better) /\ better.entry = cfg.entry
             /\ \A x \in B : x.label # l /\ l \notin TargetsIn(x.code) =>
                  \E y \in ToSet(better.blocks) : y.label = x.label /\ y.code = x.code
  <2> HIDE DEF better
  <2> QED BY <1>1
<1>2. better.blocks = ns /\ better.entry = cfg.entry
  <2>1. cfg = [entry |-> cfg.entry, blocks |-> cfg.blocks]
    BY DEF Graphs
  <2> HIDE DEF ns
  <2> QED BY <2>1
<1>3. \A x \in B : x \in Blocks(n)
  BY GraphFields DEF ToSet
<1>4. /\ LabelsOnce(cfg.blocks) /\ (\A x, y \in B : x.label = y.label => x = y)
      /\ (\E x \in B : x.label = cfg.entry) /\ \A x \in B : Joins(B, x) /\ Tidy(x)
  <2>1. LabelsOnce(cfg.blocks)
    BY DEF Sound
  <2> QED BY <2>1, OnceIs DEF Sound
<1>5. others \in Seq(Blocks(n)) /\ ToSet(others) = B \ {e} /\ LabelsOnce(others)
  <2>1. B \cap set = B \ {e}
    BY <1>4
  <2> HIDE DEF set
  <2>2. LabelsOnce(cfg.blocks)
    BY <1>4
  <2>3. /\ others \in Seq(Blocks(n)) /\ ToSet(others) = ToSet(cfg.blocks) \cap set
        /\ LabelsOnce(others)
    BY <2>2, SomeBlocks
  <2> HIDE DEF others
  <2> QED BY <2>1, <2>3
<1>6. e \in B /\ e \in Blocks(n) /\ e.label = l /\ ToSet(e.succs) = {to} /\ to # l
  BY <1>3, <1>4, OnlyJumpLeads
<1>7. l \in Int /\ to \in Int /\ preds = e.preds /\ e.preds \in Seq(Int)
  <2>1. l \in Int /\ e.preds \in Seq(Int) /\ e.succs \in Seq(Int)
    BY <1>6, BlockFields
  <2>2. to \in Int
    <3>1. \A s \in ToSet(e.succs) : s \in Int
      BY <2>1 DEF ToSet
    <3> HIDE DEF to
    <3> QED BY <1>6, <3>1
  <2>3. Block(cfg, e.label) = e
    BY <1>4, BlockIs
  <2> QED BY <1>6, <2>1, <2>2, <2>3
<1> HIDE DEF preds, l, to, others, set, B
<1>8. ASSUME NEW x \in Blocks(n)
      PROVE  /\ led(x) \in Blocks(n) /\ led(x).label = x.label
             /\ led(x).code = Retarget(x.code, l, to) /\ led(x).succs = Renamed(x.succs, l, to)
             /\ led(x).preds = IF x.label = to THEN Instead(x.preds, l, preds) ELSE x.preds
  <2> DEFINE c1 == Retarget(x.code, l, to)
             s1 == Renamed(x.succs, l, to)
             p1 == IF x.label = to THEN Instead(x.preds, l, preds) ELSE x.preds
  <2>1. x.label \in Int /\ x.code \in Seq(Unlabelled(n)) /\ x.succs \in Seq(Int) /\ x.preds \in Seq(Int)
    BY BlockFields
  <2>2. c1 \in Seq(Unlabelled(n)) /\ s1 \in Seq(Int) /\ p1 \in Seq(Int)
    BY <1>7, <2>1, RetargetType, RenamedType, InsteadType
  <2>3. x = [label |-> x.label, code |-> x.code, succs |-> x.succs, preds |-> x.preds]
    BY DEF Blocks
  <2>4. led(x) = [x EXCEPT !.code = c1, !.succs = s1, !.preds = p1]
    OBVIOUS
  <2>6. led(x) \in Blocks(n)
    <3>1. c1 \in Seq(Unlabelled(n)) /\ s1 \in Seq(Int) /\ p1 \in Seq(Int)
      BY <2>2
    <3> HIDE DEF c1, s1, p1
    <3>2. [x EXCEPT !.code = c1, !.succs = s1, !.preds = p1] \in Blocks(n)
      BY <3>1, BlockWith
    <3> QED BY <2>4, <3>2
  <2> HIDE DEF c1, s1, p1, led
  <2>5. /\ [x EXCEPT !.code = c1, !.succs = s1, !.preds = p1].label = x.label
        /\ [x EXCEPT !.code = c1, !.succs = s1, !.preds = p1].code = c1
        /\ [x EXCEPT !.code = c1, !.succs = s1, !.preds = p1].succs = s1
        /\ [x EXCEPT !.code = c1, !.succs = s1, !.preds = p1].preds = p1
    BY <2>3
  <2> QED BY <2>4, <2>5, <2>6 DEF c1, s1, p1
<1> DEFINE j == [x \in B |-> led(x)]
<1>9. map \in [DOMAIN others -> Blocks(n)] /\ \A k \in DOMAIN others : others[k] \in B /\ map[k] = j[others[k]]
  <2>1. \A k \in DOMAIN others : others[k] \in B
    BY <1>5 DEF ToSet
  <2> HIDE DEF led
  <2> QED BY <1>3, <1>8, <2>1
<1> HIDE DEF map
<1>10. DOMAIN ns = DOMAIN others /\ \A k \in DOMAIN others : ns[k] = map[k]
  <2>1. map \in [DOMAIN others -> Blocks(n)]
    BY <1>9
  <2> HIDE DEF j
  <2> QED BY <1>5, <2>1, MappedAre
<1>11. ASSUME NEW x \in B
       PROVE  /\ j[x].label = x.label
              /\ j[x].code = Retarget(x.code, l, to)
              /\ ToSet(j[x].succs) = {Led(s, l, to) : s \in ToSet(x.succs)}
              /\ ToSet(j[x].preds) = IF x.label = to THEN (ToSet(x.preds) \ {l}) \cup ToSet(e.preds)
                                     ELSE ToSet(x.preds)
  <2>1. x \in Blocks(n) /\ x.preds \in Seq(Int) /\ x.succs \in Seq(Int)
    BY <1>3, BlockFields
  <2>2. ToSet(Instead(x.preds, l, preds)) = (ToSet(x.preds) \ {l}) \cup ToSet(e.preds)
    BY <1>7, <2>1, InsteadAre
  <2>3. ToSet(Renamed(x.succs, l, to)) = {Led(s, l, to) : s \in ToSet(x.succs)}
    BY <1>7, <2>1, RenamedAre
  <2>4. /\ j[x].label = x.label
        /\ j[x].code = Retarget(x.code, l, to) /\ j[x].succs = Renamed(x.succs, l, to)
        /\ j[x].preds = IF x.label = to THEN Instead(x.preds, l, preds) ELSE x.preds
    <3> HIDE DEF led
    <3> QED BY <1>8, <2>1
  <2> HIDE DEF j
  <2> QED BY <2>2, <2>3, <2>4
<1> HIDE DEF j, ns
<1>12. ToSet(ns) = {j[x] : x \in B \ {e}}
  <2>1. B \ {e} = {others[k] : k \in DOMAIN others}
    BY <1>5 DEF ToSet
  <2>2. ToSet(ns) = {j[others[k]] : k \in DOMAIN others}
    BY <1>9, <1>10 DEF ToSet
  <2> QED BY <2>1, <2>2
<1>13. LabelsOnce(ns)
  <2>1. \A k \in DOMAIN others : ns[k].label = others[k].label
    BY <1>9, <1>10, <1>11, ZenonT(40)
  <2> QED BY <1>5, <1>10, <2>1, SameLabels
<1>14. \E c \in ToSet(ns) : c.label = cfg.entry
  <2>1. PICK x \in B : x.label = cfg.entry
    BY <1>4
  <2>2. x \in B \ {e}
    BY <1>6, <2>1 DEF l
  <2> QED BY <1>11, <1>12, <2>1, <2>2
<1>15. ASSUME NEW c \in ToSet(ns) PROVE Joins(ToSet(ns), c) /\ Tidy(c)
  <2>1. PICK x \in B \ {e} : c = j[x]
    BY <1>12
  <2>2. \A y \in B \ {e} :
           /\ j[y].label = y.label
           /\ ToSet(j[y].succs) = {Led(s, e.label, to) : s \in ToSet(y.succs)}
           /\ ToSet(j[y].preds) = IF y.label = to THEN (ToSet(y.preds) \ {e.label}) \cup ToSet(e.preds)
                                  ELSE ToSet(y.preds)
    <3>1. l = e.label
      BY <1>6
    <3> HIDE DEF l, B
    <3> QED BY <1>11, <3>1
  <2>7. Around(B, e, to, j)
    BY <2>2 DEF Around
  <2>3. (\A y \in B : Joins(B, y)) /\ to # e.label
    BY <1>4, <1>6
  <2>6. (\A y, z \in B : y.label = z.label => y = z) /\ e \in B /\ ToSet(e.succs) = {to}
    BY <1>4, <1>6
  <2>4. Joins(ToSet(ns), j[x])
    BY <1>12, <2>3, <2>6, <2>7, BypassedJoins
  <2>5. Tidy(j[x])
    <3>1. x \in Blocks(n) /\ Tidy(x) /\ l # x.label
      BY <1>3, <1>4, <1>6
    <3>2. /\ j[x].label = x.label /\ j[x].code = Retarget(x.code, l, to)
          /\ ToSet(j[x].succs) = {Led(s, l, to) : s \in ToSet(x.succs)}
      BY <1>11
    <3> QED BY <1>7, <3>1, <3>2, BypassedTidy
  <2> QED BY <2>1, <2>4, <2>5
<1>16. Sound(better)
  BY <1>13, <1>14, <1>15, SoundFrom
<1>17. ASSUME NEW x \in B, x.label # l, l \notin TargetsIn(x.code)
       PROVE  \E y \in ToSet(ns) : y.label = x.label /\ y.code = x.code
  <2>1. x \in B \ {e}
    BY <1>6, <1>17
  <2>2. x.code \in Seq(Unlabelled(n))
    BY <1>3, BlockFields
  <2>3. Retarget(x.code, l, to) = x.code
    BY <1>7, <1>17, <2>2, RetargetKeeps
  <2> QED BY <1>11, <1>12, <2>1, <2>3
<1> QED BY <1>2, <1>16, <1>17

(* The blocks eliminate_empty_jumps notes, in their order.                 *)
Noted(cfg) == Only(cfg.blocks, {b \in ToSet(cfg.blocks) : OnlyJumps(cfg, b)})

(* None of them jumps back to one noted, and so bypassed, before it.       *)
NoneBack(cfg) ==
  \A j, k \in DOMAIN Noted(cfg) : j < k => Noted(cfg)[k].code[1].to # Noted(cfg)[j].label

(* What is noted.                                                          *)
LEMMA NotedAre ==
  ASSUME NEW n, NEW cfg \in Graphs(n), Sound(cfg)
  PROVE  /\ Len(Noted(cfg)) \in Nat /\ DOMAIN Noted(cfg) = 1..Len(Noted(cfg))
         /\ \A m \in DOMAIN Noted(cfg) :
              /\ Noted(cfg)[m] \in Blocks(n) /\ Noted(cfg)[m] \in ToSet(cfg.blocks)
              /\ OnlyJumps(cfg, Noted(cfg)[m]) /\ TargetsIn(Noted(cfg)[m].code) = {Noted(cfg)[m].code[1].to}
         /\ \A j, k \in DOMAIN Noted(cfg) : Noted(cfg)[j].label = Noted(cfg)[k].label => j = k
<1> DEFINE set == {b \in ToSet(cfg.blocks) : OnlyJumps(cfg, b)}
           q == Noted(cfg)
<1>1. q = Only(cfg.blocks, set)
  BY DEF Noted
<1>2. \A b \in set : b \in ToSet(cfg.blocks) /\ OnlyJumps(cfg, b)
  OBVIOUS
<1> HIDE DEF set, q
<1>3. LabelsOnce(cfg.blocks)
  BY DEF Sound
<1>4. q \in Seq(Blocks(n)) /\ ToSet(q) = ToSet(cfg.blocks) \cap set /\ LabelsOnce(q)
  BY <1>1, <1>3, SomeBlocks
<1>5. Len(q) \in Nat /\ DOMAIN q = 1..Len(q)
  BY <1>4
<1>6. ASSUME NEW m \in DOMAIN q
      PROVE  /\ q[m] \in Blocks(n) /\ q[m] \in ToSet(cfg.blocks) /\ OnlyJumps(cfg, q[m])
             /\ TargetsIn(q[m].code) = {q[m].code[1].to}
  <2>1. q[m] \in ToSet(q) /\ q[m] \in Blocks(n)
    BY <1>4, <1>5 DEF ToSet
  <2>2. q[m] \in ToSet(cfg.blocks) /\ OnlyJumps(cfg, q[m])
    BY <1>2, <1>4, <2>1
  <2>3. Tidy(q[m])
    BY <2>2 DEF Sound
  <2>4. Len(q[m].code) = 1 /\ q[m].code[1].op = "jump"
    BY <2>2 DEF OnlyJumps
  <2>5. TargetsIn(q[m].code) = {q[m].code[1].to}
    BY <2>1, <2>3, <2>4, OnlyJumpLeads
  <2> QED BY <2>1, <2>2, <2>5
<1> QED BY <1>4, <1>5, <1>6 DEF LabelsOnce, q

(* Bypassing them all keeps a graph sound then.                            *)
LEMMA EliminateEmptyJumpsSound ==
  ASSUME NEW N \in Nat, NEW cfg \in Graphs(N), Sound(cfg), NoneBack(cfg)
  PROVE  Sound(EliminateEmptyJumps(cfg))
<1> DEFINE seq == Noted(cfg)
           start == cfg
           n == Len(seq)
           A == Graphs(N)
           op(c, b) == Bypass(c, b)
           g == [p \in A \X (1..n) |-> op(p[1], seq[p[2]])]
           Is(f) == f = [m \in 0..n |-> IF m = 0 THEN start ELSE op(f[m - 1], seq[m])]
           after == CHOOSE f : Is(f)
<1>1. n \in Nat /\ start \in A
  BY NotedAre
<1>2. \A a \in A, m \in 1..n : op(a, seq[m]) \in A
  <2>1. \A m \in 1..n : seq[m] \in Blocks(N) /\ Len(seq[m].code) = 1
    BY NotedAre DEF OnlyJumps
  <2> HIDE DEF n, seq
  <2> QED BY <2>1, BypassType
<1>20. EliminateEmptyJumps(cfg) = Fold(Bypass, cfg, seq)
  BY DEF EliminateEmptyJumps, Noted
<1>21. /\ DOMAIN seq = 1..n
       /\ \A m \in 1..n : seq[m] \in ToSet(cfg.blocks) /\ OnlyJumps(cfg, seq[m])
                          /\ TargetsIn(seq[m].code) = {seq[m].code[1].to}
       /\ \A j, k \in 1..n : seq[j].label = seq[k].label => j = k
       /\ \A j, k \in 1..n : j < k => seq[k].code[1].to # seq[j].label
  BY NotedAre DEF NoneBack
<1> HIDE DEF op, A, n, start, seq
<1>3. g \in [A \X (1..n) -> A]
  BY <1>2
<1>4. PICK f : Folded(f, A, n, start, g)
  <2> HIDE DEF g
  <2> QED BY <1>1, <1>3, FoldExists
<1>5. Is(f)
  <2>1. ASSUME NEW m \in 1..n PROVE f[m] = op(f[m - 1], seq[m])
    <3>1. m - 1 \in 0..n /\ m \in 1..n
      BY <1>1
    <3>2. f[m - 1] \in A /\ f[m] = g[<<f[m - 1], m>>]
      <4> HIDE DEF g
      <4> QED BY <1>4, <3>1 DEF Folded
    <3> QED BY <3>1, <3>2
  <2> HIDE DEF g
  <2> QED BY <1>1, <1>4, <2>1 DEF Folded
<1>6. Is(after)
  <2> HIDE DEF Is
  <2> QED BY <1>5
<1>7. after[0] = start /\ \A m \in 1..n : after[m] = op(after[m - 1], seq[m])
  <2> HIDE DEF after
  <2>1. \A m \in 1..n : m \in 0..n /\ m # 0
    BY <1>1
  <2> QED BY <1>1, <1>6, <2>1
<1> HIDE DEF after
<1> DEFINE all(m) == /\ after[m] \in A /\ Sound(after[m]) /\ after[m].entry = cfg.entry
                     /\ \A k \in 1..n : k > m => \E y \in ToSet(after[m].blocks) :
                                                   y.label = seq[k].label /\ y.code = seq[k].code
           h == [m \in 0..n |-> all(m)]
<1>8. all(0)
  <2>1. \A k \in 1..n : \E y \in ToSet(cfg.blocks) : y.label = seq[k].label /\ y.code = seq[k].code
    BY <1>21
  <2>2. after[0] = cfg
    BY <1>7 DEF start
  <2> QED BY <1>1, <2>1, <2>2 DEF start
<1>9. ASSUME NEW m \in 1..n, all(m - 1) PROVE all(m)
  <2> DEFINE c == after[m - 1]
             e == seq[m]
  <2>1. c \in Graphs(N) /\ Sound(c) /\ c.entry = cfg.entry /\ after[m] = Bypass(c, e)
    BY <1>7, <1>9 DEF op, A
  <2>2. OnlyJumps(cfg, e) /\ (\A k \in 1..n : k > m => seq[k].label # e.label /\ seq[k].code[1].to # e.label)
    BY <1>1, <1>21
  <2>3. m > m - 1 /\ (\A k \in 1..n : k > m => k > m - 1)
    BY <1>1
  <2>4. PICK y \in ToSet(c.blocks) : y.label = e.label /\ y.code = e.code
    BY <1>9, <2>3
  <2>5. \A k \in 1..n : k > m => \E x \in ToSet(c.blocks) : x.label = seq[k].label /\ x.code = seq[k].code
    BY <1>9, <2>3
  <2> HIDE DEF c, e
  <2>6. e.label # c.entry /\ Len(e.code) = 1 /\ e.code[1].op = "jump" /\ e.code[1].to # e.label
    BY <2>1, <2>2 DEF OnlyJumps
  <2>7. /\ Sound(Bypass(c, e)) /\ Bypass(c, e).entry = c.entry
        /\ \A x \in ToSet(c.blocks) : x.label # e.label /\ e.label \notin TargetsIn(x.code) =>
             \E z \in ToSet(Bypass(c, e).blocks) : z.label = x.label /\ z.code = x.code
    BY <2>1, <2>4, <2>6, BypassSound
  <2>8. after[m] \in A
    BY <1>2, <1>9, <2>1 DEF op, c, e
  <2>9. ASSUME NEW k \in 1..n, k > m
        PROVE  \E z \in ToSet(after[m].blocks) : z.label = seq[k].label /\ z.code = seq[k].code
    <3>1. PICK x \in ToSet(c.blocks) : x.label = seq[k].label /\ x.code = seq[k].code
      BY <2>5, <2>9
    <3>2. seq[k].label # e.label /\ seq[k].code[1].to # e.label
      BY <2>2, <2>9
    <3>3. TargetsIn(seq[k].code) = {seq[k].code[1].to}
      BY <1>21, <2>9
    <3>4. x.label # e.label /\ e.label \notin TargetsIn(x.code)
      BY <3>1, <3>2, <3>3
    <3> QED BY <2>1, <2>7, <3>1, <3>4
  <2> QED BY <2>1, <2>7, <2>8, <2>9
<1>10. h[n] \in {TRUE}
  <2>1. Carries(h, {TRUE}, n)
    <3> HIDE DEF all
    <3>1. h[0] = all(0) /\ \A m \in 1..n : m - 1 \in 0..n /\ h[m] = all(m) /\ h[m - 1] = all(m - 1)
      BY <1>1
    <3>2. h[0] \in {TRUE}
      BY <1>8, <3>1
    <3>3. ASSUME NEW m \in 1..n, h[m - 1] \in {TRUE} PROVE h[m] \in {TRUE}
      <4>1. all(m - 1)
        BY <3>1, <3>3
      <4>2. all(m)
        BY <1>9, <4>1
      <4> QED BY <3>1, <4>2
    <3> HIDE DEF h
    <3> QED BY <3>2, <3>3 DEF Carries
  <2> HIDE DEF h
  <2> QED BY <1>1, <2>1, FoldKeeps
<1>11. all(n)
  <2> HIDE DEF all
  <2> QED BY <1>1, <1>10
<1>12. EliminateEmptyJumps(cfg) = after[n]
  BY <1>20 DEF Fold, op, n, start, seq, after
<1> QED BY <1>11, <1>12

(* simplify_cfg, turn by turn.                                             *)
Turns(cfg) ==
  LET turn[m \in 0..MAX_PASSES] == IF m = 0 THEN cfg ELSE SimplifyOnce(turn[m - 1]) IN turn

(* In none of the turns does an empty block jump back to one bypassed      *)
(* before it.                                                              *)
NeverBack(cfg) == \A m \in 0..(MAX_PASSES - 1) : NoneBack(RemoveUnreachable(Turns(cfg)[m]))

(* A turn keeps a graph sound then.                                        *)
LEMMA SimplifyOnceSound ==
  ASSUME NEW n \in Nat, NEW cfg \in Graphs(n), Sound(cfg), NoneBack(RemoveUnreachable(cfg))
  PROVE  Sound(SimplifyOnce(cfg))
<1>1. RemoveUnreachable(cfg) \in Graphs(n) /\ Sound(RemoveUnreachable(cfg))
  BY RemoveUnreachableType, RemoveUnreachableSound
<1> DEFINE c == RemoveUnreachable(cfg)
<1> HIDE DEF c
<1>2. EliminateEmptyJumps(c) \in Graphs(n) /\ Sound(EliminateEmptyJumps(c))
  BY <1>1, EliminateEmptyJumpsType, EliminateEmptyJumpsSound DEF c
<1>3. Sound(MergeBlocks(EliminateEmptyJumps(c)))
  BY <1>2, MergeBlocksSound
<1> QED BY <1>3 DEF SimplifyOnce, c

(* The turns follow one another.                                           *)
LEMMA TurnsFollow ==
  ASSUME NEW N \in Nat, NEW cfg \in Graphs(N)
  PROVE  /\ Turns(cfg)[0] = cfg
         /\ \A m \in 1..MAX_PASSES : Turns(cfg)[m] = SimplifyOnce(Turns(cfg)[m - 1])
<1> DEFINE seq == [k \in 1..MAX_PASSES |-> k]
           start == cfg
           n == MAX_PASSES
           A == Graphs(N)
           op(c, k) == SimplifyOnce(c)
           g == [p \in A \X (1..n) |-> op(p[1], seq[p[2]])]
           Is(f) == f = [m \in 0..n |-> IF m = 0 THEN start ELSE op(f[m - 1], seq[m])]
           after == CHOOSE f : Is(f)
<1>1. n \in Nat /\ start \in A
  BY DEF MAX_PASSES
<1>2. \A a \in A, m \in 1..n : op(a, seq[m]) \in A
  BY SimplifyOnceType
<1> HIDE DEF op, A, n, start, seq
<1>3. g \in [A \X (1..n) -> A]
  BY <1>2
<1>4. PICK f : Folded(f, A, n, start, g)
  <2> HIDE DEF g
  <2> QED BY <1>1, <1>3, FoldExists
<1>5. Is(f)
  <2>1. ASSUME NEW m \in 1..n PROVE f[m] = op(f[m - 1], seq[m])
    <3>1. m - 1 \in 0..n /\ m \in 1..n
      BY <1>1
    <3>2. f[m - 1] \in A /\ f[m] = g[<<f[m - 1], m>>]
      <4> HIDE DEF g
      <4> QED BY <1>4, <3>1 DEF Folded
    <3> QED BY <3>1, <3>2
  <2> HIDE DEF g
  <2> QED BY <1>1, <1>4, <2>1 DEF Folded
<1>6. Is(after)
  <2> HIDE DEF Is
  <2> QED BY <1>5
<1>7. after[0] = start /\ \A m \in 1..n : after[m] = op(after[m - 1], seq[m])
  <2> HIDE DEF after
  <2>1. \A m \in 1..n : m \in 0..n /\ m # 0
    BY <1>1
  <2> QED BY <1>1, <1>6, <2>1
<1>8. Turns(cfg) = after
  BY DEF Turns, after, op, n, start
<1> HIDE DEF after
<1> QED BY <1>7, <1>8 DEF op, n, start

(* simplify_cfg leaves a sound graph sound if in none of its turns       *)
(* eliminate_empty_jumps meets an empty block that jumps back to one it  *)
(* has bypassed before: its list of such blocks is made first, and is not*)
(* of the graph it then changes.                                         *)
THEOREM SimplifyCfgSound ==
  ASSUME NEW N \in Nat, NEW cfg \in Graphs(N), Sound(cfg), NeverBack(cfg)
  PROVE  Sound(SimplifyCfg(cfg))
<1> DEFINE seq == [k \in 1..MAX_PASSES |-> k]
           start == [is |-> cfg, same |-> FALSE]
           n == Len(seq)
           A == [is : Graphs(N), same : BOOLEAN]
           op(acc, k) == IF acc.same THEN acc ELSE [is |-> SimplifyOnce(acc.is), same |-> SimplifyOnce(acc.is) = acc.is]
           g == [p \in A \X (1..n) |-> op(p[1], seq[p[2]])]
           Is(f) == f = [m \in 0..n |-> IF m = 0 THEN start ELSE op(f[m - 1], seq[m])]
           after == CHOOSE f : Is(f)
<1>1. n \in Nat /\ start \in A
  BY DEF MAX_PASSES
<1>2. \A a \in A, m \in 1..n : op(a, seq[m]) \in A
  <2> SUFFICES ASSUME NEW a \in A, NEW m \in 1..n PROVE op(a, seq[m]) \in A
    OBVIOUS
  <2>1. SimplifyOnce(a.is) \in Graphs(N)
    BY SimplifyOnceType
  <2> QED BY <2>1
<1>20. n = MAX_PASSES
  BY DEF MAX_PASSES
<1>21. /\ Turns(cfg)[0] = cfg
       /\ \A m \in 1..n : /\ Turns(cfg)[m] = SimplifyOnce(Turns(cfg)[m - 1])
                          /\ NoneBack(RemoveUnreachable(Turns(cfg)[m - 1]))
  <2>1. \A m \in 1..n : m - 1 \in 0..(MAX_PASSES - 1) /\ m \in 1..MAX_PASSES
    BY DEF MAX_PASSES
  <2> HIDE DEF n
  <2> QED BY <2>1, TurnsFollow DEF NeverBack
<1> HIDE DEF op, A, n, start, seq
<1>3. g \in [A \X (1..n) -> A]
  BY <1>2
<1>4. PICK f : Folded(f, A, n, start, g)
  <2> HIDE DEF g
  <2> QED BY <1>1, <1>3, FoldExists
<1>5. Is(f)
  <2>1. ASSUME NEW m \in 1..n PROVE f[m] = op(f[m - 1], seq[m])
    <3>1. m - 1 \in 0..n /\ m \in 1..n
      BY <1>1
    <3>2. f[m - 1] \in A /\ f[m] = g[<<f[m - 1], m>>]
      <4> HIDE DEF g
      <4> QED BY <1>4, <3>1 DEF Folded
    <3> QED BY <3>1, <3>2
  <2> HIDE DEF g
  <2> QED BY <1>1, <1>4, <2>1 DEF Folded
<1>6. Is(after)
  <2> HIDE DEF Is
  <2> QED BY <1>5
<1>7. after[0] = start /\ \A m \in 1..n : after[m] = op(after[m - 1], seq[m])
  <2> HIDE DEF after
  <2>1. \A m \in 1..n : m \in 0..n /\ m # 0
    BY <1>1
  <2> QED BY <1>1, <1>6, <2>1
<1> HIDE DEF after
<1> DEFINE all(m) == /\ after[m] \in A /\ Sound(after[m].is) /\ after[m].is = Turns(cfg)[m]
                     /\ after[m].same => SimplifyOnce(after[m].is) = after[m].is
           h == [m \in 0..n |-> all(m)]
<1>8. all(0)
  <2>1. after[0] = start /\ start.is = cfg /\ ~ start.same
    BY <1>7 DEF start
  <2> QED BY <1>1, <1>21, <2>1
<1>9. ASSUME NEW m \in 1..n, all(m - 1) PROVE all(m)
  <2> DEFINE a == after[m - 1]
             t == Turns(cfg)[m - 1]
             s == SimplifyOnce(t)
  <2>1. /\ a \in A /\ Sound(a.is) /\ a.is = t /\ (a.same => s = t)
        /\ after[m] = op(a, seq[m]) /\ Turns(cfg)[m] = s /\ NoneBack(RemoveUnreachable(t))
    BY <1>7, <1>9, <1>21
  <2>2. after[m] \in A
    BY <1>2, <2>1
  <2>3. t \in Graphs(N)
    BY <2>1 DEF A
  <2>4. Sound(s)
    BY <2>1, <2>3, SimplifyOnceSound
  <2> HIDE DEF s, t, a
  <2>5. op(a, seq[m]) = IF a.same THEN a ELSE [is |-> s, same |-> s = t]
    BY <2>1 DEF op, s
  <2>6. CASE a.same
    <3>1. after[m] = a /\ s = t
      BY <2>1, <2>5, <2>6
    <3>2. SimplifyOnce(a.is) = a.is
      BY <2>1, <3>1 DEF s
    <3> QED BY <2>1, <2>2, <3>1, <3>2
  <2>7. CASE ~ a.same
    <3> DEFINE b == s = t
    <3>3. after[m] = [is |-> s, same |-> b]
      BY <2>1, <2>5, <2>7
    <3> HIDE DEF b
    <3>4. after[m].is = s /\ after[m].same = b
      BY <3>3
    <3>1. after[m].is = s /\ (after[m].same => s = t)
      BY <3>4 DEF b
    <3>2. s = t => SimplifyOnce(s) = s
      BY DEF s
    <3> QED BY <2>1, <2>2, <2>4, <3>1, <3>2
  <2> QED BY <2>6, <2>7
<1>10. h[n] \in {TRUE}
  <2>1. Carries(h, {TRUE}, n)
    <3> HIDE DEF all
    <3>1. h[0] = all(0) /\ \A m \in 1..n : m - 1 \in 0..n /\ h[m] = all(m) /\ h[m - 1] = all(m - 1)
      BY <1>1
    <3>2. h[0] \in {TRUE}
      BY <1>8, <3>1
    <3>3. ASSUME NEW m \in 1..n, h[m - 1] \in {TRUE} PROVE h[m] \in {TRUE}
      <4>1. all(m - 1)
        BY <3>1, <3>3
      <4>2. all(m)
        BY <1>9, <4>1
      <4> QED BY <3>1, <4>2
    <3> HIDE DEF h
    <3> QED BY <3>2, <3>3 DEF Carries
  <2> HIDE DEF h
  <2> QED BY <1>1, <2>1, FoldKeeps
<1>11. all(n)
  <2> HIDE DEF all
  <2> QED BY <1>1, <1>10
<1>12. SimplifyCfg(cfg) = after[n].is
  BY DEF SimplifyCfg, Repeated, Fold, op, n, start, seq, after
<1> QED BY <1>11, <1>12

-----------------------------------------------------------------------------
(* Code that goes nowhere.                                                 *)
Plain(c) == \A k \in DOMAIN c : ~ IsTerminator(c[k])

(* Code that leads where other code does.                                  *)
Alike(c, d) ==
  /\ EndOf(d) = EndOf(c) /\ TargetsIn(d) = TargetsIn(c)
  /\ EndsOnce(c) => EndsOnce(d)

(* Code that goes nowhere in front changes nothing of that.                *)
LEMMA PlainInFront ==
  ASSUME NEW S, NEW c \in Seq(S), NEW d \in Seq(S), Plain(c)
  PROVE  /\ EndOf(c \o d) = EndOf(d) /\ TargetsIn(c \o d) = TargetsIn(d)
         /\ EndsOnce(c \o d) <=> EndsOnce(d)
<1> DEFINE j == c \o d
           C == Len(c)
           D == Len(d)
<1>1. /\ C \in Nat /\ D \in Nat /\ DOMAIN c = 1..C /\ DOMAIN d = 1..D /\ DOMAIN j = 1..(C + D)
      /\ Len(j) = C + D
      /\ \A k \in 1..(C + D) : j[k] = IF k <= C THEN c[k] ELSE d[k - C]
  OBVIOUS
<1> HIDE DEF j, C, D
<1>2. ASSUME NEW k \in 1..(C + D), IsTerminator(j[k]) PROVE k - C \in 1..D /\ j[k] = d[k - C]
  <2>1. CASE k <= C
    <3>1. k \in 1..C /\ j[k] = c[k]
      BY <1>1, <2>1
    <3> QED BY <1>1, <1>2, <3>1 DEF Plain
  <2>2. CASE ~ (k <= C)
    BY <1>1, <2>2
  <2> QED BY <2>1, <2>2
<1>3. ASSUME NEW m \in 1..D PROVE m + C \in 1..(C + D) /\ j[m + C] = d[m]
  <2>1. m + C \in 1..(C + D) /\ ~ (m + C <= C) /\ m + C - C = m
    BY <1>1
  <2>2. j[m + C] = IF m + C <= C THEN c[m + C] ELSE d[m + C - C]
    BY <1>1, <2>1
  <2> QED BY <2>1, <2>2
<1>4. ASSUME NEW m \in 1..D PROVE LastTerminator(d, m) <=> LastTerminator(j, m + C)
  <2>1. \A p \in (m + 1)..D : p + C \in (m + C + 1)..(C + D) /\ p \in 1..D
    BY <1>1
  <2>2. \A p \in (m + C + 1)..(C + D) : p - C \in (m + 1)..D /\ p - C \in 1..D /\ p - C + C = p
    BY <1>1
  <2>3. /\ \A p \in (m + 1)..D : j[p + C] = d[p]
        /\ \A p \in (m + C + 1)..(C + D) : j[p] = d[p - C]
    <3>1. ASSUME NEW p \in (m + C + 1)..(C + D) PROVE j[p] = d[p - C]
      <4>1. p - C \in 1..D /\ p - C + C = p
        BY <2>2
      <4>2. j[p - C + C] = d[p - C]
        BY <1>3, <4>1
      <4> QED BY <4>1, <4>2
    <3> QED BY <1>3, <2>1, <3>1
  <2>4. Len(d) = D /\ Len(j) = C + D /\ j[m + C] = d[m]
    BY <1>1, <1>3 DEF D
  <2>5. ASSUME LastTerminator(d, m) PROVE LastTerminator(j, m + C)
    BY <2>2, <2>3, <2>4, <2>5 DEF LastTerminator
  <2>6. ASSUME LastTerminator(j, m + C) PROVE LastTerminator(d, m)
    BY <2>1, <2>3, <2>4, <2>6 DEF LastTerminator
  <2> QED BY <2>5, <2>6
<1>5. EndOf(j) = EndOf(d)
  <2>1. ASSUME NEW k \in 1..(C + D), LastTerminator(j, k) PROVE Jumped(j[k]) \in EndOf(d)
    <3>1. k - C \in 1..D /\ j[k] = d[k - C] /\ k - C + C = k
      BY <1>1, <1>2, <2>1 DEF LastTerminator
    <3>2. LastTerminator(d, k - C)
      BY <1>4, <2>1, <3>1
    <3> QED BY <1>1, <3>1, <3>2 DEF EndOf
  <2>2. ASSUME NEW m \in 1..D, LastTerminator(d, m) PROVE Jumped(d[m]) \in EndOf(j)
    BY <1>1, <1>3, <1>4, <2>2 DEF EndOf
  <2> QED BY <1>1, <2>1, <2>2 DEF EndOf
<1>6. TargetsIn(j) = TargetsIn(d)
  <2>1. TargetsIn(j) = TargetsIn(c) \cup TargetsIn(d)
    BY JoinedMembers DEF j
  <2>2. TargetsIn(c) = {}
    BY DEF TargetsIn, ToSet, Plain, IsTerminator
  <2> QED BY <2>1, <2>2
<1>7. EndsOnce(j) <=> EndsOnce(d)
  <2>1. ASSUME EndsOnce(d), NEW k \in 1..(C + D), Leaves(j[k]) PROVE k = C + D
    <3>1. k - C \in 1..D /\ j[k] = d[k - C]
      BY <1>2, <2>1 DEF Leaves, IsTerminator
    <3>2. k - C = D
      BY <1>1, <2>1, <3>1 DEF EndsOnce, D
    <3> QED BY <1>1, <3>2
  <2>2. ASSUME EndsOnce(j), NEW m \in 1..D, Leaves(d[m]) PROVE m = D
    <3>1. m + C = C + D
      BY <1>1, <1>3, <2>2 DEF EndsOnce
    <3> QED BY <1>1, <3>1
  <2> QED BY <1>1, <2>1, <2>2 DEF EndsOnce, D
<1> QED BY <1>5, <1>6, <1>7 DEF j

(* Code is what comes before a place and what comes from there.            *)
LEMMA SplitIs ==
  ASSUME NEW S, NEW code \in Seq(S), NEW at \in 1..(Len(code) + 1)
  PROVE  /\ SubSeq(code, 1, at - 1) \in Seq(S) /\ SubSeq(code, at, Len(code)) \in Seq(S)
         /\ code = SubSeq(code, 1, at - 1) \o SubSeq(code, at, Len(code))
<1> DEFINE n == Len(code)
           x == SubSeq(code, 1, at - 1)
           y == SubSeq(code, at, n)
           j == x \o y
<1>1. n \in Nat /\ DOMAIN code = 1..n /\ at \in Int /\ 1 <= at /\ at <= n + 1
  OBVIOUS
<1>2. x \in Seq(S) /\ Len(x) = at - 1 /\ \A k \in 1..(at - 1) : x[k] = code[k]
  BY <1>1
<1>3. y \in Seq(S) /\ Len(y) = n - at + 1 /\ \A k \in 1..(n - at + 1) : y[k] = code[k + at - 1]
  <2>1. at - 1 + (n - at + 1) = n
    BY <1>1
  <2> QED BY <1>1, <2>1
<1> HIDE DEF x, y, n
<1>4. /\ DOMAIN j = 1..(Len(x) + Len(y)) /\ Len(j) = Len(x) + Len(y) /\ j \in Seq(S)
      /\ \A k \in 1..(Len(x) + Len(y)) : j[k] = IF k <= Len(x) THEN x[k] ELSE y[k - Len(x)]
  <2>1. x \in Seq(S) /\ y \in Seq(S)
    BY <1>2, <1>3
  <2> QED BY ONLY <2>1
<1> HIDE DEF j
<1>5. Len(x) + Len(y) = n
  BY <1>1, <1>2, <1>3
<1>6. ASSUME NEW k \in 1..n PROVE j[k] = code[k]
  <2>1. CASE k <= at - 1
    <3>1. k \in 1..(at - 1) /\ k <= Len(x)
      BY <1>1, <1>2, <2>1
    <3>2. k \in 1..(Len(x) + Len(y))
      BY <1>5
    <3> QED BY <1>2, <1>4, <3>1, <3>2
  <2>2. CASE ~ (k <= at - 1)
    <3>1. k - (at - 1) \in 1..(n - at + 1) /\ k - (at - 1) + at - 1 = k
      BY <1>1, <2>2
    <3>2. y[k - (at - 1)] = code[k]
      <4> DEFINE r == k - (at - 1)
      <4>1. r \in 1..(n - at + 1) /\ r + at - 1 = k
        BY <3>1
      <4> HIDE DEF r
      <4>2. y[r] = code[r + at - 1]
        BY <1>3, <4>1
      <4> QED BY <4>1, <4>2 DEF r
    <3>3. j[k] = y[k - (at - 1)]
      <4>1. k \in 1..(Len(x) + Len(y)) /\ ~ (k <= Len(x))
        BY <1>2, <1>5, <2>2
      <4>2. j[k] = y[k - Len(x)]
        BY <1>4, <4>1
      <4> QED BY <1>2, <4>2
    <3> QED BY <3>2, <3>3
  <2> QED BY <2>1, <2>2
<1>7. j = code
  <2>1. j \in [1..n -> S] /\ code \in [1..n -> S]
    BY <1>1, <1>4, <1>5
  <2>2. j = [k \in 1..n |-> j[k]] /\ code = [k \in 1..n |-> code[k]]
    BY <2>1
  <2>3. [k \in 1..n |-> j[k]] = [k \in 1..n |-> code[k]]
    BY <1>6
  <2> QED BY <2>2, <2>3
<1> QED BY <1>2, <1>3, <1>7 DEF x, y, j, n

(* Nor does code that goes nowhere put before the terminator.              *)
LEMMA BeforeTerminatorAlike ==
  ASSUME NEW S, NEW code \in Seq(S), NEW more \in Seq(S), Plain(more)
  PROVE  Alike(code, BeforeTerminator(code, more))
<1> DEFINE ends == {k \in DOMAIN code : IsTerminator(code[k])}
           at == IF ends = {} THEN Len(code) + 1 ELSE CHOOSE k \in ends : \A j \in ends : k <= j
           x == SubSeq(code, 1, at - 1)
           y == SubSeq(code, at, Len(code))
<1>1. at \in 1..(Len(code) + 1) /\ \A k \in 1..(at - 1) : k \in DOMAIN code /\ ~ IsTerminator(code[k])
  <2>1. ends \subseteq Nat /\ ends \subseteq 1..Len(code) /\ DOMAIN code = 1..Len(code) /\ Len(code) \in Nat
    OBVIOUS
  <2>0. \A k \in DOMAIN code : IsTerminator(code[k]) => k \in ends
    OBVIOUS
  <2> HIDE DEF ends
  <2>2. CASE ends = {}
    BY <2>0, <2>1, <2>2
  <2>3. CASE ends # {}
    <3>1. \E k \in ends : \A j \in ends : k <= j
      BY <2>1, <2>3, LeastNumber
    <3>2. at \in ends /\ \A j \in ends : at <= j
      BY <2>3, <3>1
    <3> HIDE DEF at
    <3>3. \A k \in 1..(at - 1) : k \in DOMAIN code /\ ~ (at <= k)
      BY <2>1, <3>2
    <3> QED BY <2>0, <2>1, <3>2, <3>3
  <2> QED BY <2>2, <2>3
<1>2. BeforeTerminator(code, more) = x \o more \o y
  BY DEF BeforeTerminator
<1> HIDE DEF at
<1>3. x \in Seq(S) /\ y \in Seq(S) /\ DOMAIN x = 1..(at - 1) /\ \A k \in 1..(at - 1) : x[k] = code[k]
  BY <1>1
<1>4. code = x \o y
  BY <1>1, SplitIs
<1> HIDE DEF x, y
<1>5. Plain(x)
  BY <1>1, <1>3 DEF Plain
<1>6. Plain(x \o more) /\ x \o more \in Seq(S)
  <2>1. /\ DOMAIN x = 1..Len(x) /\ DOMAIN more = 1..Len(more) /\ Len(x) \in Nat /\ Len(more) \in Nat
        /\ DOMAIN (x \o more) = 1..(Len(x) + Len(more)) /\ x \o more \in Seq(S)
        /\ \A k \in 1..(Len(x) + Len(more)) :
             (x \o more)[k] = IF k <= Len(x) THEN x[k] ELSE more[k - Len(x)]
    <3>1. x \in Seq(S) /\ more \in Seq(S)
      BY <1>3
    <3> QED BY ONLY <3>1
  <2>2. ASSUME NEW k \in 1..(Len(x) + Len(more)) PROVE ~ IsTerminator((x \o more)[k])
    <3>1. CASE k <= Len(x)
      <4>1. k \in DOMAIN x /\ (x \o more)[k] = x[k]
        BY <2>1, <3>1
      <4> QED BY <1>5, <4>1 DEF Plain
    <3>2. CASE ~ (k <= Len(x))
      <4>1. k - Len(x) \in DOMAIN more /\ (x \o more)[k] = more[k - Len(x)]
        BY <2>1, <3>2
      <4> QED BY <4>1 DEF Plain
    <3> QED BY <3>1, <3>2
  <2> QED BY <2>1, <2>2 DEF Plain
<1>7. /\ EndOf(x \o y) = EndOf(y) /\ TargetsIn(x \o y) = TargetsIn(y) /\ (EndsOnce(x \o y) <=> EndsOnce(y))
  BY <1>3, <1>5, PlainInFront
<1> DEFINE z == x \o more
<1> HIDE DEF z
<1>8. /\ EndOf(z \o y) = EndOf(y) /\ TargetsIn(z \o y) = TargetsIn(y) /\ (EndsOnce(z \o y) <=> EndsOnce(y))
  BY <1>3, <1>6, PlainInFront DEF z
<1>9. BeforeTerminator(code, more) = z \o y
  BY <1>2 DEF z
<1> QED BY <1>4, <1>7, <1>8, <1>9 DEF Alike

(* What is left of the code c of block l leads where c does, and what is   *)
(* taken out goes nowhere; what is left of other blocks is not touched.    *)
IsLeft(l, acc, c) == SameFlow(c, acc.left[l]) /\ Plain(acc.hoisted)
OthersLeft(lp, l, acc, new) == \A m \in lp.body \ {l} : new.left[m] = acc.left[m]

(* An instruction taken out of a block goes nowhere; one left goes where   *)
(* it went.                                                                *)
LEMMA TakeOrLeaveFlow ==
  ASSUME NEW n, NEW cfg, NEW lp, NEW l \in Int, l \in lp.body, NEW acc \in Split(n, lp.body), NEW i \in Unlabelled(n),
         NEW c \in Seq(Unlabelled(n)), IsLeft(l, acc, c),
         NEW new, new = TakeOrLeave(cfg, lp, l, acc, i)
  PROVE  IsLeft(l, new, Append(c, i)) /\ OthersLeft(lp, l, acc, new)
<1> DEFINE took == [acc EXCEPT !.hoisted = Append(@, i)]
           leaves == [acc EXCEPT !.left[l] = Append(@, i)]
<1>1. /\ acc.left \in [lp.body -> Seq(Unlabelled(n))] /\ acc.hoisted \in Seq(Unlabelled(n))
      /\ acc = [left |-> acc.left, hoisted |-> acc.hoisted] /\ acc.left[l] \in Seq(Unlabelled(n))
  BY DEF Split
<1>0. SameFlow(c, acc.left[l]) /\ Plain(acc.hoisted)
  BY DEF IsLeft
<1>2. /\ took.left = acc.left /\ took.hoisted = Append(acc.hoisted, i)
      /\ leaves.left = [acc.left EXCEPT ![l] = Append(@, i)] /\ leaves.hoisted = acc.hoisted
  <2> DEFINE L == [acc.left EXCEPT ![l] = Append(@, i)]
             H == Append(acc.hoisted, i)
  <2>1. took = [acc EXCEPT !.hoisted = H] /\ leaves = [acc EXCEPT !.left = L]
    OBVIOUS
  <2> HIDE DEF L, H, took, leaves
  <2> QED BY <1>1, <2>1 DEF L, H
<1>3. (new = took /\ i.op \in {"const", "move"}) \/ new = leaves
  BY DEF TakeOrLeave, IsHoistable
<1> HIDE DEF took, leaves
<1>4. CASE new = took /\ i.op \in {"const", "move"}
  <2>1. ~ IsTerminator(i)
    BY <1>4 DEF IsTerminator
  <2>2. SameFlow(Append(c, i), acc.left[l])
    BY <1>0, <1>1, <2>1, FlowDropped
  <2>3. Plain(Append(acc.hoisted, i))
    <3> DEFINE h == acc.hoisted
    <3>1. h \in Seq(Unlabelled(n)) /\ Plain(h)
      BY <1>0, <1>1
    <3> HIDE DEF h
    <3>2. /\ DOMAIN Append(h, i) = 1..(Len(h) + 1) /\ Append(h, i)[Len(h) + 1] = i
          /\ \A j \in 1..Len(h) : Append(h, i)[j] = h[j]
          /\ \A j \in 1..(Len(h) + 1) : j \in 1..Len(h) \/ j = Len(h) + 1
          /\ DOMAIN h = 1..Len(h)
      BY <3>1, AppendFields
    <3>3. Plain(Append(h, i))
      BY <2>1, <3>1, <3>2 DEF Plain
    <3> QED BY <3>3 DEF h
  <2> QED BY <1>2, <1>4, <2>2, <2>3 DEF IsLeft, OthersLeft
<1>5. CASE new = leaves
  <2>1. SameFlow(Append(c, i), Append(acc.left[l], i))
    BY <1>0, <1>1, FlowAppended
  <2>2. /\ leaves.left[l] = Append(acc.left[l], i)
        /\ \A m \in lp.body \ {l} : leaves.left[m] = acc.left[m]
    BY <1>1, <1>2
  <2> QED BY <1>0, <1>2, <1>5, <2>1, <2>2 DEF IsLeft, OthersLeft
<1> QED BY <1>3, <1>4, <1>5

(* So it is with all of a block.                                           *)
LEMMA HoistFromBlockFlow ==
  ASSUME NEW N, NEW cfg \in Graphs(N), NEW lp, NEW l \in Int, l \in lp.body, NEW acc \in Split(N, lp.body),
         acc.left[l] = << >>, Plain(acc.hoisted),
         NEW new, new = HoistFromBlock(cfg, lp, acc, l)
  PROVE  IsLeft(l, new, Block(cfg, l).code) /\ OthersLeft(lp, l, acc, new)
<1> DEFINE seq == Block(cfg, l).code
           start == acc
           n == Len(seq)
           A == Split(N, lp.body)
           op(a, i) == TakeOrLeave(cfg, lp, l, a, i)
           g == [p \in A \X (1..n) |-> op(p[1], seq[p[2]])]
           Is(f) == f = [m \in 0..n |-> IF m = 0 THEN start ELSE op(f[m - 1], seq[m])]
           after == CHOOSE f : Is(f)
<1>1. n \in Nat /\ start \in A
  <2>1. seq \in Seq(Unlabelled(N))
    BY BlockType, BlockFields
  <2> QED BY <2>1
<1>20. seq \in Seq(Unlabelled(N))
  BY BlockType, BlockFields
<1>2. \A a \in A, m \in 1..n : op(a, seq[m]) \in A
  <2>1. \A m \in 1..n : seq[m] \in Unlabelled(N)
    BY <1>20
  <2> HIDE DEF n, seq
  <2> QED BY <2>1, TakeOrLeaveType
<1>21. seq \in Seq(Unlabelled(N)) /\ n = Len(seq)
  BY <1>20
<1> HIDE DEF op, A, n, start, seq
<1>3. g \in [A \X (1..n) -> A]
  BY <1>2
<1>4. PICK f : Folded(f, A, n, start, g)
  <2> HIDE DEF g
  <2> QED BY <1>1, <1>3, FoldExists
<1>5. Is(f)
  <2>1. ASSUME NEW m \in 1..n PROVE f[m] = op(f[m - 1], seq[m])
    <3>1. m - 1 \in 0..n /\ m \in 1..n
      BY <1>1
    <3>2. f[m - 1] \in A /\ f[m] = g[<<f[m - 1], m>>]
      <4> HIDE DEF g
      <4> QED BY <1>4, <3>1 DEF Folded
    <3> QED BY <3>1, <3>2
  <2> HIDE DEF g
  <2> QED BY <1>1, <1>4, <2>1 DEF Folded
<1>6. Is(after)
  <2> HIDE DEF Is
  <2> QED BY <1>5
<1>7. after[0] = start /\ \A m \in 1..n : after[m] = op(after[m - 1], seq[m])
  <2> HIDE DEF after
  <2>1. \A m \in 1..n : m \in 0..n /\ m # 0
    BY <1>1
  <2> QED BY <1>1, <1>6, <2>1
<1> HIDE DEF after
<1> DEFINE all(m) == /\ after[m] \in A /\ IsLeft(l, after[m], SubSeq(seq, 1, m))
                     /\ OthersLeft(lp, l, acc, after[m])
           h == [m \in 0..n |-> all(m)]
<1>8. all(0)
  <2>1. SubSeq(seq, 1, 0) = << >>
    BY <1>21, PrefixGrows
  <2>2. SameFlow(SubSeq(seq, 1, 0), acc.left[l])
    BY <2>1, NoFlow
  <2> QED BY <1>1, <1>7, <2>2 DEF start, IsLeft, OthersLeft
<1>9. ASSUME NEW m \in 1..n, all(m - 1) PROVE all(m)
  <2> DEFINE a == after[m - 1]
             c == SubSeq(seq, 1, m - 1)
             i == seq[m]
  <2>1. a \in A /\ after[m] = op(a, i) /\ IsLeft(l, a, c) /\ OthersLeft(lp, l, acc, a)
    BY <1>7, <1>9
  <2>2. after[m] \in A
    BY <1>2, <2>1
  <2>3. c \in Seq(Unlabelled(N)) /\ i \in Unlabelled(N) /\ SubSeq(seq, 1, m) = Append(c, i)
    BY <1>21, PrefixGrows
  <2> HIDE DEF a, c, i
  <2> DEFINE b == op(a, i)
  <2>4. IsLeft(l, b, Append(c, i)) /\ OthersLeft(lp, l, a, b)
    <3>1. a \in Split(N, lp.body) /\ l \in lp.body
      BY <2>1 DEF A
    <3>2. b = TakeOrLeave(cfg, lp, l, a, i)
      BY DEF op
    <3>3. i \in Unlabelled(N) /\ c \in Seq(Unlabelled(N)) /\ IsLeft(l, a, c)
      BY <2>1, <2>3
    <3> HIDE DEF b
    <3> QED BY ONLY <3>1, <3>2, <3>3, TakeOrLeaveFlow
  <2>5. OthersLeft(lp, l, acc, b)
    BY <2>1, <2>4 DEF OthersLeft
  <2> QED BY <2>1, <2>2, <2>3, <2>4, <2>5
<1>10. h[n] \in {TRUE}
  <2>1. Carries(h, {TRUE}, n)
    <3> HIDE DEF all
    <3>1. h[0] = all(0) /\ \A m \in 1..n : m - 1 \in 0..n /\ h[m] = all(m) /\ h[m - 1] = all(m - 1)
      BY <1>1
    <3>2. h[0] \in {TRUE}
      BY <1>8, <3>1
    <3>3. ASSUME NEW m \in 1..n, h[m - 1] \in {TRUE} PROVE h[m] \in {TRUE}
      <4>1. all(m - 1)
        BY <3>1, <3>3
      <4>2. all(m)
        BY <1>9, <4>1
      <4> QED BY <3>1, <4>2
    <3> HIDE DEF h
    <3> QED BY <3>2, <3>3 DEF Carries
  <2> HIDE DEF h
  <2> QED BY <1>1, <2>1, FoldKeeps
<1>11. all(n)
  <2> HIDE DEF all
  <2> QED BY <1>1, <1>10
<1>12. new = after[n]
  BY DEF HoistFromBlock, Fold, op, n, start, seq, after
<1>13. SubSeq(seq, 1, n) = seq
  BY <1>21, PrefixGrows
<1> QED BY <1>11, <1>12, <1>13 DEF seq

(* Blocks with other code that leads where theirs does.                    *)
Recoded(bs, ns) ==
  /\ DOMAIN ns = DOMAIN bs
  /\ \A k \in DOMAIN bs : /\ ns[k].label = bs[k].label /\ ns[k].succs = bs[k].succs
                          /\ ns[k].preds = bs[k].preds /\ Alike(bs[k].code, ns[k].code)

(* A graph of such blocks is sound if it was.                              *)
LEMMA RecodedSound ==
  ASSUME NEW n, NEW cfg \in Graphs(n), Sound(cfg), NEW ns, Recoded(cfg.blocks, ns)
  PROVE  Sound([cfg EXCEPT !.blocks = ns])
<1> DEFINE bs == cfg.blocks
<1>1. [cfg EXCEPT !.blocks = ns].blocks = ns /\ [cfg EXCEPT !.blocks = ns].entry = cfg.entry
  <2>1. cfg = [entry |-> cfg.entry, blocks |-> cfg.blocks]
    BY DEF Graphs
  <2> QED BY <2>1
<1>2. /\ DOMAIN ns = DOMAIN bs
      /\ \A k \in DOMAIN bs : /\ ns[k].label = bs[k].label /\ ns[k].succs = bs[k].succs
                              /\ ns[k].preds = bs[k].preds /\ Alike(bs[k].code, ns[k].code)
  BY DEF Recoded
<1>3. ToSet(bs) = {bs[k] : k \in DOMAIN bs} /\ ToSet(ns) = {ns[k] : k \in DOMAIN bs}
  BY <1>2 DEF ToSet
<1>4. /\ LabelsOnce(bs) /\ \E b \in ToSet(bs) : b.label = cfg.entry
      /\ \A b \in ToSet(bs) : Joins(ToSet(bs), b) /\ Tidy(b)
  BY DEF Sound
<1> HIDE DEF bs
<1>5. LabelsOnce(ns)
  BY <1>2, <1>4, SameLabels
<1>6. \E b \in ToSet(ns) : b.label = cfg.entry
  BY <1>2, <1>3, <1>4
<1>7. ASSUME NEW k \in DOMAIN bs PROVE Joins(ToSet(ns), ns[k]) /\ Tidy(ns[k])
  <2>1. bs[k] \in ToSet(bs) /\ Joins(ToSet(bs), bs[k]) /\ Tidy(bs[k])
    BY <1>3, <1>4
  <2>2. Joins(ToSet(ns), ns[k])
    BY <1>2, <1>3, <2>1 DEF Joins
  <2>3. Tidy(ns[k])
    BY <1>2, <2>1 DEF Tidy, Alike
  <2> QED BY <2>2, <2>3
<1>8. \A b \in ToSet(ns) : Joins(ToSet(ns), b) /\ Tidy(b)
  BY <1>3, <1>7
<1> QED BY <1>1, <1>5, <1>6, <1>8 DEF Sound

(* The blocks of a loop, its header first.                                 *)
InLoop(cfg, lp) == <<lp.header>> \o Only(Labels(cfg), lp.body \ {lp.header})

(* Each is there once, and all of the loop's that the graph has are there. *)
LEMMA InLoopAre ==
  ASSUME NEW n, NEW cfg \in Graphs(n), LabelsOnce(cfg.blocks),
         NEW lp, lp.header \in Int, lp.header \in lp.body
  PROVE  /\ InLoop(cfg, lp) \in Seq(Int) /\ Distinct(InLoop(cfg, lp))
         /\ \A k \in DOMAIN InLoop(cfg, lp) : InLoop(cfg, lp)[k] \in lp.body
         /\ \A b \in ToSet(cfg.blocks) : b.label \in lp.body =>
              \E k \in DOMAIN InLoop(cfg, lp) : InLoop(cfg, lp)[k] = b.label
<1> DEFINE h == lp.header
           S == lp.body \ {h}
           q == Labels(cfg)
           o == Only(q, S)
           s == <<h>> \o o
<1>1. q \in Seq(Int) /\ DOMAIN q = DOMAIN cfg.blocks /\ \A k \in DOMAIN cfg.blocks : q[k] = cfg.blocks[k].label
  <2> DEFINE f == [k \in DOMAIN cfg.blocks |-> cfg.blocks[k].label]
  <2>1. cfg.blocks \in Seq(Blocks(n)) /\ f \in [DOMAIN cfg.blocks -> Int]
    BY GraphFields, BlockFields
  <2>2. q = << >> \o f
    BY DEF Labels, Map
  <2>3. \A k \in DOMAIN cfg.blocks : f[k] = cfg.blocks[k].label
    OBVIOUS
  <2> DEFINE bs == cfg.blocks
  <2> HIDE DEF f, q, bs
  <2>4. /\ << >> \o f \in Seq(Int) /\ DOMAIN (<< >> \o f) = DOMAIN bs
        /\ \A k \in DOMAIN bs : (<< >> \o f)[k] = f[k]
    <3>1. bs \in Seq(Blocks(n)) /\ f \in [DOMAIN bs -> Int]
      BY <2>1 DEF bs
    <3> QED BY <3>1, MappedAre
  <2> QED BY <2>2, <2>3, <2>4 DEF bs
<1>2. Distinct(q)
  <2> HIDE DEF q
  <2> QED BY <1>1 DEF Distinct, LabelsOnce
<1> HIDE DEF q, S
<1>3. o \in Seq(Int) /\ Distinct(o) /\ ToSet(o) = ToSet(q) \cap S
  BY <1>1, <1>2, OnlySome, OnlyDistinct, OnlyOf
<1> HIDE DEF o
<1> DEFINE m == Len(o)
<1>4. /\ m \in Nat /\ DOMAIN o = 1..m /\ s \in Seq(Int) /\ DOMAIN s = 1..(m + 1) /\ s[1] = h
      /\ \A k \in 1..m : s[k + 1] = o[k]
  BY <1>3
<1>5. \A k \in 1..m : o[k] \in S /\ o[k] \in lp.body /\ o[k] # h
  <2>1. \A k \in 1..m : o[k] \in ToSet(o)
    BY <1>4 DEF ToSet
  <2> HIDE DEF m
  <2> QED BY <1>3, <2>1 DEF S
<1>6. \A k \in 1..(m + 1) : k = 1 \/ (k - 1 \in 1..m /\ s[k] = o[k - 1])
  <2>1. \A k \in 1..(m + 1) : k = 1 \/ (k - 1 \in 1..m /\ k - 1 + 1 = k)
    BY <1>4
  <2> HIDE DEF s
  <2> QED BY <1>4, <2>1
<1> HIDE DEF s, m
<1>7. \A k \in DOMAIN s : s[k] \in lp.body
  BY <1>4, <1>5, <1>6
<1>8. Distinct(s)
  <2> SUFFICES ASSUME NEW j \in 1..(m + 1), NEW k \in 1..(m + 1), s[j] = s[k] PROVE j = k
    BY <1>4 DEF Distinct
  <2>1. CASE j = 1
    BY <1>4, <1>5, <1>6, <2>1
  <2>2. CASE k = 1
    BY <1>4, <1>5, <1>6, <2>2
  <2>3. CASE j # 1 /\ k # 1
    <3>1. j - 1 \in 1..m /\ k - 1 \in 1..m /\ o[j - 1] = o[k - 1]
      BY <1>6, <2>3
    <3>2. j - 1 = k - 1
      BY <1>3, <1>4, <3>1 DEF Distinct
    <3> QED BY <1>4, <3>2
  <2> QED BY <2>1, <2>2, <2>3
<1>9. ASSUME NEW b \in ToSet(cfg.blocks), b.label \in lp.body PROVE \E k \in DOMAIN s : s[k] = b.label
  <2>1. CASE b.label = h
    <3>1. 1 \in 1..(m + 1)
      BY <1>4
    <3> QED BY <1>4, <2>1, <3>1
  <2>2. CASE b.label # h
    <3>1. b.label \in ToSet(q)
      BY <1>1 DEF ToSet
    <3>2. b.label \in ToSet(o)
      BY <1>3, <1>9, <2>2, <3>1 DEF S
    <3>3. PICK k \in 1..m : o[k] = b.label
      BY <1>4, <3>2 DEF ToSet
    <3>4. k + 1 \in 1..(m + 1) /\ s[k + 1] = b.label
      BY <1>4, <3>3
    <3> QED BY <1>4, <3>4
  <2> QED BY <2>1, <2>2
<1>10. InLoop(cfg, lp) = s
  BY DEF InLoop, s, o, S, q
<1> HIDE DEF h
<1> QED BY <1>4, <1>7, <1>8, <1>9, <1>10

(* What is left of the blocks of a loop leads where they did, and what is  *)
(* taken out goes nowhere.                                                 *)
LEMMA HoistFromFlow ==
  ASSUME NEW N, NEW cfg \in Graphs(N), LabelsOnce(cfg.blocks),
         NEW lp, lp.header \in Int, lp.header \in lp.body,
         NEW got, got = HoistFrom(cfg, lp)
  PROVE  /\ got \in Split(N, lp.body) /\ Plain(got.hoisted)
         /\ \A b \in ToSet(cfg.blocks) : b.label \in lp.body => SameFlow(b.code, got.left[b.label])
<1> DEFINE seq == InLoop(cfg, lp)
           start == [left |-> [l \in lp.body |-> << >>], hoisted |-> << >>]
           n == Len(seq)
           A == Split(N, lp.body)
           op(acc, l) == HoistFromBlock(cfg, lp, acc, l)
           g == [p \in A \X (1..n) |-> op(p[1], seq[p[2]])]
           Is(f) == f = [m \in 0..n |-> IF m = 0 THEN start ELSE op(f[m - 1], seq[m])]
           after == CHOOSE f : Is(f)
<1>1. n \in Nat /\ start \in A
  <2>1. seq \in Seq(Int)
    BY InLoopAre
  <2> HIDE DEF seq
  <2> QED BY <2>1 DEF Split
<1>2. \A a \in A, m \in 1..n : op(a, seq[m]) \in A
  <2>1. seq \in Seq(Int)
    BY InLoopAre
  <2>2. \A m \in 1..n : seq[m] \in Int
    BY <2>1
  <2> HIDE DEF n, seq
  <2> QED BY <2>2, HoistFromBlockType
<1>20. /\ DOMAIN seq = 1..n /\ \A k \in 1..n : seq[k] \in Int /\ seq[k] \in lp.body
       /\ \A j, k \in 1..n : seq[j] = seq[k] => j = k
       /\ \A b \in ToSet(cfg.blocks) : b.label \in lp.body => \E k \in 1..n : seq[k] = b.label
  <2>1. seq \in Seq(Int) /\ Distinct(seq) /\ (\A k \in DOMAIN seq : seq[k] \in lp.body)
        /\ \A b \in ToSet(cfg.blocks) : b.label \in lp.body => \E k \in DOMAIN seq : seq[k] = b.label
    BY InLoopAre
  <2> HIDE DEF seq
  <2>2. DOMAIN seq = 1..n /\ \A k \in 1..n : seq[k] \in Int
    BY <2>1
  <2> HIDE DEF n
  <2> QED BY <2>1, <2>2 DEF Distinct
<1>21. \A l \in lp.body : start.left[l] = << >>
  OBVIOUS
<1>22. Plain(start.hoisted)
  BY DEF Plain
<1> HIDE DEF op, A, n, start, seq
<1>3. g \in [A \X (1..n) -> A]
  BY <1>2
<1>4. PICK f : Folded(f, A, n, start, g)
  <2> HIDE DEF g
  <2> QED BY <1>1, <1>3, FoldExists
<1>5. Is(f)
  <2>1. ASSUME NEW m \in 1..n PROVE f[m] = op(f[m - 1], seq[m])
    <3>1. m - 1 \in 0..n /\ m \in 1..n
      BY <1>1
    <3>2. f[m - 1] \in A /\ f[m] = g[<<f[m - 1], m>>]
      <4> HIDE DEF g
      <4> QED BY <1>4, <3>1 DEF Folded
    <3> QED BY <3>1, <3>2
  <2> HIDE DEF g
  <2> QED BY <1>1, <1>4, <2>1 DEF Folded
<1>6. Is(after)
  <2> HIDE DEF Is
  <2> QED BY <1>5
<1>7. after[0] = start /\ \A m \in 1..n : after[m] = op(after[m - 1], seq[m])
  <2> HIDE DEF after
  <2>1. \A m \in 1..n : m \in 0..n /\ m # 0
    BY <1>1
  <2> QED BY <1>1, <1>6, <2>1
<1> HIDE DEF after
<1> DEFINE all(m) == /\ after[m] \in A /\ Plain(after[m].hoisted)
                     /\ \A k \in 1..m : SameFlow(Block(cfg, seq[k]).code, after[m].left[seq[k]])
                     /\ \A k \in (m + 1)..n : after[m].left[seq[k]] = << >>
           h == [m \in 0..n |-> all(m)]
<1>8. all(0)
  <2>1. \A k \in 1..n : start.left[seq[k]] = << >>
    BY <1>20, <1>21
  <2>2. \A k \in 1..0 : FALSE
    OBVIOUS
  <2>3. \A k \in (0 + 1)..n : k \in 1..n
    BY <1>1
  <2> QED BY <1>1, <1>7, <1>22, <2>1, <2>2, <2>3
<1>9. ASSUME NEW m \in 1..n, all(m - 1) PROVE all(m)
  <2> DEFINE a == after[m - 1]
             b == after[m]
             l == seq[m]
  <2>1. a \in A /\ Plain(a.hoisted) /\ b = HoistFromBlock(cfg, lp, a, l)
    BY <1>7, <1>9 DEF op
  <2>2. b \in A
    BY <1>2, <1>7, <1>9
  <2>3. a.left[l] = << >>
    <3>1. m \in (m - 1 + 1)..n
      BY <1>1
    <3> QED BY <1>9, <3>1
  <2>4. l \in Int /\ l \in lp.body
    BY <1>20
  <2> HIDE DEF a, b, l
  <2>5. IsLeft(l, b, Block(cfg, l).code) /\ OthersLeft(lp, l, a, b)
    <3>1. a \in Split(N, lp.body)
      BY <2>1 DEF A
    <3> QED BY <2>1, <2>3, <2>4, <3>1, HoistFromBlockFlow
  <2>6. ASSUME NEW k \in 1..n, k # m PROVE b.left[seq[k]] = a.left[seq[k]]
    <3>1. seq[k] \in lp.body \ {l}
      BY <1>20, <2>6 DEF l
    <3> QED BY <2>5, <3>1 DEF OthersLeft
  <2>7. ASSUME NEW k \in 1..m PROVE SameFlow(Block(cfg, seq[k]).code, b.left[seq[k]])
    <3>1. CASE k = m
      BY <2>5, <3>1 DEF IsLeft, l
    <3>2. CASE k # m
      <4>1. k \in 1..(m - 1) /\ k \in 1..n
        BY <1>1, <3>2
      <4>2. SameFlow(Block(cfg, seq[k]).code, a.left[seq[k]])
        BY <1>9, <4>1 DEF a
      <4> QED BY <2>6, <3>2, <4>1, <4>2
    <3> QED BY <3>1, <3>2
  <2>8. ASSUME NEW k \in (m + 1)..n PROVE b.left[seq[k]] = << >>
    <3>1. k \in (m - 1 + 1)..n /\ k \in 1..n /\ k # m
      BY <1>1
    <3>2. a.left[seq[k]] = << >>
      BY <1>9, <3>1 DEF a
    <3> QED BY <2>6, <3>1, <3>2
  <2>9. Plain(b.hoisted)
    BY <2>5 DEF IsLeft
  <2> QED BY <2>2, <2>7, <2>8, <2>9 DEF b
<1>10. h[n] \in {TRUE}
  <2>1. Carries(h, {TRUE}, n)
    <3> HIDE DEF all
    <3>1. h[0] = all(0) /\ \A m \in 1..n : m - 1 \in 0..n /\ h[m] = all(m) /\ h[m - 1] = all(m - 1)
      BY <1>1
    <3>2. h[0] \in {TRUE}
      BY <1>8, <3>1
    <3>3. ASSUME NEW m \in 1..n, h[m - 1] \in {TRUE} PROVE h[m] \in {TRUE}
      <4>1. all(m - 1)
        BY <3>1, <3>3
      <4>2. all(m)
        BY <1>9, <4>1
      <4> QED BY <3>1, <4>2
    <3> HIDE DEF h
    <3> QED BY <3>2, <3>3 DEF Carries
  <2> HIDE DEF h
  <2> QED BY <1>1, <2>1, FoldKeeps
<1>11. all(n)
  <2> HIDE DEF all
  <2> QED BY <1>1, <1>10
<1>12. got = after[n]
  BY DEF HoistFrom, InLoop, Fold, op, n, start, seq, after
<1>13. ASSUME NEW b \in ToSet(cfg.blocks), b.label \in lp.body
       PROVE  SameFlow(b.code, got.left[b.label])
  <2>1. PICK k \in 1..n : seq[k] = b.label
    BY <1>13, <1>20
  <2>2. Block(cfg, b.label) = b
    BY BlockIs
  <2> QED BY <1>11, <1>12, <2>1, <2>2
<1> QED BY <1>11, <1>12, <1>13 DEF A

-----------------------------------------------------------------------------
(* The blocks of a graph whose loop is given a block in front.             *)
InFrontOf(B, h, body, out, new, j) ==
  \A x \in B :
    /\ j[x].label = x.label
    /\ ToSet(j[x].succs) = IF x.label \in out THEN {Led(s, h, new) : s \in ToSet(x.succs)}
                           ELSE ToSet(x.succs)
    /\ ToSet(j[x].preds) = IF x.label = h THEN (ToSet(x.preds) \cap body) \cup {new}
                           ELSE ToSet(x.preds)

(* Blocks with labels of their own and edges noted at both ends, and a     *)
(* label none of them has.                                                 *)
Linked(B) == (\A x, y \in B : x.label = y.label => x = y) /\ \A x \in B : Joins(B, x)
IsFree(B, new) == \A x \in B : x.label # new

(* Their edges, and those of the block.                                    *)
LEMMA PreheaderJoins ==
  ASSUME NEW B, Linked(B),
         NEW h, NEW body, h \in body, NEW hb \in B, hb.label = h,
         NEW out, out = ToSet(hb.preds) \ body,
         NEW new, IsFree(B, new),
         NEW p, p.label = new, ToSet(p.succs) = {h}, ToSet(p.preds) = out,
         NEW j, NEW M, M = {j[x] : x \in B} \cup {p}, InFrontOf(B, h, body, out, new, j)
  PROVE  Joins(M, p) /\ \A x \in B : Joins(M, j[x])
<1> USE DEF Linked, IsFree
<1>1. ASSUME NEW x \in B
      PROVE  /\ j[x] \in M /\ j[x].label = x.label
             /\ x.label \in out => ToSet(j[x].succs) = {Led(s, h, new) : s \in ToSet(x.succs)}
             /\ x.label \notin out => ToSet(j[x].succs) = ToSet(x.succs)
             /\ x.label = h => ToSet(j[x].preds) = (ToSet(x.preds) \cap body) \cup {new}
             /\ x.label # h => ToSet(j[x].preds) = ToSet(x.preds)
  BY DEF InFrontOf
<1>2. p \in M
  OBVIOUS
<1>3. ASSUME NEW x \in B, NEW s \in ToSet(x.succs), x.label \in out
      PROVE  Led(s, h, new) \in ToSet(j[x].succs)
  BY <1>1, <1>3
<1>4. ASSUME NEW x \in B, NEW l \in ToSet(j[x].succs)
      PROVE  \E c \in M : c.label = l /\ j[x].label \in ToSet(c.preds)
  <2>1. CASE x.label \in out
    <3>1. PICK s \in ToSet(x.succs) : l = Led(s, h, new)
      BY <1>1, <1>4, <2>1
    <3>2. CASE s = h
      <4>1. l = new
        BY <3>1, <3>2 DEF Led
      <4> QED BY <1>1, <1>2, <2>1, <4>1
    <3>3. CASE s # h
      <4>1. l = s
        BY <3>1, <3>3 DEF Led
      <4>2. PICK c \in B : c.label = s /\ x.label \in ToSet(c.preds)
        BY DEF Joins
      <4>3. x.label \in ToSet(j[c].preds) /\ j[c].label = l /\ j[c] \in M
        BY <1>1, <3>3, <4>1, <4>2
      <4> QED BY <1>1, <4>3
    <3> QED BY <3>2, <3>3
  <2>2. CASE x.label \notin out
    <3>1. l \in ToSet(x.succs)
      BY <1>1, <1>4, <2>2
    <3>2. PICK c \in B : c.label = l /\ x.label \in ToSet(c.preds)
      BY <3>1 DEF Joins
    <3>3. CASE l = h
      <4>1. c = hb
        BY <3>2, <3>3
      <4>2. x.label \in ToSet(c.preds) \cap body
        BY <2>2, <3>2, <4>1
      <4>3. x.label \in ToSet(j[c].preds)
        BY <1>1, <3>2, <3>3, <4>2
      <4> QED BY <1>1, <3>2, <4>3
    <3>4. CASE l # h
      <4>1. x.label \in ToSet(j[c].preds)
        BY <1>1, <3>2, <3>4
      <4> QED BY <1>1, <3>2, <4>1
    <3> QED BY <3>3, <3>4
  <2> QED BY <2>1, <2>2
<1>5. ASSUME NEW x \in B, NEW l \in ToSet(j[x].preds)
      PROVE  \E c \in M : c.label = l /\ j[x].label \in ToSet(c.succs)
  <2>1. CASE x.label = h
    <3>1. CASE l = new
      BY <1>1, <1>2, <2>1, <3>1
    <3>2. CASE l # new
      <4>1. l \in ToSet(x.preds) /\ l \in body
        BY <1>1, <1>5, <2>1, <3>2
      <4>2. PICK c \in B : c.label = l /\ x.label \in ToSet(c.succs)
        BY <4>1 DEF Joins
      <4>3. ToSet(j[c].succs) = ToSet(c.succs)
        BY <1>1, <4>1, <4>2
      <4> QED BY <1>1, <4>2, <4>3
    <3> QED BY <3>1, <3>2
  <2>2. CASE x.label # h
    <3>1. l \in ToSet(x.preds)
      BY <1>1, <1>5, <2>2
    <3>2. PICK c \in B : c.label = l /\ x.label \in ToSet(c.succs)
      BY <3>1 DEF Joins
    <3>3. Led(x.label, h, new) = x.label
      BY <2>2 DEF Led
    <3>4. x.label \in ToSet(j[c].succs)
      BY <1>1, <1>3, <3>2, <3>3
    <3> QED BY <1>1, <3>2, <3>4
  <2> QED BY <2>1, <2>2
<1>6. \A l \in ToSet(p.succs) : \E c \in M : c.label = l /\ p.label \in ToSet(c.preds)
  BY <1>1
<1>7. ASSUME NEW l \in ToSet(p.preds) PROVE \E c \in M : c.label = l /\ p.label \in ToSet(c.succs)
  <2>1. l \in out /\ l \in ToSet(hb.preds)
    BY <1>7
  <2>2. PICK c \in B : c.label = l /\ h \in ToSet(c.succs)
    BY <2>1 DEF Joins
  <2>3. Led(h, h, new) = new
    BY DEF Led
  <2>4. new \in ToSet(j[c].succs)
    BY <1>3, <2>1, <2>2, <2>3
  <2> QED BY <1>1, <2>2, <2>4
<1> QED BY <1>4, <1>5, <1>6, <1>7 DEF Joins

(* Blocks with one more.                                                   *)
LEMMA InsertAtAre ==
  ASSUME NEW S, NEW q \in Seq(S), NEW i \in 1..(Len(q) + 1), NEW e \in S, LabelsOnce(q),
         \A x \in ToSet(q) : x.label # e.label
  PROVE  LabelsOnce(InsertAt(q, i, e)) /\ ToSet(InsertAt(q, i, e)) = ToSet(q) \cup {e}
<1> DEFINE r == InsertAt(q, i, e)
           C == Len(q)
<1>1. C \in Nat /\ DOMAIN q = 1..C /\ i \in 1..(C + 1)
  OBVIOUS
<1>2. /\ DOMAIN r = 1..(C + 1)
      /\ \A k \in 1..(C + 1) : r[k] = IF k <= i - 1 THEN q[k] ELSE IF k = i THEN e ELSE q[k - 1]
  <2> DEFINE x == SubSeq(q, 1, i - 1)
             y == SubSeq(q, i, C)
             z == x \o <<e>>
  <2>1. r = z \o y
    BY DEF InsertAt
  <2>2. x \in Seq(S) /\ Len(x) = i - 1 /\ \A k \in 1..(i - 1) : x[k] = q[k]
    BY <1>1
  <2>3. y \in Seq(S) /\ Len(y) = C - i + 1 /\ \A k \in 1..(C - i + 1) : y[k] = q[k + i - 1]
    <3>1. i - 1 + (C - i + 1) = C
      BY <1>1
    <3> QED BY <1>1, <3>1, SMTT(30)
  <2> HIDE DEF x, y, C
  <2>4. /\ z \in Seq(S) /\ Len(z) = i /\ z[i] = e /\ \A k \in 1..(i - 1) : z[k] = q[k]
    <3>1. z = Append(x, e)
      BY <2>2
    <3>2. Append(x, e) \in Seq(S) /\ Len(Append(x, e)) = Len(x) + 1 /\ Append(x, e)[Len(x) + 1] = e
          /\ \A k \in 1..Len(x) : Append(x, e)[k] = x[k]
      <4>1. x \in Seq(S)
        BY <2>2
      <4> QED BY <4>1
    <3>3. Len(x) + 1 = i
      BY <1>1, <2>2
    <3> HIDE DEF z
    <3> QED BY <2>2, <3>1, <3>2, <3>3
  <2> HIDE DEF z
  <2>6. /\ Len(z \o y) = Len(z) + Len(y) /\ DOMAIN (z \o y) = 1..(Len(z) + Len(y))
        /\ \A k \in 1..(Len(z) + Len(y)) : (z \o y)[k] = IF k <= Len(z) THEN z[k] ELSE y[k - Len(z)]
    <3>1. z \in Seq(S) /\ y \in Seq(S)
      BY <2>3, <2>4
    <3> QED BY ONLY <3>1
  <2>7. Len(z) + Len(y) = C + 1
    <3>1. Len(z) = i /\ Len(y) = C - i + 1 /\ C \in Nat /\ i \in 1..(C + 1)
      BY <1>1, <2>3, <2>4
    <3> QED BY ONLY <3>1
  <2>8. DOMAIN (z \o y) = 1..(C + 1)
    BY <2>6, <2>7
  <2>5. ASSUME NEW k \in 1..(C + 1)
        PROVE  (z \o y)[k] = IF k <= i - 1 THEN q[k] ELSE IF k = i THEN e ELSE q[k - 1]
    <3>1. (z \o y)[k] = IF k <= i THEN z[k] ELSE y[k - i]
      BY <2>4, <2>6, <2>7
    <3>2. CASE k <= i - 1
      <4>1. k \in 1..(i - 1) /\ k <= i
        BY <1>1, <3>2
      <4> QED BY <2>4, <3>1, <3>2, <4>1
    <3>3. CASE k = i
      <4>1. ~ (k <= i - 1) /\ k <= i
        BY <1>1, <3>3
      <4> QED BY <2>4, <3>1, <3>3, <4>1
    <3>4. CASE ~ (k <= i)
      <4>1. k - i \in 1..(C - i + 1) /\ k - i + i - 1 = k - 1 /\ ~ (k <= i - 1) /\ k # i
        BY <1>1, <3>4
      <4>2. y[k - i] = q[k - 1]
        <5> DEFINE m == k - i
        <5>1. m \in 1..(C - i + 1) /\ m + i - 1 = k - 1
          BY <4>1
        <5> HIDE DEF m
        <5>2. y[m] = q[m + i - 1]
          BY <2>3, <5>1
        <5> QED BY <5>1, <5>2 DEF m
      <4> QED BY <3>1, <3>4, <4>1, <4>2
    <3>5. k <= i - 1 \/ k = i \/ ~ (k <= i)
      BY <1>1
    <3> QED BY <3>2, <3>3, <3>4, <3>5
  <2> QED BY <2>1, <2>5, <2>8 DEF x, y, z
<1> HIDE DEF r, C
<1> DEFINE from(k) == IF k <= i - 1 THEN k ELSE k - 1
<1>3. ASSUME NEW k \in 1..(C + 1), k # i PROVE from(k) \in 1..C /\ r[k] = q[from(k)]
  BY <1>1, <1>2, <1>3
<1>4. \A j, k \in 1..(C + 1) : j # i /\ k # i /\ from(j) = from(k) => j = k
  BY <1>1
<1>5. \A j \in 1..C : \E k \in 1..(C + 1) : k # i /\ from(k) = j
  <2> SUFFICES ASSUME NEW j \in 1..C PROVE \E k \in 1..(C + 1) : k # i /\ from(k) = j
    OBVIOUS
  <2>1. CASE j < i
    <3>1. j \in 1..(C + 1) /\ j # i /\ from(j) = j
      BY <1>1, <2>1
    <3> QED BY <3>1
  <2>2. CASE ~ (j < i)
    <3>1. j + 1 \in 1..(C + 1) /\ j + 1 # i /\ ~ (j + 1 <= i - 1) /\ j + 1 - 1 = j
      BY <1>1, <2>2
    <3> QED BY <3>1
  <2> QED BY <2>1, <2>2
<1>6. i \in 1..(C + 1) /\ r[i] = e
  <2>1. ~ (i <= i - 1)
    BY <1>1
  <2> QED BY <1>1, <1>2, <2>1
<1> HIDE DEF from
<1>7. \A k \in 1..C : q[k].label # e.label
  BY <1>1 DEF ToSet
<1>8. LabelsOnce(r)
  <2> SUFFICES ASSUME NEW j \in 1..(C + 1), NEW k \in 1..(C + 1), r[j].label = r[k].label PROVE j = k
    BY <1>2 DEF LabelsOnce
  <2>1. CASE j = i
    BY <1>3, <1>6, <1>7, <2>1
  <2>2. CASE k = i
    BY <1>3, <1>6, <1>7, <2>2
  <2>3. CASE j # i /\ k # i
    BY <1>1, <1>3, <1>4, <2>3 DEF LabelsOnce
  <2> QED BY <2>1, <2>2, <2>3
<1>9. ToSet(r) \subseteq ToSet(q) \cup {e}
  BY <1>1, <1>2, <1>3, <1>6 DEF ToSet
<1>10. ToSet(q) \cup {e} \subseteq ToSet(r)
  <2>1. e \in ToSet(r)
    BY <1>2, <1>6 DEF ToSet
  <2>2. ASSUME NEW j \in 1..C PROVE q[j] \in ToSet(r)
    <3>1. PICK k \in 1..(C + 1) : k # i /\ from(k) = j
      BY <1>5
    <3> QED BY <1>2, <1>3, <3>1 DEF ToSet
  <2> QED BY <1>1, <2>1, <2>2 DEF ToSet
<1> QED BY <1>8, <1>9, <1>10 DEF r

(* A block that only jumps is tidy.                                        *)
LEMMA JumpTidy ==
  ASSUME NEW n \in Nat, NEW h \in Int, NEW b, b.code = <<Jump(h)>>, ToSet(b.succs) = {h}
  PROVE  Tidy(b)
<1>1. << >> \in Seq(Unlabelled(n)) /\ Jump(h) \in Unlabelled(n) /\ <<Jump(h)>> = Append(<< >>, Jump(h))
  BY NewUnlabelled
<1>2. Jump(h).op = "jump" /\ Jump(h).to = h
  BY DEF Jump, Inst
<1>3. EndOf(<<Jump(h)>>) = {Jumped(Jump(h))}
  <2> DEFINE i == Jump(h)
             S == Unlabelled(n)
             none == << >>
  <2>1. none \in Seq(S) /\ i \in S /\ <<i>> = Append(none, i) /\ IsTerminator(i)
    BY <1>1, <1>2 DEF IsTerminator
  <2> HIDE DEF i, S, none
  <2>2. EndOf(Append(none, i)) = {Jumped(i)}
    BY <2>1, EndAppended
  <2> QED BY <2>1, <2>2 DEF i
<1>4. EndsOnce(<<Jump(h)>>)
  <2>1. Bare(<< >>)
    BY DEF Bare
  <2> QED BY <1>1, <2>1, FormAppended
<1>5. TargetsIn(<<Jump(h)>>) = {h}
  <2> DEFINE i == Jump(h)
  <2> HIDE DEF i
  <2>1. ToSet(<<i>>) = {i}
    BY DEF ToSet
  <2> QED BY <1>2, <2>1 DEF TargetsIn, i
<1>6. Jumped(Jump(h)).op = "jump" /\ Jumped(Jump(h)).to = h
  BY <1>2 DEF Jumped
<1> QED BY <1>3, <1>4, <1>5, <1>6 DEF Tidy

(* The label above all others names no block.                              *)
LEMMA NewLabel ==
  ASSUME NEW n, NEW cfg \in Graphs(n), NEW new, new = 1 + Max({0} \cup ToSet(Labels(cfg)))
  PROVE  new \in Int /\ \A b \in ToSet(cfg.blocks) : b.label # new
<1> DEFINE q == Labels(cfg)
           f == [k \in 1..Len(q) |-> q[k]]
<1>1. q \in Seq(Int) /\ DOMAIN q = DOMAIN cfg.blocks /\ \A k \in DOMAIN cfg.blocks : q[k] = cfg.blocks[k].label
  <2> DEFINE l == [k \in DOMAIN cfg.blocks |-> cfg.blocks[k].label]
             bs == cfg.blocks
  <2>1. bs \in Seq(Blocks(n)) /\ l \in [DOMAIN bs -> Int]
    BY GraphFields, BlockFields
  <2>2. q = << >> \o l
    BY DEF Labels, Map
  <2>3. \A k \in DOMAIN bs : l[k] = bs[k].label
    OBVIOUS
  <2> HIDE DEF l, q, bs
  <2>4. /\ << >> \o l \in Seq(Int) /\ DOMAIN (<< >> \o l) = DOMAIN bs
        /\ \A k \in DOMAIN bs : (<< >> \o l)[k] = l[k]
    BY <2>1, MappedAre
  <2> QED BY <2>2, <2>3, <2>4 DEF bs
<1> HIDE DEF q
<1>2. f \in [1..Len(q) -> Int] /\ Len(q) \in Nat /\ ToSet(q) = {f[k] : k \in 1..Len(q)}
  BY <1>1 DEF ToSet
<1> DEFINE T == {0} \cup {f[k] : k \in 1..Len(q)}
           top == Max(T)
<1> HIDE DEF f
<1>3. top \in Int /\ \A x \in T : top >= x
  <2>1. 0 \in Int /\ f \in [1..Len(q) -> Int] /\ Len(q) \in Nat
    BY <1>2
  <2>2. /\ Max({0} \cup {f[k] : k \in 1..Len(q)}) \in Int
        /\ \A x \in {0} \cup {f[k] : k \in 1..Len(q)} : Max({0} \cup {f[k] : k \in 1..Len(q)}) >= x
    BY ONLY <2>1, MaxType
  <2> QED BY <2>2
<1>4. new = 1 + top
  BY <1>2 DEF q
<1>5. ASSUME NEW k \in DOMAIN cfg.blocks PROVE cfg.blocks[k].label # new
  <2>1. q[k] \in T /\ q[k] \in Int
    BY <1>1, <1>2, ZenonT(40) DEF ToSet
  <2> HIDE DEF T, top
  <2>2. top >= q[k]
    BY <1>3, <2>1
  <2>3. q[k] # 1 + top
    BY <1>3, <2>1, <2>2
  <2> QED BY <1>1, <1>4, <2>3
<1>6. new \in Int
  <2> HIDE DEF T, top
  <2> QED BY <1>3, <1>4
<1> QED BY <1>5, <1>6 DEF ToSet

(* A graph that has the blocks of another, perhaps with more.              *)
HasBlocksOf(cfg, new) == \A x \in ToSet(cfg.blocks) : \E y \in ToSet(new.blocks) : y.label = x.label

(* A loop that is given a block in front leaves a graph sound.             *)
LEMMA WithPreheaderSound ==
  ASSUME NEW n \in Nat, NEW cfg \in Graphs(n), Sound(cfg),
         NEW lp, lp.header \in Int, lp.header \in lp.body,
         NEW hb \in ToSet(cfg.blocks), hb.label = lp.header,
         NEW new \in Int, \A x \in ToSet(cfg.blocks) : x.label # new
  PROVE  Sound(WithPreheader(cfg, lp, new)) /\ HasBlocksOf(cfg, WithPreheader(cfg, lp, new))
<1> DEFINE h == lp.header
           body == lp.body
           B == ToSet(cfg.blocks)
           out == OutsidePreds(cfg, lp)
           block == [label |-> new, code |-> <<Jump(h)>>, succs |-> <<h>>, preds |-> out]
           led(b) == IF Contains(out, b.label)
                     THEN [b EXCEPT !.code = Retarget(@, h, new), !.succs = Renamed(@, h, new)]
                     ELSE IF b.label = h
                     THEN [b EXCEPT !.preds = Append(Only(@, body), new)]
                     ELSE b
           map == [k \in DOMAIN cfg.blocks |-> led(cfg.blocks[k])]
           ns == << >> \o map
           at == FindBlock(ns, h)
           bs == InsertAt(ns, at, block)
           first == IF cfg.entry = h THEN new ELSE cfg.entry
<1>1. WithPreheader(cfg, lp, new) = [entry |-> first, blocks |-> bs]
  BY DEF WithPreheader, Map
<1>2. /\ cfg.blocks \in Seq(Blocks(n)) /\ (\A x \in B : x \in Blocks(n))
      /\ (\A k \in DOMAIN cfg.blocks : cfg.blocks[k] \in B) /\ B = {cfg.blocks[k] : k \in DOMAIN cfg.blocks}
  BY GraphFields DEF ToSet
<1>3. /\ LabelsOnce(cfg.blocks) /\ (\A x, y \in B : x.label = y.label => x = y)
      /\ (\E x \in B : x.label = cfg.entry) /\ \A x \in B : Joins(B, x) /\ Tidy(x)
  <2>1. LabelsOnce(cfg.blocks)
    BY DEF Sound
  <2> QED BY <2>1, OnceIs DEF Sound
<1>4. out \in Seq(Int) /\ ToSet(out) = ToSet(hb.preds) \ body
  <2>1. Block(cfg, h) = hb
    BY <1>3, BlockIs
  <2>2. hb.preds \in Seq(Int)
    BY <1>2, BlockFields
  <2> DEFINE p == hb.preds
             S == ToSet(p) \ body
  <2>3. out = Only(p, S)
    BY <2>1 DEF OutsidePreds
  <2> HIDE DEF p, S, out
  <2>4. p \in Seq(Int)
    BY <2>2 DEF p
  <2>5. Only(p, S) \in Seq(Int) /\ ToSet(Only(p, S)) = ToSet(p) \cap S
    BY <2>4, OnlySome, OnlyOf
  <2>6. ToSet(p) \cap S = S
    BY DEF S
  <2> QED BY <2>3, <2>5, <2>6 DEF S, p
<1>5. h \in Int /\ h \in body /\ hb \in B /\ hb.label = h /\ new \in Int /\ \A x \in B : x.label # new
  OBVIOUS
<1> HIDE DEF out, h, body, B
<1>6. ASSUME NEW x \in B
      PROVE  /\ led(x) \in Blocks(n) /\ led(x).label = x.label /\ Tidy(led(x))
             /\ ToSet(led(x).succs) = IF x.label \in ToSet(out) THEN {Led(s, h, new) : s \in ToSet(x.succs)}
                                      ELSE ToSet(x.succs)
             /\ ToSet(led(x).preds) = IF x.label = h THEN (ToSet(x.preds) \cap body) \cup {new}
                                      ELSE ToSet(x.preds)
  <2>1. x \in Blocks(n) /\ x.code \in Seq(Unlabelled(n)) /\ x.succs \in Seq(Int) /\ x.preds \in Seq(Int)
    BY <1>2, BlockFields
  <2>2. x = [label |-> x.label, code |-> x.code, succs |-> x.succs, preds |-> x.preds]
    BY <2>1 DEF Blocks
  <2>3. Contains(out, x.label) <=> x.label \in ToSet(out)
    BY <1>4, ContainsMember
  <2>4. CASE x.label \in ToSet(out)
    <3> DEFINE c1 == Retarget(x.code, h, new)
               s1 == Renamed(x.succs, h, new)
               d == [x EXCEPT !.code = c1, !.succs = s1]
    <3>1. x.label # h
      BY <1>4, <1>5, <2>4
    <3>2. led(x) = d
      BY <2>3, <2>4
    <3>3. c1 \in Seq(Unlabelled(n)) /\ s1 \in Seq(Int)
      BY <1>5, <2>1, RetargetType, RenamedType
    <3>4. ToSet(s1) = {Led(s, h, new) : s \in ToSet(x.succs)}
      BY <1>5, <2>1, RenamedAre
    <3>5. c1 = Retarget(x.code, h, new)
      OBVIOUS
    <3> HIDE DEF c1, s1
    <3>6. d.label = x.label /\ d.code = c1 /\ d.succs = s1 /\ d.preds = x.preds
      BY <2>2
    <3>7. d \in Blocks(n)
      <4>1. [x EXCEPT !.code = c1, !.succs = s1] \in Blocks(n)
        BY <2>1, <3>3, BlockWith
      <4> QED BY <4>1
    <3> HIDE DEF d, led
    <3>8. Tidy(d)
      <4>1. Tidy(x) /\ h \in Int /\ new \in Int /\ h # x.label /\ x \in Blocks(n) /\ n \in Nat
        BY <1>3, <1>5, <2>1, <3>1
      <4>2. d.label = x.label /\ d.code = Retarget(x.code, h, new)
            /\ ToSet(d.succs) = {Led(s, h, new) : s \in ToSet(x.succs)}
        BY <3>4, <3>5, <3>6
      <4> QED BY ONLY <4>1, <4>2, BypassedTidy
    <3> QED BY <2>4, <3>1, <3>2, <3>4, <3>6, <3>7, <3>8
  <2>5. CASE x.label \notin ToSet(out) /\ x.label = h
    <3> DEFINE o == Only(x.preds, body)
               p1 == Append(o, new)
               d == [x EXCEPT !.preds = p1]
    <3>1. led(x) = d
      BY <2>3, <2>5
    <3>2. o \in Seq(Int) /\ ToSet(o) = ToSet(x.preds) \cap body
      BY <2>1, OnlySome, OnlyOf
    <3> HIDE DEF o
    <3>3. p1 \in Seq(Int)
      BY <1>5, <3>2
    <3>4. ToSet(p1) = ToSet(o) \cup {new}
      <4> DEFINE w == <<new>>
      <4>1. o \in Seq(Int) /\ w \in Seq(Int) /\ p1 = o \o w /\ ToSet(w) = {new}
        BY <1>5, <3>2 DEF ToSet
      <4> HIDE DEF p1, w
      <4>2. ToSet(o \o w) = ToSet(o) \cup ToSet(w)
        <5>1. o \in Seq(Int) /\ w \in Seq(Int)
          BY <4>1
        <5> QED BY ONLY <5>1, JoinedMembers
      <4> QED BY <4>1, <4>2
    <3> HIDE DEF p1
    <3>5. d.label = x.label /\ d.code = x.code /\ d.succs = x.succs /\ d.preds = p1
      BY <2>2
    <3>6. d \in Blocks(n)
      BY <2>1, <3>3, BlockFields
    <3> HIDE DEF d, led
    <3>7. Tidy(d)
      BY <1>3, <3>5 DEF Tidy
    <3> QED BY <2>5, <3>1, <3>2, <3>4, <3>5, <3>6, <3>7
  <2>6. CASE x.label \notin ToSet(out) /\ x.label # h
    <3>1. led(x) = x
      BY <2>3, <2>6
    <3> HIDE DEF led
    <3> QED BY <1>3, <2>1, <2>6, <3>1
  <2> HIDE DEF led
  <2> QED BY <2>4, <2>5, <2>6
<1> DEFINE j == [x \in B |-> led(x)]
<1>7. \A k \in DOMAIN cfg.blocks : map[k] = j[cfg.blocks[k]] /\ map[k] \in Blocks(n)
  <2> HIDE DEF led
  <2> QED BY <1>2, <1>6
<1>8. map \in [DOMAIN cfg.blocks -> Blocks(n)]
  BY <1>7
<1>9. \A x \in B : j[x] = led(x)
  <2> HIDE DEF led
  <2> QED OBVIOUS
<1> HIDE DEF map, led, j
<1>10. /\ ns \in Seq(Blocks(n)) /\ DOMAIN ns = DOMAIN cfg.blocks
       /\ \A k \in DOMAIN cfg.blocks : ns[k] = j[cfg.blocks[k]]
  <2> DEFINE q == cfg.blocks
  <2>1. q \in Seq(Blocks(n)) /\ map \in [DOMAIN q -> Blocks(n)]
    BY <1>2, <1>8
  <2> HIDE DEF q
  <2>2. /\ << >> \o map \in Seq(Blocks(n)) /\ DOMAIN (<< >> \o map) = DOMAIN q
        /\ \A k \in DOMAIN q : (<< >> \o map)[k] = map[k]
    BY <2>1, MappedAre
  <2> QED BY <1>7, <2>2 DEF q
<1> HIDE DEF ns
<1>11. ToSet(ns) = {j[x] : x \in B}
  <2>1. ToSet(ns) = {j[cfg.blocks[k]] : k \in DOMAIN cfg.blocks}
    BY <1>10 DEF ToSet
  <2> QED BY <1>2, <2>1
<1>12. LabelsOnce(ns)
  <2>1. \A k \in DOMAIN cfg.blocks : ns[k].label = cfg.blocks[k].label
    BY <1>2, <1>6, <1>9, <1>10, ZenonT(40)
  <2> QED BY <1>3, <1>10, <2>1, SameLabels
<1>13. block \in Blocks(n) /\ block.label = new /\ ToSet(block.succs) = {h} /\ ToSet(block.preds) = ToSet(out)
       /\ Tidy(block)
  <2>1. <<Jump(h)>> \in Seq(Unlabelled(n)) /\ <<h>> \in Seq(Int)
    BY <1>5, NewUnlabelled
  <2>2. block \in Blocks(n)
    BY <1>4, <1>5, <2>1 DEF Blocks
  <2>3. ToSet(<<h>>) = {h}
    BY DEF ToSet
  <2>4. block.label = new /\ block.code = <<Jump(h)>> /\ block.succs = <<h>> /\ block.preds = out
    OBVIOUS
  <2> HIDE DEF block
  <2>5. Tidy(block)
    BY <1>5, <2>3, <2>4, JumpTidy
  <2> QED BY <2>2, <2>3, <2>4, <2>5
<1> HIDE DEF block
<1>14. /\ LabelsOnce(bs) /\ ToSet(bs) = {j[x] : x \in B} \cup {block}
  <2>1. at \in 1..(Len(ns) + 1)
    BY <1>10, FindBlockRange
  <2>2. \A y \in ToSet(ns) : y.label # block.label
    <3>1. ASSUME NEW x \in B PROVE j[x].label # new
      BY <1>5, <1>6, <1>9
    <3> QED BY <1>11, <1>13, <3>1
  <2> HIDE DEF at
  <2>3. LabelsOnce(InsertAt(ns, at, block)) /\ ToSet(InsertAt(ns, at, block)) = ToSet(ns) \cup {block}
    BY <1>10, <1>12, <1>13, <2>1, <2>2, InsertAtAre
  <2> QED BY <1>11, <2>3
<1> HIDE DEF bs
<1> DEFINE M == ToSet(bs)
           O == ToSet(out)
<1>15. Joins(M, block) /\ \A x \in B : Joins(M, j[x])
  <2>1. InFrontOf(B, h, body, O, new, j)
    BY <1>6, <1>9 DEF InFrontOf
  <2>2. M = {j[x] : x \in B} \cup {block} /\ O = ToSet(hb.preds) \ body /\ ToSet(block.preds) = O
    BY <1>4, <1>13, <1>14
  <2>3. Linked(B) /\ IsFree(B, new)
    BY <1>3, <1>5 DEF Linked, IsFree
  <2>4. block.label = new /\ ToSet(block.succs) = {h}
    BY <1>13
  <2> HIDE DEF M, O
  <2> QED BY <1>5, <2>1, <2>2, <2>3, <2>4, PreheaderJoins
<1>16. \E y \in M : y.label = first
  <2>1. CASE cfg.entry = h
    BY <1>13, <1>14, <2>1
  <2>2. CASE cfg.entry # h
    <3>1. PICK x \in B : x.label = cfg.entry
      BY <1>3
    <3>2. j[x] \in M /\ j[x].label = cfg.entry
      BY <1>6, <1>9, <1>14, <3>1
    <3> QED BY <2>2, <3>2
  <2> QED BY <2>1, <2>2
<1>17. \A y \in M : Joins(M, y) /\ Tidy(y)
  <2>1. \A x \in B : Joins(M, j[x]) /\ Tidy(j[x])
    BY <1>6, <1>9, <1>15
  <2>2. Joins(M, block) /\ Tidy(block)
    BY <1>13, <1>15
  <2> HIDE DEF M
  <2>3. M = {j[x] : x \in B} \cup {block}
    BY <1>14 DEF M
  <2> QED BY <2>1, <2>2, <2>3
<1>18. \A x \in B : \E y \in M : y.label = x.label
  BY <1>6, <1>9, <1>14
<1> DEFINE g == [entry |-> first, blocks |-> bs]
<1>19. g.entry = first /\ g.blocks = bs
  OBVIOUS
<1> HIDE DEF g, first
<1>20. Sound(g)
  BY <1>14, <1>16, <1>17, <1>19 DEF Sound
<1>21. HasBlocksOf(cfg, g)
  BY <1>18, <1>19 DEF HasBlocksOf, B
<1> QED BY <1>1, <1>20, <1>21 DEF g

(* The same blocks, with other code or not.                                *)
LEMMA RecodedKeeps ==
  ASSUME NEW n, NEW cfg \in Graphs(n), NEW ns, Recoded(cfg.blocks, ns)
  PROVE  HasBlocksOf(cfg, [cfg EXCEPT !.blocks = ns])
<1>1. [cfg EXCEPT !.blocks = ns].blocks = ns
  <2>1. cfg = [entry |-> cfg.entry, blocks |-> cfg.blocks]
    BY DEF Graphs
  <2> QED BY <2>1
<1> QED BY <1>1 DEF HasBlocksOf, Recoded, ToSet

(* One loop that is hoisted from leaves a graph sound.                     *)
LEMMA HoistLoopSound ==
  ASSUME NEW n \in Nat, NEW cfg \in Graphs(n), Sound(cfg),
         NEW lp, lp.header \in Int, lp.header \in lp.body,
         NEW hb \in ToSet(cfg.blocks), hb.label = lp.header
  PROVE  Sound(HoistLoop(cfg, lp)) /\ HasBlocksOf(cfg, HoistLoop(cfg, lp))
<1> DEFINE got == HoistFrom(cfg, lp)
           left(b) == IF b.label \in lp.body THEN [b EXCEPT !.code = got.left[b.label]] ELSE b
           map == [k \in DOMAIN cfg.blocks |-> left(cfg.blocks[k])]
           ns == << >> \o map
           cut == [cfg EXCEPT !.blocks = ns]
           new == 1 + Max({0} \cup ToSet(Labels(cfg)))
           there == HasPreheader(cut, lp)
           front == IF there THEN OutsidePreds(cut, lp)[1] ELSE new
           led == IF there THEN cut ELSE WithPreheader(cut, lp, new)
           at == FindBlock(led.blocks, front)
           better == [led EXCEPT !.blocks[at].code = BeforeTerminator(@, got.hoisted)]
<1>1. LabelsOnce(cfg.blocks)
  BY DEF Sound
<1>2. /\ got \in Split(n, lp.body) /\ Plain(got.hoisted)
      /\ \A b \in ToSet(cfg.blocks) : b.label \in lp.body => SameFlow(b.code, got.left[b.label])
  <2> HIDE DEF got
  <2>1. got = HoistFrom(cfg, lp)
    BY DEF got
  <2> QED BY <1>1, <2>1, HoistFromFlow
<1>3. got.hoisted \in Seq(Unlabelled(n)) /\ \A l \in lp.body : got.left[l] \in Seq(Unlabelled(n))
  BY <1>2 DEF Split
<1>4. HoistLoop(cfg, lp) \in {cfg, better}
  BY DEF HoistLoop, Map
<1> HIDE DEF got
<1>5. ASSUME NEW b \in Blocks(n), b \in ToSet(cfg.blocks)
      PROVE  /\ left(b) \in Blocks(n) /\ left(b).label = b.label /\ left(b).succs = b.succs
             /\ left(b).preds = b.preds /\ Alike(b.code, left(b).code)
  <2>1. b = [label |-> b.label, code |-> b.code, succs |-> b.succs, preds |-> b.preds]
    BY DEF Blocks
  <2>2. CASE b.label \in lp.body
    <3> DEFINE c == got.left[b.label]
               d == [b EXCEPT !.code = c]
    <3>1. left(b) = d
      BY <2>2
    <3>2. c \in Seq(Unlabelled(n)) /\ SameFlow(b.code, c)
      BY <1>2, <1>3, <1>5, <2>2
    <3> HIDE DEF c
    <3>3. d \in Blocks(n)
      BY <3>2, BlockFields
    <3>4. d.label = b.label /\ d.succs = b.succs /\ d.preds = b.preds /\ d.code = c
      BY <2>1
    <3> HIDE DEF d, left
    <3>5. Alike(b.code, c)
      BY <3>2 DEF SameFlow, Alike
    <3> QED BY <3>1, <3>3, <3>4, <3>5
  <2>3. CASE b.label \notin lp.body
    <3>1. left(b) = b
      BY <2>3
    <3> HIDE DEF left
    <3> QED BY <3>1 DEF Alike
  <2> HIDE DEF left
  <2> QED BY <2>2, <2>3
<1> HIDE DEF left
<1>6. cfg.blocks \in Seq(Blocks(n)) /\ map \in [DOMAIN cfg.blocks -> Blocks(n)]
      /\ \A k \in DOMAIN cfg.blocks : map[k] = left(cfg.blocks[k]) /\ cfg.blocks[k] \in Blocks(n)
                                      /\ cfg.blocks[k] \in ToSet(cfg.blocks)
  <2>1. cfg.blocks \in Seq(Blocks(n)) /\ \A k \in DOMAIN cfg.blocks : cfg.blocks[k] \in Blocks(n)
                                      /\ cfg.blocks[k] \in ToSet(cfg.blocks)
    BY GraphFields DEF ToSet
  <2> QED BY <1>5, <2>1
<1> HIDE DEF map
<1>7. /\ ns \in Seq(Blocks(n)) /\ DOMAIN ns = DOMAIN cfg.blocks
      /\ \A k \in DOMAIN cfg.blocks : ns[k] = map[k]
  <2> DEFINE q == cfg.blocks
  <2>1. q \in Seq(Blocks(n)) /\ map \in [DOMAIN q -> Blocks(n)]
    BY <1>6
  <2> HIDE DEF q
  <2>2. /\ << >> \o map \in Seq(Blocks(n)) /\ DOMAIN (<< >> \o map) = DOMAIN q
        /\ \A k \in DOMAIN q : (<< >> \o map)[k] = map[k]
    BY <2>1, MappedAre
  <2> QED BY <2>2 DEF q
<1> HIDE DEF ns
<1>8. Recoded(cfg.blocks, ns)
  BY <1>5, <1>6, <1>7 DEF Recoded
<1>9. cut \in Graphs(n) /\ Sound(cut) /\ HasBlocksOf(cfg, cut)
  BY <1>7, <1>8, GraphFields, RecodedSound, RecodedKeeps
<1>10. cut.blocks = ns
  <2>1. cfg = [entry |-> cfg.entry, blocks |-> cfg.blocks]
    BY DEF Graphs
  <2> QED BY <2>1
<1> HIDE DEF cut
<1>11. new \in Int /\ \A x \in ToSet(cut.blocks) : x.label # new
  <2>1. new \in Int /\ \A b \in ToSet(cfg.blocks) : b.label # new
    <3> HIDE DEF new
    <3>1. new = 1 + Max({0} \cup ToSet(Labels(cfg)))
      BY DEF new
    <3> QED BY <3>1, NewLabel
  <2> HIDE DEF new
  <2>2. \A k \in DOMAIN cfg.blocks : cfg.blocks[k].label # new
    BY <2>1 DEF ToSet
  <2>3. \A k \in DOMAIN ns : ns[k].label # new
    BY <1>8, <2>2 DEF Recoded
  <2> QED BY <1>10, <2>1, <2>3 DEF ToSet
<1> HIDE DEF new
<1>12. PICK hc \in ToSet(cut.blocks) : hc.label = lp.header
  BY <1>9 DEF HasBlocksOf
<1>13. /\ WithPreheader(cut, lp, new) \in Graphs(n) /\ Sound(WithPreheader(cut, lp, new))
       /\ HasBlocksOf(cut, WithPreheader(cut, lp, new))
  BY <1>9, <1>11, <1>12, WithPreheaderType, WithPreheaderSound
<1>14. led \in Graphs(n) /\ Sound(led) /\ HasBlocksOf(cfg, led)
  <2> DEFINE w == WithPreheader(cut, lp, new)
  <2>1. HasBlocksOf(cfg, w)
    <3>1. w \in Graphs(n) /\ Sound(w) /\ HasBlocksOf(cut, w)
      BY <1>13
    <3> HIDE DEF w
    <3>2. ASSUME NEW x \in ToSet(cfg.blocks) PROVE \E z \in ToSet(w.blocks) : z.label = x.label
      <4>1. PICK y \in ToSet(cut.blocks) : y.label = x.label
        BY <1>9 DEF HasBlocksOf
      <4>2. PICK z \in ToSet(w.blocks) : z.label = y.label
        BY <3>1 DEF HasBlocksOf
      <4> QED BY <4>1, <4>2
    <3> QED BY <3>2 DEF HasBlocksOf
  <2>2. w \in Graphs(n) /\ Sound(w)
    BY <1>13
  <2>3. led \in {cut, w}
    OBVIOUS
  <2> HIDE DEF w, led
  <2> QED BY <1>9, <2>1, <2>2, <2>3
<1> HIDE DEF led, front
<1>15. Sound(better) /\ HasBlocksOf(cfg, better)
  <2> DEFINE q == led.blocks
             with == [q EXCEPT ![at].code = BeforeTerminator(@, got.hoisted)]
  <2>1. q \in Seq(Blocks(n)) /\ \A k \in DOMAIN q : q[k] \in Blocks(n)
    BY <1>14, GraphFields
  <2>2. better = [led EXCEPT !.blocks = with]
    BY <1>14 DEF Graphs
  <2> HIDE DEF q, better
  <2>3. Recoded(q, with)
    <3>1. \A k \in DOMAIN q : Alike(q[k].code, q[k].code)
      BY DEF Alike
    <3>2. CASE at \in DOMAIN q
      <4> DEFINE c == BeforeTerminator(q[at].code, got.hoisted)
                 b == [q[at] EXCEPT !.code = c]
      <4>1. q[at] \in Blocks(n) /\ q[at].code \in Seq(Unlabelled(n))
        BY <2>1, <3>2, BlockFields
      <4>2. Alike(q[at].code, c)
        BY <1>2, <1>3, <4>1, BeforeTerminatorAlike
      <4>3. with = [q EXCEPT ![at] = b]
        OBVIOUS
      <4> HIDE DEF c
      <4>4. q[at] = [label |-> q[at].label, code |-> q[at].code, succs |-> q[at].succs, preds |-> q[at].preds]
        BY <4>1 DEF Blocks
      <4>5. b.label = q[at].label /\ b.code = c /\ b.succs = q[at].succs /\ b.preds = q[at].preds
        BY <4>4
      <4> HIDE DEF b, at, with
      <4>6. DOMAIN with = DOMAIN q /\ with[at] = b /\ \A k \in DOMAIN q : k # at => with[k] = q[k]
        BY <2>1, <3>2, <4>3
      <4>7. ASSUME NEW k \in DOMAIN q
            PROVE  /\ with[k].label = q[k].label /\ with[k].succs = q[k].succs
                   /\ with[k].preds = q[k].preds /\ Alike(q[k].code, with[k].code)
        <5>1. CASE k = at
          BY <4>2, <4>5, <4>6, <5>1
        <5>2. CASE k # at
          BY <3>1, <4>6, <5>2
        <5> QED BY <5>1, <5>2
      <4> QED BY <4>6, <4>7 DEF Recoded
    <3>3. CASE at \notin DOMAIN q
      <4>1. with = q
        <5> HIDE DEF at
        <5> QED BY <2>1, <3>3
      <4> HIDE DEF with
      <4> QED BY <3>1, <4>1 DEF Recoded
    <3> QED BY <3>2, <3>3
  <2> HIDE DEF with
  <2>4. Sound(better) /\ HasBlocksOf(led, better)
    <3>1. Recoded(led.blocks, with)
      BY <2>3 DEF q
    <3> QED BY <1>14, <2>2, <3>1, RecodedSound, RecodedKeeps
  <2>5. ASSUME NEW x \in ToSet(cfg.blocks) PROVE \E z \in ToSet(better.blocks) : z.label = x.label
    <3>1. PICK y \in ToSet(led.blocks) : y.label = x.label
      BY <1>14 DEF HasBlocksOf
    <3>2. PICK z \in ToSet(better.blocks) : z.label = y.label
      BY <2>4 DEF HasBlocksOf
    <3> QED BY <3>1, <3>2
  <2> QED BY <2>4, <2>5 DEF HasBlocksOf
<1>16. HasBlocksOf(cfg, cfg)
  BY DEF HasBlocksOf
<1> HIDE DEF better
<1> QED BY <1>4, <1>15, <1>16

(* A loop's header is one of its blocks.                                   *)
LEMMA HeaderInBody ==
  ASSUME NEW N, NEW cfg \in Graphs(N), NEW head \in Int, NEW l \in Int
  PROVE  head \in LoopBody(cfg, head, l)
<1> DEFINE seq == cfg.blocks
           start == {head, l}
           n == Len(seq)
           A == {X \in SUBSET Int : head \in X}
           op(body, b) == body \cup {p \in UNION {ToSet(Block(cfg, m).preds) : m \in body \ {head}} :
                                       Dominates(cfg, head, p)}
           g == [p \in A \X (1..n) |-> op(p[1], seq[p[2]])]
           Is(f) == f = [m \in 0..n |-> IF m = 0 THEN start ELSE op(f[m - 1], seq[m])]
           after == CHOOSE f : Is(f)
<1>1. n \in Nat /\ start \in A
  BY GraphFields
<1>2. \A a \in A, m \in 1..n : op(a, seq[m]) \in A
  <2> SUFFICES ASSUME NEW a \in A, NEW m \in 1..n PROVE op(a, seq[m]) \in A
    OBVIOUS
  <2>1. \A k \in a : ToSet(Block(cfg, k).preds) \subseteq Int
    <3> SUFFICES ASSUME NEW k \in Int PROVE ToSet(Block(cfg, k).preds) \subseteq Int
      OBVIOUS
    <3> DEFINE q == Block(cfg, k).preds
    <3>1. q \in Seq(Int)
      BY BlockType, BlockFields
    <3> HIDE DEF q
    <3>2. ToSet(q) \subseteq Int
      BY <3>1 DEF ToSet
    <3> QED BY <3>2 DEF q
  <2> DEFINE X(k) == ToSet(Block(cfg, k).preds)
             Y == UNION {X(k) : k \in a \ {head}}
  <2>2. Y \subseteq Int
    <3> HIDE DEF X
    <3>1. \A k \in a : X(k) \subseteq Int
      BY <2>1 DEF X
    <3> QED BY <3>1
  <2>3. op(a, seq[m]) = a \cup {p \in Y : Dominates(cfg, head, p)}
    OBVIOUS
  <2> HIDE DEF Y, op
  <2>4. {p \in Y : Dominates(cfg, head, p)} \subseteq Int
    BY <2>2
  <2> QED BY <2>3, <2>4
<1> HIDE DEF op, A, n, start, seq
<1>3. g \in [A \X (1..n) -> A]
  BY <1>2
<1>4. PICK f : Folded(f, A, n, start, g)
  <2> HIDE DEF g
  <2> QED BY <1>1, <1>3, FoldExists
<1>5. Is(f)
  <2>1. ASSUME NEW m \in 1..n PROVE f[m] = op(f[m - 1], seq[m])
    <3>1. m - 1 \in 0..n /\ m \in 1..n
      BY <1>1
    <3>2. f[m - 1] \in A /\ f[m] = g[<<f[m - 1], m>>]
      <4> HIDE DEF g
      <4> QED BY <1>4, <3>1 DEF Folded
    <3> QED BY <3>1, <3>2
  <2> HIDE DEF g
  <2> QED BY <1>1, <1>4, <2>1 DEF Folded
<1>6. Is(after)
  <2> HIDE DEF Is
  <2> QED BY <1>5
<1>7. after[0] = start /\ \A m \in 1..n : after[m] = op(after[m - 1], seq[m])
  <2> HIDE DEF after
  <2>1. \A m \in 1..n : m \in 0..n /\ m # 0
    BY <1>1
  <2> QED BY <1>1, <1>6, <2>1
<1> HIDE DEF after
<1> DEFINE all(m) == after[m] \in A
           h == [m \in 0..n |-> all(m)]
<1>8. all(0)
  BY <1>1, <1>7
<1>9. ASSUME NEW m \in 1..n, all(m - 1) PROVE all(m)
  BY <1>2, <1>7, <1>9
<1>10. h[n] \in {TRUE}
  <2>1. Carries(h, {TRUE}, n)
    <3> HIDE DEF all
    <3>1. h[0] = all(0) /\ \A m \in 1..n : m - 1 \in 0..n /\ h[m] = all(m) /\ h[m - 1] = all(m - 1)
      BY <1>1
    <3>2. h[0] \in {TRUE}
      BY <1>8, <3>1
    <3>3. ASSUME NEW m \in 1..n, h[m - 1] \in {TRUE} PROVE h[m] \in {TRUE}
      <4>1. all(m - 1)
        BY <3>1, <3>3
      <4>2. all(m)
        BY <1>9, <4>1
      <4> QED BY <3>1, <4>2
    <3> HIDE DEF h
    <3> QED BY <3>2, <3>3 DEF Carries
  <2> HIDE DEF h
  <2> QED BY <1>1, <2>1, FoldKeeps
<1>11. all(n)
  <2> HIDE DEF all
  <2> QED BY <1>1, <1>10
<1>12. LoopBody(cfg, head, l) = after[n]
  BY DEF LoopBody, Fold, op, n, start, seq, after
<1> QED BY <1>11, <1>12 DEF A

-----------------------------------------------------------------------------
(* The loops a graph may have: the header is a block's label.              *)
LoopsIn(cfg) ==
  {[header |-> h, body |-> LoopBody(cfg, h, l)] : h \in LabelSet(cfg.blocks), l \in Int}

(* Of such are those a block closes.                                       *)
LEMMA LoopsBackFromAre ==
  ASSUME NEW n, NEW cfg \in Graphs(n), Sound(cfg), NEW b \in ToSet(cfg.blocks)
  PROVE  LoopsBackFrom(cfg, b) \in Seq(LoopsIn(cfg))
<1> DEFINE S == {h \in ToSet(b.succs) : Dominates(cfg, h, b.label)}
           L == LabelSet(cfg.blocks)
           heads == Only(b.succs, S)
           loops == [k \in DOMAIN heads |->
                       [header |-> heads[k], body |-> LoopBody(cfg, heads[k], b.label)]]
<1>1. b \in Blocks(n) /\ b.succs \in Seq(Int) /\ b.label \in Int
  <2>1. b \in Blocks(n)
    BY GraphFields DEF ToSet
  <2> QED BY <2>1, BlockFields
<1>2. S \subseteq L
  <2>1. \A l \in ToSet(b.succs) : \E c \in ToSet(cfg.blocks) : c.label = l
    BY DEF Sound, Joins
  <2>2. \A c \in ToSet(cfg.blocks) : c.label \in L
    BY DEF ToSet, LabelSet
  <2> QED BY <2>1, <2>2
<1>3. heads \in Seq(L)
  <2> HIDE DEF S, L
  <2>1. Only(b.succs, S) \in Seq(Int \cap S)
    BY <1>1, OnlyType
  <2> HIDE DEF heads
  <2>2. Int \cap S \subseteq L
    BY <1>2
  <2>3. heads \in Seq(Int \cap S)
    BY <2>1 DEF heads
  <2> QED BY <2>2, <2>3
<1>4. LoopsBackFrom(cfg, b) = << >> \o loops
  BY DEF LoopsBackFrom, Map
<1> HIDE DEF heads
<1>5. \A k \in DOMAIN heads : loops[k] \in LoopsIn(cfg)
  <2>1. \A k \in DOMAIN heads : heads[k] \in L
    BY <1>3
  <2> QED BY <1>1, <2>1 DEF LoopsIn
<1>6. loops \in Seq(LoopsIn(cfg))
  <2>1. loops \in [DOMAIN heads -> LoopsIn(cfg)]
    BY <1>5
  <2> HIDE DEF loops
  <2>2. DOMAIN heads = 1..Len(heads) /\ Len(heads) \in Nat
    BY <1>3
  <2> QED BY <2>1, <2>2
<1> HIDE DEF loops
<1> QED BY <1>4, <1>6

(* So are all of a graph.                                                  *)
LEMMA NaturalLoopsIn ==
  ASSUME NEW N, NEW cfg \in Graphs(N), Sound(cfg)
  PROVE  NaturalLoops(cfg) \in Seq(LoopsIn(cfg))
<1> DEFINE seq == cfg.blocks
           start == << >>
           n == Len(seq)
           A == Seq(LoopsIn(cfg))
           op(loops, b) == loops \o LoopsBackFrom(cfg, b)
           g == [p \in A \X (1..n) |-> op(p[1], seq[p[2]])]
           Is(f) == f = [m \in 0..n |-> IF m = 0 THEN start ELSE op(f[m - 1], seq[m])]
           after == CHOOSE f : Is(f)
<1>1. n \in Nat /\ start \in A
  BY GraphFields
<1>2. \A a \in A, m \in 1..n : op(a, seq[m]) \in A
  <2>1. \A m \in 1..n : seq[m] \in ToSet(seq)
    BY GraphFields DEF ToSet
  <2>2. \A m \in 1..n : LoopsBackFrom(cfg, seq[m]) \in A
    <3> HIDE DEF n
    <3> QED BY <2>1, LoopsBackFromAre
  <2> HIDE DEF n, seq
  <2> QED BY <2>2
<1> HIDE DEF op, A, n, start, seq
<1>3. g \in [A \X (1..n) -> A]
  BY <1>2
<1>4. PICK f : Folded(f, A, n, start, g)
  <2> HIDE DEF g
  <2> QED BY <1>1, <1>3, FoldExists
<1>5. Is(f)
  <2>1. ASSUME NEW m \in 1..n PROVE f[m] = op(f[m - 1], seq[m])
    <3>1. m - 1 \in 0..n /\ m \in 1..n
      BY <1>1
    <3>2. f[m - 1] \in A /\ f[m] = g[<<f[m - 1], m>>]
      <4> HIDE DEF g
      <4> QED BY <1>4, <3>1 DEF Folded
    <3> QED BY <3>1, <3>2
  <2> HIDE DEF g
  <2> QED BY <1>1, <1>4, <2>1 DEF Folded
<1>6. Is(after)
  <2> HIDE DEF Is
  <2> QED BY <1>5
<1>7. after[0] = start /\ \A m \in 1..n : after[m] = op(after[m - 1], seq[m])
  <2> HIDE DEF after
  <2>1. \A m \in 1..n : m \in 0..n /\ m # 0
    BY <1>1
  <2> QED BY <1>1, <1>6, <2>1
<1> HIDE DEF after
<1> DEFINE all(m) == after[m] \in A
           h == [m \in 0..n |-> all(m)]
<1>8. all(0)
  BY <1>1, <1>7
<1>9. ASSUME NEW m \in 1..n, all(m - 1) PROVE all(m)
  BY <1>2, <1>7, <1>9
<1>10. h[n] \in {TRUE}
  <2>1. Carries(h, {TRUE}, n)
    <3> HIDE DEF all
    <3>1. h[0] = all(0) /\ \A m \in 1..n : m - 1 \in 0..n /\ h[m] = all(m) /\ h[m - 1] = all(m - 1)
      BY <1>1
    <3>2. h[0] \in {TRUE}
      BY <1>8, <3>1
    <3>3. ASSUME NEW m \in 1..n, h[m - 1] \in {TRUE} PROVE h[m] \in {TRUE}
      <4>1. all(m - 1)
        BY <3>1, <3>3
      <4>2. all(m)
        BY <1>9, <4>1
      <4> QED BY <3>1, <4>2
    <3> HIDE DEF h
    <3> QED BY <3>2, <3>3 DEF Carries
  <2> HIDE DEF h
  <2> QED BY <1>1, <2>1, FoldKeeps
<1>11. all(n)
  <2> HIDE DEF all
  <2> QED BY <1>1, <1>10
<1>12. NaturalLoops(cfg) = after[n]
  BY DEF NaturalLoops, Fold, op, n, start, seq, after
<1> QED BY <1>11, <1>12 DEF A

(* Their headers are in them and in the graph.                             *)
LEMMA NaturalLoopsAre ==
  ASSUME NEW n, NEW cfg \in Graphs(n), Sound(cfg)
  PROVE  /\ Len(NaturalLoops(cfg)) \in Nat
         /\ \A k \in 1..Len(NaturalLoops(cfg)) :
              /\ NaturalLoops(cfg)[k].header \in Int
              /\ NaturalLoops(cfg)[k].header \in NaturalLoops(cfg)[k].body
              /\ \E b \in ToSet(cfg.blocks) : b.label = NaturalLoops(cfg)[k].header
<1> DEFINE q == NaturalLoops(cfg)
<1>1. q \in Seq(LoopsIn(cfg))
  BY NaturalLoopsIn
<1> HIDE DEF q
<1>2. Len(q) \in Nat /\ \A k \in 1..Len(q) : q[k] \in LoopsIn(cfg)
  BY <1>1
<1>3. ASSUME NEW lp \in LoopsIn(cfg)
      PROVE  lp.header \in Int /\ lp.header \in lp.body /\ \E b \in ToSet(cfg.blocks) : b.label = lp.header
  <2>1. PICK h \in LabelSet(cfg.blocks), l \in Int : lp = [header |-> h, body |-> LoopBody(cfg, h, l)]
    BY DEF LoopsIn
  <2>2. PICK k \in DOMAIN cfg.blocks : cfg.blocks[k].label = h
    BY DEF LabelSet
  <2>3. h \in Int /\ cfg.blocks[k] \in ToSet(cfg.blocks)
    BY <2>2, GraphFields, BlockFields DEF ToSet
  <2>4. h \in LoopBody(cfg, h, l)
    BY <2>3, HeaderInBody
  <2>5. lp.header = h /\ lp.body = LoopBody(cfg, h, l)
    BY <2>1
  <2> QED BY <2>2, <2>3, <2>4, <2>5
<1> QED BY <1>2, <1>3 DEF q

(* hoist_loop_invariants leaves a sound graph sound: every preheader it  *)
(* puts in front of a loop is joined to its predecessors and to the header,*)
(* and what is moved there never leads anywhere.                         *)
THEOREM HoistInvariantsSound ==
  ASSUME NEW N \in Nat, NEW cfg \in Graphs(N), Sound(cfg)
  PROVE  Sound(HoistInvariants(cfg))
<1> DEFINE seq == NaturalLoops(cfg)
           start == cfg
           n == Len(seq)
           A == Graphs(N)
           op(c, lp) == HoistLoop(c, lp)
           g == [p \in A \X (1..n) |-> op(p[1], seq[p[2]])]
           Is(f) == f = [m \in 0..n |-> IF m = 0 THEN start ELSE op(f[m - 1], seq[m])]
           after == CHOOSE f : Is(f)
<1>1. n \in Nat /\ start \in A
  BY NaturalLoopsAre
<1>2. \A a \in A, m \in 1..n : op(a, seq[m]) \in A
  <2>1. \A m \in 1..n : seq[m].header \in Int
    BY NaturalLoopsAre
  <2> HIDE DEF n, seq
  <2> QED BY <2>1, HoistLoopType
<1>20. \A m \in 1..n : /\ seq[m].header \in Int /\ seq[m].header \in seq[m].body
                       /\ \E b \in ToSet(cfg.blocks) : b.label = seq[m].header
  BY NaturalLoopsAre
<1> HIDE DEF op, A, n, start, seq
<1>3. g \in [A \X (1..n) -> A]
  BY <1>2
<1>4. PICK f : Folded(f, A, n, start, g)
  <2> HIDE DEF g
  <2> QED BY <1>1, <1>3, FoldExists
<1>5. Is(f)
  <2>1. ASSUME NEW m \in 1..n PROVE f[m] = op(f[m - 1], seq[m])
    <3>1. m - 1 \in 0..n /\ m \in 1..n
      BY <1>1
    <3>2. f[m - 1] \in A /\ f[m] = g[<<f[m - 1], m>>]
      <4> HIDE DEF g
      <4> QED BY <1>4, <3>1 DEF Folded
    <3> QED BY <3>1, <3>2
  <2> HIDE DEF g
  <2> QED BY <1>1, <1>4, <2>1 DEF Folded
<1>6. Is(after)
  <2> HIDE DEF Is
  <2> QED BY <1>5
<1>7. after[0] = start /\ \A m \in 1..n : after[m] = op(after[m - 1], seq[m])
  <2> HIDE DEF after
  <2>1. \A m \in 1..n : m \in 0..n /\ m # 0
    BY <1>1
  <2> QED BY <1>1, <1>6, <2>1
<1> HIDE DEF after
<1> DEFINE all(m) == after[m] \in A /\ Sound(after[m]) /\ HasBlocksOf(cfg, after[m])
           h == [m \in 0..n |-> all(m)]
<1>8. all(0)
  BY <1>1, <1>7 DEF start, HasBlocksOf
<1>9. ASSUME NEW m \in 1..n, all(m - 1) PROVE all(m)
  <2> DEFINE a == after[m - 1]
             lp == seq[m]
             c == HoistLoop(a, lp)
  <2>1. a \in Graphs(N) /\ Sound(a) /\ HasBlocksOf(cfg, a) /\ after[m] = c
    BY <1>7, <1>9 DEF op, A
  <2>2. after[m] \in A
    BY <1>2, <1>7, <1>9
  <2>3. lp.header \in Int /\ lp.header \in lp.body
    BY <1>20
  <2>4. PICK b \in ToSet(cfg.blocks) : b.label = lp.header
    BY <1>20
  <2> HIDE DEF a, lp
  <2>5. PICK hb \in ToSet(a.blocks) : hb.label = lp.header
    BY <2>1, <2>4 DEF HasBlocksOf
  <2>6. Sound(c) /\ HasBlocksOf(a, c)
    BY <2>1, <2>3, <2>5, HoistLoopSound
  <2> HIDE DEF c
  <2>7. ASSUME NEW x \in ToSet(cfg.blocks) PROVE \E z \in ToSet(c.blocks) : z.label = x.label
    <3>1. PICK y \in ToSet(a.blocks) : y.label = x.label
      BY <2>1 DEF HasBlocksOf
    <3>2. PICK z \in ToSet(c.blocks) : z.label = y.label
      BY <2>6 DEF HasBlocksOf
    <3> QED BY <3>1, <3>2
  <2>8. HasBlocksOf(cfg, c)
    BY <2>7 DEF HasBlocksOf
  <2> QED BY <2>1, <2>2, <2>6, <2>8
<1>10. h[n] \in {TRUE}
  <2>1. Carries(h, {TRUE}, n)
    <3> HIDE DEF all
    <3>1. h[0] = all(0) /\ \A m \in 1..n : m - 1 \in 0..n /\ h[m] = all(m) /\ h[m - 1] = all(m - 1)
      BY <1>1
    <3>2. h[0] \in {TRUE}
      BY <1>8, <3>1
    <3>3. ASSUME NEW m \in 1..n, h[m - 1] \in {TRUE} PROVE h[m] \in {TRUE}
      <4>1. all(m - 1)
        BY <3>1, <3>3
      <4>2. all(m)
        BY <1>9, <4>1
      <4> QED BY <3>1, <4>2
    <3> HIDE DEF h
    <3> QED BY <3>2, <3>3 DEF Carries
  <2> HIDE DEF h
  <2> QED BY <1>1, <2>1, FoldKeeps
<1>11. all(n)
  <2> HIDE DEF all
  <2> QED BY <1>1, <1>10
<1>12. HoistInvariants(cfg) = after[n]
  BY DEF HoistInvariants, Fold, op, n, start, seq, after
<1> QED BY <1>11, <1>12
=============================================================================
