-------------------------- MODULE Compiler_proofs ---------------------------
(***************************************************************************)
(* A function through the compiler, for any statements, bounds and numbers *)
(* of registers.  First the register allocator by itself, for any          *)
(* intervals and copies; then the whole: code and graphs stay well formed  *)
(* from the first statement to the last register, the intervals are of     *)
(* variables there are and cover all the code names, and so the allocator  *)
(* is started as its own proof needs it.  Last the labels: scopes hold     *)
(* those that are yet to be placed, so that verify_cfg accepts the graph   *)
(* that is built, and the one built again of an accepted graph's layout;   *)
(* and, through every pass of every round, the optimized one, unless an    *)
(* empty block jumps back to one that was bypassed before it.              *)
(***************************************************************************)
EXTENDS Compiler, Optimizer_proofs

-----------------------------------------------------------------------------
(* The inductive invariant.  `Placed` are the variables the scan has given *)
(* registers; what is yet to come starts no earlier than any of them.      *)
Placed == DOMAIN mapping \ 1..Params

Types ==
  /\ span \in [DOMAIN span -> [start : Nat, end : Nat]]
  /\ queue \in Seq(DOMAIN span \ 1..Params)
  /\ Placed \subseteq DOMAIN span
  /\ active \subseteq Placed

InTurn ==
  /\ InOrder(queue)
  /\ \A v \in Placed : \A i \in 1..Len(queue) :
       v # queue[i] /\ span[v].start <= span[queue[i]].start

(* Registers are free, or have one active variable, or had others.         *)
Exclusive ==
  \A v \in active : mapping[v] \notin free /\ \A w \in active \ {v} : mapping[w] # mapping[v]

(* Who is no longer active was over when some variable was placed.         *)
OverBy(v, x) ==
  \/ span[v].end < span[x].start
  \/ v \in hints[x] /\ span[v].end <= span[x].start
Finished == \A v \in Placed \ active : \E x \in Placed : OverBy(v, x)

Kept ==
  /\ 1..Params \subseteq DOMAIN mapping
  /\ \A p \in 1..Params : mapping[p] = p
  /\ \A v \in Placed : mapping[v] \in (Params + 1)..Registers
  /\ free \subseteq (Params + 1)..Registers

IInv == Types /\ InTurn /\ Exclusive /\ Finished /\ Kept /\ NoClash

-----------------------------------------------------------------------------
(* Every start of the scan satisfies the invariant.                        *)
LEMMA ScanStarts == ScanInit => IInv
<1> SUFFICES ASSUME ScanInit PROVE IInv
  OBVIOUS
<1>1. DOMAIN mapping = 1..Params /\ Placed = {}
  BY DEF ScanInit, Begin, Placed
<1>2. \A p \in 1..Params : mapping[p] = p
  BY DEF ScanInit, Begin
<1>3. Types /\ InTurn
  BY <1>1 DEF ScanInit, Begin, Types, InTurn
<1>4. Exclusive /\ Finished
  BY <1>1 DEF ScanInit, Begin, Exclusive, Finished
<1>5. Kept
  BY <1>1, <1>2 DEF ScanInit, Begin, Kept
<1>6. NoClash
  BY <1>1 DEF NoClash, Placed
<1> QED BY <1>3, <1>4, <1>5, <1>6 DEF IInv

-----------------------------------------------------------------------------
(* One turn of the loop keeps it.                                          *)
LEMMA PlacingKeeps == IInv /\ PlaceNext => IInv'
<1> SUFFICES ASSUME IInv, PlaceNext PROVE IInv'
  OBVIOUS
<1>0. PICK v : v = Head(queue)
  OBVIOUS
<1>1. /\ v \in DOMAIN span /\ v \notin 1..Params /\ v \notin Placed /\ v \notin DOMAIN mapping
      /\ 1 \in 1..Len(queue) /\ v = queue[1]
      /\ \A w \in Placed : span[w].start <= span[v].start
  <2>1. queue \in Seq(DOMAIN span \ 1..Params) /\ queue # << >>
    BY DEF IInv, Types, PlaceNext
  <2>2. 1 \in 1..Len(queue) /\ Head(queue) = queue[1] /\ queue[1] \in DOMAIN span \ 1..Params
    BY <2>1
  <2> QED BY <1>0, <2>2 DEF IInv, InTurn, Placed
<1>2. PICK r \in Eligible(v) : Place(v, r)
  BY <1>0 DEF PlaceNext
<1>3. r \in Freed(v)
  BY <1>2 DEF Eligible, Wanted
<1>4. span' = span /\ hints' = hints /\ queue' = Tail(queue)
  BY DEF PlaceNext
<1>5. /\ DOMAIN mapping' = DOMAIN mapping \cup {v} /\ mapping'[v] = r
      /\ \A w \in DOMAIN mapping : mapping'[w] = mapping[w]
  BY <1>1, <1>2 DEF Place
<1>6. Placed' = Placed \cup {v}
  BY <1>1, <1>5 DEF Placed
<1>7. /\ free' = Freed(v) \ {r}
      /\ active' = (active \ Over(v)) \cup {v}
  BY <1>2 DEF Place
<1>8. \A w \in Placed : w \in DOMAIN mapping /\ mapping'[w] = mapping[w] /\ w # v
  BY <1>1, <1>5 DEF Placed
<1>9. \A w \in Placed \cup {v} : span[w] \in [start : Nat, end : Nat]
  BY <1>1 DEF IInv, Types
<1>10. Types'
  <2>1. Tail(queue) \in Seq(DOMAIN span \ 1..Params)
    BY DEF IInv, Types, PlaceNext
  <2>2. active' \subseteq Placed'
    BY <1>6, <1>7 DEF IInv, Types
  <2> QED BY <1>1, <1>4, <1>6, <2>1, <2>2 DEF IInv, Types
<1>11. InTurn'
  <2>1. /\ queue \in Seq(DOMAIN span \ 1..Params) /\ queue # << >>
        /\ Len(queue') = Len(queue) - 1 /\ Len(queue) \in Nat
    BY <1>4 DEF IInv, Types, PlaceNext
  <2>2. \A i \in 1..Len(queue') : queue'[i] = queue[i + 1] /\ i + 1 \in 1..Len(queue) /\ 1 < i + 1
    BY <1>4, <2>1
  <2>3. InOrder(queue)
    BY DEF IInv, InTurn
  <2>4. ASSUME NEW i \in 1..Len(queue'), NEW j \in 1..Len(queue'), i < j
        PROVE  span[queue'[i]].start <= span[queue'[j]].start /\ queue'[i] # queue'[j]
    <3>1. i \in Int /\ j \in Int
      OBVIOUS
    <3>2. i + 1 < j + 1
      BY <2>4, <3>1
    <3> QED BY <2>2, <2>3, <3>2 DEF InOrder
  <2>5. ASSUME NEW w \in Placed', NEW i \in 1..Len(queue')
        PROVE  w # queue'[i] /\ span[w].start <= span[queue'[i]].start
    <3>1. CASE w = v
      BY <1>1, <2>2, <2>3, <3>1 DEF InOrder
    <3>2. CASE w \in Placed
      BY <2>2, <3>2 DEF IInv, InTurn
    <3> QED BY <1>6, <3>1, <3>2
  <2>6. (InOrder(queue))'
    BY <1>4, <2>4 DEF InOrder
  <2>7. \A w \in Placed' : \A i \in 1..Len(queue') :
           w # queue'[i] /\ span'[w].start <= span'[queue'[i]].start
    BY <1>4, <2>5
  <2> QED BY <2>6, <2>7 DEF InTurn
<1>12. \A w \in Over(v) : w \in active /\ w \in Placed /\ OverBy(w, v)
  BY DEF Over, Expired, Retired, OverBy, IInv, Types
<1>13. \A w \in active \ Over(v) : w \in Placed /\ mapping[w] \notin Freed(v)
  BY <1>12 DEF IInv, Types, Exclusive, Freed
<1>14. Exclusive'
  <2>1. \A w \in active \ Over(v) : w \in Placed /\ mapping'[w] \notin Freed(v) /\ mapping'[w] # r
    BY <1>3, <1>8, <1>13
  <2>2. \A w, x \in active \ Over(v) : w # x => mapping'[w] # mapping'[x]
    BY <1>8, <1>13 DEF IInv, Exclusive
  <2> QED BY <1>5, <1>7, <2>1, <2>2 DEF Exclusive
<1>15. Finished'
  <2> SUFFICES ASSUME NEW w \in Placed', w \notin active'
               PROVE  \E x \in Placed' : OverBy(w, x)
    BY <1>4 DEF Finished, OverBy
  <2>1. w \in Placed /\ w # v
    BY <1>6, <1>7
  <2>2. CASE w \in active
    BY <1>6, <1>7, <1>12, <2>2
  <2>3. CASE w \notin active
    BY <1>6, <2>1, <2>3 DEF IInv, Finished
  <2> QED BY <2>2, <2>3
<1>16. Kept'
  <2>1. Freed(v) \subseteq (Params + 1)..Registers
    BY <1>12 DEF Freed, IInv, Kept
  <2>2. \A p \in 1..Params : p \in DOMAIN mapping' /\ mapping'[p] = p
    BY <1>5 DEF IInv, Kept
  <2>3. \A w \in Placed' : mapping'[w] \in (Params + 1)..Registers
    BY <1>3, <1>5, <1>6, <1>8, <2>1 DEF IInv, Kept
  <2> QED BY <1>7, <2>1, <2>2, <2>3 DEF Kept
<1>17. \A w \in Placed : mapping[w] = r => Before(w, v)'
  <2> SUFFICES ASSUME NEW w \in Placed, mapping[w] = r PROVE Before(w, v)'
    OBVIOUS
  <2>1. PICK x \in Placed' : OverBy(w, x)
    <3>1. CASE w \in active
      BY <1>3, <1>6, <1>12, <1>13, <3>1
    <3>2. CASE w \notin active
      BY <1>6, <3>2 DEF IInv, Finished
    <3> QED BY <3>1, <3>2
  <2>2. /\ span[w].end \in Nat /\ span[x].start \in Nat /\ span[v].start \in Nat
        /\ span[x].start <= span[v].start
    BY <1>1, <1>6, <1>9
  <2>3. CASE span[w].end < span[v].start
    BY <1>4, <2>3 DEF Before
  <2>4. CASE ~(span[w].end < span[v].start)
    <3>1. w \in hints[x] /\ span[x].start = span[w].end /\ span[w].end = span[v].start
      BY <2>1, <2>2, <2>4 DEF OverBy
    <3>2. EndsInCopy(w)'
      BY <1>4, <3>1 DEF EndsInCopy, Placed
    <3> QED BY <1>4, <3>1, <3>2 DEF Before
  <2> QED BY <2>3, <2>4
<1>18. NoClash'
  <2> SUFFICES ASSUME NEW w \in Placed', NEW x \in Placed', w # x, mapping'[w] = mapping'[x]
               PROVE  Before(w, x)' \/ Before(x, w)'
    BY DEF NoClash, Placed
  <2>1. CASE w = v
    BY <1>5, <1>6, <1>8, <1>17, <2>1
  <2>2. CASE x = v
    BY <1>5, <1>6, <1>8, <1>17, <2>2
  <2>3. CASE w # v /\ x # v
    <3>1. Before(w, x) \/ Before(x, w)
      BY <1>6, <1>8, <2>3 DEF IInv, NoClash, Placed
    <3>2. \A y : EndsInCopy(y) => EndsInCopy(y)'
      BY <1>4, <1>6 DEF EndsInCopy, Placed
    <3> QED BY <1>4, <3>1, <3>2 DEF Before
  <2> QED BY <2>1, <2>2, <2>3
<1> QED BY <1>10, <1>11, <1>14, <1>15, <1>16, <1>18 DEF IInv

(* So does every step of the scan.                                         *)
LEMMA ScanKeeps == IInv /\ [ScanNext]_scan => IInv'
<1> SUFFICES ASSUME IInv, [ScanNext]_scan PROVE IInv'
  OBVIOUS
<1>1. CASE PlaceNext
  BY <1>1, PlacingKeeps
<1>2. CASE RunOut \/ UNCHANGED scan
  <2>1. UNCHANGED <<span, hints, queue, mapping, free, active>>
    BY <1>2 DEF RunOut, scan
  <2> QED
    BY <2>1 DEF IInv, Types, InTurn, InOrder, Exclusive, Finished, OverBy, Kept, NoClash,
                Before, EndsInCopy, Placed
<1> QED BY <1>1, <1>2 DEF ScanNext

(* And so every state of it.                                               *)
LEMMA ScanInvariant == ScanSpec => []IInv
BY ScanStarts, ScanKeeps, PTL DEF ScanSpec

-----------------------------------------------------------------------------
(* Variables in one register are never needed at once: one is over before  *)
(* the other starts, or is copied where it does (allocate_registers).      *)
THEOREM NoClashHolds == ScanSpec => []NoClash
BY ScanInvariant, PTL DEF IInv

(* A parameter keeps the register the call puts it in, and no other        *)
(* variable is ever given it (allocate_registers).                         *)
THEOREM ParamsKeptHolds == ScanSpec => []ParamsKept
<1>1. IInv => ParamsKept
  BY DEF IInv, Kept, ParamsKept, Placed
<1> QED BY <1>1, ScanInvariant, PTL

(* Members of a set are members of a greater one.                          *)
LEMMA SeqGrows ==
  ASSUME NEW A, NEW B, A \subseteq B, NEW q \in Seq(A)
  PROVE  q \in Seq(B)
OBVIOUS

(* What is about n variables is about more, too.                           *)
LEMMA InstructionsGrow ==
  ASSUME NEW n \in Int, NEW m \in Int, n <= m
  PROVE  Instructions(n) \subseteq Instructions(m)
<1> SUFFICES ASSUME NEW i \in Instructions(n) PROVE i \in Instructions(m)
  OBVIOUS
<1> DEFINE Ops == Assigning \cup {"close", "return", "jump", "test", "label"}
           Right(j) == /\ j.dst = None <=> j.op \notin Assigning
                       /\ j.op = "move" => Len(j.srcs) = 1
                       /\ j.op \in Operators => Len(j.srcs) = 2
                       /\ j.op = "jump" => Len(j.srcs) = 0 /\ j.val = None
<1>1. i \in [op : Ops, dst : 0..n, srcs : Seq(1..n), val : Int, to : Int] /\ Right(i)
  BY DEF Instructions
<1>2. i.srcs \in Seq(1..m) /\ i.dst \in 0..m
  <2>1. \A s \in Seq(1..n) : s \in Seq(1..m)
    OBVIOUS
  <2>2. i.srcs \in Seq(1..n) /\ i.dst \in 0..n
    BY <1>1
  <2> QED BY <2>1, <2>2
<1>3. i \in [op : Ops, dst : 0..m, srcs : Seq(1..m), val : Int, to : Int]
  BY <1>1, <1>2
<1> QED BY <1>1, <1>3 DEF Instructions

(* So is code.                                                             *)
LEMMA CodeGrows ==
  ASSUME NEW n \in Int, NEW m \in Int, n <= m, NEW c \in Seq(Instructions(n))
  PROVE  c \in Seq(Instructions(m))
<1> DEFINE I == Instructions(n)
           J == Instructions(m)
<1>1. I \subseteq J
  BY InstructionsGrow
<1> HIDE DEF I, J
<1>2. \A s \in Seq(I) : s \in Seq(J)
  BY <1>1
<1> QED BY <1>2 DEF I, J

(* So are graphs.                                                          *)
LEMMA GraphsGrow ==
  ASSUME NEW n \in Int, NEW m \in Int, n <= m
  PROVE  Graphs(n) \subseteq Graphs(m)
<1> DEFINE I == Seq(Unlabelled(n))
           J == Seq(Unlabelled(m))
           B == Blocks(n)
           C == Blocks(m)
<1>1. I \subseteq J
  <2>1. Instructions(n) \subseteq Instructions(m)
    BY InstructionsGrow
  <2>2. Unlabelled(n) \subseteq Unlabelled(m)
    BY <2>1 DEF Unlabelled
  <2> QED BY <2>2
<1>2. B \subseteq C
  <2>1. B = [label : Int, code : I, succs : Seq(Int), preds : Seq(Int)]
        /\ C = [label : Int, code : J, succs : Seq(Int), preds : Seq(Int)]
    BY DEF Blocks
  <2> HIDE DEF I, J, B, C
  <2> QED BY <1>1, <2>1
<1>3. Seq(B) \subseteq Seq(C)
  <2> HIDE DEF I, J, B, C
  <2> QED BY <1>2
<1> HIDE DEF B, C
<1> QED BY <1>3 DEF Graphs, B, C

-----------------------------------------------------------------------------
(* A strict order of the members of a set.                                 *)
Orders(before, S) ==
  /\ \A v \in S : <<v, v>> \notin before
  /\ \A v, w \in S : v # w => <<v, w>> \in before \/ <<w, v>> \in before
  /\ \A v, w, x \in S : <<v, w>> \in before /\ <<w, x>> \in before => <<v, x>> \in before

(* The rank of a member is how many are before it, and orders the members. *)
LEMMA RankType ==
  ASSUME NEW S, IsFiniteSet(S), NEW before, Orders(before, S)
  PROVE  /\ \A v \in S : Rank(S, before, v) \in 0..(Cardinality(S) - 1)
         /\ \A v, w \in S : <<v, w>> \in before => Rank(S, before, v) < Rank(S, before, w)
<1> DEFINE Below(v) == {w \in S : <<w, v>> \in before}
<1>1. \A v \in S : IsFiniteSet(Below(v)) /\ Cardinality(Below(v)) \in Nat
  BY FS_Subset, FS_CardinalityType
<1>2. \A v \in S : Rank(S, before, v) = Cardinality(Below(v))
  BY DEF Rank
<1>3. ASSUME NEW v \in S, NEW T, v \in T, Below(v) \subseteq T, T \subseteq S
      PROVE  Cardinality(Below(v)) < Cardinality(T)
  <2>1. v \notin Below(v) /\ Below(v) # T /\ IsFiniteSet(T)
    BY <1>3, FS_Subset DEF Orders
  <2>2. /\ Cardinality(Below(v)) <= Cardinality(T)
        /\ Cardinality(Below(v)) # Cardinality(T)
        /\ Cardinality(T) \in Nat
    BY <1>3, <2>1, FS_Subset, FS_CardinalityType
  <2> HIDE DEF Below
  <2> QED BY <1>1, <2>2
<1>4. ASSUME NEW v \in S PROVE Rank(S, before, v) \in 0..(Cardinality(S) - 1)
  <2>1. Cardinality(Below(v)) < Cardinality(S)
    BY <1>3
  <2>2. Cardinality(S) \in Nat /\ Cardinality(Below(v)) \in Nat
    BY <1>1, FS_CardinalityType
  <2> HIDE DEF Below
  <2> QED BY <1>2, <2>1, <2>2
<1>5. ASSUME NEW v \in S, NEW w \in S, <<v, w>> \in before
      PROVE  Rank(S, before, v) < Rank(S, before, w)
  <2>1. v \in Below(w)
    BY <1>5
  <2>2. Below(v) \subseteq Below(w) /\ Below(w) \subseteq S
    BY <1>5 DEF Orders
  <2> QED BY <1>2, <1>3, <2>1, <2>2
<1> QED BY <1>4, <1>5

(* Every number below the size of the set is the rank of a member.         *)
LEMMA RankOnto ==
  ASSUME NEW S, IsFiniteSet(S), NEW before, Orders(before, S), NEW k \in 0..(Cardinality(S) - 1)
  PROVE  \E v \in S : Rank(S, before, v) = k
<1> SUFFICES ASSUME \A v \in S : Rank(S, before, v) # k PROVE FALSE
  OBVIOUS
<1> DEFINE c == Cardinality(S)
           T == 0..(c - 1)
           f == [v \in S |-> Rank(S, before, v)]
<1>1. c \in Nat
  BY FS_CardinalityType
<1>2. IsFiniteSet(T) /\ Cardinality(T) = c
  <2> HIDE DEF c
  <2> QED BY <1>1, FS_Interval
<1>3. IsFiniteSet(T \ {k}) /\ Cardinality(T \ {k}) = c - 1
  BY <1>2, FS_RemoveElement
<1>4. f \in [S -> T \ {k}]
  BY RankType
<1>5. Cardinality(T \ {k}) < c
  <2> HIDE DEF c, T
  <2> QED BY <1>1, <1>3
<1>6. PICK v, w \in S : v # w /\ f[v] = f[w]
  <2> HIDE DEF f, T
  <2> QED BY <1>3, <1>4, <1>5, FS_PigeonHole
<1>7. Rank(S, before, v) = Rank(S, before, w)
  BY <1>6
<1>8. Rank(S, before, v) < Rank(S, before, w) \/ Rank(S, before, w) < Rank(S, before, v)
  BY <1>6, RankType DEF Orders
<1>9. Rank(S, before, v) \in Int
  BY RankType
<1> QED BY <1>7, <1>8, <1>9

(* A set sorted: each member once, and each after those before it.         *)
THEOREM SortedType ==
  ASSUME NEW S, IsFiniteSet(S), NEW before, Orders(before, S)
  PROVE  /\ Sorted(S, before) \in Seq(S)
         /\ \A i, j \in 1..Len(Sorted(S, before)) :
              i < j => <<Sorted(S, before)[i], Sorted(S, before)[j]>> \in before
                       /\ Sorted(S, before)[i] # Sorted(S, before)[j]
         /\ \A v \in S : \E i \in 1..Len(Sorted(S, before)) : Sorted(S, before)[i] = v
<1> DEFINE c == Cardinality(S)
           rank(v) == Rank(S, before, v)
           q == [n \in 1..c |-> CHOOSE v \in S : rank(v) = n - 1]
<1>1. c \in Nat
  BY FS_CardinalityType
<1>2. ASSUME NEW n \in 1..c PROVE q[n] \in S /\ rank(q[n]) = n - 1
  <2>1. n - 1 \in 0..(c - 1)
    BY <1>1
  <2>2. \E v \in S : rank(v) = n - 1
    BY <2>1, RankOnto
  <2> QED BY <2>2
<1>3. Sorted(S, before) = << >> \o q
  BY DEF Sorted
<1>4. \A v \in S : rank(v) \in 0..(c - 1)
  BY RankType
<1>5. \A v, w \in S : <<v, w>> \in before => rank(v) < rank(w)
  BY RankType
<1>6. q = [n \in 1..c |-> q[n]]
  OBVIOUS
<1> HIDE DEF c, rank, q
<1>7. q \in [1..c -> S]
  BY <1>2, <1>6
<1>8. q \in Seq(S) /\ Len(q) = c
  BY <1>1, <1>7, FunctionIsSeq
<1>9. Sorted(S, before) = q
  BY <1>3, <1>8
<1>10. ASSUME NEW i \in 1..c, NEW j \in 1..c, i < j
       PROVE  <<q[i], q[j]>> \in before /\ q[i] # q[j]
  <2>1. q[i] \in S /\ q[j] \in S /\ rank(q[i]) = i - 1 /\ rank(q[j]) = j - 1 /\ i \in Int /\ j \in Int
    BY <1>2
  <2>2. q[i] # q[j] /\ ~ (rank(q[j]) < rank(q[i]))
    BY <1>10, <2>1
  <2> QED BY <1>5, <2>1, <2>2 DEF Orders
<1>11. ASSUME NEW v \in S PROVE \E i \in 1..c : q[i] = v
  <2>1. rank(v) \in Int /\ rank(v) + 1 \in 1..c /\ (rank(v) + 1) - 1 = rank(v)
    BY <1>1, <1>4
  <2>2. q[rank(v) + 1] \in S /\ rank(q[rank(v) + 1]) = rank(v)
    BY <1>2, <2>1
  <2>3. ~ (rank(v) < rank(v))
    BY <2>1
  <2>4. q[rank(v) + 1] = v
    BY <1>5, <2>2, <2>3 DEF Orders
  <2> QED BY <2>1, <2>4
<1> QED BY <1>8, <1>9, <1>10, <1>11

-----------------------------------------------------------------------------
(* The code that is built.  A local in scope is a variable there is.       *)
LEMMA LocalType ==
  ASSUME NEW n \in Nat, locals \in Seq(1..n), NEW k \in Nat \ {0}, k <= Len(locals)
  PROVE  Local(k) \in 1..n
<1>1. Len(locals) \in Nat
  OBVIOUS
<1>2. Len(locals) + 1 - k \in 1..Len(locals)
  BY <1>1
<1> QED BY <1>2 DEF Local

(* Instructions that only assign: none is a label, a jump or a return.     *)
Straight(n) == {i \in Instructions(n) : i.op \in Assigning}

(* What reads, copies and operators become is straight.                    *)
LEMMA NewStraight ==
  ASSUME NEW n \in Nat
  PROVE  /\ \A d, v \in 1..n : Move(d, v) \in Straight(n)
         /\ \A d \in 1..n, c \in Int : LoadConst(d, c) \in Straight(n)
         /\ \A d \in 1..n, vs \in Seq(1..n) : Call(d, vs) \in Straight(n)
         /\ \A d \in 1..n, vs \in Seq(1..n) : Closure(d, vs) \in Straight(n)
         /\ \A d, v, w \in 1..n, o \in Operators : BinOp(d, o, v, w) \in Straight(n)
<1>1. /\ \A d, v : Move(d, v).op = "move"
      /\ \A d, c : LoadConst(d, c).op = "const"
      /\ \A d, vs : Call(d, vs).op = "call"
      /\ \A d, vs : Closure(d, vs).op = "closure"
      /\ \A d, v, w, o : BinOp(d, o, v, w).op = o
  BY DEF Move, LoadConst, Call, Closure, BinOp, Inst
<1> QED BY <1>1, NewInstructions DEF Straight, Assigning

(* The code of an expression is about its temporaries and the locals in    *)
(* scope.                                                                  *)
LEMMA ExprCodeType ==
  ASSUME NEW e \in Expressions, NEW n \in Nat \ {0}, NEW m \in Nat, m = n + Len(e.of) - 1,
         NEW dst \in 1..m, locals \in Seq(1..m), InScope(e)
  PROVE  ExprCode(e, dst, n) \in Seq(Straight(m))
<1> DEFINE I == Straight(m)
           len == Len(e.of)
           reads == [k \in DOMAIN e.of |-> Move(n + k - 1, Local(e.of[k]))]
           temps == [k \in DOMAIN e.of |-> n + k - 1]
<1>1. /\ e.of \in Seq(Nat \ {None}) /\ e.op \in Operators \cup {"const", "var", "call", "capture"}
      /\ e.op \in Operators => len = 2
      /\ e.op \in {"var", "capture"} => len = 1
  BY DEF Expressions
<1>2. len \in Nat /\ DOMAIN e.of = 1..len /\ m = n + len - 1
  BY <1>1
<1>3. ASSUME NEW k \in 1..len PROVE n + k - 1 \in 1..m /\ Local(e.of[k]) \in 1..m
  <2>1. n + k - 1 \in 1..m
    <3> HIDE DEF len, reads, temps, I
    <3>1. n \in Nat /\ n >= 1 /\ len \in Nat /\ m = n + len - 1
      BY <1>2
    <3>2. k \in Nat /\ k >= 1 /\ k <= len
      BY <3>1
    <3> QED BY <3>1, <3>2
  <2>2. e.of[k] \in Nat \ {0} /\ e.of[k] \in ToSet(e.of)
    <3>1. k \in DOMAIN e.of
      BY <1>2
    <3>2. e.of[k] \in Nat \ {None}
      BY <1>1, <3>1
    <3> QED BY <3>1, <3>2 DEF ToSet, None
  <2> QED BY <2>1, <2>2, LocalType DEF InScope
<1>4. reads \in Seq(I)
  <2>1. \A k \in 1..len : reads[k] \in I
    BY <1>2, <1>3, NewStraight
  <2>2. reads = [k \in 1..len |-> reads[k]]
    BY <1>2
  <2> HIDE DEF reads, I, len
  <2>3. reads \in [1..len -> I]
    BY <2>1, <2>2
  <2> QED BY <1>2, <2>3, FunctionIsSeq
<1>5. temps \in Seq(1..m)
  <2>1. temps \in [1..len -> 1..m]
    BY <1>2, <1>3
  <2> HIDE DEF temps, len
  <2> QED BY <1>2, <2>1, FunctionIsSeq
<1> DEFINE aConst == <<LoadConst(dst, n)>>
           aVar == <<Move(dst, Local(e.of[1]))>>
           anOp == reads \o <<BinOp(dst, e.op, n, n + 1)>>
           aCall == reads \o <<Call(dst, temps)>>
           aCapture == <<Closure(n, <<Local(e.of[1])>>), Call(dst, <<n>>)>>
<1>6. ExprCode(e, dst, n) =
        CASE e.op = "const"     -> aConst
          [] e.op = "var"       -> aVar
          [] e.op \in Operators -> anOp
          [] e.op = "call"      -> aCall
          [] e.op = "capture"   -> aCapture
  BY DEF ExprCode
<1>7. aConst \in Seq(I)
  <2>1. LoadConst(dst, n) \in I
    BY NewStraight
  <2> HIDE DEF I
  <2> QED BY <2>1
<1>8. len = 1 => /\ 1 \in 1..len /\ n \in 1..m
                /\ Local(e.of[1]) \in 1..m
  <2> SUFFICES ASSUME len = 1 PROVE 1 \in 1..len /\ n \in 1..m
    BY <1>3
  <2> HIDE DEF len
  <2> QED BY <1>2
<1>9. len = 2 => n \in 1..m /\ n + 1 \in 1..m
  <2> HIDE DEF len
  <2> QED BY <1>2
<1>10. len = 1 => aVar \in Seq(I)
  <2>1. len = 1 => Move(dst, Local(e.of[1])) \in I
    <3> HIDE DEF len
    <3> QED BY <1>8, NewStraight
  <2> HIDE DEF I, len
  <2> QED BY <2>1
<1>11. e.op \in Operators => anOp \in Seq(I)
  <2>1. e.op \in Operators => BinOp(dst, e.op, n, n + 1) \in I
    <3> HIDE DEF len
    <3> QED BY <1>1, <1>9, NewStraight
  <2> HIDE DEF I, reads
  <2> QED BY <1>4, <2>1
<1>12. aCall \in Seq(I)
  <2>1. Call(dst, temps) \in I
    BY <1>5, NewStraight
  <2> HIDE DEF I, reads
  <2> QED BY <1>4, <2>1
<1>13. len = 1 => aCapture \in Seq(I)
  <2> SUFFICES ASSUME len = 1 PROVE aCapture \in Seq(I)
    OBVIOUS
  <2>1. <<Local(e.of[1])>> \in Seq(1..m) /\ <<n>> \in Seq(1..m) /\ n \in 1..m
    <3> HIDE DEF len
    <3> QED BY <1>8
  <2>2. Closure(n, <<Local(e.of[1])>>) \in I /\ Call(dst, <<n>>) \in I
    BY <2>1, NewStraight
  <2> HIDE DEF I
  <2> QED BY <2>2
<1> HIDE DEF aConst, aVar, anOp, aCall, aCapture, I, len
<1>14. ExprCode(e, dst, n) \in Seq(I)
  BY <1>1, <1>6, <1>7, <1>10, <1>11, <1>12, <1>13 DEF Operators
<1> QED BY <1>14 DEF I

(* Numbers are ordered.                                                    *)
LEMMA NumbersOrdered ==
  ASSUME NEW S, S \subseteq Int
  PROVE  Orders({p \in S \X S : p[1] < p[2]}, S)
<1> DEFINE before == {p \in S \X S : p[1] < p[2]}
<1>1. \A v, w \in S : <<v, w>> \in before <=> v < w
  OBVIOUS
<1> HIDE DEF before
<1>2. \A v \in S : v \in Int
  OBVIOUS
<1>3. (\A v \in S : <<v, v>> \notin before)
  BY <1>1, <1>2
<1>4. \A v, w \in S : v # w => <<v, w>> \in before \/ <<w, v>> \in before
  BY <1>1, <1>2
<1>5. \A v, w, x \in S : <<v, w>> \in before /\ <<w, x>> \in before => <<v, x>> \in before
  BY <1>1, <1>2
<1>6. Orders(before, S)
  BY <1>3, <1>4, <1>5 DEF Orders
<1> QED BY <1>6 DEF before

(* So the label of a body that was left is closed in order.                *)
LEMMA LoopCloseType ==
  ASSUME NEW n \in Nat, code \in Seq(Instructions(n)), NEW at \in 1..Len(code), NEW firstVar
  PROVE  LoopClose(at, firstVar) \in Seq(Instructions(n))
<1> DEFINE I == Instructions(n)
           part == SubSeq(code, at, Len(code))
           caught == {v \in UNION {Uses(i) : i \in {j \in ToSet(part) :
                                                  j.op = "closure"}} : v >= firstVar}
           below == {p \in caught \X caught : p[1] < p[2]}
<1>1. part \in Seq(I)
  <2> HIDE DEF I
  <2> QED BY DEF I
<1>2. \A i \in ToSet(part) : i \in I
  <2> HIDE DEF I, part
  <2> QED BY <1>1 DEF ToSet
<1>3. \A i \in I : Uses(i) \subseteq 1..n
  <2>1. \A i \in I : i.srcs \in Seq(1..n)
    BY InstructionFields
  <2> QED BY <2>1 DEF Uses, ToSet
<1>4. caught \subseteq 1..n
  <2> HIDE DEF I, part
  <2> QED BY <1>2, <1>3
<1>5. IsFiniteSet(caught) /\ caught \subseteq Int
  <2>1. IsFiniteSet(1..n)
    BY FS_Interval
  <2> HIDE DEF caught, below
  <2>2. \A v \in 1..n : v \in Int
    OBVIOUS
  <2> QED BY <1>4, <2>1, <2>2, FS_Subset
<1>6. Sorted(caught, below) \in Seq(1..n)
  <2>1. Orders(below, caught)
    BY <1>5, NumbersOrdered
  <2> HIDE DEF caught, below
  <2>2. Sorted(caught, below) \in Seq(caught)
    BY <1>5, <2>1, SortedType
  <2> QED BY <1>4, <2>2, SeqGrows
<1>7. CloseUpvals(Sorted(caught, below)) \in I
  BY <1>6, NewInstructions
<1>8. LoopClose(at, firstVar) = IF caught = {} THEN << >> ELSE <<CloseUpvals(Sorted(caught, below))>>
  BY DEF LoopClose
<1> HIDE DEF I, caught, below
<1> QED BY <1>7, <1>8 DEF I

-----------------------------------------------------------------------------
(* The invariant: what each stage leaves for the next.                     *)
Staged ==
  /\ stage = "build" => round = 0
  /\ stage # "build" => open = << >>
  /\ stage = "optimize" => round < MAX_FIXPOINT_ROUNDS
  /\ stage = "intervals" => code = Flatten(cfg)

(* Whatever the code assigns or uses has an interval, and what a closure   *)
(* captures has one that ends after every other has started.               *)
Spanned ==
  /\ DOMAIN span \subseteq 1..(next - 1)
  /\ span \in [DOMAIN span -> [start : Nat, end : Nat]]
  /\ hints \in [DOMAIN span -> SUBSET DOMAIN span]
  /\ \A i \in ToSet(code) : Defs(i) \cup Uses(i) \subseteq DOMAIN span
  /\ \A v \in CapturedVars(cfg) \cap DOMAIN span : \A w \in DOMAIN span : span[w].start < span[v].end

(* The scan is in the state its own proof needs, and forgets no variable.  *)
Scanned ==
  /\ stage # "allocate" => mapping = << >> /\ active = {}
  /\ stage \in {"sort", "allocate"} => Spanned
  /\ stage = "allocate" => IInv /\ DOMAIN span \subseteq DOMAIN mapping \cup ToSet(queue)

Inv == TypeOK /\ Staged /\ Scanned

(* The builder starts with nothing built.                                  *)
LEMMA Starts == Init => Inv
<1> SUFFICES ASSUME Init PROVE Inv
  OBVIOUS
<1>1. Params \in Nat /\ next = Params + 1 /\ next - 1 = Params
  BY CompilerAssumption DEF Init
<1>2. locals \in Seq(1..(next - 1))
  <2>1. locals \in [1..Params -> 1..Params]
    BY DEF Init
  <2> QED BY <1>1, <2>1, FunctionIsSeq
<1>3. code \in Seq(Instructions(next - 1)) /\ source \in Seq(Instructions(next - 1))
  BY DEF Init
<1>4. cfg \in Graphs(next - 1)
  BY DEF Init, Graphs, None
<1>5. open = << >> /\ open \in Seq(Scopes) /\ Nested
  BY DEF Init, Nested
<1>6. mapping = << >> /\ active = {} /\ DOMAIN mapping = {} /\ stage = "build"
  BY DEF Init
<1>7. round = 0 /\ round \in 0..MAX_FIXPOINT_ROUNDS /\ label \in Nat /\ made \in Nat
  BY DEF Init, MAX_FIXPOINT_ROUNDS
<1>8. TypeOK
  BY <1>1, <1>2, <1>3, <1>4, <1>5, <1>6, <1>7 DEF TypeOK
<1> QED BY <1>5, <1>6, <1>7, <1>8 DEF Inv, Staged, Scanned

(* A step of the build leaves the graph and the scan alone.                *)
LEMMA BuildKeeps ==
  ASSUME Inv, stage = "build", UNCHANGED <<stage, cfg, round, scan>>,
         next' \in Nat, next <= next', label' \in Nat, made' \in Nat,
         code' \in Seq(Instructions(next' - 1)), source' = source,
         locals' \in Seq(1..(next' - 1)), open' \in Seq(Scopes), Nested'
  PROVE  Inv'
<1>1. next - 1 \in Nat /\ next' - 1 \in Nat /\ next - 1 <= next' - 1 /\ next' > Params
  <2>1. next \in Nat /\ next > Params
    BY DEF Inv, TypeOK
  <2>2. Params \in Nat
    BY CompilerAssumption
  <2>3. next' \in Nat /\ next <= next'
    OBVIOUS
  <2>4. \A a, b, p \in Nat : a > p /\ a <= b => a - 1 \in Nat /\ b - 1 \in Nat /\ a - 1 <= b - 1 /\ b > p
    OBVIOUS
  <2> QED BY <2>1, <2>2, <2>3, <2>4, Zenon
<1>2. source' \in Seq(Instructions(next' - 1)) /\ cfg' \in Graphs(next' - 1)
  BY <1>1, CodeGrows, GraphsGrow, SMTT(30) DEF Inv, TypeOK
<1>3. mapping' = << >> /\ active' = {} /\ DOMAIN mapping' = {} /\ round' = 0 /\ stage' = "build"
  BY DEF Inv, Staged, Scanned, scan
<1>4. TypeOK'
  <2>1. round' \in 0..MAX_FIXPOINT_ROUNDS
    BY DEF Inv, TypeOK
  <2>2. /\ DOMAIN mapping' \subseteq 1..(next' - 1) /\ active' \subseteq DOMAIN mapping'
        /\ \A v \in DOMAIN mapping' : mapping'[v] \in 1..Registers
    BY <1>3
  <2>3. stage' \in {"build", "optimize", "layout", "intervals", "sort", "allocate"}
    BY <1>3
  <2> QED BY <1>1, <1>2, <2>1, <2>2, <2>3 DEF TypeOK
<1> QED BY <1>3, <1>4 DEF Inv, Staged, Scanned

(* What was begun stays begun while code and locals are added to.          *)
LEMMA StaysNested ==
  ASSUME TypeOK, open' = open, code' \in Seq(Instructions(next' - 1)),
         locals' \in Seq(1..(next' - 1)),
         Len(code) <= Len(code'), Len(locals) <= Len(locals')
  PROVE  Nested'
<1>1. Nested /\ open \in Seq(Scopes)
  BY DEF TypeOK
<1>2. /\ Len(code) \in Nat /\ Len(code') \in Nat /\ Len(locals) \in Nat /\ Len(locals') \in Nat
  BY DEF TypeOK
<1>3. \A k \in DOMAIN open : open[k].at \in Nat /\ open[k].locals \in Nat
  <2>1. \A k \in DOMAIN open : open[k] \in Scopes
    BY <1>1
  <2> QED BY <2>1 DEF Scopes
<1> QED BY <1>1, <1>2, <1>3 DEF Nested

(* The innermost one ends, and with it the locals declared in it.          *)
LEMMA ClosedNested ==
  ASSUME TypeOK, open # << >>, Closed, Len(code) <= Len(code'), Len(code') \in Nat
  PROVE  /\ Nested' /\ open' \in Seq(Scopes) /\ locals' \in Seq(1..(next - 1))
<1>1. Nested /\ open \in Seq(Scopes) /\ locals \in Seq(1..(next - 1))
  BY DEF TypeOK
<1> DEFINE top == Len(open)
           l == open[top].locals
<1>2. /\ Len(code) \in Nat /\ Len(locals) \in Nat /\ top \in Nat /\ top > 0
      /\ Last(open) = open[top] /\ top \in DOMAIN open /\ DOMAIN open = 1..top
  BY <1>1 DEF TypeOK, Last
<1>3. \A k \in DOMAIN open : open[k].at \in Nat /\ open[k].locals \in Nat
  <2>1. \A k \in DOMAIN open : open[k] \in Scopes
    BY <1>1
  <2> QED BY <2>1 DEF Scopes
<1>4. l <= Len(locals) /\ l \in Nat
  BY <1>1, <1>2, <1>3 DEF Nested
<1>5. locals' = SubSeq(locals, 1, l) /\ locals' \in Seq(1..(next - 1)) /\ Len(locals') = l
  <2>1. locals' = SubSeq(locals, 1, l)
    BY <1>2 DEF Closed
  <2> DEFINE V == 1..(next - 1)
  <2> HIDE DEF V, l
  <2>2. locals \in Seq(V) /\ l \in 0..Len(locals) /\ Len(locals) \in Nat
    BY <1>1, <1>2, <1>4 DEF V
  <2>3. SubSeq(locals, 1, l) \in Seq(V) /\ Len(SubSeq(locals, 1, l)) = l
    BY <2>2
  <2> QED BY <2>1, <2>3 DEF V
<1>6. /\ open' \in Seq(Scopes) /\ Len(open') = top - 1
      /\ \A k \in 1..(top - 1) : open'[k] = open[k] /\ k \in DOMAIN open /\ k < top
  <2>1. open' = SubSeq(open, 1, Len(open) - 1)
    BY DEF Closed, Front
  <2> DEFINE V == Scopes
  <2> HIDE DEF V
  <2>2. /\ SubSeq(open, 1, top - 1) \in Seq(V) /\ Len(SubSeq(open, 1, top - 1)) = top - 1
        /\ \A k \in 1..(top - 1) : SubSeq(open, 1, top - 1)[k] = open[k] /\ k \in DOMAIN open /\ k < top
    BY <1>1, <1>2 DEF V
  <2> QED BY <2>1, <2>2 DEF V
<1>7. DOMAIN open' = 1..(top - 1)
  BY <1>6
<1>8. Nested'
  <2> SUFFICES ASSUME NEW k \in DOMAIN open'
               PROVE /\ open'[k].kind = "while" => open'[k].at \in 1..Len(code')
                     /\ open'[k].locals <= Len(locals')
                     /\ \A j \in 1..(k - 1) : open'[j].locals <= open'[k].locals
    BY DEF Nested
  <2>1. k \in 1..(top - 1) /\ k \in 1..(top - 1) /\ k \in 1..(top - 1) /\ k \in Nat
    BY <1>2, <1>7
  <2>2. open'[k] = open[k] /\ k \in DOMAIN open /\ k < top /\ k \in 1..(top - 1)
    BY <1>6, <2>1
  <2>3. open[k].kind = "while" => open[k].at \in 1..Len(code')
    <3>1. open[k].kind = "while" => open[k].at \in 1..Len(code)
      BY <1>1, <2>2 DEF Nested
    <3> QED BY <1>2, <3>1
  <2>4. open[k].locals <= l
    BY <1>1, <1>2, <2>2 DEF Nested
  <2>5. \A j \in 1..(k - 1) : open'[j] = open[j] /\ open[j].locals <= open[k].locals
    <3>1. \A j \in 1..(k - 1) : j \in 1..(top - 1)
      BY <1>2, <2>1
    <3> QED BY <1>1, <1>6, <2>2, <3>1 DEF Nested
  <2> QED BY <1>5, <2>2, <2>3, <2>4, <2>5
<1> QED BY <1>5, <1>6, <1>8

-----------------------------------------------------------------------------
(* The code of a statement's expression, and what is left of it.           *)
LEMMA StatementCode ==
  ASSUME TypeOK, NEW s \in Statements, InScope(s.expr), next' = next + Fresh(s.expr)
  PROVE  /\ next' \in Nat /\ next' - 1 \in Nat /\ next < next' /\ next \in 1..(next' - 1)
         /\ code \in Seq(Instructions(next' - 1))
         /\ locals \in Seq(1..(next' - 1))
         /\ ExprCode(s.expr, next, next + 1) \in Seq(Instructions(next' - 1))
         /\ ExprCode(s.expr, next, next + 1) \in Seq(Straight(next' - 1))
         /\ \A c \in Seq(Instructions(next' - 1)) :
              code \o c \in Seq(Instructions(next' - 1)) /\ Len(code) <= Len(code \o c)
<1>1. s.expr \in Expressions /\ s.expr.of \in Seq(Nat \ {None})
  BY StatementsAssumption DEF Expressions
<1> DEFINE len == Len(s.expr.of)
           m == next' - 1
<1>2. len \in Nat /\ next' = next + (1 + len)
  BY <1>1 DEF Fresh
<1>3. next \in Nat /\ next > Params /\ Params \in Nat
  BY CompilerAssumption DEF TypeOK
<1> HIDE DEF len
<1>4. /\ next' \in Nat /\ next < next' /\ m \in Nat /\ next - 1 <= m /\ next - 1 \in Int
      /\ next \in 1..m /\ next + 1 \in Nat \ {0} /\ m = (next + 1) + len - 1
  BY <1>2, <1>3
<1> HIDE DEF m
<1>5. code \in Seq(Instructions(m))
  BY <1>4, CodeGrows DEF TypeOK
<1>6. locals \in Seq(1..m)
  <2>1. 1..(next - 1) \subseteq 1..m
    BY <1>4
  <2>2. locals \in Seq(1..(next - 1))
    BY DEF TypeOK
  <2> QED BY <2>1, <2>2, SeqGrows
<1>7. /\ ExprCode(s.expr, next, next + 1) \in Seq(Straight(m))
      /\ ExprCode(s.expr, next, next + 1) \in Seq(Instructions(m))
  <2>1. ExprCode(s.expr, next, next + 1) \in Seq(Straight(m))
    BY <1>1, <1>4, <1>6, ExprCodeType DEF len
  <2>2. Straight(m) \subseteq Instructions(m)
    BY DEF Straight
  <2> QED BY <2>1, <2>2, SeqGrows
<1>8. ASSUME NEW c \in Seq(Instructions(m))
      PROVE  code \o c \in Seq(Instructions(m)) /\ Len(code) <= Len(code \o c)
  BY <1>5
<1> QED BY <1>4, <1>5, <1>6, <1>7, <1>8 DEF m

(* A local is declared.                                                    *)
LEMMA DeclareLocalKeeps ==
  ASSUME Inv, NEW s \in Statements, DeclareLocal(s)
  PROVE  Inv'
<1> DEFINE I == Instructions(next' - 1)
           V == 1..(next' - 1)
<1>1. /\ stage = "build" /\ next' = next + Fresh(s.expr) /\ InScope(s.expr)
      /\ code' = code \o ExprCode(s.expr, next, next + 1) /\ locals' = Append(locals, next)
      /\ made' = made + 1
      /\ UNCHANGED <<stage, source, label, open, cfg, round, scan>>
  BY DEF DeclareLocal, Fits, IsStatement, Emit
<1>2. /\ next' \in Nat /\ next <= next' /\ next \in V /\ locals \in Seq(V)
      /\ code' \in Seq(I) /\ Len(code) <= Len(code')
  BY <1>1, StatementCode DEF Inv, TypeOK
<1>3. locals' \in Seq(V) /\ Len(locals) <= Len(locals')
  <2> HIDE DEF V
  <2> QED BY <1>1, <1>2
<1>4. Nested'
  BY <1>1, <1>2, <1>3, StaysNested DEF Inv
<1>5. label' \in Nat /\ made' \in Nat /\ open' \in Seq(Scopes)
  BY <1>1 DEF Inv, TypeOK
<1> QED BY <1>1, <1>2, <1>3, <1>4, <1>5, BuildKeeps

(* A local is assigned.                                                    *)
LEMMA AssignKeeps ==
  ASSUME Inv, NEW s \in Statements, Assign(s)
  PROVE  Inv'
<1> DEFINE I == Instructions(next' - 1)
           V == 1..(next' - 1)
           c == ExprCode(s.expr, next, next + 1)
           move == Move(Local(s.to), next)
<1>1. /\ stage = "build" /\ next' = next + Fresh(s.expr) /\ InScope(s.expr)
      /\ s.kind = "assign" /\ s.to <= Len(locals)
      /\ code' = code \o (c \o <<move>>)
      /\ made' = made + 1
      /\ UNCHANGED <<stage, source, label, locals, open, cfg, round, scan>>
  BY DEF Assign, Fits, IsStatement, Emit
<1>2. /\ next' \in Nat /\ next' - 1 \in Nat /\ next <= next' /\ next \in V
      /\ locals \in Seq(V) /\ c \in Seq(I)
      /\ \A more \in Seq(I) : code \o more \in Seq(I) /\ Len(code) <= Len(code \o more)
  BY <1>1, StatementCode, SMTT(30) DEF Inv, TypeOK
<1>3. next' - 1 \in Nat
  BY <1>2
<1>4. s.to \in Nat \ {0}
  BY <1>1, StatementsAssumption DEF None
<1>5. move \in I
  <2>1. Local(s.to) \in V
    BY <1>1, <1>2, <1>3, <1>4, LocalType
  <2>2. next' - 1 \in Nat /\ Local(s.to) \in 1..(next' - 1) /\ next \in 1..(next' - 1)
    BY <1>2, <1>3, <2>1
  <2> QED BY <2>2, NewInstructions
<1> HIDE DEF c, move, I
<1>6. c \o <<move>> \in Seq(I)
  BY <1>2, <1>5
<1>7. code' \in Seq(I) /\ Len(code) <= Len(code')
  BY <1>1, <1>2, <1>6
<1>8. locals' \in Seq(V) /\ Len(locals) <= Len(locals')
  <2>1. Len(locals) \in Nat
    BY <1>2
  <2> QED BY <1>1, <1>2, <2>1
<1>9. Nested'
  BY <1>1, <1>7, <1>8, StaysNested DEF Inv, I
<1>10. label' \in Nat /\ made' \in Nat /\ open' \in Seq(Scopes)
  BY <1>1 DEF Inv, TypeOK
<1> QED BY <1>1, <1>2, <1>7, <1>8, <1>9, <1>10, BuildKeeps DEF I

(* An expression is evaluated for its effects.                             *)
LEMMA EvaluateKeeps ==
  ASSUME Inv, NEW s \in Statements, Evaluate(s)
  PROVE  Inv'
<1> DEFINE I == Instructions(next' - 1)
           V == 1..(next' - 1)
<1>1. /\ stage = "build" /\ next' = next + Fresh(s.expr) /\ InScope(s.expr)
      /\ code' = code \o ExprCode(s.expr, next, next + 1) /\ made' = made + 1
      /\ UNCHANGED <<stage, source, label, locals, open, cfg, round, scan>>
  BY DEF Evaluate, Fits, IsStatement, Emit
<1>2. /\ next' \in Nat /\ next <= next' /\ locals \in Seq(V)
      /\ code' \in Seq(I) /\ Len(code) <= Len(code')
  BY <1>1, StatementCode DEF Inv, TypeOK
<1>3. locals' \in Seq(V) /\ Len(locals) <= Len(locals')
  <2>1. Len(locals) \in Nat
    BY <1>2
  <2> QED BY <1>1, <1>2, <2>1
<1>4. Nested'
  BY <1>1, <1>2, <1>3, StaysNested DEF Inv
<1>5. label' \in Nat /\ made' \in Nat /\ open' \in Seq(Scopes)
  BY <1>1 DEF Inv, TypeOK
<1> QED BY <1>1, <1>2, <1>3, <1>4, <1>5, BuildKeeps

(* The innermost of what is open.                                          *)
LEMMA LastScope ==
  ASSUME TypeOK, open # << >>
  PROVE  /\ Last(open) \in Scopes /\ Len(open) \in DOMAIN open /\ Last(open) = open[Len(open)]
         /\ Last(open).kind = "while" => Last(open).at \in 1..Len(code)
         /\ Last(open).first \in Int /\ Last(open).second \in Int
<1>1. open \in Seq(Scopes) /\ Nested
  BY DEF TypeOK
<1>2. Len(open) \in DOMAIN open /\ Last(open) = open[Len(open)]
  BY <1>1 DEF Last
<1>3. Last(open) \in Scopes
  BY <1>1, <1>2
<1> QED BY <1>1, <1>2, <1>3 DEF Nested, Scopes

(* A loop is left from its body.                                           *)
LEMMA BreakKeeps ==
  ASSUME Inv, NEW s \in Statements, Break(s)
  PROVE  Inv'
<1> DEFINE I == Instructions(next - 1)
           loops == Only(open, {o \in ToSet(open) : o.kind = "while"})
           jump == Jump(Last(loops).second)
<1>1. /\ stage = "build" /\ loops # << >> /\ code' = code \o <<jump>> /\ made' = made + 1
      /\ UNCHANGED <<stage, source, next, label, locals, open, cfg, round, scan>>
  BY DEF Break, Fits, IsStatement, Emit
<1>2. Last(loops).second \in Int
  <2>1. loops \in Seq(Scopes)
    BY OnlySome DEF Inv, TypeOK
  <2> HIDE DEF loops
  <2>2. Len(loops) \in 1..Len(loops) /\ Last(loops) = loops[Len(loops)]
    BY <1>1, <2>1 DEF Last
  <2>3. Last(loops) \in Scopes
    BY <2>1, <2>2
  <2> QED BY <2>3 DEF Scopes
<1>3. /\ next \in Nat /\ next - 1 \in Nat /\ code \in Seq(I) /\ locals \in Seq(1..(next - 1))
      /\ Len(code) \in Nat /\ Len(locals) \in Nat
  BY CompilerAssumption DEF Inv, TypeOK
<1>4. jump \in I
  BY <1>2, <1>3, NewInstructions
<1> HIDE DEF I, jump
<1>5. code' \in Seq(I) /\ Len(code) <= Len(code')
  BY <1>1, <1>3, <1>4
<1> USE DEF I
<1>6. code' \in Seq(Instructions(next' - 1)) /\ locals' \in Seq(1..(next' - 1)) /\ next <= next'
  BY <1>1, <1>3, <1>5
<1>7. Nested'
  BY <1>1, <1>3, <1>5, <1>6, StaysNested DEF Inv
<1>8. label' \in Nat /\ made' \in Nat /\ open' \in Seq(Scopes) /\ next' \in Nat
  BY <1>1 DEF Inv, TypeOK
<1> QED BY <1>1, <1>6, <1>7, <1>8, BuildKeeps

(* A loop or a branch begins.                                              *)
LEMMA OpenedNested ==
  ASSUME TypeOK, NEW kind, kind \in {"then", "else", "while"}, NEW first \in Int, NEW second \in Int,
         NEW at \in Nat, NEW firstVar \in Nat, Opened(kind, first, second, at, firstVar),
         Len(code) <= Len(code'), Len(code') \in Nat, locals' = locals,
         kind = "while" => at \in 1..Len(code')
  PROVE  Nested' /\ open' \in Seq(Scopes)
<1> DEFINE new == [kind |-> kind, first |-> first, second |-> second, at |-> at,
                   firstVar |-> firstVar, locals |-> Len(locals), made |-> made]
           top == Len(open) + 1
<1>1. open \in Seq(Scopes) /\ Nested /\ made \in Nat /\ locals \in Seq(1..(next - 1))
  BY DEF TypeOK
<1>2. Len(locals) \in Nat /\ Len(open) \in Nat /\ Len(code) \in Nat
  BY <1>1 DEF TypeOK
<1>3. new \in Scopes
  BY <1>1, <1>2 DEF Scopes
<1>4. open' = Append(open, new)
  BY DEF Opened
<1> DEFINE S == Scopes
<1> HIDE DEF new, S
<1>5. /\ open' \in Seq(S) /\ Len(open') = top /\ open'[top] = new
      /\ \A k \in 1..Len(open) : open'[k] = open[k] /\ k \in DOMAIN open
  BY <1>1, <1>2, <1>3, <1>4 DEF S
<1>6. /\ new.kind = kind /\ new.at = at /\ new.locals = Len(locals)
  BY DEF new
<1>7. \A k \in DOMAIN open : open[k].at \in Nat /\ open[k].locals \in Nat
  <2>1. \A k \in DOMAIN open : open[k] \in Scopes
    BY <1>1
  <2> QED BY <2>1 DEF Scopes
<1>8. Nested'
  <2> SUFFICES ASSUME NEW k \in DOMAIN open'
               PROVE /\ open'[k].kind = "while" => open'[k].at \in 1..Len(code')
                     /\ open'[k].locals <= Len(locals')
                     /\ \A j \in 1..(k - 1) : open'[j].locals <= open'[k].locals
    BY DEF Nested
  <2>1. k \in 1..top
    BY <1>2, <1>5
  <2>2. CASE k = top
    <3>1. \A j \in 1..(k - 1) : open'[j] = open[j] /\ j \in DOMAIN open
      BY <1>2, <1>5, <2>2
    <3>2. \A j \in DOMAIN open : open[j].locals <= Len(locals)
      BY <1>1 DEF Nested
    <3>3. open'[k] = new
      BY <1>5, <2>2
    <3> QED BY <1>2, <1>6, <3>1, <3>2, <3>3
  <2>3. CASE k # top
    <3>1. k \in 1..Len(open) /\ \A j \in 1..(k - 1) : j \in 1..Len(open)
      BY <1>2, <2>1, <2>3
    <3>2. open'[k] = open[k] /\ k \in DOMAIN open
      BY <1>5, <3>1
    <3>3. \A j \in 1..(k - 1) : open'[j] = open[j] /\ open[j].locals <= open[k].locals
      BY <1>1, <1>5, <3>1, <3>2 DEF Nested
    <3>4. /\ open[k].kind = "while" => open[k].at \in 1..Len(code)
          /\ open[k].locals <= Len(locals)
      BY <1>1, <3>2 DEF Nested
    <3> QED BY <1>2, <3>2, <3>3, <3>4
  <2> QED BY <2>2, <2>3
<1> QED BY <1>5, <1>8 DEF S

(* Room for one more variable.                                             *)
LEMMA NextVariable ==
  ASSUME TypeOK, locals # << >>, next' = next + 1
  PROVE  /\ next' \in Nat /\ next' - 1 = next /\ next \in Nat /\ next \in 1..next /\ next <= next'
         /\ Local(1) \in 1..next
         /\ code \in Seq(Instructions(next)) /\ source \in Seq(Instructions(next))
         /\ locals \in Seq(1..next)
         /\ Len(code) \in Nat
<1>1. next \in Nat /\ next > Params /\ Params \in Nat
  BY CompilerAssumption DEF TypeOK
<1>2. /\ next' \in Nat /\ next' - 1 = next /\ next \in 1..next /\ next <= next'
      /\ next - 1 <= next /\ next - 1 \in Int
  BY <1>1
<1>3. code \in Seq(Instructions(next)) /\ source \in Seq(Instructions(next))
  BY <1>1, <1>2, CodeGrows DEF TypeOK
<1>4. locals \in Seq(1..next)
  <2>1. 1..(next - 1) \subseteq 1..next
    BY <1>1
  <2>2. locals \in Seq(1..(next - 1))
    BY DEF TypeOK
  <2> QED BY <2>1, <2>2, SeqGrows
<1>5. Len(locals) \in Nat /\ 1 <= Len(locals)
  BY <1>4
<1>6. Local(1) \in 1..next
  BY <1>1, <1>4, <1>5, LocalType
<1>7. Len(code) \in Nat
  BY <1>3
<1> QED BY <1>1, <1>2, <1>3, <1>4, <1>6, <1>7

(* A condition opens a branch.                                             *)
LEMMA IfKeeps == ASSUME Inv, If PROVE Inv'
<1> DEFINE I == Instructions(next)
           move == Move(next, Local(1))
           test == JumpIfFalse(next, label + 1)
<1>1. /\ stage = "build" /\ locals # << >> /\ next' = next + 1 /\ label' = label + 2
      /\ code' = code \o <<move, test>>
      /\ Opened("then", label + 1, label + 2, 0, 0)
      /\ UNCHANGED <<stage, source, locals, made, cfg, round, scan>>
  BY DEF If, MayOpen, Emit
<1>2. /\ next' \in Nat /\ next' - 1 = next /\ next \in Nat /\ next \in 1..next /\ next <= next'
      /\ Local(1) \in 1..next /\ code \in Seq(I) /\ locals \in Seq(1..next) /\ Len(code) \in Nat
  BY <1>1, NextVariable DEF Inv
<1>3. label \in Nat /\ made \in Nat
  BY DEF Inv, TypeOK
<1>4. label + 1 \in Int /\ label + 2 \in Int /\ label' \in Nat
  BY <1>1, <1>3
<1>5. move \in I /\ test \in I
  BY <1>2, <1>4, NewInstructions
<1> HIDE DEF I, move, test
<1>6. code' \in Seq(I) /\ Len(code) <= Len(code') /\ Len(code') \in Nat
  BY <1>1, <1>2, <1>5
<1>7. Nested' /\ open' \in Seq(Scopes)
  BY <1>1, <1>4, <1>6, OpenedNested DEF Inv
<1>8. code' \in Seq(Instructions(next' - 1)) /\ locals' \in Seq(1..(next' - 1)) /\ made' \in Nat
  BY <1>1, <1>2, <1>3, <1>6 DEF I
<1> QED BY <1>1, <1>2, <1>4, <1>7, <1>8, BuildKeeps

(* A loop is opened.                                                       *)
LEMMA WhileKeeps == ASSUME Inv, While PROVE Inv'
<1> DEFINE I == Instructions(next)
           mark == Label(label + 1)
           move == Move(next, Local(1))
           test == JumpIfFalse(next, label + 2)
           at == Len(code) + 2
<1>1. /\ stage = "build" /\ locals # << >> /\ next' = next + 1 /\ label' = label + 2
      /\ code' = code \o <<mark, move, test>>
      /\ Opened("while", label + 1, label + 2, at, next)
      /\ UNCHANGED <<stage, source, locals, made, cfg, round, scan>>
  BY DEF While, MayOpen, Emit
<1>2. /\ next' \in Nat /\ next' - 1 = next /\ next \in Nat /\ next \in 1..next /\ next <= next'
      /\ Local(1) \in 1..next /\ code \in Seq(I) /\ locals \in Seq(1..next) /\ Len(code) \in Nat
  BY <1>1, NextVariable DEF Inv
<1>3. label \in Nat /\ made \in Nat
  BY DEF Inv, TypeOK
<1>4. label + 1 \in Int /\ label + 2 \in Int /\ label' \in Nat
  BY <1>1, <1>3
<1>5. mark \in I /\ move \in I /\ test \in I
  BY <1>2, <1>4, NewInstructions
<1>6. code' \in Seq(I) /\ Len(code') = Len(code) + 3
  <2> HIDE DEF I, mark, move, test
  <2> QED BY <1>1, <1>2, <1>5
<1> HIDE DEF I, mark, move, test
<1>7. Len(code) <= Len(code') /\ Len(code') \in Nat /\ at \in Nat /\ at \in 1..Len(code')
  BY <1>2, <1>6
<1> HIDE DEF at
<1>8. Nested' /\ open' \in Seq(Scopes)
  BY <1>1, <1>2, <1>4, <1>7, OpenedNested DEF Inv
<1>9. code' \in Seq(Instructions(next' - 1)) /\ locals' \in Seq(1..(next' - 1)) /\ made' \in Nat
  BY <1>1, <1>2, <1>3, <1>6 DEF I
<1> QED BY <1>1, <1>2, <1>4, <1>8, <1>9, BuildKeeps

(* A branch is closed.                                                     *)
LEMMA EndIfKeeps == ASSUME Inv, EndIf PROVE Inv'
<1> DEFINE I == Instructions(next - 1)
           o == Last(open)
           leave == <<Jump(o.second), Label(o.first), Label(o.second)>>
           end == <<Label(o.second)>>
<1>1. /\ stage = "build" /\ open # << >> /\ Closed
      /\ code' = code \o leave \/ code' = code \o end
      /\ UNCHANGED <<stage, source, next, label, made, cfg, round, scan>>
  BY DEF EndIf, InBody, Emit
<1>2. o.first \in Int /\ o.second \in Int
  BY <1>1, LastScope DEF Inv
<1>3. /\ next \in Nat /\ next - 1 \in Nat /\ code \in Seq(I) /\ Len(code) \in Nat
      /\ label \in Nat /\ made \in Nat
  BY CompilerAssumption DEF Inv, TypeOK
<1>4. Jump(o.second) \in I /\ Label(o.first) \in I /\ Label(o.second) \in I
  BY <1>2, <1>3, NewInstructions
<1>5. code' \in Seq(I) /\ Len(code) <= Len(code') /\ Len(code') \in Nat
  <2> HIDE DEF I, o
  <2>1. leave \in Seq(I) /\ end \in Seq(I)
    BY <1>4
  <2> HIDE DEF leave, end
  <2>2. \A c \in Seq(I) : /\ code \o c \in Seq(I) /\ Len(code) <= Len(code \o c)
                         /\ Len(code \o c) \in Nat
    BY <1>3
  <2> QED BY <1>1, <2>1, <2>2
<1>6. Nested' /\ open' \in Seq(Scopes) /\ locals' \in Seq(1..(next - 1))
  BY <1>1, <1>5, ClosedNested DEF Inv
<1> HIDE DEF o, leave, end
<1>7. /\ code' \in Seq(Instructions(next' - 1)) /\ locals' \in Seq(1..(next' - 1))
      /\ next' \in Nat /\ next <= next' /\ label' \in Nat /\ made' \in Nat
  BY <1>1, <1>3, <1>5, <1>6
<1> QED BY <1>1, <1>6, <1>7, BuildKeeps

(* The other branch is opened.                                             *)
LEMMA ElseKeeps == ASSUME Inv, Else PROVE Inv'
<1> DEFINE I == Instructions(next - 1)
           V == 1..(next - 1)
           top == Len(open)
           o == Last(open)
           more == <<Jump(o.second), Label(o.first)>>
<1>1. /\ stage = "build" /\ open # << >> /\ code' = code \o more
      /\ locals' = SubSeq(locals, 1, o.locals)
      /\ open' = [open EXCEPT ![top].kind = "else", ![top].made = made]
      /\ UNCHANGED <<stage, source, next, label, made, cfg, round, scan>>
  BY DEF Else, InBody, Emit
<1>2. o.first \in Int /\ o.second \in Int /\ o \in Scopes /\ top \in DOMAIN open /\ o = open[top]
  BY <1>1, LastScope DEF Inv
<1>3. /\ next \in Nat /\ next - 1 \in Nat /\ code \in Seq(I) /\ Len(code) \in Nat
      /\ label \in Nat /\ made \in Nat /\ open \in Seq(Scopes) /\ Nested /\ locals \in Seq(V)
      /\ Len(locals) \in Nat /\ top \in Nat /\ DOMAIN open = 1..top
  BY CompilerAssumption DEF Inv, TypeOK
<1>4. Jump(o.second) \in I /\ Label(o.first) \in I
  BY <1>2, <1>3, NewInstructions
<1>5. code' \in Seq(I) /\ Len(code) <= Len(code') /\ Len(code') \in Nat
  <2> HIDE DEF I, o
  <2>1. more \in Seq(I)
    BY <1>4
  <2> HIDE DEF more
  <2> QED BY <1>1, <1>3, <2>1
<1>6. o.locals \in Nat /\ o.locals <= Len(locals)
  BY <1>2, <1>3 DEF Nested, Scopes
<1>7. locals' \in Seq(V) /\ Len(locals') = o.locals
  <2> DEFINE l == o.locals
  <2> HIDE DEF l, V
  <2>1. l \in 0..Len(locals)
    BY <1>3, <1>6 DEF l
  <2>2. SubSeq(locals, 1, l) \in Seq(V) /\ Len(SubSeq(locals, 1, l)) = l
    BY <1>3, <2>1
  <2> QED BY <1>1, <2>2 DEF l
<1> DEFINE new == [o EXCEPT !.kind = "else", !.made = made]
<1>8. new \in Scopes /\ new.kind = "else" /\ new.locals = o.locals
  BY <1>2, <1>3 DEF Scopes
<1>9. open' = [open EXCEPT ![top] = new]
  BY <1>1, <1>2
<1> HIDE DEF new
<1>10. /\ open' \in Seq(Scopes) /\ DOMAIN open' = DOMAIN open
       /\ open'[top] = new /\ \A k \in DOMAIN open : k # top => open'[k] = open[k]
  BY <1>2, <1>3, <1>8, <1>9
<1>11. \A k \in DOMAIN open : open'[k].locals = open[k].locals /\ open[k].locals \in Nat
  <2>1. \A k \in DOMAIN open : open[k] \in Scopes
    BY <1>3
  <2>2. \A k \in DOMAIN open : open[k].locals \in Nat
    BY <2>1 DEF Scopes
  <2> QED BY <1>2, <1>8, <1>10, <2>2
<1>12. Nested'
  <2> SUFFICES ASSUME NEW k \in DOMAIN open'
               PROVE /\ open'[k].kind = "while" => open'[k].at \in 1..Len(code')
                     /\ open'[k].locals <= Len(locals')
                     /\ \A j \in 1..(k - 1) : open'[j].locals <= open'[k].locals
    BY DEF Nested
  <2>1. k \in DOMAIN open /\ k \in 1..top /\ \A j \in 1..(k - 1) : j \in DOMAIN open
    BY <1>3, <1>10
  <2>2. open'[k].kind = "while" => open'[k].at \in 1..Len(code')
    <3>1. CASE k = top
      BY <1>8, <1>10, <3>1
    <3>2. CASE k # top
      <4>1. open[k].kind = "while" => open[k].at \in 1..Len(code)
        BY <1>3, <2>1 DEF Nested
      <4> QED BY <1>3, <1>5, <1>10, <2>1, <3>2, <4>1
    <3> QED BY <3>1, <3>2
  <2>3. open[k].locals <= o.locals
    <3>1. CASE k = top
      BY <1>2, <1>6, <3>1
    <3>2. CASE k # top
      <4>1. k \in 1..(top - 1)
        BY <1>3, <2>1, <3>2
      <4> QED BY <1>2, <1>3, <4>1 DEF Nested
    <3> QED BY <3>1, <3>2
  <2>4. \A j \in 1..(k - 1) : open[j].locals <= open[k].locals
    BY <1>3, <2>1 DEF Nested
  <2> QED BY <1>7, <1>11, <2>1, <2>2, <2>3, <2>4
<1>13. /\ code' \in Seq(Instructions(next' - 1)) /\ locals' \in Seq(1..(next' - 1))
       /\ next' \in Nat /\ next <= next' /\ label' \in Nat /\ made' \in Nat
  BY <1>1, <1>3, <1>5, <1>7
<1> QED BY <1>1, <1>10, <1>12, <1>13, BuildKeeps

(* A loop is closed, its labels placed.                                    *)
LEMMA EndWhileKeeps == ASSUME Inv, EndWhile PROVE Inv'
<1> DEFINE I == Instructions(next - 1)
           o == Last(open)
           before == SubSeq(code, 1, o.at - 1)
           body == SubSeq(code, o.at, Len(code))
           close == LoopClose(o.at, o.firstVar)
           back == <<Jump(o.first), Label(o.second)>>
<1>1. /\ stage = "build" /\ open # << >> /\ o.kind = "while" /\ Closed
      /\ code' = before \o close \o body \o back
      /\ UNCHANGED <<stage, source, next, label, made, cfg, round, scan>>
  BY DEF EndWhile, InBody
<1>2. o.first \in Int /\ o.second \in Int /\ o.at \in 1..Len(code)
  BY <1>1, LastScope DEF Inv
<1>3. /\ next \in Nat /\ next - 1 \in Nat /\ code \in Seq(I) /\ Len(code) \in Nat
      /\ label \in Nat /\ made \in Nat
  BY CompilerAssumption DEF Inv, TypeOK
<1>4. Jump(o.first) \in I /\ Label(o.second) \in I
  BY <1>2, <1>3, NewInstructions
<1>5. close \in Seq(I)
  BY <1>2, <1>3, LoopCloseType
<1>6. /\ before \in Seq(I) /\ body \in Seq(I)
      /\ Len(before) = o.at - 1 /\ Len(body) = Len(code) - o.at + 1
  <2> DEFINE at == o.at
  <2> HIDE DEF at, I
  <2>1. at \in 1..Len(code)
    BY <1>2 DEF at
  <2>2. /\ SubSeq(code, 1, at - 1) \in Seq(I) /\ SubSeq(code, at, Len(code)) \in Seq(I)
        /\ Len(SubSeq(code, 1, at - 1)) = at - 1
        /\ Len(SubSeq(code, at, Len(code))) = Len(code) - at + 1
    BY <1>3, <2>1
  <2> QED BY <2>2 DEF at
<1>7. code' \in Seq(I) /\ Len(code) <= Len(code') /\ Len(code') \in Nat
  <2>1. back \in Seq(I) /\ Len(back) \in Nat
    <3> HIDE DEF I, o
    <3> QED BY <1>4
  <2> HIDE DEF I, close, back
  <2>2. Len(before) + Len(body) = Len(code)
    <3>1. o.at \in Int /\ Len(code) \in Int
      BY <1>2, <1>3
    <3>2. Len(before) = o.at - 1 /\ Len(body) = Len(code) - o.at + 1
      BY <1>6
    <3> HIDE DEF before, body, o
    <3>3. \A x, y \in Int : (x - 1) + (y - x + 1) = y
      OBVIOUS
    <3>4. (o.at - 1) + (Len(code) - o.at + 1) = Len(code)
      BY <3>1, <3>3
    <3> QED BY <3>2, <3>4, Zenon
  <2> HIDE DEF before, body
  <2>3. /\ before \o close \o body \o back \in Seq(I)
        /\ Len(before \o close \o body \o back) = Len(before) + Len(close) + Len(body) + Len(back)
        /\ Len(close) \in Nat /\ Len(before) \in Nat /\ Len(body) \in Nat
    BY <1>5, <1>6, <2>1
  <2>4. Len(code) <= Len(before \o close \o body \o back)
        /\ Len(before \o close \o body \o back) \in Nat
    BY <1>3, <2>1, <2>2, <2>3
  <2> QED BY <1>1, <2>3, <2>4
<1>8. Nested' /\ open' \in Seq(Scopes) /\ locals' \in Seq(1..(next - 1))
  BY <1>1, <1>7, ClosedNested DEF Inv
<1> HIDE DEF o, before, body, close, back
<1>9. /\ code' \in Seq(Instructions(next' - 1)) /\ locals' \in Seq(1..(next' - 1))
      /\ next' \in Nat /\ next <= next' /\ label' \in Nat /\ made' \in Nat
  BY <1>1, <1>3, <1>7, <1>8
<1> QED BY <1>1, <1>8, <1>9, BuildKeeps

(* Nothing is open, so nothing is nested.                                  *)
LEMMA FinishKeeps == ASSUME Inv, Finish PROVE Inv'
<1> DEFINE I == Instructions(next)
           move == Move(next, Local(1))
           return == Return(<<next>>)
           whole == code \o <<move, return>>
<1>1. /\ stage = "build" /\ open = << >> /\ locals # << >> /\ next' = next + 1
      /\ code' = whole /\ source' = whole /\ cfg' = BuildCfg(whole) /\ stage' = "optimize"
      /\ UNCHANGED <<label, locals, open, made, round, scan>>
  BY DEF Finish
<1>2. /\ next' \in Nat /\ next' - 1 = next /\ next \in Nat /\ next \in 1..next /\ next <= next'
      /\ Local(1) \in 1..next /\ code \in Seq(I) /\ locals \in Seq(1..next) /\ Len(code) \in Nat
  BY <1>1, NextVariable DEF Inv
<1>3. move \in I /\ return \in I
  <2>1. <<next>> \in Seq(1..next)
    BY <1>2
  <2> QED BY <1>2, <2>1, NewInstructions
<1>4. whole \in Seq(I)
  <2> HIDE DEF I, move, return
  <2> QED BY <1>2, <1>3
<1>5. BuildCfg(whole) \in Graphs(next)
  BY <1>2, <1>4, BuildCfgType
<1> HIDE DEF whole
<1>6. /\ next \in Nat /\ next > Params /\ Params \in Nat /\ label \in Nat /\ made \in Nat
  BY CompilerAssumption DEF Inv, TypeOK
<1>7. next' > Params
  BY <1>1, <1>6
<1>8. /\ mapping' = << >> /\ active' = {} /\ DOMAIN mapping' = {}
      /\ round' = 0 /\ round' \in 0..MAX_FIXPOINT_ROUNDS /\ round' < MAX_FIXPOINT_ROUNDS
  BY <1>1 DEF Inv, Staged, Scanned, scan, MAX_FIXPOINT_ROUNDS
<1>9. open' = << >> /\ open' \in Seq(Scopes) /\ Nested'
  BY <1>1 DEF Nested
<1>10. TypeOK'
  BY <1>1, <1>2, <1>4, <1>5, <1>6, <1>7, <1>8, <1>9 DEF TypeOK
<1> QED BY <1>1, <1>8, <1>9, <1>10 DEF Inv, Staged, Scanned

-----------------------------------------------------------------------------
(* The passes that rewrite one block after the other.                      *)
LEMMA RewrittenType ==
  ASSUME NEW n \in Nat, NEW g \in Graphs(n), NEW rewritten \in [Seq(Unlabelled(n)) -> Seq(Unlabelled(n))]
  PROVE  [g EXCEPT !.blocks = << >> \o [k \in DOMAIN g.blocks |->
            [g.blocks[k] EXCEPT !.code = rewritten[g.blocks[k].code]]]] \in Graphs(n)
<1> DEFINE bs == g.blocks
           map == [k \in DOMAIN bs |-> [bs[k] EXCEPT !.code = rewritten[bs[k].code]]]
<1>1. bs \in Seq(Blocks(n))
  BY GraphFields
<1>2. ASSUME NEW k \in DOMAIN bs PROVE [bs[k] EXCEPT !.code = rewritten[bs[k].code]] \in Blocks(n)
  <2>1. bs[k] \in Blocks(n)
    BY GraphFields
  <2>2. bs[k].code \in Seq(Unlabelled(n))
    BY <2>1, BlockFields
  <2>3. rewritten[bs[k].code] \in Seq(Unlabelled(n))
    BY <2>2
  <2> QED BY <2>1, <2>3, BlockFields
<1>3. map \in [DOMAIN bs -> Blocks(n)]
  BY <1>2
<1>4. << >> \o map \in Seq(Blocks(n))
  BY <1>1, <1>3, MappedBlocks
<1> QED BY <1>4, GraphFields

(* Common-subexpression elimination in every block.                        *)
LEMMA SharedEverywhere ==
  ASSUME NEW n \in Nat, NEW g \in Graphs(n)
  PROVE  Rewritten(g, ShareExpressions) \in Graphs(n)
<1> DEFINE I == Seq(Unlabelled(n))
           f == [c \in I |-> ShareExpressions(c)]
<1>1. f \in [I -> I]
  BY ShareExpressionsType
<1>2. [g EXCEPT !.blocks = << >> \o [k \in DOMAIN g.blocks |->
         [g.blocks[k] EXCEPT !.code = f[g.blocks[k].code]]]] \in Graphs(n)
  BY <1>1, RewrittenType
<1>3. \A k \in DOMAIN g.blocks : f[g.blocks[k].code] = ShareExpressions(g.blocks[k].code)
  BY GraphFields, BlockFields
<1>4. Rewritten(g, ShareExpressions) =
        [g EXCEPT !.blocks = << >> \o [k \in DOMAIN g.blocks |->
           [g.blocks[k] EXCEPT !.code = ShareExpressions(g.blocks[k].code)]]]
  BY DEF Rewritten, Map
<1>5. [k \in DOMAIN g.blocks |-> [g.blocks[k] EXCEPT !.code = f[g.blocks[k].code]]] =
      [k \in DOMAIN g.blocks |-> [g.blocks[k] EXCEPT !.code = ShareExpressions(g.blocks[k].code)]]
  <2> HIDE DEF f
  <2> QED BY <1>3
<1> HIDE DEF f
<1> QED BY <1>2, <1>4, <1>5

(* Copy propagation in every block.                                        *)
LEMMA CopiedEverywhere ==
  ASSUME NEW n \in Nat, NEW g \in Graphs(n), NEW held
  PROVE  Rewritten(g, LAMBDA c : PropagateCopies(c, held)) \in Graphs(n)
<1> DEFINE I == Seq(Unlabelled(n))
           f == [c \in I |-> PropagateCopies(c, held)]
<1>1. f \in [I -> I]
  BY PropagateCopiesType
<1>2. [g EXCEPT !.blocks = << >> \o [k \in DOMAIN g.blocks |->
         [g.blocks[k] EXCEPT !.code = f[g.blocks[k].code]]]] \in Graphs(n)
  BY <1>1, RewrittenType
<1>3. \A k \in DOMAIN g.blocks : f[g.blocks[k].code] = PropagateCopies(g.blocks[k].code, held)
  BY GraphFields, BlockFields
<1>4. Rewritten(g, LAMBDA c : PropagateCopies(c, held)) =
        [g EXCEPT !.blocks = << >> \o [k \in DOMAIN g.blocks |->
           [g.blocks[k] EXCEPT !.code = PropagateCopies(g.blocks[k].code, held)]]]
  BY DEF Rewritten, Map
<1>5. [k \in DOMAIN g.blocks |-> [g.blocks[k] EXCEPT !.code = f[g.blocks[k].code]]] =
      [k \in DOMAIN g.blocks |-> [g.blocks[k] EXCEPT !.code = PropagateCopies(g.blocks[k].code, held)]]
  <2> HIDE DEF f
  <2> QED BY <1>3
<1> HIDE DEF f
<1> QED BY <1>2, <1>4, <1>5

(* Value tracking in every block.                                          *)
LEMMA TrackedEverywhere ==
  ASSUME NEW n \in Nat, NEW g \in Graphs(n), NEW held
  PROVE  Rewritten(g, LAMBDA c : TrackValues(c, held)) \in Graphs(n)
<1> DEFINE I == Seq(Unlabelled(n))
           f == [c \in I |-> TrackValues(c, held)]
<1>1. f \in [I -> I]
  BY TrackValuesType
<1>2. [g EXCEPT !.blocks = << >> \o [k \in DOMAIN g.blocks |->
         [g.blocks[k] EXCEPT !.code = f[g.blocks[k].code]]]] \in Graphs(n)
  BY <1>1, RewrittenType
<1>3. \A k \in DOMAIN g.blocks : f[g.blocks[k].code] = TrackValues(g.blocks[k].code, held)
  BY GraphFields, BlockFields
<1>4. Rewritten(g, LAMBDA c : TrackValues(c, held)) =
        [g EXCEPT !.blocks = << >> \o [k \in DOMAIN g.blocks |->
           [g.blocks[k] EXCEPT !.code = TrackValues(g.blocks[k].code, held)]]]
  BY DEF Rewritten, Map
<1>5. [k \in DOMAIN g.blocks |-> [g.blocks[k] EXCEPT !.code = f[g.blocks[k].code]]] =
      [k \in DOMAIN g.blocks |-> [g.blocks[k] EXCEPT !.code = TrackValues(g.blocks[k].code, held)]]
  <2> HIDE DEF f
  <2> QED BY <1>3
<1> HIDE DEF f
<1> QED BY <1>2, <1>4, <1>5

-----------------------------------------------------------------------------
(* After the build only the code, the graph and the stage change.          *)
LEMMA LaterKeepsType ==
  ASSUME TypeOK, open = << >>, mapping = << >>, active = {},
         UNCHANGED <<source, builder, scan>>,
         stage' \in {"optimize", "layout", "intervals"}, round' \in 0..MAX_FIXPOINT_ROUNDS,
         cfg' \in Graphs(next - 1), code' \in Seq(Instructions(next - 1))
  PROVE  TypeOK'
<1>1. UNCHANGED <<source, next, label, locals, open, made, mapping, active>>
  BY DEF builder, scan
<1>2. Nested' /\ DOMAIN mapping' = {}
  BY <1>1 DEF Nested
<1> QED BY <1>1, <1>2 DEF TypeOK

(* A round of the passes keeps the graph well formed.                      *)
LEMMA OptimizeKeeps == ASSUME Inv, Optimize PROVE Inv'
<1> DEFINE G == Graphs(next - 1)
<1>1. /\ stage = "optimize" /\ round' = round + 1 /\ UNCHANGED <<source, builder, scan>>
  BY DEF Optimize
<1>2. next - 1 \in Nat /\ cfg \in G /\ round \in 0..MAX_FIXPOINT_ROUNDS
  BY CompilerAssumption DEF Inv, TypeOK
<1>3. /\ round < MAX_FIXPOINT_ROUNDS /\ open = << >> /\ mapping = << >> /\ active = {}
  BY <1>1 DEF Inv, Staged, Scanned
<1>4. PICK moved \in {HoistInvariants(cfg)} :
      \E held \in {CapturedVars(moved)} :
      \E shared  \in {Rewritten(moved, ShareExpressions)} :
      \E copied  \in {Rewritten(shared, LAMBDA c : PropagateCopies(c, held))} :
      \E tracked \in {Rewritten(copied, LAMBDA c : TrackValues(c, held))} :
      \E alive   \in {EliminateDead(tracked)} :
      \E better  \in {SimplifyCfg(alive)} :
       /\ cfg' = better /\ code' = Flatten(better)
       /\ stage' = IF \/ {moved, shared, copied, tracked, alive, better} = {cfg}
                         \/ round + 1 = MAX_FIXPOINT_ROUNDS
                      THEN "layout" ELSE stage
  BY DEF Optimize
<1>5. PICK held \in {CapturedVars(moved)} :
      \E shared  \in {Rewritten(moved, ShareExpressions)} :
      \E copied  \in {Rewritten(shared, LAMBDA c : PropagateCopies(c, held))} :
      \E tracked \in {Rewritten(copied, LAMBDA c : TrackValues(c, held))} :
      \E alive   \in {EliminateDead(tracked)} :
      \E better  \in {SimplifyCfg(alive)} :
       /\ cfg' = better /\ code' = Flatten(better)
       /\ stage' = IF \/ {moved, shared, copied, tracked, alive, better} = {cfg}
                         \/ round + 1 = MAX_FIXPOINT_ROUNDS
                      THEN "layout" ELSE stage
  BY <1>4, Zenon
<1> DEFINE shared == Rewritten(moved, ShareExpressions)
           copied == Rewritten(shared, LAMBDA c : PropagateCopies(c, held))
           tracked == Rewritten(copied, LAMBDA c : TrackValues(c, held))
           alive == EliminateDead(tracked)
           better == SimplifyCfg(alive)
<1>6. /\ cfg' = better /\ code' = Flatten(better)
      /\ stage' = IF \/ {moved, shared, copied, tracked, alive, better} = {cfg}
                         \/ round + 1 = MAX_FIXPOINT_ROUNDS
                      THEN "layout" ELSE stage
  BY <1>5, Zenon
<1>7. moved \in G
  BY <1>2, <1>4, HoistInvariantsType
<1>8. shared \in G
  BY <1>2, <1>7, SharedEverywhere
<1> HIDE DEF shared
<1>9. copied \in G
  BY <1>2, <1>8, CopiedEverywhere DEF Rewritten, Map
<1> HIDE DEF copied
<1>10. tracked \in G
  BY <1>2, <1>9, TrackedEverywhere DEF Rewritten, Map
<1> HIDE DEF tracked
<1>11. alive \in G
  BY <1>2, <1>10, EliminateDeadType
<1> HIDE DEF alive
<1>12. better \in G
  BY <1>2, <1>11, SimplifyCfgType
<1> HIDE DEF better
<1>13. Flatten(better) \in Seq(Instructions(next - 1))
  BY <1>2, <1>12, FlattenType
<1>14. /\ round' \in 0..MAX_FIXPOINT_ROUNDS
       /\ stage' = "layout" \/ (stage' = "optimize" /\ round' # MAX_FIXPOINT_ROUNDS)
  <2>1. round' \in 0..MAX_FIXPOINT_ROUNDS
    BY <1>1, <1>2, <1>3 DEF MAX_FIXPOINT_ROUNDS
  <2>2. stage' = "layout" \/ (stage' = stage /\ round + 1 # MAX_FIXPOINT_ROUNDS)
    BY <1>6, Zenon
  <2> QED BY <1>1, <2>1, <2>2
<1>15. TypeOK'
  BY <1>1, <1>3, <1>6, <1>12, <1>13, <1>14, LaterKeepsType DEF Inv
<1>16. Staged'
  <2>1. open' = << >>
    BY <1>1, <1>3 DEF builder
  <2> QED BY <1>14, <2>1 DEF Staged, MAX_FIXPOINT_ROUNDS
<1>17. Scanned'
  BY <1>1, <1>3, <1>14 DEF Scanned, scan
<1> QED BY <1>15, <1>16, <1>17 DEF Inv

(* The graph is laid out again.                                            *)
LEMMA RelayoutKeeps == ASSUME Inv, Relayout PROVE Inv'
<1> DEFINE again == BuildCfg(code)
<1>1. /\ stage = "layout" /\ stage' = "intervals" /\ cfg' = again /\ code' = Flatten(again)
      /\ UNCHANGED <<source, builder, round, scan>>
  BY DEF Relayout
<1>2. /\ next - 1 \in Nat /\ code \in Seq(Instructions(next - 1)) /\ round \in 0..MAX_FIXPOINT_ROUNDS
  BY CompilerAssumption DEF Inv, TypeOK
<1>3. open = << >> /\ mapping = << >> /\ active = {}
  BY <1>1 DEF Inv, Staged, Scanned
<1>4. again \in Graphs(next - 1)
  BY <1>2, BuildCfgType
<1>5. Flatten(again) \in Seq(Instructions(next - 1))
  BY <1>2, <1>4, FlattenType
<1>6. TypeOK'
  BY <1>1, <1>2, <1>3, <1>4, <1>5, LaterKeepsType DEF Inv
<1>7. Staged'
  BY <1>1, <1>3 DEF Staged, builder
<1>8. Scanned'
  BY <1>1, <1>3 DEF Scanned, scan
<1> QED BY <1>6, <1>7, <1>8 DEF Inv

-----------------------------------------------------------------------------
(* Liveness and places are about variables there are.                      *)
LEMMA VariablesOf ==
  ASSUME NEW n, NEW i \in Instructions(n)
  PROVE  Defs(i) \subseteq 1..n /\ Uses(i) \subseteq 1..n
<1>1. i.dst \in 0..n /\ i.srcs \in Seq(1..n)
  BY InstructionFields
<1>2. Uses(i) \subseteq 1..n
  <2> DEFINE V == 1..n
             q == i.srcs
  <2> HIDE DEF V, q
  <2>1. q \in Seq(V)
    BY <1>1 DEF V, q
  <2>2. ToSet(q) \subseteq V
    BY <2>1 DEF ToSet
  <2> QED BY <2>2 DEF Uses, V, q
<1>3. Defs(i) \subseteq 1..n
  BY <1>1 DEF Defs, None
<1> QED BY <1>2, <1>3

(* What is live before code, of what is live after it.                     *)
LEMMA LiveBeforeType ==
  ASSUME NEW n, NEW insts \in Seq(Instructions(n)), NEW after \in SUBSET (1..n)
  PROVE  LiveBefore(insts, after) \in SUBSET (1..n)
<1>1. \A k \in DOMAIN insts : Uses(insts[k]) \subseteq 1..n
  BY VariablesOf
<1>2. UsedFirst(insts) \subseteq 1..n
  BY <1>1 DEF UsedFirst
<1> QED BY <1>2 DEF LiveBefore

(* A set of variables for each block.                                      *)
Lives(n, bs) == {q \in Seq(SUBSET (1..n)) : Len(q) = Len(bs)}

(* A live set of each block.                                               *)
LEMMA LivesOf ==
  ASSUME NEW n, NEW bs \in Seq(Blocks(n)), NEW f \in [DOMAIN bs -> SUBSET (1..n)]
  PROVE  << >> \o f \in Lives(n, bs)
<1>1. DOMAIN bs = 1..Len(bs) /\ Len(bs) \in Nat
  OBVIOUS
<1> DEFINE S == SUBSET (1..n)
<1> HIDE DEF S
<1>2. f \in [1..Len(bs) -> S]
  BY <1>1 DEF S
<1>3. f \in Seq(S) /\ Len(f) = Len(bs)
  BY <1>1, <1>2, FunctionIsSeq
<1>4. << >> \o f \in Seq(S) /\ Len(<< >> \o f) = Len(bs)
  BY <1>3
<1> QED BY <1>4 DEF Lives, S

(* One of them.                                                            *)
LEMMA LiveAt ==
  ASSUME NEW n, NEW bs \in Seq(Blocks(n)), NEW q \in Lives(n, bs), NEW l, HasBlock(bs, l)
  PROVE  q[FindBlock(bs, l)] \in SUBSET (1..n)
<1>1. FindBlock(bs, l) \in 1..Len(bs)
  BY FindBlockType
<1> DEFINE S == SUBSET (1..n)
<1> HIDE DEF S
<1>2. q \in Seq(S) /\ Len(q) = Len(bs)
  BY DEF Lives, S
<1>3. q[FindBlock(bs, l)] \in S
  BY <1>1, <1>2
<1> QED BY <1>3 DEF S

(* What is live after a block is live before a block after it.             *)
LEMMA LiveOutType ==
  ASSUME NEW n, NEW bs \in Seq(Blocks(n)), NEW q \in Lives(n, bs), NEW b
  PROVE  LiveOut(bs, q, b) \in SUBSET (1..n)
BY LiveAt DEF LiveOut

(* One round of the backward analysis.                                     *)
LEMMA LiveRoundType ==
  ASSUME NEW n, NEW bs \in Seq(Blocks(n)), NEW q \in Lives(n, bs)
  PROVE  << >> \o [k \in DOMAIN bs |-> LiveBefore(bs[k].code, LiveOut(bs, q, bs[k]))] \in Lives(n, bs)
<1>1. ASSUME NEW k \in DOMAIN bs
      PROVE  LiveBefore(bs[k].code, LiveOut(bs, q, bs[k])) \in SUBSET (1..n)
  <2>1. bs[k].code \in Seq(Instructions(n))
    BY BlockCode
  <2>2. LiveOut(bs, q, bs[k]) \in SUBSET (1..n)
    BY LiveOutType
  <2> QED BY <2>1, <2>2, LiveBeforeType
<1>2. [k \in DOMAIN bs |-> LiveBefore(bs[k].code, LiveOut(bs, q, bs[k]))] \in [DOMAIN bs -> SUBSET (1..n)]
  BY <1>1
<1> QED BY <1>2, LivesOf

(* What is live before each block, when the rounds are over.               *)
LEMMA LiveInType ==
  ASSUME NEW N, NEW bs \in Seq(Blocks(N))
  PROVE  LiveIn(bs) \in Lives(N, bs)
<1> DEFINE times == Len(bs)
           seq == [k \in 1..times |-> k]
           none == << >> \o [k \in DOMAIN bs |-> {}]
           start == [is |-> none, same |-> FALSE]
           round1(q) == << >> \o [k \in DOMAIN bs |-> LiveBefore(bs[k].code, LiveOut(bs, q, bs[k]))]
<1> DEFINE n == Len(seq)
           A == [is : Lives(N, bs), same : BOOLEAN]
           op(acc, k) == IF acc.same THEN acc ELSE [is |-> round1(acc.is), same |-> round1(acc.is) = acc.is]
           g == [p \in A \X (1..n) |-> op(p[1], seq[p[2]])]
           Is(f) == f = [m \in 0..n |-> IF m = 0 THEN start ELSE op(f[m - 1], seq[m])]
           after == CHOOSE f : Is(f)
<1>1. n \in Nat /\ start \in A
  <2>1. none \in Lives(N, bs)
    <3>1. [k \in DOMAIN bs |-> {}] \in [DOMAIN bs -> SUBSET (1..N)]
      OBVIOUS
    <3> QED BY <3>1, LivesOf
  <2>2. n \in Nat
    OBVIOUS
  <2> HIDE DEF none
  <2> QED BY <2>1, <2>2
<1>2. \A a \in A, m \in 1..n : op(a, seq[m]) \in A
  <2> SUFFICES ASSUME NEW a \in A, NEW m \in 1..n PROVE op(a, seq[m]) \in A
    OBVIOUS
  <2>1. round1(a.is) \in Lives(N, bs)
    BY LiveRoundType
  <2> HIDE DEF round1
  <2> QED BY <2>1
<1> HIDE DEF op, A, n, start, seq
<1>3. g \in [A \X (1..n) -> A]
  BY <1>2
<1>4. PICK f : Folded(f, A, n, start, g)
  <2> HIDE DEF g
  <2> QED BY <1>1, <1>3, FoldExists
<1>5. Is(f)
  <2>1. ASSUME NEW m \in 1..n PROVE f[m] = op(f[m - 1], seq[m])
    <3>1. m - 1 \in 0..n /\ m \in 1..n
      BY <1>1
    <3>2. f[m - 1] \in A /\ f[m] = g[<<f[m - 1], m>>]
      <4> HIDE DEF g
      <4> QED BY <1>4, <3>1 DEF Folded
    <3> QED BY <3>1, <3>2
  <2> HIDE DEF g
  <2> QED BY <1>1, <1>4, <2>1 DEF Folded
<1>6. Is(after)
  <2> HIDE DEF Is
  <2> QED BY <1>5
<1>7. after[n] \in A
  <2>1. Carries(after, A, n)
    <3> HIDE DEF after
    <3>1. after[0] \in A
      BY <1>1, <1>6
    <3>2. ASSUME NEW m \in 1..n, after[m - 1] \in A PROVE after[m] \in A
      <4>1. m \in 0..n /\ m # 0
        BY <1>1
      <4>2. after[m] = op(after[m - 1], seq[m])
        BY <1>6, <4>1
      <4> QED BY <1>2, <3>2, <4>2
    <3> QED BY <3>1, <3>2 DEF Carries
  <2> HIDE DEF after
  <2> QED BY <1>1, <2>1, FoldKeeps
<1>8. LiveIn(bs) = after[n].is
  BY DEF LiveIn, Repeated, Map, Fold, op, n, start, seq
<1> HIDE DEF after
<1> QED BY <1>7, <1>8 DEF A

(* Places up to where the blocks so far end.                               *)
UpToEnd(n) ==
  {a \in [pc : Nat, places : SUBSET ((1..n) \X Nat)] : \A p \in a.places : p[2] <= a.pc}

(* The places where one block's variables are needed.                      *)
LEMMA PlacesOfType ==
  ASSUME NEW n, NEW bs \in Seq(Blocks(n)), NEW q \in Lives(n, bs), NEW acc \in UpToEnd(n),
         NEW b \in Blocks(n), HasBlock(bs, b.label)
  PROVE  /\ PlacesOf(bs, q, acc, b) \in UpToEnd(n)
         /\ acc.places \subseteq PlacesOf(bs, q, acc, b).places
         /\ \A k \in DOMAIN b.code : \A v \in Defs(b.code[k]) \cup Uses(b.code[k]) :
              <<v, acc.pc + k - 1>> \in PlacesOf(bs, q, acc, b).places
<1> DEFINE len == Len(b.code)
           pc == acc.pc
           end == pc + len
           named(k) == Defs(b.code[k]) \cup Uses(b.code[k])
           at(k) == named(k) \X {pc + k - 1}
           inside == UNION {at(k) : k \in DOMAIN b.code}
           in == q[FindBlock(bs, b.label)]
           out == LiveOut(bs, q, b)
           before == in \X {pc}
           after == out \X {end}
           places == acc.places \cup before \cup after \cup inside
<1>1. PlacesOf(bs, q, acc, b) = [pc |-> end, places |-> places]
  BY DEF PlacesOf
<1>2. /\ pc \in Nat /\ acc.places \subseteq (1..n) \X Nat
      /\ \A p \in acc.places : p[2] \in Nat /\ p[2] <= pc
  BY DEF UpToEnd
<1>3. len \in Nat /\ DOMAIN b.code = 1..len
  BY BlockFields
<1>4. in \subseteq 1..n /\ out \subseteq 1..n
  BY LiveAt, LiveOutType
<1>5. \A k \in DOMAIN b.code : named(k) \subseteq 1..n
  <2>1. b.code \in Seq(Instructions(n))
    BY BlockCode
  <2> QED BY <2>1, VariablesOf
<1> HIDE DEF len, in, out, named, pc
<1>6. /\ end \in Nat /\ pc <= end
      /\ \A k \in DOMAIN b.code : pc + k - 1 \in Nat /\ pc + k - 1 <= end
  BY <1>2, <1>3
<1> HIDE DEF end
<1>7. before \subseteq (1..n) \X Nat /\ \A p \in before : p[2] <= end
  BY <1>2, <1>4, <1>6
<1>8. after \subseteq (1..n) \X Nat /\ \A p \in after : p[2] <= end
  <2>1. \A p \in after : p[1] \in out /\ p[2] = end /\ p = <<p[1], p[2]>>
    OBVIOUS
  <2> HIDE DEF after
  <2> QED BY <1>4, <1>6, <2>1
<1>9. ASSUME NEW k \in DOMAIN b.code
      PROVE  at(k) \subseteq (1..n) \X Nat /\ \A p \in at(k) : p[2] <= end
  BY <1>5, <1>6
<1>10. \A p \in acc.places : p[2] <= end
  BY <1>2, <1>6
<1>11. inside \subseteq (1..n) \X Nat /\ \A p \in inside : p[2] <= end
  <2> HIDE DEF at
  <2> QED BY <1>9
<1>12. \A k \in DOMAIN b.code : \A v \in named(k) : <<v, pc + k - 1>> \in inside
  OBVIOUS
<1> HIDE DEF before, after, inside
<1>13. places \subseteq (1..n) \X Nat /\ \A p \in places : p[2] <= end
  BY <1>2, <1>7, <1>8, <1>10, <1>11
<1>14. acc.places \subseteq places /\ inside \subseteq places
  OBVIOUS
<1> HIDE DEF places
<1>15. PlacesOf(bs, q, acc, b) \in UpToEnd(n)
  BY <1>1, <1>6, <1>13 DEF UpToEnd
<1>16. \A k \in DOMAIN b.code : \A v \in named(k) : <<v, pc + k - 1>> \in places
  BY <1>12, <1>14
<1> QED BY <1>1, <1>14, <1>15, <1>16 DEF named, pc

(* All places are of variables there are and up to the end of the code,    *)
(* and every variable an instruction assigns or uses has one.              *)
LEMMA PlacesType ==
  ASSUME NEW N, NEW bs \in Seq(Blocks(N))
  PROVE  /\ Places(bs).pc \in Nat
         /\ Places(bs).places \subseteq (1..N) \X (0..Places(bs).pc)
         /\ \A k \in DOMAIN bs : \A j \in DOMAIN bs[k].code :
              \A v \in Defs(bs[k].code[j]) \cup Uses(bs[k].code[j]) :
                \E p \in Places(bs).places : p[1] = v
<1> DEFINE q == LiveIn(bs)
           start == [pc |-> 0, places |-> {}]
<1> DEFINE n == Len(bs)
           A == UpToEnd(N)
           op(acc, b) == PlacesOf(bs, q, acc, b)
           g == [p \in A \X (1..n) |-> op(p[1], bs[p[2]])]
           Is(f) == f = [m \in 0..n |-> IF m = 0 THEN start ELSE op(f[m - 1], bs[m])]
           after == CHOOSE f : Is(f)
<1>0. q \in Lives(N, bs) /\ \A m \in 1..n : bs[m] \in Blocks(N) /\ HasBlock(bs, bs[m].label)
  BY LiveInType DEF HasBlock
<1> HIDE DEF q
<1>1. n \in Nat /\ start \in A
  BY DEF UpToEnd
<1>2. \A a \in A, m \in 1..n : op(a, bs[m]) \in A
  BY <1>0, PlacesOfType
<1> HIDE DEF op, A, n, start
<1>3. g \in [A \X (1..n) -> A]
  BY <1>2
<1>4. PICK f : Folded(f, A, n, start, g)
  <2> HIDE DEF g
  <2> QED BY <1>1, <1>3, FoldExists
<1>5. Is(f)
  <2>1. ASSUME NEW m \in 1..n PROVE f[m] = op(f[m - 1], bs[m])
    <3>1. m - 1 \in 0..n /\ m \in 1..n
      BY <1>1
    <3>2. f[m - 1] \in A /\ f[m] = g[<<f[m - 1], m>>]
      <4> HIDE DEF g
      <4> QED BY <1>4, <3>1 DEF Folded
    <3> QED BY <3>1, <3>2
  <2> HIDE DEF g
  <2> QED BY <1>1, <1>4, <2>1 DEF Folded
<1>6. Is(after)
  <2> HIDE DEF Is
  <2> QED BY <1>5
<1>7. after[n] \in A
  <2>1. Carries(after, A, n)
    <3> HIDE DEF after
    <3>1. after[0] \in A
      BY <1>1, <1>6
    <3>2. ASSUME NEW m \in 1..n, after[m - 1] \in A PROVE after[m] \in A
      <4>1. m \in 0..n /\ m # 0
        BY <1>1
      <4>2. after[m] = op(after[m - 1], bs[m])
        BY <1>6, <4>1
      <4> QED BY <1>2, <3>2, <4>2
    <3> QED BY <3>1, <3>2 DEF Carries
  <2> HIDE DEF after
  <2> QED BY <1>1, <2>1, FoldKeeps
<1>8. Places(bs) = after[n]
  BY DEF Places, Fold, op, n, start, q
<1> DEFINE named(k, j) == Defs(bs[k].code[j]) \cup Uses(bs[k].code[j])
           found(k, a) == \A j \in DOMAIN bs[k].code : \A v \in named(k, j) : \E p \in a.places : p[1] = v
           all(m) == after[m] \in A /\ \A k \in 1..m : found(k, after[m])
           h == [m \in 0..n |-> all(m)]
<1>9. ASSUME NEW a \in A, NEW m \in 1..n
      PROVE  a.places \subseteq op(a, bs[m]).places /\ found(m, op(a, bs[m]))
  <2>1. \A j \in DOMAIN bs[m].code : \A v \in named(m, j) :
           <<v, a.pc + j - 1>> \in op(a, bs[m]).places
    BY <1>0, PlacesOfType DEF A, op
  <2>2. a.places \subseteq op(a, bs[m]).places
    BY <1>0, PlacesOfType DEF A, op
  <2> HIDE DEF named
  <2>3. \A v, x : <<v, x>>[1] = v
    OBVIOUS
  <2> QED BY <2>1, <2>2, <2>3
<1>10. all(0)
  <2>1. after[0] \in A
    <3> HIDE DEF after
    <3> QED BY <1>1, <1>6
  <2> HIDE DEF after
  <2> QED BY <2>1
<1>11. ASSUME NEW m \in 1..n, all(m - 1) PROVE all(m)
  <2>1. after[m] = op(after[m - 1], bs[m])
    <3> HIDE DEF after
    <3> QED BY <1>1, <1>6
  <2>2. after[m - 1] \in A
    BY <1>11
  <2>3. after[m] \in A
    BY <1>2, <2>1, <2>2
  <2>4. after[m - 1].places \subseteq after[m].places /\ found(m, after[m])
    <3> HIDE DEF after, found
    <3> QED BY <1>9, <2>1, <2>2
  <2>5. ASSUME NEW k \in 1..m PROVE found(k, after[m])
    <3>1. CASE k = m
      BY <2>4, <3>1
    <3>2. CASE k # m
      <4>1. k \in 1..(m - 1)
        BY <1>1, <3>2
      <4>2. found(k, after[m - 1])
        BY <1>11, <4>1
      <4> HIDE DEF named, after
      <4> QED BY <2>4, <4>2
    <3> QED BY <3>1, <3>2
  <2> QED BY <2>3, <2>5
<1>12. all(n)
  <2>1. Carries(h, {TRUE}, n)
    <3> HIDE DEF all
    <3>1. h[0] = all(0) /\ \A m \in 1..n : m - 1 \in 0..n /\ h[m] = all(m) /\ h[m - 1] = all(m - 1)
      BY <1>1
    <3>2. h[0] \in {TRUE}
      BY <1>10, <3>1
    <3>3. ASSUME NEW m \in 1..n, h[m - 1] \in {TRUE} PROVE h[m] \in {TRUE}
      <4>1. all(m - 1)
        BY <3>1, <3>3
      <4>2. all(m)
        BY <1>11, <4>1
      <4> QED BY <3>1, <4>2
    <3> HIDE DEF h
    <3> QED BY <3>2, <3>3 DEF Carries
  <2>2. h[n] \in {TRUE}
    <3> HIDE DEF h
    <3> QED BY <1>1, <2>1, FoldKeeps
  <2>3. h[n] = all(n)
    <3> HIDE DEF all
    <3> QED BY <1>1
  <2> HIDE DEF all, h
  <2> QED BY <2>2, <2>3
<1>13. after[n] \in UpToEnd(N) /\ \A k \in 1..n : found(k, after[n])
  BY <1>12 DEF A
<1>14. DOMAIN bs = 1..n
  BY DEF n
<1> HIDE DEF after
<1>15. /\ after[n].pc \in Nat /\ after[n].places \subseteq (1..N) \X Nat
       /\ \A p \in after[n].places : p[2] <= after[n].pc
  BY <1>13 DEF UpToEnd
<1>16. after[n].places \subseteq (1..N) \X (0..after[n].pc)
  BY <1>15
<1> QED BY <1>8, <1>13, <1>14, <1>15, <1>16

(* An interval begins and ends somewhere.                                  *)
LEMMA IntervalType ==
  ASSUME NEW m \in Nat, NEW pcs, pcs \subseteq 0..m, pcs # {}, NEW isCaptured, NEW noEnd \in Nat
  PROVE  /\ Interval(pcs, isCaptured, noEnd) \in [start : Nat, end : Nat]
         /\ Interval(pcs, isCaptured, noEnd).start <= m
         /\ isCaptured => Interval(pcs, isCaptured, noEnd).end = noEnd
<1>1. \E p \in pcs : \A q \in pcs : p <= q
  <2>1. pcs \subseteq Nat
    OBVIOUS
  <2> QED BY <2>1, LeastNumber
<1>2. \E p \in pcs : \A q \in pcs : q <= p
  <2> DEFINE T == {x \in 0..m : m - x \in pcs}
  <2>1. T \subseteq Nat /\ T # {}
    <3>1. PICK p \in pcs : TRUE
      OBVIOUS
    <3>2. m - p \in 0..m /\ m - (m - p) = p
      OBVIOUS
    <3>3. m - (m - p) \in pcs
      BY <3>2
    <3>4. m - p \in T
      BY <3>2, <3>3
    <3>5. T \subseteq Nat
      OBVIOUS
    <3> HIDE DEF T
    <3> QED BY <3>4, <3>5
  <2>2. PICK x \in T : \A y \in T : x <= y
    <3> HIDE DEF T
    <3> QED BY <2>1, LeastNumber
  <2>3. ASSUME NEW q \in pcs PROVE q <= m - x
    <3>1. q \in 0..m /\ m - q \in 0..m /\ m - (m - q) = q
      OBVIOUS
    <3>2. m - q \in T
      BY <3>1
    <3>3. x <= m - q /\ x \in 0..m
      BY <2>2, <3>2
    <3> QED BY <3>1, <3>3
  <2>4. m - x \in pcs
    BY <2>2
  <2> QED BY <2>3, <2>4
<1>4. \A p \in pcs : p \in Nat /\ p <= m
  OBVIOUS
<1> DEFINE s == CHOOSE p \in pcs : \A q \in pcs : p <= q
           e == CHOOSE p \in pcs : \A q \in pcs : q <= p
<1>5. s \in Nat /\ s <= m /\ e \in Nat
  BY <1>1, <1>2, <1>4
<1>6. Interval(pcs, isCaptured, noEnd) = [start |-> s, end |-> IF isCaptured THEN noEnd ELSE e]
  BY DEF Interval
<1> HIDE DEF s, e
<1> QED BY <1>5, <1>6

(* Everything the code assigns or uses has a place.                        *)
Within(i, used) == Defs(i) \cup Uses(i) \subseteq used

(* Whatever the code names has a place.                                    *)
LEMMA CodeHasPlaces ==
  ASSUME NEW n \in Nat, NEW g \in Graphs(n), NEW used,
         \A k \in DOMAIN g.blocks : \A j \in DOMAIN g.blocks[k].code :
           Within(g.blocks[k].code[j], used)
  PROVE  \A i \in ToSet(Flatten(g)) : Within(i, used)
<1> DEFINE X == {i \in Instructions(n) : Within(i, used)}
<1>1. g.blocks \in Seq(Blocks(n))
  BY GraphFields
<1>2. ASSUME NEW k \in DOMAIN g.blocks
      PROVE  Label(g.blocks[k].label) \in X /\ g.blocks[k].code \in Seq(X)
  <2> DEFINE insts == g.blocks[k].code
  <2>1. g.blocks[k].label \in Int /\ insts \in Seq(Instructions(n))
    BY <1>1, BlockFields, BlockCode
  <2>2. Label(g.blocks[k].label) \in X
    <3>1. Label(g.blocks[k].label) \in Instructions(n)
      BY <2>1, NewInstructions
    <3>2. Defs(Label(g.blocks[k].label)) = {} /\ Uses(Label(g.blocks[k].label)) = {}
      BY DEF Defs, Uses, Label, Inst, None, ToSet
    <3> QED BY <3>1, <3>2 DEF Within
  <2>3. \A j \in DOMAIN insts : insts[j] \in X
    BY <2>1
  <2>4. insts = [j \in 1..Len(insts) |-> insts[j]] /\ Len(insts) \in Nat /\ DOMAIN insts = 1..Len(insts)
    BY <2>1
  <2> HIDE DEF insts, X
  <2>5. insts \in [1..Len(insts) -> X]
    BY <2>3, <2>4
  <2>6. insts \in Seq(X)
    BY <2>4, <2>5, FunctionIsSeq
  <2> QED BY <2>2, <2>6 DEF insts
<1>3. Flatten(g) \in Seq(X)
  <2> HIDE DEF X
  <2> QED BY <1>1, <1>2, FlattenOver
<1>4. \A i \in ToSet(Flatten(g)) : i \in X
  <2> HIDE DEF X
  <2> QED BY <1>3 DEF ToSet
<1> QED BY <1>4

(* Copy partners are variables of the code.                                *)
LEMMA PartnersUsed ==
  ASSUME NEW used, \A i \in ToSet(code) : Within(i, used),
         NEW n, code \in Seq(Instructions(n)), NEW v
  PROVE  CopyPartners(v) \subseteq used
<1> SUFFICES ASSUME NEW w \in CopyPartners(v) PROVE w \in used
  OBVIOUS
<1>1. PICK i \in ToSet(code) : i.op = "move" /\ {i.dst} \cup Uses(i) = {v, w}
  BY DEF CopyPartners
<1>2. i \in Instructions(n)
  BY DEF ToSet
<1>3. i.dst # None
  BY <1>1, <1>2, InstructionFields DEF Assigning
<1>4. {i.dst} \cup Uses(i) \subseteq used
  BY <1>1, <1>3 DEF Within, Defs
<1> QED BY <1>1, <1>4

(* The intervals are of variables there are, and of all the code names.    *)
LEMMA ComputeIntervalsKeeps == ASSUME Inv, ComputeIntervals PROVE Inv'
<1> DEFINE N == next - 1
           found == Places(cfg.blocks)
           places == found.places
           noEnd == NoEnd(found)
           captured == CapturedVars(cfg)
           used == {p[1] : p \in places}
           pcs(v) == {p[2] : p \in {q \in places : q[1] = v}}
<1>1. /\ stage = "intervals" /\ stage' = "sort"
      /\ span' = [v \in used |-> Interval(pcs(v), v \in captured, noEnd)]
      /\ hints' = [v \in used |-> CopyPartners(v)]
      /\ UNCHANGED <<code, source, builder, cfg, round, queue, mapping, free, active, failed>>
  BY DEF ComputeIntervals
<1>2. /\ N \in Nat /\ cfg \in Graphs(N) /\ cfg.blocks \in Seq(Blocks(N))
      /\ code \in Seq(Instructions(N))
  <2>1. /\ next \in Nat /\ next > Params
        /\ cfg \in Graphs(next - 1) /\ code \in Seq(Instructions(next - 1))
    BY DEF Inv, TypeOK
  <2>2. Params \in Nat
    BY CompilerAssumption
  <2>3. N \in Nat
    BY <2>1, <2>2
  <2> QED BY <2>1, <2>3, GraphFields
<1>3. /\ found.pc \in Nat /\ places \subseteq (1..N) \X (0..found.pc)
      /\ \A k \in DOMAIN cfg.blocks : \A j \in DOMAIN cfg.blocks[k].code :
           \A v \in Defs(cfg.blocks[k].code[j]) \cup Uses(cfg.blocks[k].code[j]) :
             \E p \in places : p[1] = v
  BY <1>2, PlacesType
<1>4. noEnd \in Nat /\ \A k \in Int : k <= found.pc => k < noEnd
  BY <1>3 DEF NoEnd
<1> HIDE DEF found, places, noEnd, captured, N
<1>5. used \subseteq 1..N
  BY <1>3
<1>6. ASSUME NEW v \in used
      PROVE  /\ Interval(pcs(v), v \in captured, noEnd) \in [start : Nat, end : Nat]
             /\ Interval(pcs(v), v \in captured, noEnd).start <= found.pc
             /\ v \in captured => Interval(pcs(v), v \in captured, noEnd).end = noEnd
  <2>1. pcs(v) \subseteq 0..found.pc /\ pcs(v) # {}
    BY <1>3
  <2> DEFINE S == pcs(v)
             caught == v \in captured
             m == found.pc
  <2>2. m \in Nat /\ S \subseteq 0..m /\ S # {}
    BY <1>3, <2>1
  <2> HIDE DEF S, caught, m
  <2>3. /\ Interval(S, caught, noEnd) \in [start : Nat, end : Nat]
        /\ Interval(S, caught, noEnd).start <= m
        /\ caught => Interval(S, caught, noEnd).end = noEnd
    BY <1>4, <2>2, IntervalType
  <2> QED BY <2>3 DEF S, caught, m
<1>7. \A k \in DOMAIN cfg.blocks : \A j \in DOMAIN cfg.blocks[k].code :
        Within(cfg.blocks[k].code[j], used)
  BY <1>3 DEF Within
<1> HIDE DEF used, pcs
<1>8. \A i \in ToSet(code) : Within(i, used)
  <2>1. code = Flatten(cfg)
    BY <1>1 DEF Inv, Staged
  <2> QED BY <1>2, <1>7, <2>1, CodeHasPlaces
<1>9. \A v : CopyPartners(v) \subseteq used
  BY <1>2, <1>8, PartnersUsed
<1>10. /\ DOMAIN span' = used /\ span' \in [DOMAIN span' -> [start : Nat, end : Nat]]
  BY <1>1, <1>6
<1>11. hints' \in [used -> SUBSET used]
  BY <1>1, <1>9
<1>12. next' = next /\ code' = code
  BY <1>1 DEF builder
<1>18. \A v \in captured \cap used : \A w \in used : span'[w].start < span'[v].end
  <2>1. ASSUME NEW v \in captured, v \in used, NEW w \in used PROVE span'[w].start < span'[v].end
    <3>1. span'[v].end = noEnd /\ span'[w].start <= found.pc /\ span'[w].start \in Nat
      BY <1>1, <1>6, <2>1
    <3> QED BY <1>4, <3>1
  <2> QED BY <2>1
<1>19. captured = CapturedVars(cfg')
  BY <1>1 DEF captured
<1>13. Spanned'
  BY <1>5, <1>8, <1>10, <1>11, <1>12, <1>18, <1>19 DEF Spanned, Within, N
<1>14. open = << >> /\ mapping = << >> /\ active = {} /\ DOMAIN mapping' = {}
  BY <1>1 DEF Inv, Staged, Scanned
<1>15. TypeOK'
  <2>1. UNCHANGED <<next, label, locals, open, made>>
    BY <1>1 DEF builder
  <2>2. Nested'
    BY <1>14, <2>1 DEF Nested
  <2> QED BY <1>1, <1>14, <2>1, <2>2 DEF Inv, TypeOK
<1>16. Staged'
  BY <1>1, <1>14 DEF Staged, builder
<1>17. Scanned'
  BY <1>1, <1>13, <1>14 DEF Scanned
<1> QED BY <1>15, <1>16, <1>17 DEF Inv

(* The scan's order is one.                                                *)
LEMMA IntervalsOrdered ==
  ASSUME NEW S, S \subseteq DOMAIN span, S \subseteq Nat,
         span \in [DOMAIN span -> [start : Nat, end : Nat]]
  PROVE  /\ Orders({p \in S \X S : Precedes(p[1], p[2])}, S)
         /\ \A v, w \in S : Precedes(v, w) => span[v].start <= span[w].start
<1> DEFINE before == {p \in S \X S : Precedes(p[1], p[2])}
           s(v) == span[v].start
           e(v) == span[v].end
           First(v, w) == \/ s(v) < s(w)
                          \/ s(v) = s(w) /\ e(v) < e(w)
                          \/ s(v) = s(w) /\ e(v) = e(w) /\ v < w
<1>1. \A v \in S : s(v) \in Nat /\ e(v) \in Nat /\ v \in Nat
  <2>1. \A v \in S : span[v] \in [start : Nat, end : Nat]
    OBVIOUS
  <2> QED BY <2>1
<1>2. \A v : Key(v)[1] = s(v) /\ Key(v)[2] = e(v) /\ Key(v)[3] = v
  BY DEF Key
<1> HIDE DEF s, e
<1>3. ASSUME NEW v \in S, NEW w \in S PROVE Precedes(v, w) <=> First(v, w)
  <2>1. \A n : n \in 1..3 <=> n = 1 \/ n = 2 \/ n = 3
    OBVIOUS
  <2>2. (\A m : m \notin 1..(1 - 1)) /\ (\A m : m \in 1..(2 - 1) <=> m = 1)
        /\ (\A m : m \in 1..(3 - 1) <=> m = 1 \/ m = 2)
    OBVIOUS
  <2> DEFINE Decides(n) == /\ Key(v)[n] < Key(w)[n]
                           /\ \A m \in 1..(n - 1) : Key(v)[m] = Key(w)[m]
  <2>3. Decides(1) <=> s(v) < s(w)
    BY <1>2, <2>2
  <2>4. Decides(2) <=> s(v) = s(w) /\ e(v) < e(w)
    BY <1>2, <2>2
  <2>5. Decides(3) <=> s(v) = s(w) /\ e(v) = e(w) /\ v < w
    BY <1>2, <2>2
  <2>6. Precedes(v, w) <=> \E n \in 1..3 : Decides(n)
    BY DEF Precedes
  <2> HIDE DEF Decides
  <2>7. (\E n \in 1..3 : Decides(n)) <=> Decides(1) \/ Decides(2) \/ Decides(3)
    BY <2>1
  <2> QED BY <2>3, <2>4, <2>5, <2>6, <2>7
<1>4. \A v, w \in S : <<v, w>> \in before <=> First(v, w)
  BY <1>3
<1> HIDE DEF before
<1>5. \A v \in S : <<v, v>> \notin before
  BY <1>1, <1>4
<1>6. \A v, w \in S : v # w => <<v, w>> \in before \/ <<w, v>> \in before
  BY <1>1, <1>4
<1>7. \A v, w, x \in S : <<v, w>> \in before /\ <<w, x>> \in before => <<v, x>> \in before
  BY <1>1, <1>4
<1>8. Orders(before, S)
  BY <1>5, <1>6, <1>7 DEF Orders
<1>9. \A v, w \in S : Precedes(v, w) => s(v) <= s(w)
  BY <1>1, <1>3
<1> QED BY <1>8, <1>9 DEF before, s

(* What is placed is a variable there is, in a register there is.          *)
Mapped ==
  /\ DOMAIN mapping \subseteq 1..(next - 1) /\ active \subseteq DOMAIN mapping
  /\ \A v \in DOMAIN mapping : mapping[v] \in 1..Registers

(* What has a register is a parameter or has an interval.                  *)
LEMMA MappedType ==
  IInv /\ DOMAIN span \subseteq 1..(next - 1) /\ next \in Nat /\ next > Params => Mapped
<1> SUFFICES ASSUME IInv, DOMAIN span \subseteq 1..(next - 1), next \in Nat, next > Params
             PROVE  Mapped
  OBVIOUS
<1>1. Params \in Nat /\ Registers \in Nat /\ Params <= Registers
  BY CompilerAssumption
<1>2. 1..Params \subseteq 1..(next - 1)
  BY <1>1
<1>3. Placed \subseteq 1..(next - 1) /\ active \subseteq Placed
  BY DEF IInv, Types
<1>4. ASSUME NEW v \in DOMAIN mapping PROVE mapping[v] \in 1..Registers /\ v \in 1..(next - 1)
  <2>1. CASE v \in 1..Params
    BY <1>1, <1>2, <2>1 DEF IInv, Kept
  <2>2. CASE v \notin 1..Params
    <3>1. v \in Placed
      BY <2>2 DEF Placed
    <3>2. mapping[v] \in (Params + 1)..Registers
      BY <3>1 DEF IInv, Kept
    <3> QED BY <1>1, <1>3, <3>1, <3>2
  <2> QED BY <2>1, <2>2
<1> QED BY <1>3, <1>4 DEF Placed, Mapped

(* The scan is given what it needs, and all of it.                         *)
LEMMA ScanIsReady ==
  ASSUME Inv, SortIntervals
  PROVE  ScanInit' /\ DOMAIN span \subseteq DOMAIN mapping' \cup ToSet(queue')
<1> DEFINE waiting == DOMAIN span \ 1..Params
           before == {p \in waiting \X waiting : Precedes(p[1], p[2])}
<1>1. /\ stage = "sort" /\ queue' = Sorted(waiting, before)
      /\ mapping' = [p \in 1..Params |-> p] /\ free' = (Params + 1)..Registers
      /\ active' = {} /\ failed' = FALSE /\ UNCHANGED <<span, hints>>
  BY DEF SortIntervals
<1>2. Spanned /\ next \in Nat
  BY <1>1 DEF Inv, Scanned, TypeOK
<1>3. IsFiniteSet(waiting) /\ waiting \subseteq DOMAIN span /\ waiting \subseteq Nat
  <2>1. IsFiniteSet(1..(next - 1)) /\ 1..(next - 1) \subseteq Nat
    BY <1>2, FS_Interval
  <2>2. waiting \subseteq 1..(next - 1)
    BY <1>2 DEF Spanned
  <2> HIDE DEF waiting
  <2>3. IsFiniteSet(waiting) /\ waiting \subseteq Nat
    BY <2>1, <2>2, FS_Subset
  <2> QED BY <2>3 DEF waiting
<1>4. Orders(before, waiting) /\ \A v, w \in waiting : Precedes(v, w) => span[v].start <= span[w].start
  <2> HIDE DEF waiting
  <2> QED BY <1>2, <1>3, IntervalsOrdered DEF Spanned
<1>5. \A v, w : <<v, w>> \in before => v \in waiting /\ w \in waiting /\ Precedes(v, w)
  OBVIOUS
<1> HIDE DEF before, waiting
<1>6. /\ queue' \in Seq(waiting)
      /\ \A i, j \in 1..Len(queue') :
           i < j => <<queue'[i], queue'[j]>> \in before /\ queue'[i] # queue'[j]
      /\ \A v \in waiting : \E i \in 1..Len(queue') : queue'[i] = v
  <2> DEFINE q == Sorted(waiting, before)
  <2>1. /\ q \in Seq(waiting)
        /\ \A i, j \in 1..Len(q) : i < j => <<q[i], q[j]>> \in before /\ q[i] # q[j]
        /\ \A v \in waiting : \E i \in 1..Len(q) : q[i] = v
    <3>1. IsFiniteSet(waiting) /\ Orders(before, waiting)
      BY <1>3, <1>4
    <3> HIDE DEF q
    <3>2. q = Sorted(waiting, before)
      BY DEF q
    <3> QED BY <3>1, <3>2, SortedType
  <2>2. queue' = q
    BY <1>1
  <2> HIDE DEF q
  <2> QED BY <2>1, <2>2
<1>7. InOrder(queue)'
  <2>1. ASSUME NEW i \in 1..Len(queue'), NEW j \in 1..Len(queue'), i < j
        PROVE  /\ span[queue'[i]].start <= span[queue'[j]].start
               /\ queue'[i] # queue'[j]
    <3>1. <<queue'[i], queue'[j]>> \in before /\ queue'[i] # queue'[j]
      BY <1>6, <2>1
    <3> QED BY <1>4, <1>5, <3>1, Zenon
  <2>2. span' = span
    BY <1>1
  <2> QED BY <2>1, <2>2 DEF InOrder
<1>8. ScanInit'
  BY <1>1, <1>2, <1>6, <1>7 DEF ScanInit, Begin, Spanned, waiting
<1>9. ASSUME NEW v \in DOMAIN span PROVE v \in DOMAIN mapping' \cup ToSet(queue')
  <2>1. CASE v \in 1..Params
    BY <1>1, <2>1
  <2>2. CASE v \notin 1..Params
    <3>1. v \in waiting
      BY <2>2 DEF waiting
    <3>2. PICK i \in 1..Len(queue') : queue'[i] = v
      BY <1>6, <3>1
    <3> QED BY <1>6, <3>2 DEF ToSet
  <2> QED BY <2>1, <2>2
<1> QED BY <1>8, <1>9

(* The scan starts.                                                        *)
LEMMA SortIntervalsKeeps == ASSUME Inv, SortIntervals PROVE Inv'
<1>1. /\ stage = "sort" /\ stage' = "allocate"
      /\ UNCHANGED <<code, source, builder, cfg, round, span, hints>>
  BY DEF SortIntervals
<1>2. Spanned /\ next \in Nat /\ next > Params /\ open = << >>
  BY <1>1 DEF Inv, Scanned, TypeOK, Staged
<1>3. UNCHANGED <<next, label, locals, open, made>>
  BY <1>1 DEF builder
<1>4. IInv' /\ DOMAIN span' \subseteq DOMAIN mapping' \cup ToSet(queue')
  <2>1. ScanInit' => IInv'
    BY ScanStarts, PTL
  <2> QED BY <1>1, <2>1, ScanIsReady
<1>5. Spanned'
  BY <1>1, <1>2, <1>3 DEF Spanned
<1>6. Mapped'
  <2>1. (DOMAIN span \subseteq 1..(next - 1) /\ next \in Nat /\ next > Params)'
    BY <1>2, <1>3, <1>5 DEF Spanned
  <2> QED BY <1>4, <2>1, MappedType, PTL
<1>7. TypeOK'
  <2>1. Nested'
    BY <1>2, <1>3 DEF Nested
  <2> QED BY <1>1, <1>3, <1>6, <2>1 DEF Inv, TypeOK, Mapped
<1>8. Staged' /\ Scanned'
  BY <1>1, <1>2, <1>3, <1>4, <1>5 DEF Staged, Scanned
<1> QED BY <1>7, <1>8 DEF Inv

(* An interval is given a register.                                        *)
LEMMA AllocateKeeps == ASSUME Inv, Allocate PROVE Inv'
<1>1. /\ stage = "allocate" /\ stage' = "allocate" /\ ScanNext
      /\ UNCHANGED <<code, source, builder, cfg, round, span, hints>>
  BY DEF Allocate, ScanNext, PlaceNext, RunOut
<1>2. /\ Spanned /\ next \in Nat /\ next > Params /\ open = << >>
      /\ IInv /\ DOMAIN span \subseteq DOMAIN mapping \cup ToSet(queue)
  BY <1>1 DEF Inv, Scanned, TypeOK, Staged
<1>3. UNCHANGED <<next, label, locals, open, made>>
  BY <1>1 DEF builder
<1>4. IInv'
  BY <1>1, <1>2, ScanKeeps
<1>5. Spanned'
  BY <1>1, <1>2, <1>3 DEF Spanned
<1>6. Mapped'
  <2>1. (DOMAIN span \subseteq 1..(next - 1) /\ next \in Nat /\ next > Params)'
    BY <1>2, <1>3, <1>5 DEF Spanned
  <2> QED BY <1>4, <2>1, MappedType, PTL
<1>7. TypeOK'
  <2>1. Nested'
    BY <1>2, <1>3 DEF Nested
  <2> QED BY <1>1, <1>3, <1>6, <2>1 DEF Inv, TypeOK, Mapped
<1>8. DOMAIN span' \subseteq DOMAIN mapping' \cup ToSet(queue')
  <2>1. CASE RunOut
    BY <1>1, <1>2, <2>1 DEF RunOut
  <2>2. CASE PlaceNext
    <3>1. /\ queue # << >> /\ queue' = Tail(queue) /\ DOMAIN mapping' = DOMAIN mapping \cup {Head(queue)}
      BY <2>2 DEF PlaceNext, Place
    <3>2. queue \in Seq(DOMAIN span \ 1..Params)
      BY <1>2 DEF IInv, Types
    <3> DEFINE S == DOMAIN span \ 1..Params
    <3> HIDE DEF S
    <3>3. queue \in Seq(S)
      BY <3>2 DEF S
    <3>4. ASSUME NEW k \in DOMAIN queue PROVE queue[k] = Head(queue) \/ queue[k] \in ToSet(queue')
      <4>1. CASE k = 1
        BY <3>3, <4>1
      <4>2. CASE k # 1
        <5>1. k - 1 \in DOMAIN queue' /\ queue'[k - 1] = queue[k]
          BY <3>1, <3>3, <4>2
        <5> QED BY <5>1 DEF ToSet
      <4> QED BY <4>1, <4>2
    <3>5. \A v \in ToSet(queue) : v = Head(queue) \/ v \in ToSet(queue')
      BY <3>4 DEF ToSet
    <3> QED BY <1>1, <1>2, <3>1, <3>5
  <2> QED BY <1>1, <2>1, <2>2 DEF ScanNext
<1>9. Staged' /\ Scanned'
  BY <1>1, <1>2, <1>3, <1>4, <1>5, <1>8 DEF Staged, Scanned
<1> QED BY <1>7, <1>9 DEF Inv

(* Every step of the compiler keeps the invariant.                         *)
LEMMA Keeps == Inv /\ [Next]_vars => Inv'
<1> SUFFICES ASSUME Inv, [Next]_vars PROVE Inv'
  OBVIOUS
<1>1. CASE UNCHANGED vars
  <2>1. /\ UNCHANGED <<stage, code, source, next, label, locals, open, made, cfg, round>>
        /\ UNCHANGED <<span, hints, queue, mapping, free, active, failed>>
    BY <1>1 DEF vars, builder, scan
  <2>2. TypeOK' /\ Staged'
    BY <2>1 DEF Inv, TypeOK, Nested, Staged
  <2>3. IInv => IInv'
    BY <2>1, ScanKeeps DEF scan
  <2>4. Scanned'
    BY <2>1, <2>3 DEF Inv, Scanned, Spanned
  <2> QED BY <2>2, <2>4 DEF Inv
<1>2. ASSUME NEW s \in Statements, DeclareLocal(s) PROVE Inv'
  BY <1>2, DeclareLocalKeeps
<1>3. ASSUME NEW s \in Statements, Assign(s) PROVE Inv'
  BY <1>3, AssignKeeps
<1>4. ASSUME NEW s \in Statements, Evaluate(s) PROVE Inv'
  BY <1>4, EvaluateKeeps
<1>5. ASSUME NEW s \in Statements, Break(s) PROVE Inv'
  BY <1>5, BreakKeeps
<1>6. CASE If
  BY <1>6, IfKeeps
<1>7. CASE While
  BY <1>7, WhileKeeps
<1>8. CASE Else
  BY <1>8, ElseKeeps
<1>9. CASE EndIf
  BY <1>9, EndIfKeeps
<1>10. CASE EndWhile
  BY <1>10, EndWhileKeeps
<1>11. CASE Finish
  BY <1>11, FinishKeeps
<1>12. CASE Optimize
  BY <1>12, OptimizeKeeps
<1>13. CASE Relayout
  BY <1>13, RelayoutKeeps
<1>14. CASE ComputeIntervals
  BY <1>14, ComputeIntervalsKeeps
<1>15. CASE SortIntervals
  BY <1>15, SortIntervalsKeeps
<1>16. CASE Allocate
  BY <1>16, AllocateKeeps
<1> QED BY <1>1, <1>2, <1>3, <1>4, <1>5, <1>6, <1>7, <1>8, <1>9, <1>10, <1>11, <1>12, <1>13,
           <1>14, <1>15, <1>16 DEF Next

(* The invariant holds.                                                    *)
LEMMA Invariant == Spec => []Inv
BY Starts, Keeps, PTL DEF Spec

-----------------------------------------------------------------------------
(***************************************************************************)
(* From the first statement to the last register, whatever the statements  *)
(* and bounds: instructions name variables that were made, labels are      *)
(* numbers that were given out, the scopes of the builder (codegen.rs) are *)
(* nested as its stack is, and every pass of a round and the relayout make *)
(* a graph, and code, of what they are given (opt/*.rs).                   *)
(***************************************************************************)
THEOREM CompilerTypes == Spec => []TypeOK
BY Invariant, PTL DEF Inv

(***************************************************************************)
(* The register allocator is only ever started as the proof about it       *)
(* assumes: compute_intervals leaves an interval for each variable the     *)
(* code names, they are sorted by their starts and all waiting, the        *)
(* parameters are where they were passed and no other register is taken    *)
(* (linear_scan.rs, new and allocate).                                     *)
(***************************************************************************)
THEOREM ScanBeginsHolds == Spec => ScanBegins
<1>1. Inv /\ [Next]_vars => [stage = "sort" => ScanInit']_vars
  <2> SUFFICES ASSUME Inv, Next, stage = "sort" PROVE ScanInit'
    OBVIOUS
  <2>1. SortIntervals
    BY DEF Next, DeclareLocal, Assign, Evaluate, Break, If, While, Else, EndIf, EndWhile, Finish,
           Optimize, Relayout, ComputeIntervals, Allocate, Fits, MayOpen, InBody
  <2> QED BY <2>1, ScanIsReady
<1> QED BY <1>1, Invariant, PTL DEF Spec, ScanBegins

(***************************************************************************)
(* So for the intervals of any function that is compiled, two variables    *)
(* that share a register are never both needed: the intervals overlap at   *)
(* most where one is copied to the other.                                  *)
(***************************************************************************)
THEOREM NoClashCompiled == Spec => []NoClash
<1>1. Inv => NoClash
  <2>1. stage # "allocate" /\ Inv => DOMAIN mapping = {}
    BY DEF Inv, Scanned
  <2> QED BY <2>1 DEF Inv, Scanned, IInv, NoClash
<1> QED BY <1>1, Invariant, PTL

(* The parameters stay in the registers the caller passes them in.         *)
THEOREM ParamsKeptCompiled == Spec => []ParamsKept
<1>1. Inv => ParamsKept
  <2>1. stage # "allocate" /\ Inv => DOMAIN mapping = {}
    BY DEF Inv, Scanned
  <2> QED BY <2>1 DEF Inv, Scanned, IInv, Kept, ParamsKept, Placed
<1> QED BY <1>1, Invariant, PTL

(***************************************************************************)
(* A closure that captures a variable holds its register: once the         *)
(* variable is placed no other is given that register, however late the    *)
(* variable is last read (regalloc.rs: captured intervals have no end).    *)
(***************************************************************************)
CapturedKeepRegister ==
  stage = "allocate" =>
    \A v \in Placed \cap CapturedVars(cfg) : \A w \in Placed :
      v # w /\ mapping[v] = mapping[w] => Before(w, v)

(* In every state of a scan, captured variables keep their registers.      *)
THEOREM CapturedKeepRegisterHolds == Spec => []CapturedKeepRegister
<1>1. Inv => CapturedKeepRegister
  <2> SUFFICES ASSUME Inv, stage = "allocate", NEW v \in Placed, v \in CapturedVars(cfg),
                      NEW w \in Placed, v # w, mapping[v] = mapping[w]
               PROVE  Before(w, v)
    BY DEF CapturedKeepRegister
  <2>1. Spanned /\ IInv
    BY DEF Inv, Scanned
  <2>2. v \in DOMAIN span /\ w \in DOMAIN span
    BY <2>1 DEF IInv, Types
  <2>3. Before(v, w) \/ Before(w, v)
    BY <2>1 DEF IInv, NoClash, Placed
  <2>4. span[w].start < span[v].end
    BY <2>1, <2>2 DEF Spanned
  <2>5. span[w].start \in Nat /\ span[v].end \in Nat
    <3>1. span[v] \in [start : Nat, end : Nat] /\ span[w] \in [start : Nat, end : Nat]
      BY <2>1, <2>2 DEF Spanned
    <3> QED BY <3>1
  <2>6. ~Before(v, w)
    BY <2>4, <2>5 DEF Before
  <2> QED BY <2>3, <2>6
<1> QED BY <1>1, Invariant, PTL

(***************************************************************************)
(* And when the scan is over, every variable an instruction assigns or     *)
(* reads has a register: emission (codegen.rs) never looks one up in vain. *)
(***************************************************************************)
AllPlaced ==
  stage = "allocate" /\ queue = << >> =>
    \A i \in ToSet(code) : Defs(i) \cup Uses(i) \subseteq DOMAIN mapping

(* No instruction names a variable without a register once a scan is over. *)
THEOREM AllPlacedHolds == Spec => []AllPlaced
<1>1. Inv => AllPlaced
  <2> SUFFICES ASSUME Inv, stage = "allocate", queue = << >>
               PROVE  \A i \in ToSet(code) : Defs(i) \cup Uses(i) \subseteq DOMAIN mapping
    BY DEF AllPlaced
  <2>1. ToSet(queue) = {}
    BY DEF ToSet
  <2> QED BY <2>1 DEF Inv, Scanned, Spanned
<1> QED BY <1>1, Invariant, PTL


-----------------------------------------------------------------------------
(***************************************************************************)
(* Labels.  A loop or a branch is given two when it is opened; those not   *)
(* yet placed are pending, and are placed when it is closed.               *)
(***************************************************************************)
Pending(o) == IF o.kind = "then" THEN {o.first, o.second} ELSE {o.second}
AllPending(scopes) == UNION {Pending(scopes[k]) : k \in DOMAIN scopes}

(* Of labels up to l: P are placed and T jumped to.                        *)
Scoped(P, T, l, scopes) ==
  /\ P \subseteq 1..l
  /\ \A k \in DOMAIN scopes :
       /\ Pending(scopes[k]) \subseteq (1..l) \ P
       /\ scopes[k].kind = "then" => scopes[k].first # scopes[k].second
       /\ scopes[k].kind = "while" => scopes[k].first \in P
       /\ \A j \in DOMAIN scopes : j # k => Pending(scopes[j]) \cap Pending(scopes[k]) = {}
  /\ T \subseteq P \cup AllPending(scopes)

(* One is opened, with two new labels: Q are placed at once.               *)
LEMMA ScopedOpens ==
  ASSUME NEW S, NEW scopes \in Seq(S), NEW l \in Nat, NEW P, NEW T, Scoped(P, T, l, scopes),
         NEW new \in S, NEW Q, NEW U,
         Pending(new) \subseteq {l + 1, l + 2}, Q \subseteq {l + 1, l + 2} \ Pending(new),
         U \subseteq Q \cup Pending(new),
         new.kind = "then" => new.first # new.second,
         new.kind = "while" => new.first \in Q
  PROVE  Scoped(P \cup Q, T \cup U, l + 2, Append(scopes, new))
<1> DEFINE more == Append(scopes, new)
           L == Len(scopes)
           R == P \cup Q
<1>1. /\ L \in Nat /\ DOMAIN scopes = 1..L /\ DOMAIN more = 1..(L + 1) /\ more[L + 1] = new
      /\ \A j \in 1..L : more[j] = scopes[j] /\ j \in 1..(L + 1)
      /\ \A j \in 1..(L + 1) : j \in 1..L \/ j = L + 1
      /\ L + 1 \in 1..(L + 1)
  <2>1. L \in Nat /\ L + 1 \in 1..(L + 1)
    OBVIOUS
  <2> QED BY <2>1, AppendFields
<1> HIDE DEF more, L
<1>2. 1..l \subseteq 1..(l + 2) /\ {l + 1, l + 2} \subseteq 1..(l + 2) /\ (1..l) \cap {l + 1, l + 2} = {}
  OBVIOUS
<1>3. R \subseteq 1..(l + 2)
  BY <1>2 DEF Scoped
<1>4. ASSUME NEW k \in 1..L
      PROVE  /\ Pending(more[k]) \subseteq (1..(l + 2)) \ R /\ Pending(more[k]) \subseteq 1..l
             /\ more[k].kind = "then" => more[k].first # more[k].second
             /\ more[k].kind = "while" => more[k].first \in R
             /\ \A j \in 1..L : j # k => Pending(more[j]) \cap Pending(more[k]) = {}
  <2>1. /\ Pending(scopes[k]) \subseteq (1..l) \ P
        /\ scopes[k].kind = "then" => scopes[k].first # scopes[k].second
        /\ scopes[k].kind = "while" => scopes[k].first \in P
        /\ \A j \in 1..L : j # k => Pending(scopes[j]) \cap Pending(scopes[k]) = {}
    BY <1>1 DEF Scoped
  <2> QED BY <1>1, <1>2, <2>1
<1>5. /\ Pending(new) \subseteq (1..(l + 2)) \ R
      /\ \A k \in 1..L : Pending(more[k]) \cap Pending(new) = {}
  BY <1>2, <1>4 DEF Scoped
<1>6. AllPending(more) = AllPending(scopes) \cup Pending(new)
  BY <1>1 DEF AllPending
<1>7. T \cup U \subseteq R \cup AllPending(more)
  BY <1>6 DEF Scoped
<1>8. ASSUME NEW k \in DOMAIN more
      PROVE  /\ Pending(more[k]) \subseteq (1..(l + 2)) \ R
             /\ more[k].kind = "then" => more[k].first # more[k].second
             /\ more[k].kind = "while" => more[k].first \in R
             /\ \A j \in DOMAIN more : j # k => Pending(more[j]) \cap Pending(more[k]) = {}
  <2>1. CASE k \in 1..L
    BY <1>1, <1>4, <1>5, <2>1
  <2>2. CASE k = L + 1
    BY <1>1, <1>5, <2>2
  <2> QED BY <1>1, <2>1, <2>2
<1> HIDE DEF R
<1>9. Scoped(R, T \cup U, l + 2, more)
  BY <1>3, <1>7, <1>8 DEF Scoped
<1> QED BY <1>9 DEF R, more

(* The innermost is closed, and its labels are placed.                     *)
LEMMA ScopedCloses ==
  ASSUME NEW S, NEW scopes \in Seq(S), scopes # << >>, NEW l \in Nat, NEW P, NEW T,
         Scoped(P, T, l, scopes), NEW U, U \subseteq P \cup Pending(Last(scopes))
  PROVE  Scoped(P \cup Pending(Last(scopes)), T \cup U, l, Front(scopes))
<1> DEFINE less == Front(scopes)
           top == Len(scopes)
           o == Last(scopes)
           R == P \cup Pending(o)
<1>1. /\ top \in Nat /\ top # 0 /\ DOMAIN scopes = 1..top /\ DOMAIN less = 1..(top - 1)
      /\ o = scopes[top]
      /\ \A j \in 1..(top - 1) : less[j] = scopes[j]
  BY DEF Front, Last
<1> HIDE DEF less, top, o
<1>2. /\ \A j \in 1..(top - 1) : j \in 1..top /\ j # top
      /\ \A j \in 1..top : j \in 1..(top - 1) \/ j = top
      /\ top \in 1..top
  BY <1>1
<1>3. /\ Pending(o) \subseteq (1..l) \ P
      /\ \A j \in 1..(top - 1) : Pending(scopes[j]) \cap Pending(o) = {}
  BY <1>1, <1>2 DEF Scoped
<1>4. R \subseteq 1..l
  BY <1>3 DEF Scoped
<1>5. ASSUME NEW k \in DOMAIN less
      PROVE  /\ Pending(less[k]) \subseteq (1..l) \ R
             /\ less[k].kind = "then" => less[k].first # less[k].second
             /\ less[k].kind = "while" => less[k].first \in R
             /\ \A j \in DOMAIN less : j # k => Pending(less[j]) \cap Pending(less[k]) = {}
  <2>1. /\ Pending(scopes[k]) \subseteq (1..l) \ P
        /\ scopes[k].kind = "then" => scopes[k].first # scopes[k].second
        /\ scopes[k].kind = "while" => scopes[k].first \in P
        /\ \A j \in 1..top : j # k => Pending(scopes[j]) \cap Pending(scopes[k]) = {}
    BY <1>1, <1>2 DEF Scoped
  <2> QED BY <1>1, <1>2, <1>3, <2>1
<1>6. AllPending(scopes) = AllPending(less) \cup Pending(o)
  BY <1>1, <1>2 DEF AllPending
<1>7. T \cup U \subseteq R \cup AllPending(less)
  BY <1>6 DEF Scoped, o
<1> HIDE DEF R
<1>8. Scoped(R, T \cup U, l, less)
  BY <1>4, <1>5, <1>7 DEF Scoped
<1> QED BY <1>8 DEF R, less, o

(* Its other branch begins: one of its labels is placed.                   *)
LEMMA ScopedTurns ==
  ASSUME NEW S, NEW scopes \in Seq(S), scopes # << >>, NEW l \in Nat, NEW P, NEW T,
         Scoped(P, T, l, scopes), Last(scopes).kind = "then",
         NEW new, new.kind = "else", new.second = Last(scopes).second
  PROVE  Scoped(P \cup {Last(scopes).first}, T \cup {Last(scopes).second}, l,
                [scopes EXCEPT ![Len(scopes)] = new])
<1> DEFINE turned == [scopes EXCEPT ![Len(scopes)] = new]
           top == Len(scopes)
           o == Last(scopes)
           R == P \cup {o.first}
<1>1. /\ top \in Nat /\ top # 0 /\ DOMAIN scopes = 1..top /\ DOMAIN turned = 1..top
      /\ o = scopes[top] /\ turned[top] = new
      /\ \A j \in 1..top : j # top => turned[j] = scopes[j]
  BY DEF Last
<1> HIDE DEF turned, top
<1>2. top \in 1..top
  BY <1>1
<1>3. /\ Pending(o) = {o.first, o.second} /\ Pending(new) = {o.second}
  BY DEF Pending
<1> HIDE DEF o
<1>4. /\ {o.first, o.second} \subseteq (1..l) \ P /\ o.first # o.second
      /\ \A j \in 1..top : j # top => Pending(scopes[j]) \cap {o.first, o.second} = {}
  <2>1. o.kind = "then"
    BY DEF o
  <2> QED BY <1>1, <1>2, <1>3, <2>1 DEF Scoped
<1>5. R \subseteq 1..l
  BY <1>4 DEF Scoped
<1>6. ASSUME NEW k \in DOMAIN turned
      PROVE  /\ Pending(turned[k]) \subseteq (1..l) \ R
             /\ turned[k].kind = "then" => turned[k].first # turned[k].second
             /\ turned[k].kind = "while" => turned[k].first \in R
             /\ \A j \in DOMAIN turned : j # k => Pending(turned[j]) \cap Pending(turned[k]) = {}
  <2>1. CASE k = top
    BY <1>1, <1>3, <1>4, <2>1
  <2>2. CASE k # top
    <3>1. /\ Pending(scopes[k]) \subseteq (1..l) \ P
          /\ scopes[k].kind = "then" => scopes[k].first # scopes[k].second
          /\ scopes[k].kind = "while" => scopes[k].first \in P
          /\ \A j \in 1..top : j # k => Pending(scopes[j]) \cap Pending(scopes[k]) = {}
      BY <1>1 DEF Scoped
    <3> QED BY <1>1, <1>3, <1>4, <2>2, <3>1
  <2> QED BY <2>1, <2>2
<1>7. AllPending(scopes) \subseteq AllPending(turned) \cup {o.first} /\ o.second \in AllPending(turned)
  <2>1. ASSUME NEW x \in AllPending(scopes) PROVE x \in AllPending(turned) \cup {o.first}
    <3>1. PICK k \in 1..top : x \in Pending(scopes[k])
      BY <1>1, <2>1 DEF AllPending
    <3>2. CASE k = top
      BY <1>1, <1>3, <3>1, <3>2 DEF AllPending
    <3>3. CASE k # top
      BY <1>1, <3>1, <3>3 DEF AllPending
    <3> QED BY <3>2, <3>3
  <2>2. o.second \in AllPending(turned)
    BY <1>1, <1>2, <1>3 DEF AllPending
  <2> QED BY <2>1, <2>2
<1>8. T \cup {o.second} \subseteq R \cup AllPending(turned)
  BY <1>7 DEF Scoped
<1> HIDE DEF R
<1>9. Scoped(R, T \cup {o.second}, l, turned)
  BY <1>5, <1>6, <1>8 DEF Scoped
<1> QED BY <1>9 DEF R, turned, o

(* A label more, one not placed before.                                    *)
LEMMA LabelAdded ==
  ASSUME NEW S, NEW c \in Seq(S), NEW i \in S, NEW l, i.op = "label", i.to = l,
         PlacedOnce(c), l \notin PlacedIn(c)
  PROVE  /\ PlacedOnce(Append(c, i)) /\ PlacedIn(Append(c, i)) = PlacedIn(c) \cup {l}
         /\ TargetsIn(Append(c, i)) = TargetsIn(c)
<1>1. /\ PlacedIn(Append(c, i)) = PlacedIn(c) \cup (IF i.op = "label" THEN {i.to} ELSE {})
      /\ TargetsIn(Append(c, i)) = TargetsIn(c) \cup (IF i.op \in {"jump", "test"} THEN {i.to} ELSE {})
      /\ PlacedOnce(c) /\ (i.op = "label" => i.to \notin PlacedIn(c)) => PlacedOnce(Append(c, i))
  BY OneMoreInstruction
<1> QED BY <1>1

(* A jump or a test more.                                                  *)
LEMMA JumpAdded ==
  ASSUME NEW S, NEW c \in Seq(S), NEW i \in S, NEW l, i.op \in {"jump", "test"}, i.to = l,
         PlacedOnce(c)
  PROVE  /\ PlacedOnce(Append(c, i)) /\ PlacedIn(Append(c, i)) = PlacedIn(c)
         /\ TargetsIn(Append(c, i)) = TargetsIn(c) \cup {l}
<1>1. /\ PlacedIn(Append(c, i)) = PlacedIn(c) \cup (IF i.op = "label" THEN {i.to} ELSE {})
      /\ TargetsIn(Append(c, i)) = TargetsIn(c) \cup (IF i.op \in {"jump", "test"} THEN {i.to} ELSE {})
      /\ PlacedOnce(c) /\ (i.op = "label" => i.to \notin PlacedIn(c)) => PlacedOnce(Append(c, i))
  BY OneMoreInstruction
<1> QED BY <1>1

(* An instruction more that is no label and leads nowhere.                 *)
LEMMA OtherAdded ==
  ASSUME NEW S, NEW c \in Seq(S), NEW i \in S, i.op \notin {"label", "jump", "test"}, PlacedOnce(c)
  PROVE  /\ PlacedOnce(Append(c, i)) /\ PlacedIn(Append(c, i)) = PlacedIn(c)
         /\ TargetsIn(Append(c, i)) = TargetsIn(c)
<1>1. /\ PlacedIn(Append(c, i)) = PlacedIn(c) \cup (IF i.op = "label" THEN {i.to} ELSE {})
      /\ TargetsIn(Append(c, i)) = TargetsIn(c) \cup (IF i.op \in {"jump", "test"} THEN {i.to} ELSE {})
      /\ PlacedOnce(c) /\ (i.op = "label" => i.to \notin PlacedIn(c)) => PlacedOnce(Append(c, i))
  BY OneMoreInstruction
<1> QED BY <1>1

(* Code in two parts.                                                      *)
LEMMA SplitOnce ==
  ASSUME NEW S, NEW c \in Seq(S), NEW d \in Seq(S), PlacedOnce(c \o d)
  PROVE  PlacedOnce(c) /\ PlacedOnce(d) /\ PlacedIn(c) \cap PlacedIn(d) = {}
<1> DEFINE e == c \o d
           C == Len(c)
           D == Len(d)
<1>1. /\ C \in Nat /\ D \in Nat /\ DOMAIN c = 1..C /\ DOMAIN d = 1..D /\ DOMAIN e = 1..(C + D)
      /\ \A j \in 1..C : e[j] = c[j]
      /\ \A j \in 1..D : e[C + j] = d[j]
  OBVIOUS
<1> HIDE DEF e, C, D
<1>2. /\ \A j \in 1..C : j \in 1..(C + D)
      /\ \A j \in 1..D : C + j \in 1..(C + D) /\ C + j \notin 1..C
      /\ \A j, k \in 1..D : C + j = C + k => j = k
  BY <1>1
<1>3. PlacedOnce(e)
  BY DEF e
<1>4. PlacedOnce(c)
  BY <1>1, <1>2, <1>3 DEF PlacedOnce
<1>5. PlacedOnce(d)
  <2> SUFFICES ASSUME NEW j \in 1..D, NEW k \in 1..D, d[j].op = "label", d[k].op = "label",
                      d[j].to = d[k].to
               PROVE  j = k
    BY <1>1 DEF PlacedOnce
  <2>1. e[C + j] = d[j] /\ e[C + k] = d[k] /\ C + j \in DOMAIN e /\ C + k \in DOMAIN e
    BY <1>1, <1>2
  <2>2. C + j = C + k
    BY <1>3, <2>1 DEF PlacedOnce
  <2> QED BY <1>2, <2>2
<1>6. ASSUME NEW x \in PlacedIn(c), x \in PlacedIn(d) PROVE FALSE
  <2>1. PICK j \in 1..C : c[j].op = "label" /\ c[j].to = x
    BY <1>1 DEF PlacedIn, ToSet
  <2>2. PICK k \in 1..D : d[k].op = "label" /\ d[k].to = x
    BY <1>1, <1>6 DEF PlacedIn, ToSet
  <2>3. e[j] = c[j] /\ e[C + k] = d[k] /\ j \in DOMAIN e /\ C + k \in DOMAIN e /\ C + k # j
    BY <1>1, <1>2
  <2>4. j = C + k
    BY <1>3, <2>1, <2>2, <2>3 DEF PlacedOnce
  <2> QED BY <2>3, <2>4
<1> QED BY <1>4, <1>5, <1>6

(* Code that neither places a label nor jumps.                             *)
Quiet(c) == PlacedIn(c) = {} /\ TargetsIn(c) = {} /\ PlacedOnce(c)

(* Straight code is quiet.                                                 *)
LEMMA StraightQuiet ==
  ASSUME NEW n, NEW c \in Seq(Straight(n))
  PROVE  Quiet(c)
<1>1. ToSet(c) \subseteq Straight(n)
  BY DEF ToSet
<1>2. \A i \in Straight(n) : i.op \notin {"label", "jump", "test"}
  BY DEF Straight, Assigning, Operators
<1>3. \A i \in ToSet(c) : i.op \notin {"label", "jump", "test"}
  BY <1>1, <1>2
<1>4. PlacedIn(c) = {} /\ PlacedOnce(c)
  BY <1>3, NonePlaced
<1>5. TargetsIn(c) = {}
  BY <1>3 DEF TargetsIn
<1> QED BY <1>4, <1>5 DEF Quiet

(* Put behind other code, quiet code changes no label of it.               *)
LEMMA QuietAfter ==
  ASSUME NEW S, NEW c \in Seq(S), NEW d \in Seq(S), PlacedOnce(c), Quiet(d)
  PROVE  /\ PlacedOnce(c \o d) /\ PlacedIn(c \o d) = PlacedIn(c)
         /\ TargetsIn(c \o d) = TargetsIn(c)
<1>1. PlacedIn(c \o d) = PlacedIn(c) \cup PlacedIn(d) /\ TargetsIn(c \o d) = TargetsIn(c) \cup TargetsIn(d)
  BY JoinedMembers
<1>2. PlacedOnce(c \o d)
  BY JoinedOnce DEF Quiet
<1> QED BY <1>1, <1>2 DEF Quiet

(* Put in the middle of other code.                                        *)
LEMMA QuietBetween ==
  ASSUME NEW S, NEW c \in Seq(S), NEW m \in Seq(S), NEW d \in Seq(S), PlacedOnce(c \o d), Quiet(m)
  PROVE  /\ PlacedOnce(c \o m \o d) /\ PlacedIn(c \o m \o d) = PlacedIn(c \o d)
         /\ TargetsIn(c \o m \o d) = TargetsIn(c \o d)
<1> DEFINE first == c \o m
<1>1. PlacedOnce(c) /\ PlacedOnce(d) /\ PlacedIn(c) \cap PlacedIn(d) = {}
  BY SplitOnce
<1>2. /\ PlacedOnce(first) /\ PlacedIn(first) = PlacedIn(c) /\ TargetsIn(first) = TargetsIn(c)
      /\ first \in Seq(S)
  <2>1. first \in Seq(S)
    OBVIOUS
  <2> QED BY <1>1, <2>1, QuietAfter
<1> HIDE DEF first
<1>3. /\ PlacedIn(first \o d) = PlacedIn(first) \cup PlacedIn(d)
      /\ TargetsIn(first \o d) = TargetsIn(first) \cup TargetsIn(d)
  BY <1>2, JoinedMembers
<1>4. PlacedOnce(first \o d)
  BY <1>1, <1>2, JoinedOnce
<1>5. PlacedIn(c \o d) = PlacedIn(c) \cup PlacedIn(d) /\ TargetsIn(c \o d) = TargetsIn(c) \cup TargetsIn(d)
  BY JoinedMembers
<1> QED BY <1>2, <1>3, <1>4, <1>5 DEF first

-----------------------------------------------------------------------------
(* While a function is built, its scopes account for its labels.           *)
LabelsBuilt ==
  stage = "build" => PlacedOnce(code) /\ Scoped(PlacedIn(code), TargetsIn(code), label, open)

(* What a statement adds neither places labels nor opens anything.         *)
LEMMA QuietKeepsLabels ==
  ASSUME LabelsBuilt, stage = "build", NEW S, code \in Seq(S), NEW c \in Seq(S), Quiet(c),
         code' = code \o c, UNCHANGED <<label, open>>
  PROVE  LabelsBuilt'
<1>1. /\ PlacedOnce(code \o c) /\ PlacedIn(code \o c) = PlacedIn(code)
      /\ TargetsIn(code \o c) = TargetsIn(code)
  BY QuietAfter DEF LabelsBuilt
<1> QED BY <1>1 DEF LabelsBuilt

(* local l = e: straight code, nothing opened.                             *)
LEMMA DeclareLocalLabels ==
  ASSUME Inv, LabelsBuilt, NEW s \in Statements, DeclareLocal(s)
  PROVE  LabelsBuilt'
<1> DEFINE c == ExprCode(s.expr, next, next + 1)
<1>1. /\ stage = "build" /\ next' = next + Fresh(s.expr) /\ InScope(s.expr)
      /\ code' = code \o c /\ UNCHANGED <<label, open>>
  BY DEF DeclareLocal, Fits, IsStatement, Emit
<1>2. /\ c \in Seq(Straight(next' - 1)) /\ c \in Seq(Instructions(next' - 1))
      /\ code \in Seq(Instructions(next' - 1))
  BY <1>1, StatementCode DEF Inv
<1> HIDE DEF c
<1>3. Quiet(c)
  BY <1>2, StraightQuiet
<1> QED BY <1>1, <1>2, <1>3, QuietKeepsLabels

(* An expression as a statement: straight code, nothing opened.            *)
LEMMA EvaluateLabels ==
  ASSUME Inv, LabelsBuilt, NEW s \in Statements, Evaluate(s)
  PROVE  LabelsBuilt'
<1> DEFINE c == ExprCode(s.expr, next, next + 1)
<1>1. /\ stage = "build" /\ next' = next + Fresh(s.expr) /\ InScope(s.expr)
      /\ code' = code \o c /\ UNCHANGED <<label, open>>
  BY DEF Evaluate, Fits, IsStatement, Emit
<1>2. /\ c \in Seq(Straight(next' - 1)) /\ c \in Seq(Instructions(next' - 1))
      /\ code \in Seq(Instructions(next' - 1))
  BY <1>1, StatementCode DEF Inv
<1> HIDE DEF c
<1>3. Quiet(c)
  BY <1>2, StraightQuiet
<1> QED BY <1>1, <1>2, <1>3, QuietKeepsLabels

(* l = e: straight code and a copy, nothing opened.                        *)
LEMMA AssignLabels ==
  ASSUME Inv, LabelsBuilt, NEW s \in Statements, Assign(s)
  PROVE  LabelsBuilt'
<1> DEFINE c == ExprCode(s.expr, next, next + 1)
           move == Move(Local(s.to), next)
           V == 1..(next' - 1)
<1>1. /\ stage = "build" /\ next' = next + Fresh(s.expr) /\ InScope(s.expr)
      /\ s.kind = "assign" /\ s.to <= Len(locals)
      /\ code' = code \o (c \o <<move>>) /\ UNCHANGED <<label, open>>
  BY DEF Assign, Fits, IsStatement, Emit
<1>2. /\ next' - 1 \in Nat /\ next \in V /\ locals \in Seq(V)
      /\ c \in Seq(Straight(next' - 1)) /\ code \in Seq(Instructions(next' - 1))
  BY <1>1, StatementCode DEF Inv
<1>3. s.to \in Nat \ {0}
  BY <1>1, StatementsAssumption DEF None
<1>4. move \in Straight(next' - 1)
  <2>1. Local(s.to) \in V
    BY <1>1, <1>2, <1>3, LocalType
  <2>2. next' - 1 \in Nat /\ Local(s.to) \in 1..(next' - 1) /\ next \in 1..(next' - 1)
    BY <1>2, <2>1
  <2> QED BY <2>2, NewStraight
<1> HIDE DEF c, move
<1>5. c \o <<move>> \in Seq(Straight(next' - 1))
  <2> DEFINE I == Straight(next' - 1)
  <2>1. c \in Seq(I) /\ move \in I
    BY <1>2, <1>4
  <2> HIDE DEF I
  <2>2. c \o <<move>> \in Seq(I)
    BY <2>1
  <2> QED BY <2>2 DEF I
<1>6. Quiet(c \o <<move>>)
  BY <1>5, StraightQuiet
<1>7. c \o <<move>> \in Seq(Instructions(next' - 1))
  <2>1. Straight(next' - 1) \subseteq Instructions(next' - 1)
    BY DEF Straight
  <2> QED BY <1>5, <2>1, SeqGrows
<1> DEFINE d == c \o <<move>>
<1>8. code' = code \o d /\ d \in Seq(Instructions(next' - 1)) /\ Quiet(d)
  BY <1>1, <1>6, <1>7
<1> HIDE DEF d
<1> QED BY <1>1, <1>2, <1>8, QuietKeepsLabels

(* break jumps to the second label of the loop it is in, which is pending. *)
LEMMA BreakLabels ==
  ASSUME Inv, LabelsBuilt, NEW s \in Statements, Break(s)
  PROVE  LabelsBuilt'
<1> DEFINE I == Instructions(next - 1)
           whiles == {o \in ToSet(open) : o.kind = "while"}
           loops == Only(open, whiles)
           jump == Jump(Last(loops).second)
<1>1. /\ stage = "build" /\ loops # << >> /\ code' = code \o <<jump>> /\ UNCHANGED <<label, open>>
  BY DEF Break, Fits, IsStatement, Emit
<1>2. PICK k \in DOMAIN open : open[k].kind = "while" /\ Last(loops) = open[k]
  <2>1. loops \in Seq(Scopes \cap whiles)
    BY OnlyType DEF Inv, TypeOK
  <2> HIDE DEF loops, whiles
  <2>2. Len(loops) \in 1..Len(loops) /\ Last(loops) = loops[Len(loops)]
    BY <1>1, <2>1 DEF Last
  <2>3. Last(loops) \in whiles
    BY <2>1, <2>2
  <2> QED BY <2>3 DEF whiles, ToSet
<1>3. Last(loops).second \in AllPending(open) /\ Last(loops).second \in Int
  <2>1. open[k] \in Scopes
    BY DEF Inv, TypeOK
  <2>2. open[k].second \in Int
    BY <2>1 DEF Scopes
  <2>3. Last(loops).second \in Pending(open[k])
    BY <1>2 DEF Pending
  <2> HIDE DEF loops
  <2> QED BY <1>2, <2>2, <2>3 DEF AllPending
<1>4. /\ next - 1 \in Nat /\ code \in Seq(I)
  BY CompilerAssumption DEF Inv, TypeOK
<1>5. jump \in I /\ jump.op = "jump" /\ jump.to = Last(loops).second
  BY <1>3, <1>4, NewInstructions DEF Jump, Inst
<1> HIDE DEF I, jump, loops
<1>6. code' = Append(code, jump)
  BY <1>1, <1>4, <1>5
<1>7. PlacedOnce(code) /\ Scoped(PlacedIn(code), TargetsIn(code), label, open)
  BY <1>1 DEF LabelsBuilt
<1>8. /\ PlacedOnce(code') /\ PlacedIn(code') = PlacedIn(code)
      /\ TargetsIn(code') = TargetsIn(code) \cup {jump.to}
  BY <1>4, <1>5, <1>6, <1>7, JumpAdded
<1>9. Scoped(PlacedIn(code), TargetsIn(code) \cup {jump.to}, label, open)
  BY <1>3, <1>5, <1>7 DEF Scoped
<1> QED BY <1>1, <1>8, <1>9 DEF LabelsBuilt

(* if takes two labels and tests to the first.                             *)
LEMMA IfLabels == ASSUME Inv, LabelsBuilt, If PROVE LabelsBuilt'
<1> DEFINE I == Instructions(next)
           move == Move(next, Local(1))
           test == JumpIfFalse(next, label + 1)
           new == [kind |-> "then", first |-> label + 1, second |-> label + 2, at |-> 0,
                   firstVar |-> 0, locals |-> Len(locals), made |-> made]
<1>1. /\ stage = "build" /\ locals # << >> /\ next' = next + 1 /\ label' = label + 2
      /\ code' = code \o <<move, test>> /\ open' = Append(open, new)
  BY DEF If, MayOpen, Emit, Opened
<1>2. /\ next \in Nat /\ next \in 1..next /\ Local(1) \in 1..next /\ code \in Seq(I)
  BY <1>1, NextVariable DEF Inv
<1>3. label \in Nat /\ open \in Seq(Scopes) /\ made \in Nat /\ Len(locals) \in Nat
  BY DEF Inv, TypeOK
<1>4. label + 1 \in Int /\ label + 2 \in Int /\ label + 1 # label + 2
  BY <1>3
<1>5. /\ move \in I /\ test \in I
      /\ move.op = "move" /\ test.op = "test" /\ test.to = label + 1
  BY <1>2, <1>4, NewInstructions DEF Move, JumpIfFalse, Inst
<1>6. new \in Scopes /\ Pending(new) = {label + 1, label + 2} /\ new.kind = "then"
      /\ new.first = label + 1 /\ new.second = label + 2
  BY <1>3, <1>4 DEF Scopes, Pending
<1> HIDE DEF I, move, test, new
<1>7. PlacedOnce(code) /\ Scoped(PlacedIn(code), TargetsIn(code), label, open)
  BY <1>1 DEF LabelsBuilt
<1> DEFINE c1 == Append(code, move)
<1>8. c1 \in Seq(I) /\ code' = Append(c1, test)
  BY <1>1, <1>2, <1>5
<1>9. PlacedOnce(c1) /\ PlacedIn(c1) = PlacedIn(code) /\ TargetsIn(c1) = TargetsIn(code)
  BY <1>2, <1>5, <1>7, OtherAdded
<1> HIDE DEF c1
<1>10. /\ PlacedOnce(code') /\ PlacedIn(code') = PlacedIn(code)
       /\ TargetsIn(code') = TargetsIn(code) \cup {label + 1}
  BY <1>5, <1>8, <1>9, JumpAdded
<1>11. Scoped(PlacedIn(code) \cup {}, TargetsIn(code) \cup {label + 1}, label + 2, Append(open, new))
  <2>1. /\ Pending(new) \subseteq {label + 1, label + 2} /\ {} \subseteq {label + 1, label + 2} \ Pending(new)
        /\ {label + 1} \subseteq {} \cup Pending(new)
        /\ new.kind = "then" => new.first # new.second
        /\ new.kind = "while" => new.first \in {}
    BY <1>4, <1>6
  <2> QED BY <1>3, <1>6, <1>7, <2>1, ScopedOpens
<1> QED BY <1>1, <1>10, <1>11 DEF LabelsBuilt

(* while takes two labels, places the first and tests to the second.       *)
LEMMA WhileLabels == ASSUME Inv, LabelsBuilt, While PROVE LabelsBuilt'
<1> DEFINE I == Instructions(next)
           mark == Label(label + 1)
           move == Move(next, Local(1))
           test == JumpIfFalse(next, label + 2)
           new == [kind |-> "while", first |-> label + 1, second |-> label + 2, at |-> Len(code) + 2,
                   firstVar |-> next, locals |-> Len(locals), made |-> made]
<1>1. /\ stage = "build" /\ locals # << >> /\ next' = next + 1 /\ label' = label + 2
      /\ code' = code \o <<mark, move, test>> /\ open' = Append(open, new)
  BY DEF While, MayOpen, Emit, Opened
<1>2. /\ next \in Nat /\ next \in 1..next /\ Local(1) \in 1..next /\ code \in Seq(I)
      /\ Len(code) + 2 \in Nat
  <2>1. /\ next \in Nat /\ next \in 1..next /\ Local(1) \in 1..next /\ code \in Seq(I)
        /\ Len(code) \in Nat
    BY <1>1, NextVariable DEF Inv
  <2> QED BY <2>1
<1>3. label \in Nat /\ open \in Seq(Scopes) /\ made \in Nat /\ Len(locals) \in Nat
  BY DEF Inv, TypeOK
<1>4. label + 1 \in Int /\ label + 2 \in Int /\ label + 1 # label + 2 /\ label + 1 \notin 1..label
  BY <1>3
<1>5. /\ mark \in I /\ move \in I /\ test \in I
      /\ mark.op = "label" /\ mark.to = label + 1
      /\ move.op = "move" /\ test.op = "test" /\ test.to = label + 2
  BY <1>2, <1>4, NewInstructions DEF Label, Move, JumpIfFalse, Inst
<1>6. new \in Scopes /\ Pending(new) = {label + 2} /\ new.kind = "while" /\ new.first = label + 1
  BY <1>2, <1>3, <1>4 DEF Scopes, Pending
<1> HIDE DEF I, mark, move, test, new
<1>7. PlacedOnce(code) /\ Scoped(PlacedIn(code), TargetsIn(code), label, open)
  BY <1>1 DEF LabelsBuilt
<1> DEFINE c1 == Append(code, mark)
           c2 == Append(c1, move)
<1>8. c1 \in Seq(I) /\ c2 \in Seq(I) /\ code' = Append(c2, test)
  BY <1>1, <1>2, <1>5
<1>9. /\ PlacedOnce(c1) /\ PlacedIn(c1) = PlacedIn(code) \cup {label + 1}
      /\ TargetsIn(c1) = TargetsIn(code)
  <2>1. mark.to \notin PlacedIn(code)
    BY <1>4, <1>5, <1>7 DEF Scoped
  <2> QED BY <1>2, <1>5, <1>7, <2>1, LabelAdded
<1> HIDE DEF c1
<1>10. PlacedOnce(c2) /\ PlacedIn(c2) = PlacedIn(c1) /\ TargetsIn(c2) = TargetsIn(c1)
  BY <1>5, <1>8, <1>9, OtherAdded
<1> HIDE DEF c2
<1>11. /\ PlacedOnce(code') /\ PlacedIn(code') = PlacedIn(c2)
       /\ TargetsIn(code') = TargetsIn(c2) \cup {label + 2}
  BY <1>5, <1>8, <1>10, JumpAdded
<1>12. Scoped(PlacedIn(code) \cup {label + 1}, TargetsIn(code) \cup {label + 2}, label + 2, Append(open, new))
  <2>1. /\ Pending(new) \subseteq {label + 1, label + 2}
        /\ {label + 1} \subseteq {label + 1, label + 2} \ Pending(new)
        /\ {label + 2} \subseteq {label + 1} \cup Pending(new)
        /\ new.kind = "then" => new.first # new.second
        /\ new.kind = "while" => new.first \in {label + 1}
    BY <1>4, <1>6
  <2> QED BY <1>3, <1>6, <1>7, <2>1, ScopedOpens
<1> QED BY <1>1, <1>9, <1>10, <1>11, <1>12 DEF LabelsBuilt

(* else jumps to the second label of its if and places the first.          *)
LEMMA ElseLabels == ASSUME Inv, LabelsBuilt, Else PROVE LabelsBuilt'
<1> DEFINE I == Instructions(next - 1)
           top == Len(open)
           o == Last(open)
           jump == Jump(o.second)
           mark == Label(o.first)
<1>1. /\ stage = "build" /\ open # << >> /\ o.kind = "then" /\ code' = code \o <<jump, mark>>
      /\ open' = [open EXCEPT ![top].kind = "else", ![top].made = made]
      /\ UNCHANGED label
  BY DEF Else, InBody, Emit
<1>2. o.first \in Int /\ o.second \in Int /\ o \in Scopes /\ top \in DOMAIN open /\ o = open[top]
  BY <1>1, LastScope DEF Inv
<1>3. next - 1 \in Nat /\ code \in Seq(I) /\ label \in Nat /\ open \in Seq(Scopes) /\ made \in Nat
  BY CompilerAssumption DEF Inv, TypeOK
<1>4. /\ jump \in I /\ mark \in I /\ jump.op = "jump" /\ jump.to = o.second
      /\ mark.op = "label" /\ mark.to = o.first
  BY <1>2, <1>3, NewInstructions DEF Jump, Label, Inst
<1> DEFINE new == [o EXCEPT !.kind = "else", !.made = made]
<1>5. new.kind = "else" /\ new.second = o.second
  BY <1>2 DEF Scopes
<1>6. open' = [open EXCEPT ![top] = new]
  BY <1>1, <1>2
<1> HIDE DEF I, jump, mark, new
<1>7. PlacedOnce(code) /\ Scoped(PlacedIn(code), TargetsIn(code), label, open)
  BY <1>1 DEF LabelsBuilt
<1>8. o.first \notin PlacedIn(code)
  BY <1>1, <1>2, <1>7 DEF Scoped, Pending
<1>9. Scoped(PlacedIn(code) \cup {o.first}, TargetsIn(code) \cup {o.second}, label, open')
  <2>1. Scoped(PlacedIn(code) \cup {Last(open).first}, TargetsIn(code) \cup {Last(open).second}, label,
               [open EXCEPT ![Len(open)] = new])
    BY <1>1, <1>3, <1>5, <1>7, ScopedTurns
  <2> QED BY <1>6, <2>1
<1> HIDE DEF o
<1> DEFINE c1 == Append(code, jump)
<1>10. c1 \in Seq(I) /\ code' = Append(c1, mark)
  BY <1>1, <1>3, <1>4
<1>11. /\ PlacedOnce(c1) /\ PlacedIn(c1) = PlacedIn(code)
       /\ TargetsIn(c1) = TargetsIn(code) \cup {o.second}
  BY <1>3, <1>4, <1>7, JumpAdded
<1> HIDE DEF c1
<1>12. /\ PlacedOnce(code') /\ PlacedIn(code') = PlacedIn(c1) \cup {o.first}
       /\ TargetsIn(code') = TargetsIn(c1)
  BY <1>4, <1>8, <1>10, <1>11, LabelAdded
<1> QED BY <1>1, <1>9, <1>11, <1>12 DEF LabelsBuilt

(* The end of an if places the labels it has pending.                      *)
LEMMA EndIfLabels == ASSUME Inv, LabelsBuilt, EndIf PROVE LabelsBuilt'
<1> DEFINE I == Instructions(next - 1)
           o == Last(open)
           jump == Jump(o.second)
           first == Label(o.first)
           second == Label(o.second)
           P == PlacedIn(code)
           T == TargetsIn(code)
<1>1. /\ stage = "build" /\ open # << >> /\ open' = Front(open) /\ UNCHANGED label
      /\ \/ o.kind = "then" /\ code' = code \o <<jump, first, second>>
         \/ o.kind = "else" /\ code' = code \o <<second>>
  BY DEF EndIf, InBody, Emit, Closed
<1>2. o.first \in Int /\ o.second \in Int /\ Len(open) \in DOMAIN open /\ o = open[Len(open)]
  BY <1>1, LastScope DEF Inv
<1>3. next - 1 \in Nat /\ code \in Seq(I) /\ label \in Nat /\ open \in Seq(Scopes)
  BY CompilerAssumption DEF Inv, TypeOK
<1>4. /\ jump \in I /\ first \in I /\ second \in I /\ jump.op = "jump" /\ jump.to = o.second
      /\ first.op = "label" /\ first.to = o.first /\ second.op = "label" /\ second.to = o.second
  BY <1>2, <1>3, NewInstructions DEF Jump, Label, Inst
<1> HIDE DEF I, jump, first, second
<1>5. PlacedOnce(code) /\ Scoped(P, T, label, open)
  BY <1>1 DEF LabelsBuilt
<1>6. Pending(o) \cap P = {} /\ (o.kind = "then" => o.first # o.second)
  BY <1>2, <1>5 DEF Scoped
<1>7. \A U : U \subseteq P \cup Pending(o) => Scoped(P \cup Pending(o), T \cup U, label, Front(open))
  <2> HIDE DEF P, T
  <2> QED BY <1>1, <1>3, <1>5, ScopedCloses
<1>8. CASE o.kind = "then" /\ code' = code \o <<jump, first, second>>
  <2> DEFINE c1 == Append(code, jump)
             c2 == Append(c1, first)
  <2>1. c1 \in Seq(I) /\ c2 \in Seq(I) /\ code' = Append(c2, second)
    BY <1>3, <1>4, <1>8
  <2>2. Pending(o) = {o.first, o.second} /\ o.first \notin P /\ o.second \notin P /\ o.first # o.second
    BY <1>6, <1>8 DEF Pending
  <2> HIDE DEF o
  <2>3. PlacedOnce(c1) /\ PlacedIn(c1) = P /\ TargetsIn(c1) = T \cup {o.second}
    BY <1>3, <1>4, <1>5, JumpAdded
  <2> HIDE DEF c1, P, T
  <2>4. PlacedOnce(c2) /\ PlacedIn(c2) = P \cup {o.first} /\ TargetsIn(c2) = T \cup {o.second}
    <3>1. /\ PlacedOnce(c2) /\ PlacedIn(c2) = PlacedIn(c1) \cup {o.first}
          /\ TargetsIn(c2) = TargetsIn(c1)
      BY <1>4, <2>1, <2>2, <2>3, LabelAdded
    <3> QED BY <2>3, <3>1
  <2> HIDE DEF c2
  <2>5. o.second \notin PlacedIn(c2)
    BY <2>2, <2>4
  <2>6. /\ PlacedOnce(code') /\ PlacedIn(code') = PlacedIn(c2) \cup {o.second}
        /\ TargetsIn(code') = TargetsIn(c2)
    BY <1>4, <2>1, <2>4, <2>5, LabelAdded
  <2>7. PlacedIn(code') = P \cup Pending(o) /\ TargetsIn(code') = T \cup {o.second}
    BY <2>2, <2>4, <2>6
  <2>8. Scoped(P \cup Pending(o), T \cup {o.second}, label, Front(open))
    BY <1>7, <2>2
  <2> QED BY <1>1, <2>6, <2>7, <2>8 DEF LabelsBuilt
<1>9. CASE o.kind = "else" /\ code' = code \o <<second>>
  <2>1. code' = Append(code, second)
    BY <1>3, <1>4, <1>9
  <2>2. Pending(o) = {o.second} /\ o.second \notin P
    BY <1>6, <1>9 DEF Pending
  <2> HIDE DEF o
  <2>3. PlacedOnce(code') /\ PlacedIn(code') = P \cup {o.second} /\ TargetsIn(code') = T
    BY <1>3, <1>4, <1>5, <2>1, <2>2, LabelAdded
  <2> HIDE DEF P, T
  <2>4. Scoped(P \cup Pending(o), T \cup {}, label, Front(open))
    BY <1>7
  <2> QED BY <1>1, <2>2, <2>3, <2>4 DEF LabelsBuilt
<1> QED BY <1>1, <1>8, <1>9

(* The end of a while jumps to its first label and places its second.      *)
LEMMA EndWhileLabels == ASSUME Inv, LabelsBuilt, EndWhile PROVE LabelsBuilt'
<1> DEFINE I == Instructions(next - 1)
           o == Last(open)
           before == SubSeq(code, 1, o.at - 1)
           body == SubSeq(code, o.at, Len(code))
           close == LoopClose(o.at, o.firstVar)
           jump == Jump(o.first)
           mark == Label(o.second)
           P == PlacedIn(code)
           T == TargetsIn(code)
<1>1. /\ stage = "build" /\ open # << >> /\ o.kind = "while" /\ open' = Front(open)
      /\ code' = before \o close \o body \o <<jump, mark>> /\ UNCHANGED label
  BY DEF EndWhile, InBody, Closed
<1>2. /\ o.first \in Int /\ o.second \in Int /\ o.at \in 1..Len(code)
      /\ Len(open) \in DOMAIN open /\ o = open[Len(open)]
  BY <1>1, LastScope DEF Inv
<1>3. next - 1 \in Nat /\ code \in Seq(I) /\ label \in Nat /\ open \in Seq(Scopes)
  BY CompilerAssumption DEF Inv, TypeOK
<1>4. /\ jump \in I /\ mark \in I /\ jump.op = "jump" /\ jump.to = o.first
      /\ mark.op = "label" /\ mark.to = o.second
  BY <1>2, <1>3, NewInstructions DEF Jump, Label, Inst
<1>5. close \in Seq(I)
  BY <1>2, <1>3, LoopCloseType
<1>6. Quiet(close)
  <2>1. close = << >> \/ \E vs : close = <<CloseUpvals(vs)>>
    BY DEF LoopClose
  <2>2. \A vs : CloseUpvals(vs).op = "close"
    BY DEF CloseUpvals, Inst
  <2> HIDE DEF close
  <2>3. \A i \in ToSet(close) : i.op = "close"
    BY <2>1, <2>2 DEF ToSet
  <2>4. PlacedIn(close) = {} /\ PlacedOnce(close)
    BY <2>3, NonePlaced
  <2>5. TargetsIn(close) = {}
    BY <2>3 DEF TargetsIn
  <2> QED BY <2>4, <2>5 DEF Quiet
<1>7. before \in Seq(I) /\ body \in Seq(I) /\ before \o body = code
  <2> DEFINE at == o.at
  <2> HIDE DEF at, I
  <2>1. at \in 1..Len(code)
    BY <1>2 DEF at
  <2>2. /\ SubSeq(code, 1, at - 1) \in Seq(I) /\ SubSeq(code, at, Len(code)) \in Seq(I)
        /\ SubSeq(code, 1, at - 1) \o SubSeq(code, at, Len(code)) = code
    BY <1>3, <2>1
  <2> QED BY <2>2 DEF at
<1> HIDE DEF I, jump, mark, close, before, body
<1>8. PlacedOnce(code) /\ Scoped(P, T, label, open)
  BY <1>1 DEF LabelsBuilt
<1>9. o.second \notin P /\ o.first \in P /\ Pending(o) = {o.second}
  BY <1>1, <1>2, <1>8 DEF Scoped, Pending
<1>10. Scoped(P \cup Pending(o), T \cup {o.first}, label, Front(open))
  <2> HIDE DEF P, T
  <2> QED BY <1>1, <1>3, <1>8, <1>9, ScopedCloses
<1> HIDE DEF o
<1> DEFINE c1 == before \o close \o body
           c2 == Append(c1, jump)
<1>11. PlacedOnce(c1) /\ PlacedIn(c1) = P /\ TargetsIn(c1) = T
  BY <1>5, <1>6, <1>7, <1>8, QuietBetween
<1>12. c1 \in Seq(I) /\ c2 \in Seq(I) /\ code' = Append(c2, mark)
  <2>1. c1 \in Seq(I) /\ code' = c1 \o <<jump, mark>>
    BY <1>1, <1>5, <1>7
  <2> HIDE DEF c1
  <2> QED BY <1>4, <2>1
<1> HIDE DEF c1, P, T
<1>13. PlacedOnce(c2) /\ PlacedIn(c2) = P /\ TargetsIn(c2) = T \cup {o.first}
  <2>1. PlacedOnce(c2) /\ PlacedIn(c2) = PlacedIn(c1) /\ TargetsIn(c2) = TargetsIn(c1) \cup {o.first}
    BY <1>4, <1>11, <1>12, JumpAdded
  <2> QED BY <1>11, <2>1
<1> HIDE DEF c2
<1>14. /\ PlacedOnce(code') /\ PlacedIn(code') = PlacedIn(c2) \cup {o.second}
       /\ TargetsIn(code') = TargetsIn(c2)
  BY <1>4, <1>9, <1>12, <1>13, LabelAdded
<1> QED BY <1>1, <1>9, <1>10, <1>13, <1>14 DEF LabelsBuilt

(* A finished function has no scope left open, and so no label is pending. *)
LEMMA FinishLabels ==
  ASSUME Inv, LabelsBuilt, Finish
  PROVE  VerifyCfg(cfg') /\ Sound(cfg')
<1> DEFINE I == Instructions(next)
           move == Move(next, Local(1))
           return == Return(<<next>>)
           c1 == Append(code, move)
           whole == Append(c1, return)
<1>1. /\ stage = "build" /\ open = << >> /\ locals # << >> /\ next' = next + 1
      /\ cfg' = BuildCfg(code \o <<move, return>>)
  BY DEF Finish
<1>2. /\ next \in Nat /\ next \in 1..next /\ Local(1) \in 1..next /\ code \in Seq(I)
  BY <1>1, NextVariable DEF Inv
<1>3. move \in I /\ return \in I /\ move.op = "move" /\ return.op = "return"
  <2>1. <<next>> \in Seq(1..next)
    BY <1>2
  <2> QED BY <1>2, <2>1, NewInstructions DEF Move, Return, Inst
<1>4. PlacedOnce(code) /\ TargetsIn(code) \subseteq PlacedIn(code)
  <2>1. AllPending(open) = {}
    BY <1>1 DEF AllPending
  <2> QED BY <1>1, <2>1 DEF LabelsBuilt, Scoped
<1> HIDE DEF I, move, return
<1>5. c1 \in Seq(I) /\ whole \in Seq(I) /\ code \o <<move, return>> = whole
  BY <1>2, <1>3
<1>6. PlacedOnce(c1) /\ PlacedIn(c1) = PlacedIn(code) /\ TargetsIn(c1) = TargetsIn(code)
  BY <1>2, <1>3, <1>4, OtherAdded
<1> HIDE DEF c1
<1>7. PlacedOnce(whole) /\ PlacedIn(whole) = PlacedIn(c1) /\ TargetsIn(whole) = TargetsIn(c1)
  BY <1>3, <1>5, <1>6, OtherAdded
<1> HIDE DEF whole
<1>8. WellLabelled(whole)
  BY <1>4, <1>6, <1>7 DEF WellLabelled
<1>9. VerifyCfg(BuildCfg(whole))
  BY <1>2, <1>5, <1>8, BuildCfgVerified DEF I
<1>10. Sound(BuildCfg(whole))
  BY <1>2, <1>5, <1>8, BuildCfgSound DEF I
<1> QED BY <1>1, <1>5, <1>9, <1>10

(* The graph build_cfg makes of a function, before the first pass.         *)
BuiltVerified == stage = "optimize" /\ round = 0 => VerifyCfg(cfg)

(* What is built again is what the optimized graph was laid out as.        *)
LaidOutAgain == stage = "layout" => code = Flatten(cfg)

(* The inductive invariant about labels.                                   *)
LabelInv == Inv /\ LabelsBuilt /\ BuiltVerified /\ LaidOutAgain

(* There are no labels to start with.                                      *)
LEMMA LabelsStart == Init => LabelInv
<1> SUFFICES ASSUME Init PROVE LabelInv
  OBVIOUS
<1>1. stage = "build" /\ code = << >> /\ open = << >>
  BY DEF Init
<1>2. PlacedIn(code) = {} /\ TargetsIn(code) = {} /\ PlacedOnce(code)
  BY <1>1 DEF PlacedIn, TargetsIn, PlacedOnce, ToSet
<1>3. LabelsBuilt
  BY <1>1, <1>2 DEF LabelsBuilt, Scoped
<1> QED BY <1>1, <1>3, Starts DEF LabelInv, BuiltVerified, LaidOutAgain

(* Each step of the compiler keeps it.                                     *)
LEMMA LabelsKept == LabelInv /\ [Next]_vars => LabelInv'
<1> SUFFICES ASSUME LabelInv, [Next]_vars PROVE LabelInv'
  OBVIOUS
<1>0. Inv' /\ Inv /\ LabelsBuilt
  BY Keeps DEF LabelInv
<1>1. CASE UNCHANGED vars
  <2>1. UNCHANGED <<stage, code, label, open, cfg, round>>
    BY <1>1 DEF vars, builder
  <2> QED BY <1>0, <2>1 DEF LabelInv, LabelsBuilt, BuiltVerified, LaidOutAgain
<1>2. CASE stage = "build" /\ stage' = "build" /\ LabelsBuilt'
  BY <1>0, <1>2 DEF LabelInv, BuiltVerified, LaidOutAgain
<1>3. CASE \E s \in Statements : DeclareLocal(s) \/ Assign(s) \/ Evaluate(s) \/ Break(s)
  <2>1. PICK s \in Statements : DeclareLocal(s) \/ Assign(s) \/ Evaluate(s) \/ Break(s)
    BY <1>3
  <2>2. stage = "build" /\ stage' = stage
    BY <2>1 DEF DeclareLocal, Assign, Evaluate, Break, Fits
  <2>3. LabelsBuilt'
    BY <1>0, <2>1, DeclareLocalLabels, AssignLabels, EvaluateLabels, BreakLabels
  <2> QED BY <1>2, <2>2, <2>3
<1>4. CASE If \/ While \/ Else \/ EndIf \/ EndWhile
  <2>1. stage = "build" /\ stage' = stage
    BY <1>4 DEF If, While, Else, EndIf, EndWhile, MayOpen, InBody
  <2>2. LabelsBuilt'
    BY <1>0, <1>4, IfLabels, WhileLabels, ElseLabels, EndIfLabels, EndWhileLabels
  <2> QED BY <1>2, <2>1, <2>2
<1>5. CASE Finish
  <2>1. stage' = "optimize"
    BY <1>5 DEF Finish
  <2>2. VerifyCfg(cfg')
    BY <1>0, <1>5, FinishLabels
  <2> QED BY <1>0, <2>1, <2>2 DEF LabelInv, LabelsBuilt, BuiltVerified, LaidOutAgain
<1>6. CASE Optimize
  <2>1. code' = Flatten(cfg') /\ round' = round + 1 /\ stage' \in {"optimize", "layout"}
    BY <1>6 DEF Optimize
  <2>2. round' # 0
    <3>1. round \in Nat
      BY <1>0 DEF Inv, TypeOK
    <3> QED BY <2>1, <3>1
  <2> QED BY <1>0, <2>1, <2>2 DEF LabelInv, LabelsBuilt, BuiltVerified, LaidOutAgain
<1>7. CASE Relayout \/ ComputeIntervals \/ SortIntervals
  <2>1. stage' \in {"intervals", "sort", "allocate"}
    BY <1>7 DEF Relayout, ComputeIntervals, SortIntervals
  <2> QED BY <1>0, <2>1 DEF LabelInv, LabelsBuilt, BuiltVerified, LaidOutAgain
<1>8. CASE Allocate
  <2>1. stage' = "allocate"
    BY <1>8 DEF Allocate
  <2> QED BY <1>0, <2>1 DEF LabelInv, LabelsBuilt, BuiltVerified, LaidOutAgain
<1> QED BY <1>1, <1>3, <1>4, <1>5, <1>6, <1>7, <1>8 DEF Next

(* So it holds of all that the compiler does.                              *)
LEMMA LabelInvariant == Spec => []LabelInv
BY LabelsStart, LabelsKept, PTL DEF Spec

(***************************************************************************)
(* Whatever statements a function is made of, in whatever loops and        *)
(* branches, each label is placed once and each jump leads to one, and so  *)
(* the graph that is built of it (build_cfg) is one verify_cfg accepts.    *)
(***************************************************************************)
THEOREM BuiltVerifiedHolds == Spec => []BuiltVerified
BY LabelInvariant, PTL DEF LabelInv

(***************************************************************************)
(* Laying the graph out and building it again for the allocator never      *)
(* makes a graph verify_cfg refuses of one it accepts: labels made up by   *)
(* build_cfg are above those that are there (cfg_builder.rs).              *)
(***************************************************************************)
RelayoutVerified == [][stage = "layout" /\ VerifyCfg(cfg) => VerifyCfg(cfg')]_vars

(* What verify_cfg accepts it accepts again, built of its layout.          *)
THEOREM RelayoutVerifiedHolds == Spec => RelayoutVerified
<1>1. LabelInv /\ [Next]_vars => [stage = "layout" /\ VerifyCfg(cfg) => VerifyCfg(cfg')]_vars
  <2> SUFFICES ASSUME LabelInv, Next, stage = "layout", VerifyCfg(cfg) PROVE VerifyCfg(cfg')
    OBVIOUS
  <2>1. Relayout
    BY DEF Next, DeclareLocal, Assign, Evaluate, Break, If, While, Else, EndIf, EndWhile, Finish,
           Optimize, ComputeIntervals, SortIntervals, Allocate, Fits, MayOpen, InBody
  <2>2. cfg' = BuildCfg(code) /\ code = Flatten(cfg)
    BY <2>1 DEF Relayout, LabelInv, LaidOutAgain
  <2>3. next - 1 \in Nat /\ cfg \in Graphs(next - 1)
    BY CompilerAssumption DEF LabelInv, Inv, TypeOK
  <2>4. VerifyCfg(BuildCfg(Flatten(cfg)))
    BY <2>3, RebuiltVerified
  <2> QED BY <2>2, <2>4
<1> QED BY <1>1, LabelInvariant, PTL DEF Spec, RelayoutVerified

-----------------------------------------------------------------------------
(* What simplify_cfg is given in a round: the graph after its other passes.*)
AliveFrom(moved, held) ==
  EliminateDead(Rewritten(Rewritten(Rewritten(moved, ShareExpressions),
                                    LAMBDA c : PropagateCopies(c, held)),
                          LAMBDA c : TrackValues(c, held)))
Alive == AliveFrom(HoistInvariants(cfg), CapturedVars(HoistInvariants(cfg)))

(***************************************************************************)
(* In no round so far eliminate_empty_jumps meets an empty block that      *)
(* jumps back to one it has bypassed.  It does for some functions, with    *)
(* loops that end as soon as they begin: then the graph is refused.        *)
(***************************************************************************)
StraightSoFar == stage = "optimize" => NeverBack(Alive)

(* A round of the six passes leaves a sound graph sound then.              *)
LEMMA OptimizeSound ==
  ASSUME Inv, Optimize, Sound(cfg), StraightSoFar
  PROVE  Sound(cfg')
<1> DEFINE N == next - 1
           G == Graphs(N)
<1>1. stage = "optimize" /\ N \in Nat /\ cfg \in G
  BY CompilerAssumption DEF Inv, TypeOK, Optimize
<1> HIDE DEF N
<1>2. PICK moved \in {HoistInvariants(cfg)} :
      \E held \in {CapturedVars(moved)} :
      \E shared  \in {Rewritten(moved, ShareExpressions)} :
      \E copied  \in {Rewritten(shared, LAMBDA c : PropagateCopies(c, held))} :
      \E tracked \in {Rewritten(copied, LAMBDA c : TrackValues(c, held))} :
      \E alive   \in {EliminateDead(tracked)} :
      \E better  \in {SimplifyCfg(alive)} : cfg' = better
  BY DEF Optimize
<1>3. PICK held \in {CapturedVars(moved)} :
      \E shared  \in {Rewritten(moved, ShareExpressions)} :
      \E copied  \in {Rewritten(shared, LAMBDA c : PropagateCopies(c, held))} :
      \E tracked \in {Rewritten(copied, LAMBDA c : TrackValues(c, held))} :
      \E alive   \in {EliminateDead(tracked)} :
      \E better  \in {SimplifyCfg(alive)} : cfg' = better
  BY <1>2, Zenon
<1> DEFINE shared == Rewritten(moved, ShareExpressions)
           copied == Rewritten(shared, LAMBDA c : PropagateCopies(c, held))
           tracked == Rewritten(copied, LAMBDA c : TrackValues(c, held))
           alive == EliminateDead(tracked)
<1>4. cfg' = SimplifyCfg(alive)
  BY <1>3, Zenon
<1>5. NeverBack(alive)
  <2>1. moved = HoistInvariants(cfg) /\ held = CapturedVars(HoistInvariants(cfg))
    BY <1>2, <1>3
  <2>2. NeverBack(AliveFrom(moved, held))
    BY <1>1, <2>1 DEF StraightSoFar, Alive
  <2> QED BY <2>2, Zenon DEF AliveFrom
<1>6. moved \in G /\ Sound(moved)
  BY <1>1, <1>2, HoistInvariantsType, HoistInvariantsSound
<1>7. shared \in G /\ Sound(shared)
  BY <1>1, <1>6, SharedEverywhere, SharedSound
<1> HIDE DEF shared
<1>8. copied \in G
  BY <1>1, <1>7, CopiedEverywhere DEF Rewritten, Map
<1>9. Sound(copied)
  BY <1>1, <1>7, CopiedSound DEF Rewritten, Map
<1> HIDE DEF copied
<1>10. tracked \in G
  BY <1>1, <1>8, TrackedEverywhere DEF Rewritten, Map
<1>11. Sound(tracked)
  BY <1>1, <1>8, <1>9, TrackedSound DEF Rewritten, Map
<1> HIDE DEF tracked
<1>12. alive \in G /\ Sound(alive)
  BY <1>1, <1>10, <1>11, EliminateDeadSound
<1> HIDE DEF alive
<1>13. Sound(SimplifyCfg(alive))
  BY <1>1, <1>5, <1>12, SimplifyCfgSound
<1> QED BY <1>4, <1>13

(* The graph is sound as long as rounds are made of it, and then accepted. *)
GraphKept ==
  /\ stage \in {"optimize", "layout"} => Sound(cfg)
  /\ stage = "intervals" => VerifyCfg(cfg)
GraphInv == LabelInv /\ GraphKept

(* There is no graph to start with.                                        *)
LEMMA GraphStarts == Init => GraphInv
<1> SUFFICES ASSUME Init PROVE GraphInv
  OBVIOUS
<1>1. stage = "build"
  BY DEF Init
<1> QED BY <1>1, LabelsStart DEF GraphInv, GraphKept

(* Each step of the compiler keeps that.                                   *)
LEMMA GraphStays == GraphInv /\ StraightSoFar /\ [Next]_vars => GraphInv'
<1> SUFFICES ASSUME GraphInv, StraightSoFar, [Next]_vars PROVE GraphKept'
  BY LabelsKept DEF GraphInv
<1>0. Inv /\ LabelInv /\ LabelsBuilt
  BY DEF GraphInv, LabelInv
<1>1. CASE UNCHANGED vars
  <2>1. stage' = stage /\ cfg' = cfg
    BY <1>1 DEF vars
  <2> QED BY <2>1 DEF GraphInv, GraphKept
<1>2. CASE \E s \in Statements : DeclareLocal(s) \/ Assign(s) \/ Evaluate(s) \/ Break(s)
  <2>1. stage' = "build"
    BY <1>2 DEF DeclareLocal, Assign, Evaluate, Break, Fits
  <2> QED BY <2>1 DEF GraphKept
<1>3. CASE If \/ While \/ Else \/ EndIf \/ EndWhile
  <2>1. stage' = "build"
    BY <1>3 DEF If, While, Else, EndIf, EndWhile, MayOpen, InBody
  <2> QED BY <2>1 DEF GraphKept
<1>4. CASE Finish
  <2>1. stage' = "optimize"
    BY <1>4 DEF Finish
  <2>2. Sound(cfg')
    BY <1>0, <1>4, FinishLabels
  <2> QED BY <2>1, <2>2 DEF GraphKept
<1>5. CASE Optimize
  <2>1. stage = "optimize" /\ stage' \in {"optimize", "layout"}
    BY <1>5 DEF Optimize
  <2>2. Sound(cfg)
    BY <2>1 DEF GraphInv, GraphKept
  <2>3. Sound(cfg')
    BY <1>0, <1>5, <2>2, OptimizeSound
  <2> QED BY <2>1, <2>3 DEF GraphKept
<1>6. CASE Relayout
  <2>1. stage = "layout" /\ stage' = "intervals" /\ cfg' = BuildCfg(code) /\ code = Flatten(cfg)
    BY <1>0, <1>6 DEF Relayout, LabelInv, LaidOutAgain
  <2>2. next - 1 \in Nat /\ cfg \in Graphs(next - 1)
    BY <1>0, CompilerAssumption DEF Inv, TypeOK
  <2>3. VerifyCfg(cfg)
    BY <2>1, <2>2, SoundVerified DEF GraphInv, GraphKept
  <2>4. VerifyCfg(BuildCfg(Flatten(cfg)))
    BY <2>2, <2>3, RebuiltVerified
  <2> QED BY <2>1, <2>4 DEF GraphKept
<1>7. CASE ComputeIntervals \/ SortIntervals \/ Allocate
  <2>1. stage' \in {"sort", "allocate"}
    BY <1>7 DEF ComputeIntervals, SortIntervals, Allocate
  <2> QED BY <2>1 DEF GraphKept
<1> QED BY <1>1, <1>2, <1>3, <1>4, <1>5, <1>6, <1>7 DEF Next

(***************************************************************************)
(* verify_cfg accepts the graph after every round, and after the relayout, *)
(* whatever the function, unless in one of the rounds an empty block jumps *)
(* back to one eliminate_empty_jumps has bypassed (simplify_cfg.rs): that  *)
(* is the only way the six passes can break the graph's edges.             *)
(***************************************************************************)
THEOREM GraphVerifiedHolds == Spec /\ []StraightSoFar => []GraphVerified
<1>1. GraphInv => GraphVerified
  <2> SUFFICES ASSUME GraphInv PROVE GraphVerified
    OBVIOUS
  <2>1. next - 1 \in Nat /\ cfg \in Graphs(next - 1)
    BY CompilerAssumption DEF GraphInv, LabelInv, Inv, TypeOK
  <2> QED BY <2>1, SoundVerified DEF GraphInv, GraphKept, GraphVerified
<1> QED BY <1>1, GraphStarts, GraphStays, PTL DEF Spec
=============================================================================
