----------------------------- MODULE Gc_proofs -----------------------------
(***************************************************************************)
(* Theorems about Gc for any number of objects, any heap and any nesting   *)
(* of collections: what becomes of tables with finalizers, that only       *)
(* garbage is condemned, what a collection leaves behind, and the count of *)
(* bytes.  Three inductive invariants, each of which rests on the ones     *)
(* before it: GInv, about what is condemned, queued, pinned and held; MInv,*)
(* about what marking reached; BInv, about the count.                      *)
(***************************************************************************)
EXTENDS Gc, Subsequences_proofs, SequenceTheorems, FiniteSetTheorems

-----------------------------------------------------------------------------
(***************************************************************************)
(* The inductive invariant.                                                *)
(***************************************************************************)

(* A collection that waits for a staged sweep, and one that has planned.   *)
Pending == [stage : {"plan"}, plain : {{}}, queue : {<< >>}]
Counts == UNION {[S -> Nat] : S \in SUBSET Tables}
Planned ==
  [stage : {"settle", "run"}, plain : SUBSET Tables, queue : Seq(Tables),
   next : Nat \ {0}, internal : Counts, dropped : Nat, cleared : SUBSET Tables]

(* The tables whose finalizer did not end.                                 *)
Waiting(p) ==
  IF p.stage = "plan" THEN {} ELSE {p.queue[k] : k \in p.next..Len(p.queue)}

(* Collections wait for the finalizer of the one they are in, and only the *)
(* innermost one does anything.                                            *)
Nesting ==
  /\ plans \in Seq(Pending \cup Planned)
  /\ \A i \in 1..Len(plans) :
       /\ i < Len(plans) => plans[i].stage = "run"
       /\ plans[i].stage = "run" => plans[i].next <= Len(plans[i].queue)

(* The types of the rest of the state.                                     *)
Headers == Colours \cup {"none", "young", "dead"}
HeapType ==
  /\ header \in [Tables -> Headers] /\ kind \in [Tables -> Kinds]
  /\ refs \in [Objects -> SUBSET Objects]
  /\ visible \subseteq Objects /\ aside \subseteq Objects
  /\ pinned \in Seq(Tables) /\ bytes \in Nat
  /\ state \in {"pause", "sweep"} /\ hasWeak \in BOOLEAN /\ sweeping \in BOOLEAN
  /\ sweepPlain \subseteq Tables /\ sweepWeak \subseteq Tables /\ doomed \subseteq Tables
  /\ ran \subseteq Tables

(* No table is pinned or queued twice.                                     *)
Once(seq) == \A j, k \in DOMAIN seq : seq[j] = seq[k] => j = k
NoneTwice == Once(pinned) /\ \A i \in 1..Len(plans) : Once(plans[i].queue)

(* What is to be cleared is tracked, not pinned, and nobody else's.        *)
PlainApart ==
  /\ \A t \in sweepPlain : t \notin ToSet(pinned)
  /\ \A i \in 1..Len(plans) : \A t \in plans[i].plain :
       /\ Tracked(t) /\ t \notin ToSet(pinned) /\ t \notin sweepPlain
       /\ \A j \in 1..Len(plans) : t \in plans[j].plain => i = j

(* What is to be finalized is tracked, pinned, and nobody else's.          *)
WaitingApart ==
  \A i \in 1..Len(plans) : \A t \in Waiting(plans[i]) :
    /\ Tracked(t) /\ t \in ToSet(pinned)
    /\ \A j \in 1..Len(plans) : t \in Waiting(plans[j]) => i = j

(* A pinned table was finalized only if it is being finalized.             *)
RanUnpinned ==
  \A t \in ToSet(pinned) \cap ran :
    \E i \in 1..Len(plans) :
      plans[i].stage = "run" /\ plans[i].queue[plans[i].next] = t

GInv ==
  HeapType /\ Nesting /\ NoneTwice /\ PlainApart /\ WaitingApart /\ RanUnpinned

-----------------------------------------------------------------------------
(***************************************************************************)
(* Records, sequences, and what refcounting keeps.                         *)
(***************************************************************************)

(* The fields of a collection.                                             *)
LEMMA PlanFields ==
  ASSUME NEW p \in Pending \cup Planned
  PROVE  /\ p.stage \in {"plan", "settle", "run"}
         /\ p.plain \in SUBSET Tables
         /\ p.queue \in Seq(Tables)
         /\ p.stage = "plan" => p.plain = {} /\ p.queue = << >>
         /\ p.stage # "plan" =>
              /\ p \in Planned
              /\ p.next \in Nat \ {0} /\ p.dropped \in Nat
              /\ p.cleared \in SUBSET Tables
<1>1. CASE p \in Pending
  <2>1. p.stage = "plan" /\ p.plain = {} /\ p.queue = << >>
    BY <1>1 DEF Pending
  <2>2. << >> \in Seq(Tables)
    OBVIOUS
  <2> QED BY <2>1, <2>2
<1>2. CASE p \in Planned
  BY <1>2 DEF Planned
<1> QED BY <1>1, <1>2

(* A collection starts a finalizer, and goes on to the next one.           *)
Started(p) == [p EXCEPT !.stage = "run"]
WentOn(p, left) == [p EXCEPT !.stage = "settle", !.next = @ + 1, !.cleared = left]
LEMMA PlanEdits ==
  ASSUME NEW p \in Planned, NEW left \in SUBSET Tables
  PROVE  /\ Started(p) \in Planned /\ Started(p).stage = "run"
         /\ Started(p).plain = p.plain /\ Started(p).queue = p.queue
         /\ Started(p).next = p.next
         /\ WentOn(p, left) \in Planned /\ WentOn(p, left).stage = "settle"
         /\ WentOn(p, left).plain = p.plain /\ WentOn(p, left).queue = p.queue
         /\ WentOn(p, left).next = p.next + 1
<1>1. Started(p) \in Planned /\ Started(p).stage = "run" /\ Started(p).plain = p.plain
      /\ Started(p).queue = p.queue /\ Started(p).next = p.next
  BY DEF Planned, Started
<1>2. p.next + 1 \in Nat \ {0}
  BY DEF Planned
<1>3. WentOn(p, left).stage = "settle" /\ WentOn(p, left).plain = p.plain
      /\ WentOn(p, left).queue = p.queue /\ WentOn(p, left).next = p.next + 1
  BY DEF Planned, WentOn
<1>4. WentOn(p, left) \in Planned
  BY <1>2 DEF Planned, WentOn
<1> QED BY <1>1, <1>3, <1>4

(* The last element of a sequence is replaced, dropped, or added.          *)
LEMMA LastReplaced ==
  ASSUME NEW S, NEW s \in Seq(S), s # << >>, NEW x \in S
  PROVE  LET r == [s EXCEPT ![Len(s)] = x] IN
         /\ r \in Seq(S) /\ Len(r) = Len(s) /\ r[Len(s)] = x
         /\ \A i \in 1..Len(s) : i # Len(s) => r[i] = s[i]
OBVIOUS

LEMMA LastDropped ==
  ASSUME NEW S, NEW s \in Seq(S), s # << >>
  PROVE  /\ Front(s) \in Seq(S) /\ Len(Front(s)) = Len(s) - 1
         /\ \A i \in 1..Len(Front(s)) : Front(s)[i] = s[i]
<1> DEFINE n == Len(s) - 1
           f == SubSeq(s, 1, n)
<1>1. n \in Nat /\ n \in Int /\ 1 \in Int /\ \A i \in 1..n : s[i] \in S
  OBVIOUS
<1>2. Front(s) = f /\ n = Len(s) - 1
  BY DEF Front
<1> HIDE DEF n
<1>3. /\ f \in Seq(S) /\ Len(f) = (IF 1 <= n THEN n - 1 + 1 ELSE 0)
      /\ \A i \in 1..(n - 1 + 1) : f[i] = s[1 + i - 1]
  BY <1>1, SubSeqProperties
<1>4. n - 1 + 1 = n /\ (IF 1 <= n THEN n - 1 + 1 ELSE 0) = n
  BY <1>1
<1>5. \A i \in 1..n : 1 + i - 1 = i
  BY <1>1
<1> HIDE DEF f
<1> QED BY <1>2, <1>3, <1>4, <1>5

LEMMA LastAdded ==
  ASSUME NEW S, NEW s \in Seq(S), NEW x \in S
  PROVE  LET r == Append(s, x) IN
         /\ r \in Seq(S) /\ Len(r) = Len(s) + 1 /\ r[Len(s) + 1] = x
         /\ \A i \in 1..Len(s) : r[i] = s[i]
OBVIOUS

(* The innermost collection.                                               *)
LEMMA TopIsPlan ==
  ASSUME Nesting, plans # << >>
  PROVE  /\ Len(plans) \in Nat \ {0} /\ Len(plans) \in 1..Len(plans)
         /\ Top = plans[Len(plans)] /\ Top \in Pending \cup Planned
BY DEF Nesting, Top

(* The elements of a set that a sequence has, in the order of the          *)
(* sequence: no other ones, none missing, none twice.                      *)
LEMMA AmongElements ==
  ASSUME NEW seq \in Seq(Tables), NEW set
  PROVE  /\ Among(seq, set) \in Seq(Tables)
         /\ ToSet(Among(seq, set)) = ToSet(seq) \cap set
         /\ Once(seq) => Once(Among(seq, set))
<1> DEFINE I == {k \in DOMAIN seq : seq[k] \in set}
<1>1. I \in SUBSET (DOMAIN seq) /\ Among(seq, set) = Retain(seq, I)
  BY DEF Among
<1>0. /\ \A i : i \in I <=> i \in DOMAIN seq /\ seq[i] \in set
      /\ Len(seq) \in Nat /\ DOMAIN seq = 1..Len(seq)
  OBVIOUS
<1> HIDE DEF I
<1>2. Among(seq, set) \in Seq(Tables)
  BY <1>1, RetainType
<1>3. ToSet(Among(seq, set)) \subseteq ToSet(seq) \cap set
  <2> SUFFICES ASSUME NEW n \in DOMAIN Retain(seq, I)
               PROVE  Retain(seq, I)[n] \in ToSet(seq) \cap set
    BY <1>1 DEF ToSet
  <2>1. PICK i \in I : Retain(seq, I)[n] = seq[i]
    BY <1>1, RetainOnly
  <2> QED BY <1>0, <2>1 DEF ToSet
<1>4. ToSet(seq) \cap set \subseteq ToSet(Among(seq, set))
  <2> SUFFICES ASSUME NEW i \in DOMAIN seq, seq[i] \in set
               PROVE  seq[i] \in ToSet(Retain(seq, I))
    BY <1>1 DEF ToSet
  <2>0. i \in I
    BY <1>0
  <2>1. \E n \in DOMAIN Retain(seq, I) : Retain(seq, I)[n] = seq[i]
    BY <1>1, <2>0, RetainAll
  <2> QED BY <2>1 DEF ToSet
<1>5. Once(seq) => Once(Among(seq, set))
  <2> SUFFICES ASSUME Once(seq),
                      NEW j \in DOMAIN Retain(seq, I),
                      NEW k \in DOMAIN Retain(seq, I),
                      Retain(seq, I)[j] = Retain(seq, I)[k]
               PROVE  j = k
    BY <1>1 DEF Once
  <2>2. /\ j \in 1..Cardinality(I) /\ Retain(seq, I)[j] = seq[Nth(I, j)]
        /\ k \in 1..Cardinality(I) /\ Retain(seq, I)[k] = seq[Nth(I, k)]
    BY DEF Retain
  <2>3. /\ Nth(I, j) \in I /\ Cardinality(UpTo(I, Nth(I, j))) = j
        /\ Nth(I, k) \in I /\ Cardinality(UpTo(I, Nth(I, k))) = k
    BY <1>0, <1>1, <2>2, NthIsMember
  <2>4. Nth(I, j) = Nth(I, k)
    <3>1. seq[Nth(I, j)] = seq[Nth(I, k)]
      BY <2>2
    <3>2. Nth(I, j) \in DOMAIN seq /\ Nth(I, k) \in DOMAIN seq
      BY <1>0, <2>3
    <3> QED BY <3>1, <3>2 DEF Once
  <2> QED BY <2>3, <2>4
<1> QED BY <1>2, <1>3, <1>4, <1>5

(* A held table keeps the header that the step gave it.                    *)
LEMMA CountingKeeps ==
  ASSUME NEW rf \in [Objects -> SUBSET Objects], NEW hd \in [Tables -> Headers],
         kind \in [Tables -> Kinds], Counting(rf, hd)
  PROVE  /\ refs' \in [Objects -> SUBSET Objects]
         /\ header' \in [Tables -> Headers]
         /\ kind' \in [Tables -> Kinds]
         /\ \A t \in Tables : t \in Held' => header'[t] = hd[t]
<1>1. PICK kept \in {Kept(rf, Held')} :
        /\ refs' = [o \in Objects |-> IF o \in kept THEN rf[o] ELSE {}]
        /\ header' = [t \in Tables |->
                        IF t \in kept \/ hd[t] = "none" THEN hd[t] ELSE "dead"]
        /\ kind' = [t \in Tables |->
                      IF t \in kept /\ hd[t] # "none" THEN kind[t] ELSE "plain"]
  BY DEF Counting
<1>2. Held' \subseteq kept
  BY DEF Kept
<1>3. "dead" \in Headers /\ "plain" \in Kinds
  BY DEF Headers, Kinds
<1> QED BY <1>1, <1>2, <1>3

(* What the tracker and the collections hold.                              *)
LEMMA HeldThings ==
  /\ ToSet(pinned) \subseteq Held /\ sweepPlain \subseteq Held
  /\ \A i \in DOMAIN plans : PlanHolds(plans[i]) \subseteq Held
  /\ ToSet(pinned') \subseteq Held' /\ sweepPlain' \subseteq Held'
  /\ \A i \in DOMAIN plans' : PlanHolds(plans'[i]) \subseteq Held'
BY DEF Held

(* A collection holds what waits in its queue.                             *)
LEMMA WaitingHeld ==
  ASSUME NEW p \in Pending \cup Planned
  PROVE  /\ Waiting(p) \subseteq PlanHolds(p) /\ p.plain \subseteq PlanHolds(p)
         /\ PlanHolds(p) \subseteq Tables
<1>1. /\ p.plain \in SUBSET Tables /\ p.queue \in Seq(Tables)
      /\ p.stage # "plan" => p.next \in Nat \ {0}
  BY PlanFields
<1>2. \A k \in DOMAIN p.queue : p.queue[k] \in Tables
  BY <1>1
<1>3. p.stage # "plan" => p.next..Len(p.queue) \subseteq DOMAIN p.queue
  BY <1>1
<1> QED BY <1>1, <1>2, <1>3 DEF Waiting, PlanHolds, ToSet

-----------------------------------------------------------------------------
(***************************************************************************)
(* What the invariant says of types and of planned tables.                 *)
(***************************************************************************)

LEMMA GInvTypes == GInv => TypeOK
<1> SUFFICES ASSUME GInv PROVE TypeOK
  OBVIOUS
<1>1. \A i \in DOMAIN plans : plans[i] \in Pending \cup Planned
  BY DEF GInv, Nesting
<1>2. \A i \in DOMAIN plans :
        /\ plans[i].stage \in {"plan", "settle", "run"}
        /\ plans[i].plain \subseteq Tables
        /\ plans[i].queue \in Seq(Tables)
  BY <1>1, PlanFields
<1> QED BY <1>2 DEF GInv, HeapType, TypeOK, Headers

LEMMA GInvPlanned == GInv => PlannedStaysWhole
<1> SUFFICES ASSUME GInv, NEW i \in DOMAIN plans, plans[i].stage \in {"settle", "run"}
             PROVE  /\ \A t \in plans[i].plain : Tracked(t)
                    /\ \A k \in plans[i].next..Len(plans[i].queue) :
                         /\ Tracked(plans[i].queue[k])
                         /\ plans[i].queue[k] \in ToSet(pinned)
  BY DEF PlannedStaysWhole
<1>1. i \in 1..Len(plans)
  BY DEF GInv, Nesting
<1>2. \A t \in plans[i].plain : Tracked(t)
  BY <1>1 DEF GInv, PlainApart
<1>3. \A k \in plans[i].next..Len(plans[i].queue) : plans[i].queue[k] \in Waiting(plans[i])
  BY DEF Waiting
<1> QED BY <1>1, <1>2, <1>3 DEF GInv, WaitingApart

(* A finalizer's table: in the queue, still waiting, and a table.          *)
LEMMA NextWaits ==
  ASSUME NEW p \in Planned, p.next <= Len(p.queue)
  PROVE  /\ p.queue[p.next] \in Waiting(p) /\ p.queue[p.next] \in Tables
         /\ p.next \in DOMAIN p.queue
<1>1. p.queue \in Seq(Tables) /\ p.next \in Nat \ {0} /\ p.stage # "plan"
  BY DEF Planned
<1> QED BY <1>1 DEF Waiting

(* What is planned or waits is a table and stays held.                     *)
LEMMA PlannedHeld ==
  ASSUME Nesting, UNCHANGED plans, NEW i \in 1..Len(plans)
  PROVE  \A t : t \in plans[i].plain \/ t \in Waiting(plans[i]) => t \in Tables /\ t \in Held'
<1>1. plans[i] \in Pending \cup Planned /\ i \in DOMAIN plans'
  BY DEF Nesting
<1>2. Waiting(plans[i]) \subseteq PlanHolds(plans[i])
      /\ plans[i].plain \subseteq PlanHolds(plans[i])
      /\ PlanHolds(plans[i]) \subseteq Tables
  BY <1>1, WaitingHeld
<1>3. PlanHolds(plans[i]) \subseteq Held'
  <2>1. PlanHolds(plans'[i]) \subseteq Held'
    BY <1>1, HeldThings
  <2> QED BY <2>1
<1> QED BY <1>2, <1>3

(* A step that leaves pins and plans alone keeps the invariant if tables   *)
(* that are held stay tracked.                                             *)
LEMMA QuietKeeps ==
  ASSUME GInv, HeapType', UNCHANGED <<pinned, sweepPlain, plans, ran>>,
         \A t \in Tables : t \in Held' /\ Tracked(t) => Tracked(t)'
  PROVE  GInv'
<1>1. Nesting' /\ NoneTwice' /\ RanUnpinned'
  BY DEF GInv, Nesting, NoneTwice, RanUnpinned
<1>2. PlainApart'
  <2>1. \A t \in sweepPlain' : t \notin ToSet(pinned')
    BY DEF GInv, PlainApart
  <2>2. ASSUME NEW i \in 1..Len(plans), NEW t \in plans[i].plain
        PROVE  /\ Tracked(t)' /\ t \notin ToSet(pinned) /\ t \notin sweepPlain
               /\ \A j \in 1..Len(plans) : t \in plans[j].plain => i = j
    <3>1. t \in Tables /\ t \in Held'
      BY PlannedHeld DEF GInv
    <3> QED BY <3>1 DEF GInv, PlainApart
  <2> QED BY <2>1, <2>2 DEF PlainApart
<1>3. WaitingApart'
  <2>1. ASSUME NEW i \in 1..Len(plans), NEW t \in Waiting(plans[i])
        PROVE  /\ Tracked(t)' /\ t \in ToSet(pinned)
               /\ \A j \in 1..Len(plans) : t \in Waiting(plans[j]) => i = j
    <3>1. t \in Tables /\ t \in Held'
      BY PlannedHeld DEF GInv
    <3> QED BY <3>1 DEF GInv, WaitingApart
  <2> QED BY <2>1 DEF WaitingApart
<1> QED BY <1>1, <1>2, <1>3 DEF GInv

(* A finalizer uses its argument, or a coroutine goes on.                  *)
LEMMA StackKeeps ==
  ASSUME GInv, UseArgument \/ Resume
  PROVE  GInv' /\ UNCHANGED <<pinned, plans>>
<1> USE DEF vars, program, staged, tracker, tables
<1>0. Tables \subseteq Objects
  BY DEF Objects
<1>1. UNCHANGED <<header, kind, refs, pinned, bytes, state, hasWeak, sweeping,
                  sweepPlain, sweepWeak, doomed, plans, ran>>
  BY DEF UseArgument, Resume
<1>2. visible' \subseteq Objects /\ aside' \subseteq Objects
  <2>1. CASE UseArgument
    <3>1. plans # << >> /\ Top.stage = "run"
      BY <2>1 DEF UseArgument, Runs
    <3>2. Top \in Planned /\ Top.next <= Len(Top.queue)
      BY <3>1, TopIsPlan, PlanFields DEF GInv, Nesting
    <3>3. Top.queue[Top.next] \in Tables
      BY <3>2, NextWaits
    <3> QED BY <1>0, <2>1, <3>3 DEF UseArgument, GInv, HeapType
  <2>2. CASE Resume
    BY <2>2 DEF Resume, GInv, HeapType
  <2> QED BY <2>1, <2>2
<1>3. HeapType'
  BY <1>1, <1>2 DEF GInv, HeapType
<1>4. \A t : Tracked(t) => Tracked(t)'
  BY <1>1 DEF Tracked
<1> QED BY <1>1, <1>3, <1>4, QuietKeeps

(* The program's other steps, but for making a table.                      *)
LEMMA ObjectsKeep ==
  ASSUME GInv, NEW p \in visible, NEW o \in Objects,
         \/ \E c \in Closures : NewClosure(c, p)
         \/ Store(p, o) \/ Erase(p, o) \/ Load(p, o) \/ Forget(p) \/ Suspend(p)
  PROVE  GInv' /\ UNCHANGED <<pinned, plans>>
<1> USE DEF vars, program, staged, tracker, tables
<1>0. Tables \subseteq Objects /\ Closures \subseteq Objects /\ p \in Objects
  BY DEF Objects, GInv, HeapType
<1>1. UNCHANGED <<pinned, sweepPlain, plans, ran>>
  BY DEF NewClosure, Store, Erase, Load, Forget, Suspend
<1>2. CASE (\E c \in Closures : NewClosure(c, p)) \/ Load(p, o) \/ Suspend(p)
  <2>1. UNCHANGED header
    BY <1>2 DEF NewClosure, Load, Suspend
  <2>2. visible' \subseteq Objects /\ aside' \subseteq Objects
    BY <1>2, <1>0 DEF NewClosure, Load, Suspend, GInv, HeapType
  <2>3. refs' \in [Objects -> SUBSET Objects]
    <3>1. CASE \E c \in Closures : NewClosure(c, p)
      BY <3>1, <1>0 DEF NewClosure, GInv, HeapType
    <3>2. CASE UNCHANGED refs
      BY <3>2 DEF GInv, HeapType
    <3> QED BY <1>2, <3>1, <3>2 DEF Load, Suspend
  <2>4. UNCHANGED <<kind, tracker>>
    BY <1>2 DEF NewClosure, Load, Suspend
  <2>5. HeapType'
    BY <1>1, <2>1, <2>2, <2>3, <2>4 DEF GInv, HeapType
  <2>6. \A t : Tracked(t) => Tracked(t)'
    BY <2>1 DEF Tracked
  <2> QED BY <1>1, <2>5, <2>6, QuietKeeps
<1>3. CASE Store(p, o)
  <2>1. header' \in [Tables -> Headers] /\ \A t \in Tables : Tracked(t) => Tracked(t)'
    <3>1. "gray" \in Headers /\ "gray" \in Colours
      BY DEF Headers, Colours
    <3>2. header' = header \/ header' = [header EXCEPT ![p] = "gray"]
      BY <1>3 DEF Store, Barrier
    <3> QED BY <1>3, <3>1, <3>2 DEF Store, GInv, HeapType, Tracked
  <2>2. HeapType'
    BY <1>3, <2>1, <1>0 DEF Store, GInv, HeapType
  <2> QED BY <1>1, <2>1, <2>2, QuietKeeps
<1>4. CASE Erase(p, o) \/ Forget(p)
  <2>1. PICK rf \in [Objects -> SUBSET Objects] : Counting(rf, header)
    <3>1. [refs EXCEPT ![p] = @ \ {o}] \in [Objects -> SUBSET Objects]
          /\ refs \in [Objects -> SUBSET Objects]
      BY <1>0 DEF GInv, HeapType
    <3> QED BY <1>4, <3>1 DEF Erase, Forget
  <2>2. /\ refs' \in [Objects -> SUBSET Objects]
        /\ header' \in [Tables -> Headers]
        /\ kind' \in [Tables -> Kinds]
        /\ \A t \in Tables : t \in Held' => header'[t] = header[t]
    BY <2>1, CountingKeeps DEF GInv, HeapType
  <2>3. HeapType'
    BY <1>4, <1>0, <2>2 DEF Erase, Forget, GInv, HeapType
  <2>4. \A t \in Tables : t \in Held' /\ Tracked(t) => Tracked(t)'
    BY <2>2 DEF Tracked
  <2> QED BY <1>1, <2>3, <2>4, QuietKeeps
<1> QED BY <1>2, <1>3, <1>4

-----------------------------------------------------------------------------
(***************************************************************************)
(* Steps that change pins or plans.                                        *)
(***************************************************************************)

(* What is planned, or waits, is held.                                     *)
LEMMA PlannedIsHeld ==
  ASSUME Nesting, NEW i \in 1..Len(plans)
  PROVE  \A t : t \in plans[i].plain \/ t \in Waiting(plans[i])
                  => t \in Tables /\ t \in Held /\ t \in PlanHolds(plans[i])
<1>1. plans[i] \in Pending \cup Planned /\ i \in DOMAIN plans
  BY DEF Nesting
<1>2. PlanHolds(plans[i]) \subseteq Held
  BY <1>1, HeldThings
<1> QED BY <1>1, <1>2, WaitingHeld

LEMMA PlannedIsHeldAfter ==
  ASSUME Nesting', NEW i \in 1..Len(plans')
  PROVE  \A t : t \in plans'[i].plain \/ t \in Waiting(plans'[i])
                  => t \in Tables /\ t \in Held' /\ t \in PlanHolds(plans'[i])
<1>1. plans'[i] \in Pending \cup Planned /\ i \in DOMAIN plans'
  BY DEF Nesting
<1>2. PlanHolds(plans'[i]) \subseteq Held'
  BY <1>1, HeldThings
<1> QED BY <1>1, <1>2, WaitingHeld

(* Each collection is one of before, with no more to do, or a new one that *)
(* has nothing in common with those of before.                             *)
OldOrNew(i) ==
  \/ /\ i \in 1..Len(plans)
     /\ plans'[i].plain \subseteq plans[i].plain
     /\ Waiting(plans'[i]) \subseteq Waiting(plans[i])
  \/ /\ i = Len(plans')
     /\ \A j \in 1..Len(plans) :
          /\ plans'[i].plain \cap plans[j].plain = {}
          /\ Waiting(plans'[i]) \cap Waiting(plans[j]) = {}

LEMMA StepKeeps ==
  ASSUME GInv, HeapType', Nesting', RanUnpinned', Once(pinned'),
         \A t \in sweepPlain' : t \notin ToSet(pinned'),
         \A i \in 1..Len(plans') :
           /\ OldOrNew(i) /\ Once(plans'[i].queue)
           /\ \A t \in plans'[i].plain :
                Tracked(t)' /\ t \notin ToSet(pinned') /\ t \notin sweepPlain'
           /\ \A t \in Waiting(plans'[i]) : Tracked(t)' /\ t \in ToSet(pinned')
  PROVE  GInv'
<1>1. NoneTwice'
  BY DEF NoneTwice
<1>2. ASSUME NEW i \in 1..Len(plans'), NEW j \in 1..Len(plans'),
             NEW t \in plans'[i].plain, t \in plans'[j].plain
      PROVE  i = j
  <2>1. OldOrNew(i) /\ OldOrNew(j)
    OBVIOUS
  <2>2. \A k, l \in 1..Len(plans) : t \in plans[k].plain /\ t \in plans[l].plain => k = l
    BY DEF GInv, PlainApart
  <2> QED BY <1>2, <2>1, <2>2 DEF OldOrNew
<1>3. ASSUME NEW i \in 1..Len(plans'), NEW j \in 1..Len(plans'),
             NEW t \in Waiting(plans'[i]), t \in Waiting(plans'[j])
      PROVE  i = j
  <2>1. OldOrNew(i) /\ OldOrNew(j)
    OBVIOUS
  <2>2. \A k, l \in 1..Len(plans) :
          t \in Waiting(plans[k]) /\ t \in Waiting(plans[l]) => k = l
    BY DEF GInv, WaitingApart
  <2> QED BY <1>3, <2>1, <2>2 DEF OldOrNew
<1>4. PlainApart' /\ WaitingApart'
  BY <1>2, <1>3 DEF PlainApart, WaitingApart
<1> QED BY <1>1, <1>4 DEF GInv

(* A table is pinned in front of the others.                               *)
LEMMA PinnedInFront ==
  ASSUME NEW seq \in Seq(Tables), NEW t \in Tables, t \notin ToSet(seq), Once(seq)
  PROVE  LET new == <<t>> \o seq IN
         /\ new \in Seq(Tables) /\ Once(new) /\ ToSet(new) = {t} \cup ToSet(seq)
<1> DEFINE new == <<t>> \o seq
<1>1. /\ new \in Seq(Tables) /\ DOMAIN new = 1..(Len(seq) + 1) /\ new[1] = t
      /\ \A k \in 1..(Len(seq) + 1) : k # 1 => new[k] = seq[k - 1]
      /\ Len(seq) \in Nat /\ DOMAIN seq = 1..Len(seq)
  OBVIOUS
<1>2. \A k \in 1..(Len(seq) + 1) : k # 1 => k - 1 \in DOMAIN seq
  BY <1>1
<1> HIDE DEF new
<1>3. Once(new)
  <2> SUFFICES ASSUME NEW j \in DOMAIN new, NEW k \in DOMAIN new, new[j] = new[k]
               PROVE  j = k
    BY DEF Once
  <2>1. \A i \in DOMAIN seq : seq[i] # t
    BY DEF ToSet
  <2>2. j = 1 <=> k = 1
    BY <1>1, <1>2, <2>1
  <2>3. CASE j # 1 /\ k # 1
    <3>1. j - 1 = k - 1
      BY <1>1, <1>2, <2>3 DEF Once
    <3> QED BY <3>1, <1>1
  <2> QED BY <2>2, <2>3
<1>4. \A x : x \in ToSet(new) => x \in {t} \cup ToSet(seq)
  <2> SUFFICES ASSUME NEW k \in DOMAIN new
               PROVE  new[k] \in {t} \cup ToSet(seq)
    BY DEF ToSet
  <2>1. CASE k = 1
    BY <2>1, <1>1
  <2>2. CASE k # 1
    BY <2>2, <1>1, <1>2 DEF ToSet
  <2> QED BY <2>1, <2>2
<1>5. \A i \in DOMAIN seq : i + 1 \in DOMAIN new /\ new[i + 1] = seq[i]
  <2> SUFFICES ASSUME NEW i \in DOMAIN seq
               PROVE  i + 1 \in DOMAIN new /\ new[i + 1] = seq[i]
    OBVIOUS
  <2>1. i + 1 \in 1..(Len(seq) + 1) /\ i + 1 # 1 /\ (i + 1) - 1 = i
    BY <1>1
  <2> QED BY <1>1, <2>1
<1>6. 1 \in DOMAIN new
  BY <1>1
<1>7. \A x : x \in {t} \cup ToSet(seq) => x \in ToSet(new)
  BY <1>1, <1>5, <1>6 DEF ToSet
<1>8. ToSet(new) = {t} \cup ToSet(seq)
  BY <1>4, <1>7
<1> QED BY <1>1, <1>3, <1>8 DEF new

LEMMA NewTableKeeps ==
  ASSUME GInv, NEW t \in Tables, NEW metatable \in Kinds, NewTable(t, metatable)
  PROVE  GInv'
<1> USE DEF vars, program, staged, tracker, tables
<1>0. t \notin Held /\ t \in Objects
  BY DEF NewTable, MayMake, InMemory, Objects
<1>1. t \notin ToSet(pinned) /\ t \notin sweepPlain
  BY <1>0, HeldThings
<1>2. /\ pinned' \in Seq(Tables) /\ Once(pinned')
      /\ ToSet(pinned) \subseteq ToSet(pinned')
      /\ ToSet(pinned') \subseteq {t} \cup ToSet(pinned)
  <2>1. CASE pinned' = pinned
    BY <2>1 DEF GInv, HeapType, NoneTwice
  <2>2. CASE pinned' = <<t>> \o pinned
    BY <1>1, <2>2, PinnedInFront DEF GInv, HeapType, NoneTwice
  <2> QED BY <2>1, <2>2 DEF NewTable
<1>3. HeapType'
  <2>1. "young" \in Headers /\ bytes + 1 \in Nat
    BY DEF Headers, GInv, HeapType
  <2> QED BY <1>0, <1>2, <2>1 DEF NewTable, GInv, HeapType
<1>4. UNCHANGED <<plans, sweepPlain>> /\ Nesting'
  BY DEF NewTable, GInv, Nesting
<1>5. RanUnpinned'
  BY <1>2, <1>4 DEF NewTable, GInv, RanUnpinned
<1>6. \A x \in Tables : x # t => header'[x] = header[x]
  BY DEF NewTable, GInv, HeapType
<1>7. ASSUME NEW i \in 1..Len(plans)
      PROVE  /\ Once(plans[i].queue)
             /\ \A x \in plans[i].plain :
                  Tracked(x)' /\ x \notin ToSet(pinned') /\ x \notin sweepPlain
             /\ \A x \in Waiting(plans[i]) : Tracked(x)' /\ x \in ToSet(pinned')
  <2>1. \A x : x \in plans[i].plain \/ x \in Waiting(plans[i]) => x \in Tables /\ x # t
    BY <1>0, PlannedIsHeld DEF GInv
  <2> QED BY <1>2, <1>6, <2>1 DEF GInv, NoneTwice, PlainApart, WaitingApart, Tracked
<1>8. \A x \in sweepPlain' : x \notin ToSet(pinned')
  BY <1>1, <1>2, <1>4 DEF GInv, PlainApart
<1> QED BY <1>2, <1>3, <1>4, <1>5, <1>7, <1>8, StepKeeps DEF OldOrNew

(* The innermost collection is replaced: the others are as they were.      *)
LEMMA TopReplaced ==
  ASSUME Nesting, plans # << >>, NEW p \in Planned, SetTop(p)
  PROVE  /\ plans' \in Seq(Pending \cup Planned) /\ Len(plans') = Len(plans)
         /\ plans'[Len(plans)] = p
         /\ \A i \in 1..Len(plans) : i # Len(plans) => plans'[i] = plans[i]
<1>1. plans \in Seq(Pending \cup Planned) /\ p \in Pending \cup Planned
  BY DEF Nesting
<1>2. plans' = [plans EXCEPT ![Len(plans)] = p]
  BY DEF SetTop
<1> QED BY <1>1, <1>2, LastReplaced

LEMMA StartFinalizerKeeps ==
  ASSUME GInv, StartFinalizer
  PROVE  GInv' /\ Top.queue[Top.next] \notin ran
<1> USE DEF vars, program, staged, tracker, tables
<1> DEFINE n == Len(plans)
           t == Top.queue[Top.next]
<1>1. /\ plans # << >> /\ Top.stage = "settle" /\ Top.next <= Len(Top.queue)
      /\ ran' = ran \cup {t}
      /\ UNCHANGED <<header, kind, pinned, bytes, state, hasWeak, sweeping,
                     sweepPlain, sweepWeak, doomed, refs, visible, aside>>
  BY DEF StartFinalizer
<1>2. n \in Nat \ {0} /\ n \in 1..n /\ Top = plans[n] /\ Top \in Planned
  BY <1>1, TopIsPlan, PlanFields DEF GInv
<1>3. t \in Waiting(plans[n]) /\ t \in Tables
  BY <1>1, <1>2, NextWaits
<1>4. PICK p \in Planned :
        /\ SetTop(p) /\ p.stage = "run" /\ p.plain = Top.plain
        /\ p.queue = Top.queue /\ p.next = Top.next
  <2>1. SetTop(Started(Top))
    BY DEF StartFinalizer, Started
  <2>2. {} \in SUBSET Tables
    OBVIOUS
  <2> QED BY <1>2, <2>1, <2>2, PlanEdits
<1>5. /\ plans' \in Seq(Pending \cup Planned) /\ Len(plans') = n /\ plans'[n] = p
      /\ \A i \in 1..n : i # n => plans'[i] = plans[i]
  BY <1>1, <1>4, TopReplaced DEF GInv
<1>6. Waiting(p) = Waiting(plans[n])
  BY <1>1, <1>2, <1>4 DEF Waiting
<1> HIDE DEF n, t
<1>7. \A i \in 1..n : /\ plans'[i].plain = plans[i].plain
                      /\ plans'[i].queue = plans[i].queue
                      /\ Waiting(plans'[i]) = Waiting(plans[i])
  BY <1>2, <1>4, <1>5, <1>6
<1>8. Nesting'
  <2>1. \A i \in 1..n : i < n => i # n
    BY <1>2
  <2> QED BY <1>1, <1>2, <1>4, <1>5, <2>1 DEF GInv, Nesting, n
<1>9. HeapType'
  BY <1>1, <1>3 DEF GInv, HeapType
<1>10. RanUnpinned'
  <2> SUFFICES ASSUME NEW x \in ToSet(pinned), x \in ran \cup {t}
               PROVE  \E i \in 1..n : /\ plans'[i].stage = "run"
                                      /\ plans'[i].queue[plans'[i].next] = x
    BY <1>1, <1>5 DEF RanUnpinned
  <2>1. CASE x = t
    BY <2>1, <1>2, <1>4, <1>5 DEF t
  <2>2. CASE x \in ran
    <3>1. PICK i \in 1..n : plans[i].stage = "run" /\ plans[i].queue[plans[i].next] = x
      BY <2>2 DEF GInv, RanUnpinned, n
    <3>2. i # n
      BY <1>1, <1>2, <3>1
    <3> QED BY <1>5, <3>1, <3>2
  <2> QED BY <2>1, <2>2
<1>11. t \notin ran
  <2> SUFFICES ASSUME t \in ran PROVE FALSE
    OBVIOUS
  <2>1. t \in ToSet(pinned)
    BY <1>2, <1>3 DEF GInv, WaitingApart, n
  <2>2. PICK i \in 1..n : plans[i].stage = "run" /\ plans[i].queue[plans[i].next] = t
    BY <2>1 DEF GInv, RanUnpinned, n
  <2>3. plans[i] \in Planned /\ plans[i].next <= Len(plans[i].queue)
    BY <2>2, PlanFields DEF GInv, Nesting, n
  <2>4. t \in Waiting(plans[i])
    BY <2>2, <2>3, NextWaits
  <2>5. i = n
    BY <1>2, <1>3, <2>4 DEF GInv, WaitingApart, n
  <2> QED BY <1>1, <1>2, <2>2, <2>5
<1>12. \A x \in Tables : Tracked(x) => Tracked(x)'
  BY <1>1 DEF Tracked
<1>13. Once(pinned') /\ \A x \in sweepPlain' : x \notin ToSet(pinned')
  BY <1>1 DEF GInv, NoneTwice, PlainApart
<1>14. ASSUME NEW i \in 1..n
       PROVE  /\ OldOrNew(i) /\ Once(plans'[i].queue)
              /\ \A x \in plans'[i].plain :
                   Tracked(x)' /\ x \notin ToSet(pinned') /\ x \notin sweepPlain'
              /\ \A x \in Waiting(plans'[i]) : Tracked(x)' /\ x \in ToSet(pinned')
  <2>1. Once(plans'[i].queue)
    BY <1>7 DEF GInv, NoneTwice, n
  <2>2. OldOrNew(i)
    BY <1>7 DEF OldOrNew, n
  <2>3. \A x : x \in plans[i].plain \/ x \in Waiting(plans[i]) => x \in Tables
    BY PlannedIsHeld DEF GInv, n
  <2>4. \A x \in plans'[i].plain :
          Tracked(x)' /\ x \notin ToSet(pinned') /\ x \notin sweepPlain'
    BY <1>1, <1>7, <1>12, <2>3 DEF GInv, PlainApart, n
  <2>5. \A x \in Waiting(plans'[i]) : Tracked(x)' /\ x \in ToSet(pinned')
    BY <1>1, <1>7, <1>12, <2>3 DEF GInv, WaitingApart, n
  <2> QED BY <2>1, <2>2, <2>4, <2>5
<1>15. GInv'
  BY <1>5, <1>8, <1>9, <1>10, <1>13, <1>14, StepKeeps
<1> QED BY <1>11, <1>15 DEF t

LEMMA MinusType ==
  ASSUME NEW n \in Nat, NEW m \in Nat
  PROVE  Minus(n, m) \in Nat
BY DEF Minus

(* What a finalizer that ends changes in the heap: one table's header, and *)
(* what refcounting then frees.                                            *)
LEMMA FinalizerEndsInHeap ==
  ASSUME HeapType, NEW ok \in BOOLEAN, FinalizerEnds(ok),
         NEW t \in Tables, t = Top.queue[Top.next]
  PROVE  /\ HeapType'
         /\ \A x \in Tables : x # t /\ x \in Held' => header'[x] = header[x]
<1> USE DEF vars, program, staged, tracker, tables
<1>1. /\ pinned' = Unpinned(t)
      /\ UNCHANGED <<visible, aside, state, hasWeak, sweeping, sweepPlain,
                     sweepWeak, doomed, ran>>
      /\ \/ UNCHANGED bytes /\ Counting(refs, [header EXCEPT ![t] = "white"])
         \/ /\ bytes' = Minus(bytes, 1)
            /\ Counting([refs EXCEPT ![t] = {}], [header EXCEPT ![t] = "none"])
  BY DEF FinalizerEnds
<1>2. PICK rf \in [Objects -> SUBSET Objects], hd \in [Tables -> Headers] :
        Counting(rf, hd) /\ \A x \in Tables : x # t => hd[x] = header[x]
  <2>1. "white" \in Headers /\ "none" \in Headers
    BY DEF Headers, Colours
  <2>2. /\ [header EXCEPT ![t] = "white"] \in [Tables -> Headers]
        /\ [header EXCEPT ![t] = "none"] \in [Tables -> Headers]
        /\ \A x \in Tables : x # t => /\ [header EXCEPT ![t] = "white"][x] = header[x]
                                      /\ [header EXCEPT ![t] = "none"][x] = header[x]
    BY <2>1 DEF HeapType
  <2>3. /\ [refs EXCEPT ![t] = {}] \in [Objects -> SUBSET Objects]
        /\ refs \in [Objects -> SUBSET Objects]
    BY DEF HeapType
  <2> QED BY <1>1, <2>2, <2>3
<1>3. /\ refs' \in [Objects -> SUBSET Objects]
      /\ header' \in [Tables -> Headers]
      /\ kind' \in [Tables -> Kinds]
      /\ \A x \in Tables : x \in Held' => header'[x] = hd[x]
  BY <1>2, CountingKeeps DEF HeapType
<1>4. pinned' \in Seq(Tables)
  BY <1>1, AmongElements DEF Unpinned, HeapType
<1>5. bytes' \in Nat
  <2>1. bytes \in Nat /\ 1 \in Nat
    BY DEF HeapType
  <2> QED BY <1>1, <2>1, MinusType
<1>6. HeapType'
  BY <1>1, <1>3, <1>4, <1>5 DEF HeapType
<1> QED BY <1>2, <1>3, <1>6

LEMMA FinalizerEndsKeeps ==
  ASSUME GInv, NEW ok \in BOOLEAN, FinalizerEnds(ok)
  PROVE  /\ GInv'
         /\ ToSet(pinned) \ ToSet(pinned') \subseteq {Top.queue[Top.next]}
<1> USE DEF vars, program, staged, tracker, tables
<1> DEFINE n == Len(plans)
           t == Top.queue[Top.next]
<1>1. plans # << >> /\ Top.stage = "run"
  BY DEF FinalizerEnds, Runs
<1>2. n \in Nat \ {0} /\ n \in 1..n /\ Top = plans[n] /\ Top \in Planned
  BY <1>1, TopIsPlan, PlanFields DEF GInv
<1>3. Top.next <= Len(Top.queue)
  BY <1>1, <1>2 DEF GInv, Nesting
<1>4. t \in Waiting(plans[n]) /\ t \in Tables /\ Top.next \in DOMAIN Top.queue
  BY <1>2, <1>3, NextWaits
<1>5. PICK p \in Planned :
        /\ SetTop(p) /\ p.stage = "settle" /\ p.plain = Top.plain
        /\ p.queue = Top.queue /\ p.next = Top.next + 1
  <2>1. PICK stays \in BOOLEAN :
          SetTop([Top EXCEPT !.stage = "settle", !.next = @ + 1,
                             !.cleared = IF stays THEN @ ELSE @ \cup {t}])
    BY DEF FinalizerEnds
  <2> HIDE DEF t
  <2> DEFINE left == IF stays THEN Top.cleared ELSE Top.cleared \cup {t}
             p == WentOn(Top, left)
  <2>2. left \in SUBSET Tables
    BY <1>2, <1>4 DEF Planned
  <2>3. SetTop(p)
    BY <2>1 DEF WentOn
  <2> HIDE DEF left
  <2>4. /\ p \in Planned /\ p.stage = "settle" /\ p.plain = Top.plain
        /\ p.queue = Top.queue /\ p.next = Top.next + 1
    BY <1>2, <2>2, PlanEdits
  <2> HIDE DEF p
  <2> QED BY <2>3, <2>4
<1>6. /\ plans' \in Seq(Pending \cup Planned) /\ Len(plans') = n /\ plans'[n] = p
      /\ \A i \in 1..n : i # n => plans'[i] = plans[i]
  BY <1>1, <1>5, TopReplaced DEF GInv
<1>7. Waiting(p) \subseteq Waiting(plans[n]) /\ t \notin Waiting(p)
  <2>1. Top.queue \in Seq(Tables) /\ Top.next \in Nat \ {0}
    BY <1>2 DEF Planned
  <2>2. Once(Top.queue)
    BY <1>2 DEF GInv, NoneTwice
  <2>3. /\ Waiting(p) = {Top.queue[k] : k \in (Top.next + 1)..Len(Top.queue)}
        /\ Waiting(plans[n]) = {Top.queue[k] : k \in Top.next..Len(Top.queue)}
    BY <1>1, <1>2, <1>5 DEF Waiting
  <2>4. \A k \in (Top.next + 1)..Len(Top.queue) :
          k \in Top.next..Len(Top.queue) /\ k # Top.next /\ k \in DOMAIN Top.queue
    BY <2>1
  <2>5. \A k \in (Top.next + 1)..Len(Top.queue) : Top.queue[k] # t
    BY <1>4, <2>2, <2>4 DEF Once
  <2> QED BY <2>3, <2>4, <2>5
<1> HIDE DEF n, t
<1>8. /\ HeapType'
      /\ \A x \in Tables : x # t /\ x \in Held' => header'[x] = header[x]
  BY <1>4, FinalizerEndsInHeap DEF GInv, t
<1>9. /\ ToSet(pinned') = ToSet(pinned) \cap (Tables \ {t}) /\ Once(pinned')
      /\ UNCHANGED <<sweepPlain, ran>>
  <2>1. pinned' = Among(pinned, Tables \ {t}) /\ UNCHANGED <<sweepPlain, ran>>
    BY DEF FinalizerEnds, Unpinned, t
  <2> QED BY <2>1, AmongElements DEF GInv, HeapType, NoneTwice
<1>10. Nesting'
  <2>1. \A i \in 1..n : i < n => i # n
    BY <1>2
  <2> QED BY <1>2, <1>5, <1>6, <2>1 DEF GInv, Nesting, n
<1>11. \A i \in 1..n : /\ plans'[i].plain = plans[i].plain
                       /\ plans'[i].queue = plans[i].queue
                       /\ Waiting(plans'[i]) \subseteq Waiting(plans[i])
  BY <1>2, <1>5, <1>6, <1>7
<1>12. RanUnpinned'
  <2> SUFFICES ASSUME NEW x \in ToSet(pinned), x # t, x \in ran
               PROVE  \E i \in 1..n : /\ plans'[i].stage = "run"
                                      /\ plans'[i].queue[plans'[i].next] = x
    BY <1>6, <1>9 DEF RanUnpinned
  <2>1. PICK i \in 1..n : plans[i].stage = "run" /\ plans[i].queue[plans[i].next] = x
    BY DEF GInv, RanUnpinned, n
  <2>2. i # n
    BY <1>2, <2>1 DEF t
  <2> QED BY <1>6, <2>1, <2>2
<1>13. t \in ToSet(pinned)
  BY <1>2, <1>4 DEF GInv, WaitingApart, n
<1>14. \A x \in ToSet(pinned) : x \in Tables
  BY DEF GInv, HeapType, ToSet
<1>15. ASSUME NEW i \in 1..n
       PROVE  /\ OldOrNew(i) /\ Once(plans'[i].queue)
              /\ \A x \in plans'[i].plain :
                   Tracked(x)' /\ x \notin ToSet(pinned') /\ x \notin sweepPlain'
              /\ \A x \in Waiting(plans'[i]) : Tracked(x)' /\ x \in ToSet(pinned')
  <2>1. Once(plans'[i].queue)
    BY <1>11 DEF GInv, NoneTwice, n
  <2>2. OldOrNew(i)
    BY <1>11 DEF OldOrNew, n
  <2>3. \A x : x \in plans'[i].plain \/ x \in Waiting(plans'[i])
                 => x \in Tables /\ x \in Held'
    BY <1>6, <1>10, PlannedIsHeldAfter
  <2>4. ASSUME NEW x \in plans'[i].plain
        PROVE  Tracked(x)' /\ x \notin ToSet(pinned') /\ x \notin sweepPlain'
    <3>1. x \in plans[i].plain
      BY <1>11, <2>4
    <3>2. Tracked(x) /\ x \notin ToSet(pinned) /\ x \notin sweepPlain
      BY <3>1 DEF GInv, PlainApart, n
    <3> QED BY <1>8, <1>9, <1>13, <2>3, <3>2 DEF Tracked
  <2>5. ASSUME NEW x \in Waiting(plans'[i])
        PROVE  Tracked(x)' /\ x \in ToSet(pinned')
    <3>1. x \in Waiting(plans[i])
      BY <1>11, <2>5
    <3>2. Tracked(x) /\ x \in ToSet(pinned)
      BY <3>1 DEF GInv, WaitingApart, n
    <3>3. x # t
      <4>1. CASE i = n
        BY <4>1, <1>6, <1>7, <2>5
      <4>2. CASE i # n
        <5>1. x \in Waiting(plans[n]) => i = n
          BY <1>2, <3>1 DEF GInv, WaitingApart, n
        <5> QED BY <4>2, <5>1, <1>4
      <4> QED BY <4>1, <4>2
    <3> QED BY <1>8, <1>9, <2>3, <3>2, <3>3 DEF Tracked
  <2> QED BY <2>1, <2>2, <2>4, <2>5
<1>16. \A x \in sweepPlain' : x \notin ToSet(pinned')
  BY <1>9 DEF GInv, PlainApart
<1>17. GInv'
  BY <1>6, <1>8, <1>9, <1>10, <1>12, <1>15, <1>16, StepKeeps
<1> QED BY <1>9, <1>14, <1>17 DEF t

LEMMA TablesFinite == \A S : S \subseteq Tables => Cardinality(S) \in Nat
<1>1. IsFiniteSet(Objects) /\ Tables \subseteq Objects
  BY ObjectsAssumption DEF Objects
<1> QED BY <1>1, FS_Subset, FS_CardinalityType

(* What a slice changes in the heap: the headers of what it clears, and    *)
(* what refcounting then frees.  It clears no pinned table.                *)
LEMMA SliceInHeap ==
  ASSUME HeapType, Once(pinned), hasWeak' \in BOOLEAN,
         NEW plain \in SUBSET Tables, NEW chosen \in SUBSET plain,
         NEW weak \in SUBSET Tables, NEW dead \in SUBSET Tables, NEW count \in Nat,
         Slice(plain, chosen, weak, dead, count),
         \A t \in plain : t \notin ToSet(pinned)
  PROVE  /\ HeapType' /\ Once(pinned') /\ ToSet(pinned') = ToSet(pinned)
         /\ sweepPlain' = plain \ chosen /\ ran' = ran
         /\ \A t \in Tables : t \notin chosen /\ t \in Held' /\ Tracked(t) => Tracked(t)'
<1> USE DEF program
<1> DEFINE gone  == Gone(weak, dead, chosen)
           clear == [o \in Objects |-> IF o \in chosen THEN {} ELSE refs[o]]
           swept == [t \in Tables |-> IF t \in chosen THEN "none" ELSE header[t]]
           white == [t \in Tables |-> IF swept[t] = "black" THEN "white" ELSE swept[t]]
           prune == [o \in Objects |-> IF o \in weak THEN clear[o] \ gone ELSE clear[o]]
<1>1. gone \in SUBSET Tables
  BY DEF Gone
<1>2. /\ sweepPlain' = plain \ chosen
      /\ sweeping' = (plain \ chosen # {})
      /\ bytes' = Minus(count, Cardinality({t \in chosen : Tracked(t)}))
      /\ pinned' = Among(pinned, Tables \ chosen)
      /\ UNCHANGED <<visible, aside, ran>>
      /\ \/ doomed' = gone /\ sweepWeak' = weak /\ UNCHANGED state /\ Counting(clear, swept)
         \/ doomed' = {} /\ sweepWeak' = {} /\ state' = "pause" /\ Counting(prune, white)
  BY DEF Slice
<1>3. /\ clear \in [Objects -> SUBSET Objects] /\ swept \in [Tables -> Headers]
      /\ \A t \in Tables : t \notin chosen => swept[t] = header[t]
  BY DEF HeapType, Headers
<1>4. /\ white \in [Tables -> Headers]
      /\ \A t \in Tables : swept[t] \in Colours => white[t] \in Colours
  <2> HIDE DEF swept
  <2>1. "white" \in Headers /\ "white" \in Colours
    BY DEF Headers, Colours
  <2> QED BY <1>3, <2>1
<1>5. prune \in [Objects -> SUBSET Objects]
  <2> HIDE DEF clear
  <2> QED BY <1>3
<1> HIDE DEF gone, clear, swept, white, prune
<1>6. PICK rf \in [Objects -> SUBSET Objects], hd \in [Tables -> Headers] :
        /\ Counting(rf, hd)
        /\ \A t \in Tables : t \notin chosen /\ Tracked(t) => hd[t] \in Colours
  <2>1. \A t \in Tables : t \notin chosen /\ Tracked(t) =>
          swept[t] \in Colours /\ white[t] \in Colours
    BY <1>3, <1>4 DEF Tracked
  <2> QED BY <1>2, <1>3, <1>4, <1>5, <2>1
<1>7. /\ refs' \in [Objects -> SUBSET Objects]
      /\ header' \in [Tables -> Headers]
      /\ kind' \in [Tables -> Kinds]
      /\ \A t \in Tables : t \in Held' => header'[t] = hd[t]
  BY <1>6, CountingKeeps DEF HeapType
<1>8. bytes' \in Nat
  <2>1. Cardinality({t \in chosen : Tracked(t)}) \in Nat
    BY TablesFinite
  <2> QED BY <1>2, <2>1, MinusType
<1>9. /\ pinned' \in Seq(Tables) /\ Once(pinned')
      /\ ToSet(pinned') = ToSet(pinned) \cap (Tables \ chosen)
  BY <1>2, AmongElements DEF HeapType
<1>10. ToSet(pinned) \subseteq Tables
  BY DEF HeapType, ToSet
<1>11. ToSet(pinned') = ToSet(pinned)
  BY <1>9, <1>10
<1>12. HeapType'
  <2>1. sweeping' \in BOOLEAN /\ state' \in {"pause", "sweep"}
    BY <1>2 DEF HeapType
  <2>2. doomed' \subseteq Tables /\ sweepWeak' \subseteq Tables /\ sweepPlain' \subseteq Tables
    BY <1>1, <1>2
  <2>3. visible' \subseteq Objects /\ aside' \subseteq Objects /\ ran' \subseteq Tables
    BY <1>2 DEF HeapType
  <2> QED BY <1>7, <1>8, <1>9, <2>1, <2>2, <2>3 DEF HeapType
<1> QED BY <1>2, <1>6, <1>7, <1>9, <1>11, <1>12 DEF Tracked

(* A slice keeps the invariant if none of the collections that go on wants *)
(* what it may clear.                                                      *)
LEMMA SliceKeeps ==
  ASSUME GInv, hasWeak' \in BOOLEAN, Nesting',
         NEW plain \in SUBSET Tables, NEW chosen \in SUBSET plain,
         NEW weak \in SUBSET Tables, NEW dead \in SUBSET Tables, NEW count \in Nat,
         Slice(plain, chosen, weak, dead, count),
         \A t \in plain : t \notin ToSet(pinned),
         \A i \in 1..Len(plans') :
           \/ /\ i \in 1..Len(plans) /\ plans'[i] = plans[i]
              /\ plans[i].plain \cap plain = {}
           \/ i = Len(plans') /\ plans'[i] \in Pending,
         \A i \in 1..Len(plans) :
           plans[i].stage = "run" => i \in 1..Len(plans') /\ plans'[i] = plans[i]
  PROVE  GInv' /\ ToSet(pinned') = ToSet(pinned)
<1>1. /\ HeapType' /\ Once(pinned') /\ ToSet(pinned') = ToSet(pinned)
      /\ sweepPlain' = plain \ chosen /\ ran' = ran
      /\ \A t \in Tables : t \notin chosen /\ t \in Held' /\ Tracked(t) => Tracked(t)'
  BY SliceInHeap DEF GInv, NoneTwice
<1>2. RanUnpinned'
  <2> SUFFICES ASSUME NEW t \in ToSet(pinned), t \in ran
               PROVE  \E i \in 1..Len(plans') :
                        /\ plans'[i].stage = "run"
                        /\ plans'[i].queue[plans'[i].next] = t
    BY <1>1 DEF RanUnpinned
  <2>1. PICK i \in 1..Len(plans) :
          plans[i].stage = "run" /\ plans[i].queue[plans[i].next] = t
    BY DEF GInv, RanUnpinned
  <2> QED BY <2>1
<1>3. \A t \in sweepPlain' : t \notin ToSet(pinned')
  BY <1>1
<1>4. ASSUME NEW i \in 1..Len(plans')
      PROVE  /\ OldOrNew(i) /\ Once(plans'[i].queue)
             /\ \A t \in plans'[i].plain :
                  Tracked(t)' /\ t \notin ToSet(pinned') /\ t \notin sweepPlain'
             /\ \A t \in Waiting(plans'[i]) : Tracked(t)' /\ t \in ToSet(pinned')
  <2>1. CASE i = Len(plans') /\ plans'[i] \in Pending
    <3>1. /\ plans'[i].plain = {} /\ plans'[i].queue = << >>
          /\ plans'[i].stage = "plan"
      BY <2>1 DEF Pending
    <3>2. Waiting(plans'[i]) = {}
      BY <3>1 DEF Waiting
    <3> QED BY <2>1, <3>1, <3>2 DEF OldOrNew, Once
  <2>2. CASE /\ i \in 1..Len(plans) /\ plans'[i] = plans[i]
             /\ plans[i].plain \cap plain = {}
    <3>1. \A t : t \in plans[i].plain \/ t \in Waiting(plans[i])
                   => t \in Tables /\ t \in Held'
      BY <2>2, PlannedIsHeldAfter
    <3>2. \A t \in plans[i].plain : Tracked(t) /\ t \notin ToSet(pinned) /\ t \notin plain
      BY <2>2 DEF GInv, PlainApart
    <3>3. \A t \in Waiting(plans[i]) : Tracked(t) /\ t \in ToSet(pinned)
      BY <2>2 DEF GInv, WaitingApart
    <3>4. OldOrNew(i) /\ Once(plans'[i].queue)
      BY <2>2 DEF OldOrNew, GInv, NoneTwice
    <3> QED BY <1>1, <2>2, <3>1, <3>2, <3>3, <3>4
  <2> QED BY <2>1, <2>2
<1> QED BY <1>1, <1>2, <1>3, <1>4, StepKeeps

LEMMA BudgetOf ==
  ASSUME NEW plain \in SUBSET Tables, NEW chosen \in InBudget(plain)
  PROVE  chosen \in SUBSET plain
BY DEF InBudget

(* No collection wants what the staged sweep is to clear.                  *)
LEMMA StagedApart ==
  ASSUME GInv
  PROVE  /\ sweepPlain \in SUBSET Tables /\ sweepWeak \in SUBSET Tables
         /\ doomed \in SUBSET Tables /\ bytes \in Nat /\ hasWeak \in BOOLEAN
         /\ \A t \in sweepPlain : t \notin ToSet(pinned)
         /\ \A i \in 1..Len(plans) : plans[i].plain \cap sweepPlain = {}
BY DEF GInv, HeapType, PlainApart

LEMMA AutoSliceKeeps ==
  ASSUME GInv, AutoSlice
  PROVE  GInv' /\ ToSet(pinned') = ToSet(pinned)
<1>1. PICK chosen \in InBudget(sweepPlain) :
        Slice(sweepPlain, chosen, sweepWeak, doomed, bytes)
  BY DEF AutoSlice, SliceStaged
<1>2. UNCHANGED <<hasWeak, plans>>
  BY DEF AutoSlice
<1>3. Nesting'
  BY <1>2 DEF GInv, Nesting
<1>4. chosen \in SUBSET sweepPlain
  BY BudgetOf, StagedApart
<1> QED BY <1>1, <1>2, <1>3, <1>4, StagedApart, SliceKeeps

LEMMA DrainStagedKeeps ==
  ASSUME GInv, DrainStaged
  PROVE  GInv' /\ ToSet(pinned') = ToSet(pinned)
<1> DEFINE p == [stage |-> "plan", plain |-> {}, queue |-> << >>]
<1>1. /\ Slice(sweepPlain, sweepPlain, sweepWeak, doomed, bytes)
      /\ UNCHANGED hasWeak /\ plans' = Append(plans, p)
      /\ plans # << >> => Top.stage = "run"
  BY DEF DrainStaged, SliceStaged, Runs
<1>2. p \in Pending /\ p.stage = "plan"
  BY DEF Pending
<1> HIDE DEF p
<1>3. /\ plans' \in Seq(Pending \cup Planned) /\ Len(plans') = Len(plans) + 1
      /\ plans'[Len(plans) + 1] = p
      /\ \A i \in 1..Len(plans) : plans'[i] = plans[i]
      /\ plans \in Seq(Pending \cup Planned) /\ Len(plans) \in Nat
  BY <1>1, <1>2, LastAdded DEF GInv, Nesting
<1>4. plans # << >> => Top = plans[Len(plans)] /\ Len(plans) \in 1..Len(plans)
  BY TopIsPlan DEF GInv
<1>5. \A i \in 1..(Len(plans) + 1) : i \in 1..Len(plans) \/ i = Len(plans) + 1
  BY <1>3
<1>6. \A i \in 1..Len(plans) : plans[i].stage = "run"
  <2> SUFFICES ASSUME NEW i \in 1..Len(plans) PROVE plans[i].stage = "run"
    OBVIOUS
  <2>1. plans # << >>
    BY <1>3
  <2>2. i < Len(plans) \/ i = Len(plans)
    BY <1>3
  <2> QED BY <1>1, <1>4, <2>1, <2>2 DEF GInv, Nesting
<1>7. Nesting'
  <2>1. \A i \in 1..(Len(plans) + 1) : i < Len(plans) + 1 => i \in 1..Len(plans)
    BY <1>3
  <2> QED BY <1>2, <1>3, <1>5, <1>6, <2>1 DEF GInv, Nesting
<1>8. \A i \in 1..Len(plans') :
        \/ i \in 1..Len(plans) /\ plans'[i] = plans[i] /\ plans[i].plain \cap sweepPlain = {}
        \/ i = Len(plans') /\ plans'[i] \in Pending
  BY <1>2, <1>3, <1>5, StagedApart
<1>9. \A i \in 1..Len(plans) : i \in 1..Len(plans')
  BY <1>3
<1> QED BY <1>1, <1>3, <1>7, <1>8, <1>9, StagedApart, SliceKeeps

LEMMA SweepKeeps ==
  ASSUME GInv, Sweep
  PROVE  GInv' /\ ToSet(pinned') = ToSet(pinned)
<1> DEFINE weak == {t \in With("black") : hasWeak /\ kind[t] = "weak"}
           n    == Len(plans)
<1>1. /\ plans # << >> /\ Top.stage = "settle"
      /\ plans' = Front(plans) /\ hasWeak' = (weak # {})
  BY DEF Sweep
<1>2. PICK chosen \in {Top.plain} \cup InBudget(Top.plain) :
        Slice(Top.plain, chosen, weak, Top.cleared, Minus(bytes, Top.dropped))
  BY DEF Sweep
<1>3. /\ n \in Nat \ {0} /\ n \in 1..n /\ Top = plans[n] /\ Top \in Planned
      /\ Top.plain \in SUBSET Tables /\ Top.cleared \in SUBSET Tables
      /\ Top.dropped \in Nat
  BY <1>1, TopIsPlan, PlanFields DEF GInv
<1>4. /\ plans' \in Seq(Pending \cup Planned) /\ Len(plans') = n - 1
      /\ \A i \in 1..Len(plans') : plans'[i] = plans[i]
  BY <1>1, LastDropped DEF GInv, Nesting
<1>5. chosen \in SUBSET Top.plain
  BY <1>3, BudgetOf
<1>6. weak \in SUBSET Tables
  BY DEF With
<1>7. Minus(bytes, Top.dropped) \in Nat
  BY <1>3, MinusType DEF GInv, HeapType
<1> HIDE DEF weak, n
<1>8. \A i \in 1..(n - 1) : i \in 1..n /\ i < n
  BY <1>3
<1>9. Nesting'
  BY <1>4, <1>8 DEF GInv, Nesting, n
<1>10. \A t \in Top.plain : t \notin ToSet(pinned)
  BY <1>3 DEF GInv, PlainApart, n
<1>11. \A i \in 1..(n - 1) : plans[i].plain \cap Top.plain = {}
  <2> SUFFICES ASSUME NEW i \in 1..(n - 1), NEW t \in plans[i].plain, t \in Top.plain
               PROVE  FALSE
    OBVIOUS
  <2>1. i = n
    BY <1>3, <1>8 DEF GInv, PlainApart, n
  <2> QED BY <1>3, <1>8, <2>1
<1>12. ASSUME NEW i \in 1..n, plans[i].stage = "run"
       PROVE  i \in 1..(n - 1)
  <2>1. i # n
    BY <1>1, <1>3, <1>12
  <2> QED BY <1>3, <2>1
<1>13. hasWeak' \in BOOLEAN
  BY <1>1
<1>14. /\ \A i \in 1..Len(plans') :
            i \in 1..Len(plans) /\ plans'[i] = plans[i] /\ plans[i].plain \cap Top.plain = {}
       /\ \A i \in 1..Len(plans) :
            plans[i].stage = "run" => i \in 1..Len(plans') /\ plans'[i] = plans[i]
  BY <1>4, <1>8, <1>11, <1>12 DEF n
<1> QED BY <1>2, <1>3, <1>5, <1>6, <1>7, <1>9, <1>10, <1>13, <1>14, SliceKeeps

(* What a collection condemns was white, and nobody holds it.              *)
LEMMA CondemnedFree ==
  ASSUME NEW internal,
         NEW t \in (Whites \ Marked) \ Spared(Whites \ Marked, internal)
  PROVE  /\ t \in Whites /\ t \notin sweepPlain
         /\ \A i \in DOMAIN plans : t \notin PlanHolds(plans[i])
<1>1. t \in Whites \ Marked /\ ~HeldOutside(t)
  BY DEF Spared
<1> QED BY <1>1 DEF HeldOutside

(* A collection plans: it follows those in `outer`, which wait for it.     *)
LEMMA PlanKeeps ==
  ASSUME GInv, NEW outer \in Seq(Pending \cup Planned), Plan(outer),
         \A i \in 1..Len(outer) :
           i \in 1..Len(plans) /\ outer[i] = plans[i] /\ outer[i].stage = "run",
         \A i \in 1..Len(plans) : plans[i].stage = "run" => i \in 1..Len(outer)
  PROVE  GInv' /\ pinned' = pinned
<1> USE DEF program, staged
<1> DEFINE weak      == hasWeak \/ \E t \in Marked : kind[t] = "weak"
           white     == Whites \ Marked
           internal  == InternalHolders(white, weak)
           condemned == white \ Spared(white, internal)
           queue     == Queue(condemned)
           black     == Marked \cup ToSet(queue)
           counts    == [t \in ToSet(queue) |-> Cardinality({o \in internal : t \in refs[o]})]
           dead      == Cardinality(With("dead"))
           p         == [stage |-> "settle", plain |-> condemned \ ToSet(queue),
                         queue |-> queue, next |-> 1, internal |-> counts,
                         dropped |-> dead, cleared |-> {}]
           n         == Len(outer) + 1
<1>1. /\ plans' = Append(outer, p)
      /\ header' = [t \in Tables |->
                      CASE t \in black            -> "black"
                        [] t \in Whites \ black   -> "white"
                        [] header[t] = "dead"     -> "none"
                        [] OTHER                  -> header[t]]
      /\ hasWeak' = weak /\ state' = "sweep"
      /\ UNCHANGED <<kind, refs, visible, aside, pinned, bytes, sweeping, sweepPlain,
                     sweepWeak, doomed, ran>>
  BY DEF Plan
<1>2. Whites \subseteq Tables /\ Marked \subseteq Whites
  BY DEF Whites, With, Marked
<1>3. condemned \subseteq Whites
  OBVIOUS
<1>4. \A t \in condemned : /\ t \notin sweepPlain
                           /\ \A i \in DOMAIN plans : t \notin PlanHolds(plans[i])
  BY CondemnedFree
<1>5. internal \subseteq Tables
  BY <1>2 DEF InternalHolders, With
<1>6. weak \in BOOLEAN
  BY DEF GInv, HeapType
<1> HIDE DEF weak, white, internal, condemned
<1>7. /\ queue \in Seq(Tables) /\ Once(queue)
      /\ ToSet(queue) = ToSet(pinned) \cap condemned
  BY AmongElements DEF Queue, GInv, HeapType, NoneTwice
<1> HIDE DEF queue
<1>8. ToSet(queue) \subseteq Tables /\ black \subseteq Whites
  BY <1>2, <1>3, <1>7
<1>9. counts \in Counts
  <2>1. \A t : Cardinality({o \in internal : t \in refs[o]}) \in Nat
    BY <1>5, TablesFinite
  <2>2. counts \in [ToSet(queue) -> Nat]
    BY <2>1
  <2>3. ToSet(queue) \in SUBSET Tables
    BY <1>8
  <2> HIDE DEF counts
  <2> QED BY <2>2, <2>3 DEF Counts
<1>10. dead \in Nat
  BY TablesFinite DEF With
<1>11. /\ p.stage = "settle" /\ p.plain = condemned \ ToSet(queue)
       /\ p.queue = queue /\ p.next = 1
  OBVIOUS
<1>12. p \in Planned
  <2>1. condemned \ ToSet(queue) \in SUBSET Tables
    BY <1>2, <1>3
  <2> HIDE DEF counts, dead
  <2> QED BY <1>7, <1>9, <1>10, <2>1 DEF Planned
<1> HIDE DEF counts, dead, p
<1>13. /\ plans' \in Seq(Pending \cup Planned) /\ Len(plans') = n /\ plans'[n] = p
       /\ \A i \in 1..Len(outer) : plans'[i] = outer[i]
       /\ Len(outer) \in Nat
       /\ \A i \in 1..n : i \in 1..Len(outer) \/ i = n
       /\ \A i \in 1..n : i < n => i \in 1..Len(outer)
       /\ \A i \in 1..Len(outer) : i \in 1..n
  <2>1. Len(outer) \in Nat
    OBVIOUS
  <2>2. /\ Append(outer, p) \in Seq(Pending \cup Planned)
        /\ Len(Append(outer, p)) = n /\ Append(outer, p)[n] = p
        /\ \A i \in 1..Len(outer) : Append(outer, p)[i] = outer[i]
    BY <1>12, LastAdded
  <2>3. /\ \A i \in 1..n : i \in 1..Len(outer) \/ i = n
        /\ \A i \in 1..n : i < n => i \in 1..Len(outer)
        /\ \A i \in 1..Len(outer) : i \in 1..n
    BY <2>1
  <2> QED BY <1>1, <2>1, <2>2, <2>3
<1> HIDE DEF n
<1>14. Waiting(p) \subseteq ToSet(queue)
  <2>1. \A k \in 1..Len(queue) : k \in DOMAIN queue
    BY <1>7
  <2> QED BY <1>11, <2>1 DEF Waiting, ToSet
<1>15. /\ header' \in [Tables -> Headers]
       /\ \A t \in Tables : Tracked(t) => Tracked(t)'
       /\ \A t \in Whites : Tracked(t)'
  <2>1. ASSUME NEW t \in Tables
        PROVE  \/ header'[t] \in Colours
               \/ /\ t \notin Whites /\ header'[t] \in Headers
                  /\ header[t] = "dead" \/ header'[t] = header[t]
    <3> HIDE DEF black
    <3>0. {"black", "white"} \subseteq Colours /\ "none" \in Headers
      BY DEF Headers, Colours
    <3>1. CASE t \in black
      <4>1. t \notin Whites \ black
        BY <3>1
      <4>2. header[t] # "dead"
        BY <1>8, <3>1 DEF Whites, With
      <4>3. header'[t] = "black"
        BY <1>1, <3>1, <4>1, <4>2
      <4> QED BY <3>0, <4>3
    <3>2. CASE t \in Whites \ black
      <4>1. header[t] # "dead"
        BY <3>2 DEF Whites, With
      <4>2. header'[t] = "white"
        BY <1>1, <3>2, <4>1
      <4> QED BY <3>0, <4>2
    <3>a. t \notin Whites => t \notin black /\ t \notin Whites \ black
      BY <1>8
    <3>3. CASE t \notin Whites /\ header[t] = "dead"
      <4>1. header'[t] = "none"
        BY <1>1, <3>a, <3>3
      <4> QED BY <3>0, <3>3, <4>1
    <3>4. CASE t \notin Whites /\ header[t] # "dead"
      <4>1. header'[t] = header[t]
        BY <1>1, <3>a, <3>4
      <4>2. header[t] \in Headers
        BY DEF GInv, HeapType
      <4> QED BY <3>4, <4>1, <4>2
    <3> QED BY <1>8, <3>1, <3>2, <3>3, <3>4
  <2>2. "dead" \notin Colours /\ Colours \subseteq Headers
    BY DEF Headers, Colours
  <2>3. header' = [t \in Tables |-> header'[t]]
    BY <1>1
  <2> QED BY <1>2, <2>1, <2>2, <2>3 DEF Tracked
<1>16. HeapType'
  BY <1>1, <1>6, <1>15 DEF GInv, HeapType
<1>17. Nesting'
  BY <1>11, <1>13 DEF GInv, Nesting
<1>18. RanUnpinned'
  <2> SUFFICES ASSUME NEW t \in ToSet(pinned), t \in ran
               PROVE  \E i \in 1..n : /\ plans'[i].stage = "run"
                                      /\ plans'[i].queue[plans'[i].next] = t
    BY <1>1, <1>13 DEF RanUnpinned
  <2>1. PICK i \in 1..Len(plans) :
          plans[i].stage = "run" /\ plans[i].queue[plans[i].next] = t
    BY DEF GInv, RanUnpinned
  <2> QED BY <1>13, <2>1
<1>19. ASSUME NEW i \in 1..n
       PROVE  /\ OldOrNew(i) /\ Once(plans'[i].queue)
              /\ \A t \in plans'[i].plain :
                   Tracked(t)' /\ t \notin ToSet(pinned') /\ t \notin sweepPlain'
              /\ \A t \in Waiting(plans'[i]) : Tracked(t)' /\ t \in ToSet(pinned')
  <2>1. CASE i \in 1..Len(outer)
    <3>1. i \in 1..Len(plans) /\ plans'[i] = plans[i]
      BY <1>13, <2>1
    <3>2. \A t : t \in plans[i].plain \/ t \in Waiting(plans[i]) => t \in Tables
      BY <3>1, PlannedIsHeld DEF GInv
    <3>3. \A t \in plans[i].plain : Tracked(t) /\ t \notin ToSet(pinned) /\ t \notin sweepPlain
      BY <3>1 DEF GInv, PlainApart
    <3>4. \A t \in Waiting(plans[i]) : Tracked(t) /\ t \in ToSet(pinned)
      BY <3>1 DEF GInv, WaitingApart
    <3>5. OldOrNew(i) /\ Once(plans'[i].queue)
      BY <3>1 DEF OldOrNew, GInv, NoneTwice
    <3> QED BY <1>1, <1>15, <3>1, <3>2, <3>3, <3>4, <3>5
  <2>2. CASE i = n
    <3>1. plans'[i] = p
      BY <1>13, <2>2
    <3>2. \A t \in p.plain : t \in condemned /\ t \notin ToSet(pinned)
      BY <1>7, <1>11
    <3>3. \A t \in Waiting(p) : t \in condemned /\ t \in ToSet(pinned)
      BY <1>7, <1>14
    <3>4. ASSUME NEW j \in 1..Len(plans), NEW t \in condemned
          PROVE  t \notin plans[j].plain /\ t \notin Waiting(plans[j])
      <4>1. j \in DOMAIN plans
        BY DEF GInv, Nesting
      <4> QED BY <1>4, <4>1, PlannedIsHeld DEF GInv
    <3>5. OldOrNew(i)
      BY <1>13, <2>2, <3>1, <3>2, <3>3, <3>4 DEF OldOrNew
    <3> QED BY <1>1, <1>3, <1>4, <1>7, <1>11, <1>15, <3>1, <3>2, <3>3, <3>5
  <2> QED BY <1>13, <2>1, <2>2
<1>20. Once(pinned') /\ \A t \in sweepPlain' : t \notin ToSet(pinned')
  BY <1>1 DEF GInv, NoneTwice, PlainApart
<1> QED BY <1>1, <1>13, <1>16, <1>17, <1>18, <1>19, <1>20, StepKeeps

LEMMA CollectKeeps ==
  ASSUME GInv, Collect
  PROVE  GInv' /\ pinned' = pinned
<1>0. plans \in Seq(Pending \cup Planned) /\ Len(plans) \in Nat
  BY DEF GInv, Nesting
<1>1. CASE plans # << >> /\ Top.stage = "plan" /\ Plan(Front(plans))
  <2> DEFINE n == Len(plans)
             outer == Front(plans)
  <2>1. n \in Nat \ {0} /\ n \in 1..n /\ Top = plans[n]
    BY <1>1, TopIsPlan DEF GInv
  <2>2. /\ outer \in Seq(Pending \cup Planned) /\ Len(outer) = n - 1
        /\ \A i \in 1..Len(outer) : outer[i] = plans[i]
    BY <1>0, <1>1, LastDropped
  <2> HIDE DEF n, outer
  <2>3. \A i \in 1..(n - 1) : i \in 1..n /\ i < n
    BY <2>1
  <2>4. \A i \in 1..Len(outer) :
          i \in 1..Len(plans) /\ outer[i] = plans[i] /\ outer[i].stage = "run"
    BY <2>2, <2>3 DEF GInv, Nesting, n
  <2>5. ASSUME NEW i \in 1..Len(plans), plans[i].stage = "run"
        PROVE  i \in 1..Len(outer)
    <3>1. i # n
      BY <1>1, <2>1, <2>5
    <3> QED BY <2>1, <2>2, <3>1 DEF n
  <2>6. Plan(outer)
    BY <1>1 DEF outer
  <2> QED BY <2>2, <2>4, <2>5, <2>6, PlanKeeps
<1>2. CASE Runs /\ ~sweeping /\ Nested /\ Plan(plans)
  <2>1. \A i \in 1..Len(plans) : plans[i].stage = "run"
    <3> SUFFICES ASSUME NEW i \in 1..Len(plans) PROVE plans[i].stage = "run"
      OBVIOUS
    <3>1. plans # << >> /\ (i < Len(plans) \/ i = Len(plans))
      BY <1>0
    <3>2. Top = plans[Len(plans)] /\ Top.stage = "run"
      BY <1>2, <3>1, TopIsPlan DEF GInv, Runs
    <3> QED BY <3>1, <3>2 DEF GInv, Nesting
  <2> QED BY <1>0, <1>2, <2>1, PlanKeeps
<1> QED BY <1>1, <1>2 DEF Collect

-----------------------------------------------------------------------------
(***************************************************************************)
(* The first state, every step, and what steps do to pins and plans.       *)
(***************************************************************************)

LEMMA InitGInv == Init => GInv
<1> SUFFICES ASSUME Init PROVE GInv
  OBVIOUS
<1>1. plans = << >> /\ pinned = << >> /\ sweepPlain = {}
  BY DEF Init
<1>2. << >> \in Seq(Pending \cup Planned) /\ << >> \in Seq(Tables) /\ Len(<< >>) = 0
      /\ 1..0 = {} /\ DOMAIN << >> = {}
  OBVIOUS
<1>3. HeapType
  BY <1>1, <1>2 DEF Init, HeapType, Headers, Kinds
<1>4. Nesting /\ NoneTwice /\ WaitingApart /\ PlainApart
  BY <1>1, <1>2 DEF Nesting, NoneTwice, Once, WaitingApart, PlainApart
<1>5. RanUnpinned
  BY <1>1, <1>2 DEF RanUnpinned, ToSet
<1> QED BY <1>3, <1>4, <1>5 DEF GInv

(* The program keeps the invariant; only the tracker takes pins off.       *)
LEMMA ProgramKeeps ==
  ASSUME GInv, Program
  PROVE  GInv' /\ ToSet(pinned) \subseteq ToSet(pinned') /\ plans' = plans
<1>1. CASE \E birth \in Births : NewTable(birth[1], birth[2])
  <2>1. PICK birth \in Births : NewTable(birth[1], birth[2])
    BY <1>1
  <2>2. birth[1] \in Tables /\ birth[2] \in Kinds
    BY BirthsAssumption DEF Kinds
  <2>3. GInv'
    BY <2>1, <2>2, NewTableKeeps
  <2>4. birth[1] \notin ToSet(pinned)
    <3>1. birth[1] \notin Held
      BY <2>1 DEF NewTable, MayMake, InMemory
    <3> QED BY <3>1, HeldThings
  <2>5. /\ plans' = plans
        /\ pinned' = pinned \/ pinned' = <<birth[1]>> \o pinned
    BY <2>1 DEF NewTable
  <2>6. ToSet(pinned) \subseteq ToSet(pinned')
    BY <2>2, <2>4, <2>5, PinnedInFront DEF GInv, HeapType, NoneTwice
  <2> QED BY <2>3, <2>5, <2>6
<1>2. CASE UseArgument \/ Resume
  BY <1>2, StackKeeps
<1>3. CASE \E p \in visible, o \in Objects :
             \/ \E c \in Closures : NewClosure(c, p)
             \/ Store(p, o) \/ Erase(p, o) \/ Load(p, o) \/ Forget(p) \/ Suspend(p)
  BY <1>3, ObjectsKeep
<1>4. visible \subseteq Objects
  BY DEF GInv, HeapType
<1> QED BY <1>1, <1>2, <1>3, <1>4 DEF Program

(* What each step may do to pins and finalizers.                           *)
TakesPinRightly ==
  \A t \in ToSet(pinned) \ ToSet(pinned') :
    plans # << >> /\ Top.stage = "run" /\ Top.queue[Top.next] = t
StartsOnce ==
  plans' # << >> /\ Top'.stage = "run" /\ Len(plans') = Len(plans) /\ Top.stage = "settle"
    => Top.queue[Top.next] \notin ran

LEMMA StepRight ==
  ASSUME GInv, [Next]_vars
  PROVE  GInv' /\ TakesPinRightly /\ StartsOnce
<1> USE DEF vars, program, staged, tracker, tables
<1>0. plans \in Seq(Pending \cup Planned) /\ Len(plans) \in Nat
  BY DEF GInv, Nesting
<1>a. plans' = plans => StartsOnce
  BY DEF StartsOnce, Top
<1>b. Len(plans') # Len(plans) => StartsOnce
  BY DEF StartsOnce
<1>1. CASE Program
  BY <1>1, <1>a, ProgramKeeps DEF TakesPinRightly
<1>2. CASE Collect
  <2>1. GInv' /\ TakesPinRightly
    BY <1>2, CollectKeeps DEF TakesPinRightly
  <2>2. CASE plans # << >> /\ Top.stage = "plan"
    BY <2>1, <2>2 DEF StartsOnce
  <2>3. CASE Plan(plans)
    <3>1. PICK p : plans' = Append(plans, p)
      BY <2>3 DEF Plan
    <3>2. Len(plans') = Len(plans) + 1
      BY <1>0, <3>1
    <3> QED BY <1>0, <1>b, <2>1, <3>2
  <2> QED BY <1>2, <2>2, <2>3 DEF Collect
<1>3. CASE DrainStaged
  <2>1. PICK p : plans' = Append(plans, p)
    BY <1>3 DEF DrainStaged
  <2>2. Len(plans') = Len(plans) + 1
    BY <1>0, <2>1
  <2> QED BY <1>0, <1>3, <1>b, <2>2, DrainStagedKeeps DEF TakesPinRightly
<1>4. CASE AutoSlice
  BY <1>4, <1>a, AutoSliceKeeps DEF AutoSlice, TakesPinRightly
<1>5. CASE StartFinalizer
  BY <1>5, StartFinalizerKeeps DEF StartFinalizer, TakesPinRightly, StartsOnce
<1>6. CASE \E ok \in BOOLEAN : FinalizerEnds(ok)
  <2>1. GInv' /\ ToSet(pinned) \ ToSet(pinned') \subseteq {Top.queue[Top.next]}
    BY <1>6, FinalizerEndsKeeps
  <2>2. plans # << >> /\ Top.stage = "run"
    BY <1>6 DEF FinalizerEnds, Runs
  <2> QED BY <2>1, <2>2 DEF TakesPinRightly, StartsOnce
<1>7. CASE Sweep
  <2>1. plans # << >> /\ plans' = Front(plans)
    BY <1>7 DEF Sweep
  <2>2. Len(plans') = Len(plans) - 1
    BY <1>0, <2>1, LastDropped
  <2> QED BY <1>0, <1>7, <1>b, <2>2, SweepKeeps DEF TakesPinRightly
<1>8. CASE UNCHANGED vars
  <2>1. HeapType' /\ UNCHANGED <<pinned, sweepPlain, plans, ran, header>>
    BY <1>8 DEF GInv, HeapType
  <2>2. GInv'
    BY <2>1, QuietKeeps DEF Tracked
  <2> QED BY <2>1, <2>2, <1>a DEF TakesPinRightly
<1> QED BY <1>1, <1>2, <1>3, <1>4, <1>5, <1>6, <1>7, <1>8 DEF Next, Collector

-----------------------------------------------------------------------------
(***************************************************************************)
(* What a function computes again and again, and the closure that Reach is.*)
(***************************************************************************)

(* The values that F computes from a, again and again.                     *)
Iterating(r, U, F, a) ==
  r \in [Nat -> U] /\ r[0] = a /\ \A n \in Nat : r[n + 1] = F[r[n]]

(* What a function computes from a value, again and again, is a sequence.  *)
LEMMA Iterates ==
  ASSUME NEW U, NEW F \in [U -> U], NEW a \in U
  PROVE  \E r : Iterating(r, U, F, a)
<1> DEFINE Partial(n) ==
      {g \in [0..n -> U] : g[0] = a /\ \A k \in 0..n : k < n => g[k + 1] = F[g[k]]}
<1>1. \A n \in Nat : Partial(n) # {}
  <2> DEFINE T == {n \in Nat : Partial(n) = {}}
  <2> SUFFICES ASSUME T # {} PROVE FALSE
    OBVIOUS
  <2>1. PICK x \in T : \A y \in T : x <= y
    BY LeastNumber
  <2>2. CASE x = 0
    <3>1. [k \in 0..0 |-> a] \in Partial(0)
      OBVIOUS
    <3> QED BY <2>1, <2>2, <3>1
  <2>3. CASE x # 0
    <3>1. x \in Nat /\ x - 1 \in Nat /\ x - 1 \notin T
      <4> HIDE DEF Partial
      <4>1. x \in Nat
        BY <2>1
      <4>2. x - 1 \in Nat /\ ~ (x <= x - 1)
        BY <2>3, <4>1
      <4> QED BY <2>1, <4>1, <4>2
    <3>2. PICK g : g \in Partial(x - 1)
      BY <3>1
    <3> DEFINE h == [k \in 0..x |-> IF k = x THEN F[g[x - 1]] ELSE g[k]]
    <3>3. g \in [0..(x - 1) -> U] /\ g[0] = a
          /\ \A k \in 0..(x - 1) : k < x - 1 => g[k + 1] = F[g[k]]
      BY <3>2
    <3>4. F[g[x - 1]] \in U
      BY <3>1, <3>3
    <3>5. h \in [0..x -> U] /\ h[0] = a
      BY <2>3, <3>1, <3>3, <3>4
    <3>6. ASSUME NEW k \in 0..x, k < x PROVE h[k + 1] = F[h[k]]
      BY <3>1, <3>3, <3>6
    <3>7. h \in Partial(x)
      BY <3>5, <3>6
    <3> QED BY <2>1, <3>7
  <2> QED BY <2>2, <2>3
<1>2. ASSUME NEW m \in Nat, NEW n \in Nat, m <= n, NEW g \in Partial(m), NEW h \in Partial(n),
             NEW k \in 0..m
      PROVE  g[k] = h[k]
  <2> DEFINE T == {j \in 0..m : g[j] # h[j]}
  <2> SUFFICES ASSUME T # {} PROVE FALSE
    OBVIOUS
  <2>0. T \subseteq Nat
    OBVIOUS
  <2>1. PICK x \in T : \A y \in T : x <= y
    <3> HIDE DEF T
    <3> QED BY <2>0, LeastNumber
  <2>2. x # 0
    OBVIOUS
  <2>3. x - 1 \in 0..m /\ x - 1 \notin T
    BY <2>1, <2>2
  <2>4. g[(x - 1) + 1] = F[g[x - 1]]
    BY <2>2, <2>3
  <2>5. h[(x - 1) + 1] = F[h[x - 1]]
    BY <1>2, <2>2, <2>3
  <2>6. (x - 1) + 1 = x /\ g[x - 1] = h[x - 1]
    BY <2>3
  <2> QED BY <2>1, <2>4, <2>5, <2>6
<1> DEFINE at(n) == CHOOSE g : g \in Partial(n)
           r == [n \in Nat |-> at(n)[n]]
<1>3. \A n \in Nat : at(n) \in Partial(n)
  BY <1>1
<1>4. r \in [Nat -> U] /\ r[0] = a
  <2>1. \A n \in Nat : at(n)[n] \in U
    BY <1>3
  <2>2. at(0)[0] = a
    BY <1>3
  <2> HIDE DEF at
  <2> QED BY <2>1, <2>2
<1>5. ASSUME NEW n \in Nat PROVE r[n + 1] = F[r[n]]
  <2>1. at(n) \in Partial(n) /\ at(n + 1) \in Partial(n + 1)
    <3> HIDE DEF Partial, at
    <3>1. n + 1 \in Nat
      OBVIOUS
    <3> QED BY <1>3, <3>1
  <2>2. at(n)[n] = at(n + 1)[n]
    <3> HIDE DEF Partial, at
    <3> QED BY <1>2, <2>1
  <2>3. at(n + 1)[n + 1] = F[at(n + 1)[n]]
    <3> HIDE DEF at
    <3>1. n \in 0..(n + 1) /\ n < n + 1
      OBVIOUS
    <3>2. \A k \in 0..(n + 1) : k < n + 1 => at(n + 1)[k + 1] = F[at(n + 1)[k]]
      BY <2>1
    <3> QED BY <3>1, <3>2
  <2> HIDE DEF at
  <2> QED BY <2>2, <2>3
<1> HIDE DEF r
<1> QED BY <1>4, <1>5 DEF Iterating

(* The rounds in which Reach goes from objects to what they refer to.      *)
Widened(S, through) == S \cup UNION {StrongRefs(o) : o \in S \cap through}
Widening(up, from, through) ==
  /\ up \in [Nat -> SUBSET Objects] /\ up[0] = from
  /\ \A n \in Nat : up[n + 1] = Widened(up[n], through)

(* The rounds of Reach exist, and Reach is one of them.                    *)
LEMMA ReachUnfolds ==
  ASSUME NEW from \in SUBSET Objects, NEW through, refs \in [Objects -> SUBSET Objects]
  PROVE  \E up : /\ Widening(up, from, through)
                 /\ Reach(from, through) = up[Cardinality(Objects)]
<1> DEFINE F == [S \in SUBSET Objects |-> S \cup UNION {StrongRefs(o) : o \in S \cap through}]
           Is(g) == g = [n \in Nat |-> IF n = 0 THEN from
                            ELSE LET S == g[n - 1]
                                 IN  S \cup UNION {StrongRefs(o) : o \in S \cap through}]
           up == CHOOSE g : Is(g)
<1>1. F \in [SUBSET Objects -> SUBSET Objects]
  BY DEF StrongRefs
<1>2. PICK r : Iterating(r, SUBSET Objects, F, from)
  <2> HIDE DEF F
  <2> QED BY <1>1, Iterates
<1>a. r \in [Nat -> SUBSET Objects] /\ r[0] = from /\ \A n \in Nat : r[n + 1] = F[r[n]]
  BY <1>2 DEF Iterating
<1>3. Is(r)
  <2> DEFINE body(n) == IF n = 0 THEN from
                            ELSE LET S == r[n - 1]
                                 IN  S \cup UNION {StrongRefs(o) : o \in S \cap through}
  <2>1. ASSUME NEW n \in Nat PROVE r[n] = body(n)
    <3>1. CASE n = 0
      BY <1>a, <3>1
    <3>2. CASE n # 0
      <4>1. n - 1 \in Nat /\ (n - 1) + 1 = n
        BY <3>2
      <4>2. r[(n - 1) + 1] = F[r[n - 1]]
        BY <1>a, <4>1
      <4>3. r[n - 1] \in SUBSET Objects
        BY <1>a, <4>1
      <4> QED BY <3>2, <4>1, <4>2, <4>3
    <3> QED BY <3>1, <3>2
  <2> HIDE DEF body
  <2>2. r = [n \in Nat |-> body(n)]
    BY <1>a, <2>1
  <2> QED BY <2>2 DEF body
<1>4. Is(up)
  BY <1>3
<1>5. Reach(from, through) = up[Cardinality(Objects)]
  BY DEF Reach
<1> HIDE DEF up
<1>6. up[0] = from
  BY <1>4
<1>7. \A n \in Nat : up[n + 1] = up[n] \cup UNION {StrongRefs(o) : o \in up[n] \cap through}
  <2> TAKE n \in Nat
  <2>1. n + 1 \in Nat /\ n + 1 # 0 /\ (n + 1) - 1 = n
    OBVIOUS
  <2> QED BY <1>4, <2>1
<1>8. ASSUME NEW n \in Nat PROVE up[n] \in SUBSET Objects
  <2> DEFINE T == {j \in Nat : up[j] \notin SUBSET Objects}
  <2> SUFFICES ASSUME T # {} PROVE FALSE
    OBVIOUS
  <2>1. PICK x \in T : \A y \in T : x <= y
    BY LeastNumber
  <2>2. x # 0
    BY <1>6
  <2>3. x - 1 \in Nat /\ x - 1 \notin T /\ (x - 1) + 1 = x
    BY <2>1, <2>2
  <2>4. up[x] = up[x - 1] \cup UNION {StrongRefs(o) : o \in up[x - 1] \cap through}
    BY <1>7, <2>3
  <2> QED BY <2>1, <2>3, <2>4 DEF StrongRefs
<1>9. up \in [Nat -> SUBSET Objects]
  BY <1>4, <1>8
<1> QED BY <1>5, <1>6, <1>7, <1>9 DEF Widening, Widened

(* Reach is the least set with `from` in it that is closed under the       *)
(* references of what is looked into: as many rounds as there are objects  *)
(* are enough, for a round that adds nothing is the last one that could.   *)
LEMMA ReachIsClosure ==
  ASSUME NEW from \in SUBSET Objects, NEW through, refs \in [Objects -> SUBSET Objects]
  PROVE  /\ Reach(from, through) \in SUBSET Objects
         /\ from \subseteq Reach(from, through)
         /\ \A o \in Reach(from, through) :
              o \in through => StrongRefs(o) \subseteq Reach(from, through)
         /\ \A C : from \subseteq C
                     /\ (\A o \in C \cap Objects : o \in through => StrongRefs(o) \subseteq C)
                   => Reach(from, through) \subseteq C
<1> DEFINE N == Cardinality(Objects)
<1>0. PICK up : Widening(up, from, through) /\ Reach(from, through) = up[N]
  BY ReachUnfolds
<1>a. /\ up \in [Nat -> SUBSET Objects] /\ up[0] = from
      /\ \A n \in Nat : up[n + 1] = Widened(up[n], through)
  BY <1>0 DEF Widening
<1>1. /\ up \in [Nat -> SUBSET Objects] /\ up[0] = from
      /\ \A n \in Nat : up[n + 1] = up[n] \cup UNION {StrongRefs(o) : o \in up[n] \cap through}
      /\ Reach(from, through) = up[N]
  BY <1>0, <1>a DEF Widened
<1>2. IsFiniteSet(Objects) /\ N \in Nat
  BY ObjectsAssumption, FS_CardinalityType
<1> HIDE DEF N
<1>3. \A n \in Nat : /\ IsFiniteSet(up[n]) /\ Cardinality(up[n]) \in Nat
                     /\ Cardinality(up[n]) <= N
  BY <1>1, <1>2, FS_Subset, FS_CardinalityType DEF N
<1>4. \A n \in Nat : up[n] \subseteq up[n + 1]
  BY <1>1
<1>5. \A n \in Nat : up[n + 1] # up[n] => Cardinality(up[n + 1]) >= Cardinality(up[n]) + 1
  <2> TAKE n \in Nat
  <2>1. /\ IsFiniteSet(up[n + 1]) /\ Cardinality(up[n + 1]) \in Nat
        /\ IsFiniteSet(up[n]) /\ Cardinality(up[n]) \in Nat
    BY <1>3
  <2>2. Cardinality(up[n]) <= Cardinality(up[n + 1])
        /\ (Cardinality(up[n]) = Cardinality(up[n + 1]) => up[n] = up[n + 1])
    BY <1>4, <2>1, FS_Subset
  <2> QED BY <2>1, <2>2
<1>6. \A n \in Nat : up[n + 1] = up[n] => up[(n + 1) + 1] = up[n + 1]
  <2> TAKE n \in Nat
  <2>1. n + 1 \in Nat
    OBVIOUS
  <2> QED BY <1>a, <2>1
<1>7. \A n \in Nat : up[n + 1] = up[n] \/ Cardinality(up[n + 1]) >= n + 1
  <2> DEFINE T == {n \in Nat : ~ (up[n + 1] = up[n] \/ Cardinality(up[n + 1]) >= n + 1)}
  <2> SUFFICES ASSUME T # {} PROVE FALSE
    OBVIOUS
  <2>0. T \subseteq Nat
    OBVIOUS
  <2>1. PICK x \in T : \A y \in T : x <= y
    <3> HIDE DEF T
    <3> QED BY <2>0, LeastNumber
  <2>2. /\ x \in Nat /\ up[x + 1] # up[x] /\ Cardinality(up[x + 1]) \in Nat
        /\ Cardinality(up[x]) \in Nat
        /\ Cardinality(up[x + 1]) >= Cardinality(up[x]) + 1
        /\ ~ (Cardinality(up[x + 1]) >= x + 1)
    BY <2>1, <1>3, <1>5
  <2>3. CASE x = 0
    BY <2>2, <2>3
  <2>4. CASE x # 0
    <3>1. x - 1 \in Nat /\ (x - 1) + 1 = x /\ ~ (x <= x - 1)
      BY <2>2, <2>4
    <3>2. x - 1 \notin T
      <4> HIDE DEF T
      <4> QED BY <2>1, <3>1
    <3>3. up[x] = up[x - 1] \/ Cardinality(up[x]) >= x
      BY <3>1, <3>2
    <3>4. up[x] # up[x - 1]
      BY <1>6, <2>2, <3>1
    <3> QED BY <2>2, <3>3, <3>4
  <2> QED BY <2>3, <2>4
<1>8. up[N + 1] = up[N]
  BY <1>2, <1>3, <1>7
<1>9. \A o \in up[N] : o \in through => StrongRefs(o) \subseteq up[N]
  BY <1>1, <1>2, <1>8
<1>10. ASSUME NEW n \in Nat PROVE from \subseteq up[n]
  <2> DEFINE T == {j \in Nat : ~ (from \subseteq up[j])}
  <2> SUFFICES ASSUME T # {} PROVE FALSE
    OBVIOUS
  <2>0. T \subseteq Nat
    OBVIOUS
  <2>1. PICK x \in T : \A y \in T : x <= y
    <3> HIDE DEF T
    <3> QED BY <2>0, LeastNumber
  <2>2. x # 0
    BY <1>1
  <2>3. x - 1 \in Nat /\ (x - 1) + 1 = x /\ ~ (x <= x - 1)
    BY <2>0, <2>1, <2>2
  <2>4. x - 1 \notin T
    <3> HIDE DEF T
    <3> QED BY <2>1, <2>3
  <2>5. up[x - 1] \subseteq up[x]
    BY <1>4, <2>3
  <2> QED BY <2>1, <2>3, <2>4, <2>5
<1>11. ASSUME NEW C, from \subseteq C,
              \A o \in C \cap Objects : o \in through => StrongRefs(o) \subseteq C,
              NEW n \in Nat
       PROVE  up[n] \subseteq C
  <2> DEFINE T == {j \in Nat : ~ (up[j] \subseteq C)}
  <2> SUFFICES ASSUME T # {} PROVE FALSE
    OBVIOUS
  <2>0. T \subseteq Nat
    OBVIOUS
  <2>1. PICK x \in T : \A y \in T : x <= y
    <3> HIDE DEF T
    <3> QED BY <2>0, LeastNumber
  <2>2. x # 0
    BY <1>1, <1>11
  <2>3. x - 1 \in Nat /\ (x - 1) + 1 = x /\ ~ (x <= x - 1)
    BY <2>0, <2>1, <2>2
  <2>4. x - 1 \notin T
    <3> HIDE DEF T
    <3> QED BY <2>1, <2>3
  <2>5. up[x] = up[x - 1] \cup UNION {StrongRefs(o) : o \in up[x - 1] \cap through}
    BY <1>1, <2>3
  <2>6. up[x - 1] \subseteq C /\ up[x - 1] \subseteq Objects
    BY <1>1, <2>3, <2>4
  <2>7. up[x] \subseteq C
    BY <1>11, <2>5, <2>6
  <2> QED BY <2>1, <2>7
<1> QED BY <1>1, <1>2, <1>9, <1>10, <1>11

-----------------------------------------------------------------------------
(***************************************************************************)
(* What a collection condemns is out of reach.                             *)
(***************************************************************************)

(* What marking needs to know of the state.                                *)
LEMMA Roots ==
  ASSUME GInv
  PROVE  /\ Tables \subseteq Objects /\ Closures \subseteq Objects
         /\ Whites \subseteq Tables /\ Marked \subseteq Whites
         /\ refs \in [Objects -> SUBSET Objects]
         /\ visible \subseteq Objects /\ aside \subseteq Objects
         /\ Arguments \subseteq Tables
         /\ \A a \in Arguments : \E i \in DOMAIN plans : a \in PlanHolds(plans[i])
<1>1. /\ Tables \subseteq Objects /\ Closures \subseteq Objects
      /\ Whites \subseteq Tables /\ Marked \subseteq Whites
      /\ refs \in [Objects -> SUBSET Objects]
      /\ visible \subseteq Objects /\ aside \subseteq Objects
  BY DEF GInv, HeapType, Objects, Whites, With, Marked
<1>2. ASSUME NEW i \in DOMAIN plans, plans[i].stage = "run"
      PROVE  plans[i].queue[plans[i].next] \in PlanHolds(plans[i])
  <2>1. plans \in Seq(Pending \cup Planned) /\ i \in 1..Len(plans)
    BY DEF GInv, Nesting
  <2>2. plans[i] \in Pending \cup Planned /\ plans[i].next <= Len(plans[i].queue)
    BY <1>2, <2>1 DEF GInv, Nesting
  <2>3. plans[i].queue \in Seq(Tables) /\ plans[i].next \in Nat \ {0}
    BY <1>2, <2>2, PlanFields
  <2>4. plans[i].next \in DOMAIN plans[i].queue
    BY <2>2, <2>3
  <2> QED BY <2>4 DEF PlanHolds, ToSet
<1>3. \A i \in DOMAIN plans : PlanHolds(plans[i]) \subseteq Tables
  BY WaitingHeld DEF GInv, Nesting
<1> QED BY <1>1, <1>2, <1>3 DEF Arguments

(* A white table that is not spared is out of reach.  The objects that are *)
(* not condemned hold all that is in use, and refer to no condemned one:   *)
(* a holder that is not internal would have spared it, and so would a      *)
(* white one that was spared itself; a weak table does not hold tables.    *)
LEMMA CondemnedNotInUse ==
  ASSUME GInv, NEW weak
  PROVE  LET white    == Whites \ Marked
             internal == InternalHolders(white, weak)
         IN  (white \ Spared(white, internal)) \cap InUse = {}
<1> DEFINE white     == Whites \ Marked
           internal  == InternalHolders(white, weak)
           outside   == {t \in white :
                           HeldOutside(t) \/ \E o \in Objects \ internal : t \in refs[o]}
           condemned == white \ Spared(white, internal)
           C         == Objects \ condemned
<1>1. /\ Tables \subseteq Objects /\ Closures \subseteq Objects
      /\ white \subseteq Tables /\ outside \subseteq white
      /\ refs \in [Objects -> SUBSET Objects]
      /\ visible \subseteq Objects /\ aside \subseteq Objects
      /\ Arguments \subseteq Objects
      /\ \A a \in Arguments : \E i \in DOMAIN plans : a \in PlanHolds(plans[i])
  BY Roots
<1>2. Spared(white, internal) = outside \cup (Reach(outside, Closures \cup white) \cap white)
  BY DEF Spared
<1>3. /\ outside \subseteq Reach(outside, Closures \cup white)
      /\ \A o \in Reach(outside, Closures \cup white) :
           o \in Closures \cup white => StrongRefs(o) \subseteq Reach(outside, Closures \cup white)
  <2>1. outside \in SUBSET Objects
    BY <1>1
  <2> HIDE DEF outside, white
  <2> QED BY <1>1, <2>1, ReachIsClosure
<1>4. visible \cup aside \cup Arguments \subseteq C
  <2>1. ASSUME NEW o \in visible \cup aside \cup Arguments, o \in white
        PROVE  o \in outside
    BY <1>1, <2>1 DEF HeldOutside
  <2> HIDE DEF outside, white, internal
  <2> QED BY <1>1, <1>2, <2>1
<1>5. ASSUME NEW o \in C, NEW r \in StrongRefs(o)
      PROVE  r \in C
  <2>1. o \in Objects /\ r \in Objects /\ r \in refs[o]
    BY <1>1 DEF StrongRefs
  <2> SUFFICES ASSUME r \in condemned PROVE FALSE
    BY <2>1
  <2>2. r \in white /\ r \notin outside /\ r \notin Reach(outside, Closures \cup white)
    <3> HIDE DEF outside, internal, white
    <3> QED BY <1>2
  <2>3. o \in internal
    BY <2>1, <2>2
  <2>4. CASE o \in white
    <3>1. o \in Reach(outside, Closures \cup white)
      <4> HIDE DEF outside, internal, white
      <4> QED BY <1>2, <1>3, <2>4
    <3> HIDE DEF outside, internal, white
    <3> QED BY <1>3, <2>2, <2>4, <3>1
  <2>5. CASE o \notin white
    <3>1. o \in Tables /\ kind[o] = "weak"
      BY <1>1, <2>3, <2>5, Roots DEF InternalHolders, With
    <3>2. r \in Closures /\ r \in Tables
      BY <1>1, <2>2, <3>1 DEF StrongRefs
    <3> QED BY <3>2, ObjectsAssumption
  <2> QED BY <2>4, <2>5
<1>6. InUse \subseteq C
  <2>1. visible \cup aside \cup Arguments \in SUBSET Objects
    BY <1>1
  <2> HIDE DEF C
  <2> QED BY <1>1, <1>4, <1>5, <2>1, ReachIsClosure DEF InUse
<1>7. condemned \cap InUse = {}
  BY <1>6
<1> QED BY <1>7

(* What a collection condemns.                                             *)
SeesWeak == hasWeak \/ \E t \in Marked : kind[t] = "weak"
Condemned ==
  (Whites \ Marked) \ Spared(Whites \ Marked, InternalHolders(Whites \ Marked, SeesWeak))

(* What a collection finds when it plans, in terms of these.               *)
LEMMA PlanMakes ==
  ASSUME GInv, NEW outer \in Seq(Pending \cup Planned), Plan(outer)
  PROVE  /\ \E p : /\ plans' = Append(outer, p) /\ p \in Planned
                   /\ p.stage = "settle" /\ p.next = 1
                   /\ ToSet(p.queue) = ToSet(pinned) \cap Condemned
                   /\ p.plain = Condemned \ ToSet(p.queue)
                   /\ p.dropped = Cardinality(With("dead"))
         /\ hasWeak' = SeesWeak /\ state' = "sweep"
         /\ UNCHANGED <<kind, refs, visible, aside, pinned, bytes, sweeping, sweepPlain,
                        sweepWeak, doomed, ran>>
         /\ Condemned \subseteq Whites \ Marked
         /\ \A t \in Tables :
              /\ t \in Marked => header'[t] = "black"
              /\ t \in ToSet(pinned) \cap Condemned => header'[t] = "black"
              /\ t \in Whites => header'[t] \in {"black", "white"}
              /\ header[t] = "dead" => header'[t] = "none"
              /\ t \notin Whites /\ header[t] # "dead" => header'[t] = header[t]
<1> USE DEF program, staged
<1> DEFINE white     == Whites \ Marked
           internal  == InternalHolders(white, SeesWeak)
           queue     == Queue(Condemned)
           black     == Marked \cup ToSet(queue)
           counts    == [t \in ToSet(queue) |-> Cardinality({o \in internal : t \in refs[o]})]
           dead      == Cardinality(With("dead"))
           p         == [stage |-> "settle", plain |-> Condemned \ ToSet(queue),
                         queue |-> queue, next |-> 1, internal |-> counts,
                         dropped |-> dead, cleared |-> {}]
<1>1. /\ plans' = Append(outer, p)
      /\ header' = [t \in Tables |->
                      CASE t \in black            -> "black"
                        [] t \in Whites \ black   -> "white"
                        [] header[t] = "dead"     -> "none"
                        [] OTHER                  -> header[t]]
      /\ hasWeak' = SeesWeak /\ state' = "sweep"
      /\ UNCHANGED <<kind, refs, visible, aside, pinned, bytes, sweeping, sweepPlain,
                     sweepWeak, doomed, ran>>
  BY DEF Plan, Condemned, SeesWeak
<1>2. Whites \subseteq Tables /\ Marked \subseteq Whites
  BY DEF Whites, With, Marked
<1>3. Condemned \subseteq Whites \ Marked
  BY DEF Condemned
<1>4. internal \subseteq Tables
  BY <1>2 DEF InternalHolders, With
<1> HIDE DEF internal, white
<1>5. queue \in Seq(Tables) /\ ToSet(queue) = ToSet(pinned) \cap Condemned
  BY AmongElements DEF Queue, GInv, HeapType
<1> HIDE DEF queue
<1>6. ToSet(queue) \subseteq Tables /\ black \subseteq Whites
  BY <1>2, <1>3, <1>5
<1>7. counts \in Counts
  <2>1. \A t : Cardinality({o \in internal : t \in refs[o]}) \in Nat
    BY <1>4, TablesFinite
  <2>2. counts \in [ToSet(queue) -> Nat]
    BY <2>1
  <2>3. ToSet(queue) \in SUBSET Tables
    BY <1>6
  <2> HIDE DEF counts
  <2> QED BY <2>2, <2>3 DEF Counts
<1>8. dead \in Nat
  BY TablesFinite DEF With
<1>9. /\ p.stage = "settle" /\ p.plain = Condemned \ ToSet(queue)
      /\ p.queue = queue /\ p.next = 1 /\ p.dropped = dead
  OBVIOUS
<1>10. p \in Planned
  <2>1. Condemned \ ToSet(queue) \in SUBSET Tables
    BY <1>2, <1>3
  <2> HIDE DEF counts, dead
  <2> QED BY <1>5, <1>7, <1>8, <2>1 DEF Planned
<1> HIDE DEF counts, p
<1>11. ASSUME NEW t \in Tables
       PROVE  /\ t \in Marked => header'[t] = "black"
              /\ t \in ToSet(pinned) \cap Condemned => header'[t] = "black"
              /\ t \in Whites => header'[t] \in {"black", "white"}
              /\ header[t] = "dead" => header'[t] = "none"
              /\ t \notin Whites /\ header[t] # "dead" => header'[t] = header[t]
  <2> HIDE DEF black
  <2>1. CASE t \in black
    <3>1. t \notin Whites \ black /\ header[t] # "dead" /\ t \in Whites
      BY <1>6, <2>1 DEF Whites, With
    <3>2. header'[t] = "black"
      BY <1>1, <2>1, <3>1
    <3> QED BY <3>1, <3>2
  <2>2. CASE t \notin black
    <3>0. t \notin Marked /\ t \notin ToSet(pinned) \cap Condemned
      BY <1>5, <2>2 DEF black
    <3>1. CASE t \in Whites
      <4>1. header[t] # "dead" /\ t \in Whites \ black
        BY <2>2, <3>1 DEF Whites, With
      <4>2. header'[t] = "white"
        BY <1>1, <2>2, <4>1
      <4> QED BY <3>0, <3>1, <4>1, <4>2
    <3>2. CASE t \notin Whites /\ header[t] = "dead"
      <4>1. t \notin Whites \ black
        BY <3>2
      <4>2. header'[t] = "none"
        BY <1>1, <2>2, <3>2, <4>1
      <4> QED BY <3>0, <3>2, <4>2
    <3>3. CASE t \notin Whites /\ header[t] # "dead"
      <4>1. t \notin Whites \ black
        BY <3>3
      <4>2. header'[t] = header[t]
        BY <1>1, <2>2, <3>3, <4>1
      <4> QED BY <3>0, <3>3, <4>2
    <3> QED BY <3>1, <3>2, <3>3
  <2> QED BY <2>1, <2>2
<1>12. /\ plans' = Append(outer, p) /\ p \in Planned
       /\ p.stage = "settle" /\ p.next = 1
       /\ ToSet(p.queue) = ToSet(pinned) \cap Condemned
       /\ p.plain = Condemned \ ToSet(p.queue)
       /\ p.dropped = Cardinality(With("dead"))
  BY <1>1, <1>5, <1>9, <1>10
<1> HIDE DEF black
<1> QED BY <1>1, <1>3, <1>11, <1>12

(* Only what was condemned is in a collection's plan.                      *)
LEMMA PlanTakesCondemned ==
  ASSUME GInv, NEW outer \in Seq(Pending \cup Planned), Plan(outer)
  PROVE  PlanHolds(Top') \cap InUse = {}
<1>1. Condemned \cap InUse = {}
  <2>1. \A w : LET i == InternalHolders(Whites \ Marked, w)
               IN  ((Whites \ Marked) \ Spared(Whites \ Marked, i)) \cap InUse = {}
    BY CondemnedNotInUse
  <2> QED BY <2>1 DEF Condemned
<1>2. PICK p : /\ plans' = Append(outer, p) /\ p \in Planned
               /\ ToSet(p.queue) = ToSet(pinned) \cap Condemned
               /\ p.plain = Condemned \ ToSet(p.queue)
  BY PlanMakes
<1>3. Top' = p
  <2>1. Len(plans') = Len(outer) + 1 /\ plans'[Len(outer) + 1] = p
    BY <1>2, LastAdded
  <2> QED BY <2>1 DEF Top
<1> QED BY <1>1, <1>2, <1>3 DEF PlanHolds

-----------------------------------------------------------------------------
(***************************************************************************)
(* What refcounting keeps, and the invariant about marking.                *)
(***************************************************************************)

(* The rounds in which Referred takes away what is not referred to.        *)
Narrowing(af, rf, held) ==
  /\ af \in [Nat -> SUBSET Objects] /\ af[0] = UNION {rf[o] : o \in Objects}
  /\ \A n \in Nat : af[n + 1] = UNION {rf[o] : o \in held \cup af[n]}

(* The rounds of Referred exist, and Referred is one of them.              *)
LEMMA ReferredUnfolds ==
  ASSUME NEW rf \in [Objects -> SUBSET Objects], NEW held \in SUBSET Objects
  PROVE  \E af : Narrowing(af, rf, held) /\ Referred(rf, held) = af[Cardinality(Objects)]
<1> DEFINE F == [S \in SUBSET Objects |-> UNION {rf[o] : o \in held \cup S}]
           start == UNION {rf[o] : o \in Objects}
           Is(g) == g = [n \in Nat |-> IF n = 0 THEN UNION {rf[o] : o \in Objects}
                                       ELSE UNION {rf[o] : o \in held \cup g[n - 1]}]
           af == CHOOSE g : Is(g)
<1>1. F \in [SUBSET Objects -> SUBSET Objects] /\ start \in SUBSET Objects
  OBVIOUS
<1>2. PICK r : Iterating(r, SUBSET Objects, F, start)
  <2> HIDE DEF F, start
  <2> QED BY <1>1, Iterates
<1>a. r \in [Nat -> SUBSET Objects] /\ r[0] = start /\ \A n \in Nat : r[n + 1] = F[r[n]]
  BY <1>2 DEF Iterating
<1>3. Is(r)
  <2> DEFINE body(n) == IF n = 0 THEN start
                                 ELSE UNION {rf[o] : o \in held \cup r[n - 1]}
  <2>1. ASSUME NEW n \in Nat PROVE r[n] = body(n)
    <3> HIDE DEF start
    <3>1. CASE n = 0
      BY <1>a, <3>1
    <3>2. CASE n # 0
      <4>1. n - 1 \in Nat /\ (n - 1) + 1 = n
        BY <3>2
      <4>2. r[(n - 1) + 1] = F[r[n - 1]]
        BY <1>a, <4>1
      <4>3. r[n - 1] \in SUBSET Objects
        BY <1>a, <4>1
      <4> QED BY <3>2, <4>1, <4>2, <4>3
    <3> QED BY <3>1, <3>2
  <2> HIDE DEF body
  <2>2. r = [n \in Nat |-> body(n)]
    BY <1>a, <2>1
  <2> QED BY <2>2 DEF body
<1>4. Is(af)
  BY <1>3
<1>5. Referred(rf, held) = af[Cardinality(Objects)]
  BY DEF Referred
<1> HIDE DEF af
<1>6. af[0] = start
  BY <1>4
<1>7. \A n \in Nat : af[n + 1] = UNION {rf[o] : o \in held \cup af[n]}
  <2> TAKE n \in Nat
  <2>1. n + 1 \in Nat /\ n + 1 # 0 /\ (n + 1) - 1 = n
    OBVIOUS
  <2> QED BY <1>4, <2>1
<1>8. ASSUME NEW n \in Nat PROVE af[n] \in SUBSET Objects
  <2> DEFINE T == {j \in Nat : af[j] \notin SUBSET Objects}
  <2> SUFFICES ASSUME T # {} PROVE FALSE
    OBVIOUS
  <2>0. T \subseteq Nat
    OBVIOUS
  <2>1. PICK x \in T : \A y \in T : x <= y
    <3> HIDE DEF T
    <3> QED BY <2>0, LeastNumber
  <2>2. x # 0
    BY <1>6
  <2>3. x - 1 \in Nat /\ (x - 1) + 1 = x /\ ~ (x <= x - 1)
    BY <2>0, <2>1, <2>2
  <2>4. x - 1 \notin T
    <3> HIDE DEF T
    <3> QED BY <2>1, <2>3
  <2>5. af[x] = UNION {rf[o] : o \in held \cup af[x - 1]}
    BY <1>7, <2>3
  <2>6. af[x - 1] \in SUBSET Objects
    BY <2>3, <2>4
  <2>7. af[x] \in SUBSET Objects
    BY <2>5, <2>6
  <2> QED BY <2>1, <2>7
<1>9. af \in [Nat -> SUBSET Objects]
  BY <1>4, <1>8
<1> QED BY <1>5, <1>6, <1>7, <1>9 DEF Narrowing

(* What is kept has what it refers to kept: each round takes away only     *)
(* what the one before it would.                                           *)
LEMMA KeptIsClosed ==
  ASSUME NEW rf \in [Objects -> SUBSET Objects], NEW held \in SUBSET Objects
  PROVE  /\ held \subseteq Kept(rf, held) /\ Kept(rf, held) \subseteq Objects
         /\ \A o \in Kept(rf, held) : rf[o] \subseteq Kept(rf, held)
         /\ \A t \in Kept(rf, held) : t \in held \/ \E o \in Objects : t \in rf[o]
<1> DEFINE N == Cardinality(Objects)
<1>0. PICK af : Narrowing(af, rf, held) /\ Referred(rf, held) = af[N]
  BY ReferredUnfolds
<1>1. /\ af \in [Nat -> SUBSET Objects] /\ af[0] = UNION {rf[o] : o \in Objects}
      /\ \A n \in Nat : af[n + 1] = UNION {rf[o] : o \in held \cup af[n]}
      /\ Kept(rf, held) = held \cup af[N]
  BY <1>0 DEF Narrowing, Kept
<1>2. N \in Nat
  BY ObjectsAssumption, FS_CardinalityType
<1> HIDE DEF N
<1>3. \A n \in Nat : af[n + 1] \subseteq af[n]
  <2> DEFINE T == {n \in Nat : ~ (af[n + 1] \subseteq af[n])}
  <2> SUFFICES ASSUME T # {} PROVE FALSE
    OBVIOUS
  <2>0. T \subseteq Nat
    OBVIOUS
  <2>1. PICK x \in T : \A y \in T : x <= y
    <3> HIDE DEF T
    <3> QED BY <2>0, LeastNumber
  <2>2. CASE x = 0
    <3>1. af[0 + 1] = UNION {rf[o] : o \in held \cup af[0]} /\ af[0] \in SUBSET Objects
      BY <1>1
    <3>2. af[0 + 1] \subseteq af[0]
      BY <1>1, <3>1
    <3> QED BY <2>1, <2>2, <3>2
  <2>3. CASE x # 0
    <3>1. x \in Nat /\ x - 1 \in Nat /\ (x - 1) + 1 = x /\ ~ (x <= x - 1)
      BY <2>0, <2>1, <2>3
    <3>2. x - 1 \notin T
      <4> HIDE DEF T
      <4> QED BY <2>1, <3>1
    <3>3. af[x] \subseteq af[x - 1]
      BY <3>1, <3>2
    <3>4. /\ af[x + 1] = UNION {rf[o] : o \in held \cup af[x]}
          /\ af[x] = UNION {rf[o] : o \in held \cup af[x - 1]}
      BY <1>1, <3>1
    <3>5. af[x + 1] \subseteq af[x]
      BY <3>3, <3>4
    <3> QED BY <2>1, <3>5
  <2> QED BY <2>2, <2>3
<1>4. UNION {rf[o] : o \in held \cup af[N]} \subseteq af[N]
  BY <1>1, <1>2, <1>3
<1>5. \A n \in Nat : af[n] \subseteq af[0]
  <2> DEFINE T == {n \in Nat : ~ (af[n] \subseteq af[0])}
  <2> SUFFICES ASSUME T # {} PROVE FALSE
    OBVIOUS
  <2>0. T \subseteq Nat
    OBVIOUS
  <2>1. PICK x \in T : \A y \in T : x <= y
    <3> HIDE DEF T
    <3> QED BY <2>0, LeastNumber
  <2>2. x # 0
    OBVIOUS
  <2>3. x \in Nat /\ x - 1 \in Nat /\ (x - 1) + 1 = x /\ ~ (x <= x - 1)
    BY <2>0, <2>1, <2>2
  <2>4. x - 1 \notin T
    <3> HIDE DEF T
    <3> QED BY <2>1, <2>3
  <2>5. af[x] \subseteq af[x - 1] /\ af[x - 1] \subseteq af[0]
    BY <1>3, <2>3, <2>4
  <2> QED BY <2>1, <2>5
<1>6. af[N] \subseteq Objects /\ af[N] \subseteq UNION {rf[o] : o \in Objects}
  BY <1>1, <1>2, <1>5
<1>7. \A o \in held \cup af[N] : rf[o] \subseteq af[N]
  BY <1>4
<1>8. \A t \in af[N] : \E o \in Objects : t \in rf[o]
  BY <1>6
<1> QED BY <1>1, <1>6, <1>7, <1>8

(***************************************************************************)
(* What refcounting freed, and what a collection that met no finalizer     *)
(* found.                                                                  *)
(***************************************************************************)

(* A table that was freed is not referred to, not even by the tracker.     *)
DeadGone ==
  \A t \in With("dead") :
    /\ kind[t] = "plain" /\ refs[t] = {} /\ t \notin Held
    /\ \A o \in Objects : t \notin refs[o]
EmptiedPlain == \A t \in With("none") : kind[t] = "plain"

(* Black tables are white again when a sweep ends, and the next collection *)
(* begins after that.                                                      *)
Phases ==
  /\ state = "pause" => With("black") = {}
  /\ plans = << >> /\ ~sweeping => state = "pause"
  /\ plans # << >> /\ Top.stage = "plan" => state = "pause" /\ ~sweeping
  /\ ~sweeping => sweepPlain = {} /\ sweepWeak = {}

(* What the anchors lead to is in C.                                       *)
Anchored(C) ==
  Anchors \subseteq C /\ \A o \in C : StrongRefs(o) \subseteq C

(* A collection without finalizers that waits for its sweep spared only    *)
(* what the anchors lead to, and met all weak tables in sight.             *)
MarkedAll ==
  Len(plans) = 1 /\ Top.stage = "settle" /\ Top.queue = << >> =>
    /\ \A t \in Tables : Tracked(t) /\ t \notin Top.plain =>
         \A C \in SUBSET Objects : Anchored(C) => t \in C
    /\ \A w \in visible \cap Tables :
         kind[w] = "weak" /\ header[w] # "gray" => header[w] = "black" /\ hasWeak

MInv == DeadGone /\ EmptiedPlain /\ Phases /\ MarkedAll

(* Refcounting frees only what nothing refers to, and what was freed is    *)
(* not used again.                                                         *)
LEMMA CountingFrees ==
  ASSUME GInv, GInv', DeadGone,
         NEW rf \in [Objects -> SUBSET Objects], NEW hd \in [Tables -> Headers],
         \A o \in Objects : rf[o] \subseteq refs[o],
         \A t \in Tables : hd[t] = "dead" <=> header[t] = "dead",
         \A t \in With("dead") : t \notin Held',
         Counting(rf, hd)
  PROVE  /\ DeadGone' /\ EmptiedPlain'
         /\ \A o \in Objects : refs'[o] \subseteq rf[o]
         /\ \A t \in Tables : header'[t] = hd[t] \/ (header'[t] = "dead" /\ hd[t] # "none")
<1>0. Held' \in SUBSET Objects
  <2>1. /\ visible' \subseteq Objects /\ aside' \subseteq Objects /\ pinned' \in Seq(Tables)
        /\ sweepPlain' \subseteq Tables /\ sweepWeak' \subseteq Tables
        /\ Tables \subseteq Objects
    BY DEF GInv, HeapType, Objects
  <2>2. ToSet(pinned') \subseteq Tables
    BY <2>1 DEF ToSet
  <2>3. \A i \in DOMAIN plans' : plans'[i] \in Pending \cup Planned
    BY DEF GInv, Nesting
  <2>4. \A i \in DOMAIN plans' : PlanHolds(plans'[i]) \subseteq Tables
    BY <2>3, WaitingHeld
  <2> QED BY <2>1, <2>2, <2>4 DEF Held
<1> DEFINE kept == Kept(rf, Held')
<1>1. /\ refs' = [o \in Objects |-> IF o \in kept THEN rf[o] ELSE {}]
      /\ header' = [t \in Tables |->
                      IF t \in kept \/ hd[t] = "none" THEN hd[t] ELSE "dead"]
      /\ kind' = [t \in Tables |->
                    IF t \in kept /\ hd[t] # "none" THEN kind[t] ELSE "plain"]
  BY DEF Counting
<1>2. /\ Held' \subseteq kept
      /\ \A o \in kept : rf[o] \subseteq kept
      /\ \A t \in kept : t \in Held' \/ \E o \in Objects : t \in rf[o]
  BY <1>0, KeptIsClosed
<1> HIDE DEF kept
<1>3. \A o \in Objects : refs'[o] \subseteq rf[o] /\ (o \notin kept => refs'[o] = {})
  BY <1>1
<1>4. Tables \subseteq Objects
  BY DEF Objects
<1>5. ASSUME NEW t \in Tables, header'[t] = "dead"
      PROVE  t \notin kept
  <2> SUFFICES ASSUME t \in kept PROVE FALSE
    OBVIOUS
  <2>1. hd[t] = "dead"
    BY <1>1, <1>5
  <2>2. header[t] = "dead"
    BY <2>1
  <2>3. t \in With("dead")
    BY <2>2 DEF With
  <2>4. t \notin Held' /\ \A o \in Objects : t \notin refs[o]
    BY <2>3 DEF DeadGone
  <2> QED BY <1>2, <2>4
<1>6. DeadGone'
  <2> SUFFICES ASSUME NEW t \in Tables, header'[t] = "dead"
               PROVE  /\ kind'[t] = "plain" /\ refs'[t] = {} /\ t \notin Held'
                      /\ \A o \in Objects : t \notin refs'[o]
    BY DEF DeadGone, With
  <2>1. t \notin kept
    BY <1>5
  <2>2. kind'[t] = "plain" /\ refs'[t] = {} /\ t \notin Held'
    BY <1>1, <1>2, <1>3, <1>4, <2>1
  <2>3. \A o \in Objects : t \notin refs'[o]
    BY <1>2, <1>3, <2>1
  <2> QED BY <2>2, <2>3
<1>7. EmptiedPlain'
  <2> SUFFICES ASSUME NEW t \in Tables, header'[t] = "none" PROVE kind'[t] = "plain"
    BY DEF EmptiedPlain, With
  <2>1. hd[t] = "none" \/ hd[t] # "none"
    OBVIOUS
  <2> QED BY <1>1, <2>1
<1>8. ASSUME NEW t \in Tables
      PROVE  header'[t] = hd[t] \/ (header'[t] = "dead" /\ hd[t] # "none")
  BY <1>1
<1> QED BY <1>3, <1>6, <1>7, <1>8

-----------------------------------------------------------------------------
(***************************************************************************)
(* The invariant about marking, step by step.                              *)
(***************************************************************************)

(* What is held of freed tables, part by part: nothing.                    *)
LEMMA DeadNowhere ==
  ASSUME DeadGone, NEW t \in With("dead")
  PROVE  /\ t \notin visible /\ t \notin aside /\ t \notin ToSet(pinned)
         /\ t \notin sweepPlain /\ t \notin sweepWeak
         /\ \A i \in DOMAIN plans : t \notin PlanHolds(plans[i])
         /\ refs[t] = {} /\ \A o \in Objects : t \notin refs[o]
BY DEF DeadGone, Held

(* A step that frees nothing.                                              *)
LEMMA FreedStay ==
  ASSUME DeadGone, EmptiedPlain,
         \A t \in Tables : /\ header'[t] = "dead" => header[t] = "dead"
                           /\ header'[t] = "none" => header[t] \in {"none", "dead"}
                           /\ header'[t] \in {"none", "dead"} => kind'[t] = kind[t],
         \A t \in With("dead") :
           /\ t \notin Held' /\ refs'[t] = {} /\ \A o \in Objects : t \notin refs'[o]
  PROVE  DeadGone' /\ EmptiedPlain'
<1>1. ASSUME NEW t \in Tables, header'[t] = "dead"
      PROVE  /\ kind'[t] = "plain" /\ refs'[t] = {} /\ t \notin Held'
             /\ \A o \in Objects : t \notin refs'[o]
  <2>1. header[t] = "dead" /\ kind'[t] = kind[t]
    BY <1>1
  <2>2. t \in With("dead")
    BY <2>1 DEF With
  <2> QED BY <2>1, <2>2 DEF DeadGone
<1>2. ASSUME NEW t \in Tables, header'[t] = "none"
      PROVE  kind'[t] = "plain"
  <2>1. kind'[t] = kind[t] /\ header[t] \in {"none", "dead"}
    BY <1>2
  <2> QED BY <2>1 DEF With, DeadGone, EmptiedPlain
<1> QED BY <1>1, <1>2 DEF With, DeadGone, EmptiedPlain

(* A step of the program leaves the collections where they are.            *)
LEMMA ProgramLeavesPhases ==
  ASSUME GInv, Phases, Runs, UNCHANGED <<state, staged, plans>>,
         \A t \in Tables : header'[t] = "black" => header[t] = "black"
  PROVE  Phases' /\ MarkedAll'
<1> USE DEF staged
<1>1. Phases'
  BY DEF Phases, Top, With
<1>2. MarkedAll'
  <2> SUFFICES ASSUME Len(plans) = 1, Top.stage = "settle" PROVE FALSE
    BY DEF MarkedAll, Top
  <2>1. plans # << >>
    OBVIOUS
  <2> QED BY <2>1 DEF Runs
<1> QED BY <1>1, <1>2

(* A new table is young, and neither marked nor freed.                     *)
LEMMA NewTableMarks ==
  ASSUME GInv, MInv, NEW t \in Tables, NEW m \in Kinds, NewTable(t, m)
  PROVE  MInv'
<1> USE DEF staged, tracker, program
<1>1. /\ t \notin InMemory
      /\ visible' = visible \cup {t} /\ aside' = aside
      /\ header' = [header EXCEPT ![t] = "young"] /\ kind' = [kind EXCEPT ![t] = m]
      /\ pinned' = (IF m = "final" THEN <<t>> \o pinned ELSE pinned)
      /\ UNCHANGED <<refs, sweepPlain, sweepWeak, plans>>
  BY DEF NewTable, MayMake
<1>2. /\ header \in [Tables -> Headers] /\ kind \in [Tables -> Kinds]
      /\ pinned \in Seq(Tables)
  BY DEF GInv, HeapType
<1>3. header[t] = "none" /\ t \notin ToSet(pinned)
  <2>1. t \notin Held
    BY <1>1 DEF InMemory
  <2>2. header[t] = "none"
    BY <1>1 DEF InMemory
  <2> QED BY <2>1, <2>2 DEF Held
<1>4. \A u \in Tables : /\ u # t => header'[u] = header[u] /\ kind'[u] = kind[u]
                        /\ u = t => header'[u] = "young"
  BY <1>1, <1>2
<1>5. \A u \in ToSet(pinned') : u = t \/ u \in ToSet(pinned)
  <2>1. CASE m = "final"
    <3>1. ToSet(<<t>> \o pinned) = {t} \cup ToSet(pinned)
      BY <1>2, <1>3, PinnedInFront DEF GInv, NoneTwice
    <3>2. pinned' = <<t>> \o pinned
      BY <1>1, <2>1
    <3> QED BY <3>1, <3>2
  <2>2. CASE m # "final"
    BY <1>1, <2>2
  <2> QED BY <2>1, <2>2
<1>6. ASSUME NEW u \in With("dead")
      PROVE  u \notin Held' /\ refs'[u] = {} /\ \A o \in Objects : u \notin refs'[o]
  <2>1. u # t
    BY <1>3 DEF With
  <2>2. /\ u \notin visible /\ u \notin aside /\ u \notin ToSet(pinned)
        /\ u \notin sweepPlain /\ u \notin sweepWeak
        /\ \A i \in DOMAIN plans : u \notin PlanHolds(plans[i])
        /\ refs[u] = {} /\ \A o \in Objects : u \notin refs[o]
    BY DeadNowhere DEF MInv
  <2> QED BY <1>1, <1>5, <2>1, <2>2 DEF Held
<1>7. DeadGone' /\ EmptiedPlain'
  BY <1>4, <1>6, FreedStay DEF MInv
<1>8. Phases' /\ MarkedAll'
  <2>1. \A u \in Tables : header'[u] = "black" => header[u] = "black"
    BY <1>4
  <2> QED BY <2>1, ProgramLeavesPhases DEF NewTable, MInv
<1> QED BY <1>7, <1>8 DEF MInv

(* A step of the program that adds references to things in use.            *)
LEMMA UseMarks ==
  ASSUME GInv, MInv, Runs, UNCHANGED <<kind, tracker, plans>>,
         \A t \in Tables : header'[t] = header[t]
                           \/ (header[t] = "black" /\ header'[t] = "gray"),
         \A t \in visible' \cup aside' : t \in Held \/ \E o \in Objects : t \in refs[o],
         \A o \in Objects : refs'[o] \subseteq refs[o] \/ (o \notin Tables \/ o \in Held),
         \A o \in Objects : \A t \in refs'[o] : t \in refs[o] \/ t \in Held
  PROVE  MInv'
<1> USE DEF staged, tracker
<1>1. ASSUME NEW u \in With("dead")
      PROVE  u \notin Held' /\ refs'[u] = {} /\ \A o \in Objects : u \notin refs'[o]
  <2>1. /\ u \notin ToSet(pinned) /\ u \notin sweepPlain /\ u \notin sweepWeak
        /\ \A i \in DOMAIN plans : u \notin PlanHolds(plans[i])
        /\ refs[u] = {} /\ \A o \in Objects : u \notin refs[o]
    BY DeadNowhere DEF MInv
  <2>2. u \notin Held /\ u \in Tables /\ u \in Objects
    BY DEF MInv, DeadGone, With, Objects
  <2>3. u \notin Held'
    BY <2>1, <2>2 DEF Held
  <2>4. refs'[u] = {}
    BY <2>1, <2>2
  <2>5. \A o \in Objects : u \notin refs'[o]
    BY <2>1, <2>2
  <2> QED BY <2>3, <2>4, <2>5
<1>2. DeadGone' /\ EmptiedPlain'
  BY <1>1, FreedStay DEF MInv
<1>3. Phases' /\ MarkedAll'
  BY ProgramLeavesPhases DEF MInv
<1> QED BY <1>2, <1>3 DEF MInv

(* A step of the program that drops a reference.                           *)
LEMMA DropMarks ==
  ASSUME GInv, GInv', MInv, Runs, UNCHANGED <<aside, tracker, plans>>,
         visible' \subseteq visible,
         NEW rf \in [Objects -> SUBSET Objects],
         \A o \in Objects : rf[o] \subseteq refs[o],
         Counting(rf, header)
  PROVE  MInv'
<1> USE DEF staged, tracker
<1>1. header \in [Tables -> Headers]
  BY DEF GInv, HeapType
<1>2. \A t \in With("dead") : t \notin Held'
  BY DeadNowhere DEF Held, MInv
<1>3. /\ DeadGone' /\ EmptiedPlain'
      /\ \A t \in Tables : header'[t] = header[t] \/ header'[t] = "dead"
  BY <1>1, <1>2, CountingFrees DEF MInv
<1>4. Phases' /\ MarkedAll'
  <2>1. \A u \in Tables : header'[u] = "black" => header[u] = "black"
    BY <1>3
  <2> QED BY <2>1, ProgramLeavesPhases DEF MInv
<1> QED BY <1>3, <1>4 DEF MInv

(* No step of the program disturbs it.                                     *)
LEMMA ProgramMarks ==
  ASSUME GInv, GInv', MInv, Program
  PROVE  MInv'
<1> USE DEF program, tracker, staged, tables
<1>0. /\ header \in [Tables -> Headers] /\ refs \in [Objects -> SUBSET Objects]
      /\ visible \subseteq Objects /\ aside \subseteq Objects
  BY DEF GInv, HeapType
<1>a. visible \subseteq Held /\ aside \subseteq Held
  BY DEF Held
<1>1. ASSUME NEW birth \in Births, NewTable(birth[1], birth[2]) PROVE MInv'
  <2>1. birth[1] \in Tables /\ birth[2] \in Kinds
    BY BirthsAssumption DEF Kinds
  <2> QED BY <1>1, <2>1, NewTableMarks
<1>2. ASSUME NEW c \in Closures, NEW o \in visible, NewClosure(c, o) PROVE MInv'
  <2>1. /\ Runs /\ c \notin InMemory /\ visible' = visible \cup {c}
        /\ refs' = [refs EXCEPT ![c] = {o}]
        /\ UNCHANGED <<header, kind, tracker, aside, plans>>
    BY <1>2 DEF NewClosure, MayMake
  <2>2. c \notin Tables /\ c \in Objects
    BY ObjectsAssumption DEF Objects
  <2>3. /\ \A p \in Objects : refs'[p] \subseteq refs[p] \/ (p \notin Tables \/ p \in Held)
        /\ \A p \in Objects : \A t \in refs'[p] : t \in refs[p] \/ t \in Held
    BY <1>0, <1>a, <2>1, <2>2
  <2>4. DeadGone' /\ EmptiedPlain'
    <3>1. ASSUME NEW u \in With("dead")
          PROVE  u \notin Held' /\ refs'[u] = {} /\ \A p \in Objects : u \notin refs'[p]
      <4>1. /\ u \notin visible /\ u \notin aside
            /\ u \notin ToSet(pinned) /\ u \notin sweepPlain /\ u \notin sweepWeak
            /\ \A i \in DOMAIN plans : u \notin PlanHolds(plans[i])
            /\ refs[u] = {} /\ \A p \in Objects : u \notin refs[p]
        BY DeadNowhere DEF MInv
      <4>2. u \in Tables /\ u \in Objects /\ u # c
        BY <2>2 DEF With, Objects
      <4>3. u \notin Held'
        BY <2>1, <4>1, <4>2 DEF Held
      <4>4. refs'[u] = {} /\ \A p \in Objects : u \notin refs'[p]
        BY <1>0, <2>1, <4>1, <4>2
      <4> QED BY <4>3, <4>4
    <3> QED BY <2>1, <3>1, FreedStay DEF MInv
  <2>5. Phases' /\ MarkedAll'
    BY <2>1, ProgramLeavesPhases DEF MInv
  <2> QED BY <2>4, <2>5 DEF MInv
<1>3. ASSUME NEW p \in visible, NEW o \in Objects, Store(p, o) PROVE MInv'
  <2>1. /\ Runs /\ p \in Tables /\ o \in visible
        /\ refs' = [refs EXCEPT ![p] = @ \cup {o}] /\ header' = Barrier(p, o)
        /\ UNCHANGED <<kind, tracker, visible, aside, plans>>
    BY <1>3 DEF Store
  <2>2. \A t \in Tables : header'[t] = header[t]
                          \/ (header[t] = "black" /\ header'[t] = "gray")
    BY <1>0, <2>1 DEF Barrier, With
  <2>3. /\ \A q \in Objects : refs'[q] \subseteq refs[q] \/ (q \notin Tables \/ q \in Held)
        /\ \A q \in Objects : \A t \in refs'[q] : t \in refs[q] \/ t \in Held
    BY <1>0, <1>a, <2>1
  <2> QED BY <1>a, <2>1, <2>2, <2>3, UseMarks
<1>4. ASSUME NEW p \in visible, NEW o \in Objects, Erase(p, o) PROVE MInv'
  <2>1. /\ Runs /\ UNCHANGED <<visible, aside, tracker, plans>>
        /\ Counting([refs EXCEPT ![p] = @ \ {o}], header)
    BY <1>4 DEF Erase
  <2> DEFINE rf == [refs EXCEPT ![p] = @ \ {o}]
  <2>2. rf \in [Objects -> SUBSET Objects] /\ \A q \in Objects : rf[q] \subseteq refs[q]
    BY <1>0
  <2> HIDE DEF rf
  <2>3. Counting(rf, header)
    BY <2>1 DEF rf
  <2> QED BY <2>1, <2>2, <2>3, DropMarks
<1>5. ASSUME NEW p \in visible, NEW o \in Objects, Load(p, o) PROVE MInv'
  <2>1. /\ Runs /\ o \in refs[p] /\ p \in Objects /\ visible' = visible \cup {o}
        /\ UNCHANGED <<header, kind, tracker, refs, aside, plans>>
    BY <1>0, <1>5 DEF Load
  <2> QED BY <1>a, <2>1, UseMarks
<1>6. CASE UseArgument
  <2> DEFINE a == Top.queue[Top.next]
  <2>1. /\ Runs /\ plans # << >> /\ visible' = visible \cup {a}
        /\ UNCHANGED <<header, kind, tracker, refs, aside, plans>>
    BY <1>6 DEF UseArgument
  <2>2. Top.stage = "run" /\ Len(plans) \in 1..Len(plans) /\ Top = plans[Len(plans)]
    BY <2>1, TopIsPlan DEF GInv, Runs
  <2>3. Top.queue \in Seq(Tables) /\ Top.next \in Nat \ {0} /\ Top.next <= Len(Top.queue)
    BY <2>1, <2>2, TopIsPlan, PlanFields DEF GInv, Nesting
  <2>4. Top.next \in DOMAIN Top.queue
    BY <2>3
  <2>5. a \in PlanHolds(Top) /\ Len(plans) \in DOMAIN plans
    BY <2>2, <2>4 DEF PlanHolds, ToSet, GInv, Nesting
  <2>6. a \in Held
    BY <2>2, <2>5 DEF Held
  <2> HIDE DEF a
  <2> QED BY <1>a, <2>1, <2>6, UseMarks
<1>7. CASE Resume
  <2>1. /\ plans = << >> /\ visible' = visible \cup aside /\ aside' = {}
        /\ UNCHANGED <<header, kind, tracker, refs, plans>>
    BY <1>7 DEF Resume
  <2>2. Runs
    BY <2>1 DEF Runs
  <2> QED BY <1>a, <2>1, <2>2, UseMarks
<1>8. ASSUME NEW o \in visible, Forget(o) PROVE MInv'
  <2>1. /\ Runs /\ UNCHANGED <<aside, tracker, plans>> /\ visible' \subseteq visible
        /\ Counting(refs, header)
    BY <1>8 DEF Forget
  <2> QED BY <1>0, <2>1, DropMarks
<1>9. ASSUME NEW o \in visible, Suspend(o) PROVE MInv'
  <2>1. /\ plans = << >> /\ visible' = visible \ {o} /\ aside' = {o}
        /\ UNCHANGED <<header, kind, tracker, refs, plans>>
    BY <1>9 DEF Suspend
  <2>2. Runs
    BY <2>1 DEF Runs
  <2> QED BY <1>a, <2>1, <2>2, UseMarks
<1> QED BY <1>1, <1>2, <1>3, <1>4, <1>5, <1>6, <1>7, <1>8, <1>9 DEF Program

(* The number of tables that a collection took off the tracker stays what  *)
(* it was.                                                                 *)
LEMMA EditsKeepDropped ==
  ASSUME NEW p \in Planned, NEW left \in SUBSET Tables
  PROVE  Started(p).dropped = p.dropped /\ WentOn(p, left).dropped = p.dropped
BY DEF Planned, Started, WentOn

(* What a finalizer that starts does to its collection.                    *)
LEMMA StartFinalizerDoes ==
  ASSUME GInv, StartFinalizer
  PROVE  /\ plans # << >> /\ Len(plans) \in 1..Len(plans)
         /\ Top = plans[Len(plans)] /\ Top \in Planned
         /\ UNCHANGED <<header, kind, pinned, bytes, state, hasWeak, sweeping,
                        sweepPlain, sweepWeak, doomed, refs, visible, aside>>
         /\ \E p \in Planned :
              /\ SetTop(p) /\ p.stage = "run" /\ p.plain = Top.plain
              /\ p.queue = Top.queue /\ p.dropped = Top.dropped
<1> USE DEF program, staged, tracker, tables
<1>1. /\ plans # << >> /\ Top.stage = "settle"
      /\ UNCHANGED <<header, kind, pinned, bytes, state, hasWeak, sweeping,
                     sweepPlain, sweepWeak, doomed, refs, visible, aside>>
  BY DEF StartFinalizer
<1>2. Len(plans) \in 1..Len(plans) /\ Top = plans[Len(plans)] /\ Top \in Planned
  BY <1>1, TopIsPlan, PlanFields DEF GInv
<1>3. SetTop(Started(Top))
  BY DEF StartFinalizer, Started
<1>4. {} \in SUBSET Tables
  OBVIOUS
<1> QED BY <1>1, <1>2, <1>3, <1>4, PlanEdits, EditsKeepDropped

(* What a finalizer that ends does to its collection and to its table.     *)
LEMMA FinalizerEndsDoes ==
  ASSUME GInv, NEW ok \in BOOLEAN, FinalizerEnds(ok)
  PROVE  /\ plans # << >> /\ Len(plans) \in 1..Len(plans)
         /\ Top = plans[Len(plans)] /\ Top \in Planned /\ Top.queue # << >>
         /\ UNCHANGED <<visible, aside, state, hasWeak, sweeping, sweepPlain,
                        sweepWeak, doomed>>
         /\ ToSet(pinned') \subseteq ToSet(pinned)
         /\ \E p \in Planned :
              /\ SetTop(p) /\ p.stage = "settle" /\ p.plain = Top.plain
              /\ p.queue = Top.queue /\ p.dropped = Top.dropped
         /\ \E t \in Tables, rf \in [Objects -> SUBSET Objects], hd \in [Tables -> Headers] :
              /\ Tracked(t)
              /\ Counting(rf, hd) /\ \A o \in Objects : rf[o] \subseteq refs[o]
              /\ \A u \in Tables : u # t => hd[u] = header[u]
              /\ \/ hd[t] = "white" /\ bytes' = bytes
                 \/ hd[t] = "none" /\ bytes' = Minus(bytes, 1)
<1> USE DEF program, staged, tracker, tables
<1> DEFINE t == Top.queue[Top.next]
<1>1. plans # << >> /\ Top.stage = "run"
  BY DEF FinalizerEnds, Runs
<1>2. Len(plans) \in 1..Len(plans) /\ Top = plans[Len(plans)] /\ Top \in Planned
  BY <1>1, TopIsPlan, PlanFields DEF GInv
<1>3. Top.next <= Len(Top.queue)
  BY <1>1, <1>2 DEF GInv, Nesting
<1>4. t \in Waiting(Top) /\ t \in Tables /\ Top.next \in DOMAIN Top.queue
  BY <1>2, <1>3, NextWaits
<1>5. Top.queue # << >>
  BY <1>4
<1>6. Tracked(t)
  BY <1>2, <1>4 DEF GInv, WaitingApart
<1>7. /\ pinned' = Unpinned(t)
      /\ UNCHANGED <<visible, aside, state, hasWeak, sweeping, sweepPlain,
                     sweepWeak, doomed>>
      /\ \/ UNCHANGED bytes /\ Counting(refs, [header EXCEPT ![t] = "white"])
         \/ /\ bytes' = Minus(bytes, 1)
            /\ Counting([refs EXCEPT ![t] = {}], [header EXCEPT ![t] = "none"])
  BY DEF FinalizerEnds
<1>8. ToSet(pinned') \subseteq ToSet(pinned)
  BY <1>7, AmongElements DEF Unpinned, GInv, HeapType
<1>9. \E p \in Planned : /\ SetTop(p) /\ p.stage = "settle" /\ p.plain = Top.plain
                         /\ p.queue = Top.queue /\ p.dropped = Top.dropped
  <2>1. PICK stays \in BOOLEAN :
          SetTop([Top EXCEPT !.stage = "settle", !.next = @ + 1,
                             !.cleared = IF stays THEN @ ELSE @ \cup {t}])
    BY DEF FinalizerEnds
  <2> HIDE DEF t
  <2> DEFINE left == IF stays THEN Top.cleared ELSE Top.cleared \cup {t}
             p == WentOn(Top, left)
  <2>2. left \in SUBSET Tables
    BY <1>2, <1>4 DEF Planned
  <2>3. SetTop(p)
    BY <2>1 DEF WentOn
  <2> HIDE DEF left
  <2>4. /\ p \in Planned /\ p.stage = "settle" /\ p.plain = Top.plain
        /\ p.queue = Top.queue /\ p.dropped = Top.dropped
    BY <1>2, <2>2, PlanEdits, EditsKeepDropped
  <2> HIDE DEF p
  <2> QED BY <2>3, <2>4
<1> HIDE DEF t
<1>10. header \in [Tables -> Headers] /\ refs \in [Objects -> SUBSET Objects]
  BY DEF GInv, HeapType
<1>11. CASE UNCHANGED bytes /\ Counting(refs, [header EXCEPT ![t] = "white"])
  <2> DEFINE hd == [header EXCEPT ![t] = "white"]
  <2>1. /\ hd \in [Tables -> Headers] /\ hd[t] = "white"
        /\ \A u \in Tables : u # t => hd[u] = header[u]
    BY <1>4, <1>10 DEF Headers, Colours
  <2>2. Counting(refs, hd) /\ bytes' = bytes
    BY <1>11
  <2> HIDE DEF hd
  <2>3. \E rf \in [Objects -> SUBSET Objects], h \in [Tables -> Headers] :
          /\ Counting(rf, h) /\ \A o \in Objects : rf[o] \subseteq refs[o]
          /\ \A u \in Tables : u # t => h[u] = header[u]
          /\ \/ h[t] = "white" /\ bytes' = bytes
             \/ h[t] = "none" /\ bytes' = Minus(bytes, 1)
    BY <1>10, <2>1, <2>2
  <2> QED BY <1>1, <1>2, <1>4, <1>5, <1>6, <1>7, <1>8, <1>9, <2>3
<1>12. CASE /\ bytes' = Minus(bytes, 1)
            /\ Counting([refs EXCEPT ![t] = {}], [header EXCEPT ![t] = "none"])
  <2> DEFINE hd == [header EXCEPT ![t] = "none"]
             rf == [refs EXCEPT ![t] = {}]
  <2>1. /\ hd \in [Tables -> Headers] /\ hd[t] = "none"
        /\ \A u \in Tables : u # t => hd[u] = header[u]
    BY <1>4, <1>10 DEF Headers
  <2>2. rf \in [Objects -> SUBSET Objects] /\ \A o \in Objects : rf[o] \subseteq refs[o]
    BY <1>10
  <2>3. Counting(rf, hd) /\ bytes' = Minus(bytes, 1)
    BY <1>12
  <2> HIDE DEF hd, rf
  <2>4. \E f \in [Objects -> SUBSET Objects], h \in [Tables -> Headers] :
          /\ Counting(f, h) /\ \A o \in Objects : f[o] \subseteq refs[o]
          /\ \A u \in Tables : u # t => h[u] = header[u]
          /\ \/ h[t] = "white" /\ bytes' = bytes
             \/ h[t] = "none" /\ bytes' = Minus(bytes, 1)
    BY <2>1, <2>2, <2>3
  <2> QED BY <1>1, <1>2, <1>4, <1>5, <1>6, <1>7, <1>8, <1>9, <2>4
<1> QED BY <1>7, <1>11, <1>12

(* The collections hold the same when only the innermost one's stage       *)
(* changes.                                                                *)
LEMMA TopHoldsSame ==
  ASSUME GInv, plans # << >>, NEW p \in Planned, SetTop(p),
         p.plain = Top.plain, p.queue = Top.queue
  PROVE  /\ Len(plans') = Len(plans) /\ Top' = p /\ plans' # << >>
         /\ \A i \in DOMAIN plans' : i \in DOMAIN plans
                                     /\ PlanHolds(plans'[i]) = PlanHolds(plans[i])
<1>1. Len(plans) \in Nat \ {0} /\ Len(plans) \in 1..Len(plans) /\ Top = plans[Len(plans)]
  BY TopIsPlan DEF GInv
<1>2. /\ plans' \in Seq(Pending \cup Planned) /\ Len(plans') = Len(plans)
      /\ plans'[Len(plans)] = p
      /\ \A i \in 1..Len(plans) : i # Len(plans) => plans'[i] = plans[i]
  BY TopReplaced DEF GInv
<1>3. Top' = p /\ plans' # << >>
  BY <1>1, <1>2 DEF Top
<1>4. plans \in Seq(Pending \cup Planned)
  BY DEF GInv, Nesting
<1>5. ASSUME NEW i \in DOMAIN plans'
      PROVE  i \in DOMAIN plans /\ PlanHolds(plans'[i]) = PlanHolds(plans[i])
  <2>1. i \in 1..Len(plans) /\ i \in DOMAIN plans
    BY <1>2, <1>4
  <2>2. CASE i = Len(plans)
    BY <1>1, <1>2, <2>1, <2>2 DEF PlanHolds
  <2>3. CASE i # Len(plans)
    BY <1>2, <2>1, <2>3
  <2> QED BY <2>1, <2>2, <2>3
<1> QED BY <1>2, <1>3, <1>5

(* Finalizers run inside a collection whose queue is not empty.            *)
LEMMA StartFinalizerMarks ==
  ASSUME GInv, MInv, StartFinalizer
  PROVE  MInv'
<1>1. /\ plans # << >>
      /\ UNCHANGED <<header, kind, pinned, bytes, state, hasWeak, sweeping,
                     sweepPlain, sweepWeak, doomed, refs, visible, aside>>
  BY StartFinalizerDoes
<1>2. PICK p \in Planned : /\ SetTop(p) /\ p.stage = "run" /\ p.plain = Top.plain
                           /\ p.queue = Top.queue
  BY StartFinalizerDoes
<1>3. /\ Top' = p /\ plans' # << >>
      /\ \A i \in DOMAIN plans' : i \in DOMAIN plans
                                  /\ PlanHolds(plans'[i]) = PlanHolds(plans[i])
  BY <1>1, <1>2, TopHoldsSame
<1>4. ASSUME NEW u \in With("dead")
      PROVE  u \notin Held' /\ refs'[u] = {} /\ \A o \in Objects : u \notin refs'[o]
  BY <1>1, <1>3, DeadNowhere DEF Held, MInv
<1>5. DeadGone' /\ EmptiedPlain'
  BY <1>1, <1>4, FreedStay DEF MInv
<1>6. Phases'
  BY <1>1, <1>2, <1>3 DEF Phases, With, MInv
<1>7. MarkedAll'
  BY <1>2, <1>3 DEF MarkedAll
<1> QED BY <1>5, <1>6, <1>7 DEF MInv

LEMMA FinalizerEndsMarks ==
  ASSUME GInv, GInv', MInv, NEW ok \in BOOLEAN, FinalizerEnds(ok)
  PROVE  MInv'
<1>1. /\ plans # << >> /\ Top.queue # << >>
      /\ UNCHANGED <<visible, aside, state, hasWeak, sweeping, sweepPlain,
                     sweepWeak, doomed>>
      /\ ToSet(pinned') \subseteq ToSet(pinned)
  BY FinalizerEndsDoes
<1>2. PICK p \in Planned : /\ SetTop(p) /\ p.stage = "settle" /\ p.plain = Top.plain
                           /\ p.queue = Top.queue
  BY FinalizerEndsDoes
<1>3. /\ Top' = p /\ plans' # << >>
      /\ \A i \in DOMAIN plans' : i \in DOMAIN plans
                                  /\ PlanHolds(plans'[i]) = PlanHolds(plans[i])
  BY <1>1, <1>2, TopHoldsSame
<1>4. PICK t \in Tables, rf \in [Objects -> SUBSET Objects], hd \in [Tables -> Headers] :
        /\ Tracked(t)
        /\ Counting(rf, hd) /\ \A o \in Objects : rf[o] \subseteq refs[o]
        /\ \A u \in Tables : u # t => hd[u] = header[u]
        /\ hd[t] \in {"white", "none"}
  BY FinalizerEndsDoes
<1>5. \A u \in With("dead") : u \notin Held'
  BY <1>1, <1>3, DeadNowhere DEF Held, MInv
<1>6. \A u \in Tables : /\ hd[u] = "dead" <=> header[u] = "dead"
                        /\ hd[u] = "black" => header[u] = "black"
  BY <1>4 DEF Tracked, Colours
<1>7. /\ DeadGone' /\ EmptiedPlain'
      /\ \A u \in Tables : header'[u] = hd[u] \/ header'[u] = "dead"
  BY <1>4, <1>5, <1>6, CountingFrees DEF MInv
<1>8. \A u \in Tables : header'[u] = "black" => header[u] = "black"
  BY <1>6, <1>7
<1>9. Phases'
  BY <1>1, <1>2, <1>3, <1>8 DEF Phases, With, MInv
<1>10. MarkedAll'
  BY <1>1, <1>2, <1>3 DEF MarkedAll
<1> QED BY <1>7, <1>9, <1>10 DEF MInv

(* The references and headers that a slice leaves to refcounting.          *)
Clearing(rf, hd, plain, chosen, weak, dead) ==
  /\ rf \in [Objects -> SUBSET Objects] /\ hd \in [Tables -> Headers]
  /\ \A o \in Objects : rf[o] \subseteq refs[o]
  /\ \A t \in Tables :
       /\ t \in chosen => hd[t] = "none"
       /\ t \notin chosen => hd[t] = header[t] \/ (header[t] = "black" /\ hd[t] = "white")
  /\ plain \ chosen = {} =>
       /\ \A t \in Tables : hd[t] # "black"
       /\ \A w \in weak : \A t \in rf[w] : t \notin Gone(weak, dead, chosen)
Clears(plain, chosen, weak, dead) ==
  \E rf, hd : Clearing(rf, hd, plain, chosen, weak, dead) /\ Counting(rf, hd)

(* What a slice does.                                                      *)
LEMMA SliceDoes ==
  ASSUME GInv, NEW plain \in SUBSET Tables, NEW chosen \in SUBSET plain,
         NEW weak \in SUBSET Tables, NEW dead, NEW count,
         Slice(plain, chosen, weak, dead, count)
  PROVE  /\ Clears(plain, chosen, weak, dead)
         /\ sweepPlain' = plain \ chosen /\ sweepWeak' \subseteq weak
         /\ bytes' = Minus(count, Cardinality({t \in chosen : Tracked(t)}))
         /\ ToSet(pinned') \subseteq ToSet(pinned)
         /\ UNCHANGED <<visible, aside>>
         /\ sweeping' = (plain \ chosen # {})
         /\ plain \ chosen # {} => state' = state
         /\ plain \ chosen = {} => state' = "pause" /\ sweepWeak' = {}
<1> USE DEF program
<1> DEFINE rest  == plain \ chosen
           gone  == Gone(weak, dead, chosen)
           clear == [o \in Objects |-> IF o \in chosen THEN {} ELSE refs[o]]
           swept == [t \in Tables |-> IF t \in chosen THEN "none" ELSE header[t]]
           rf1   == [o \in Objects |-> IF o \in weak THEN clear[o] \ gone ELSE clear[o]]
           hd1   == [t \in Tables |-> IF swept[t] = "black" THEN "white" ELSE swept[t]]
<1>1. /\ sweepPlain' = rest /\ sweeping' = (rest # {})
      /\ bytes' = Minus(count, Cardinality({t \in chosen : Tracked(t)}))
      /\ pinned' = Among(pinned, Tables \ chosen)
      /\ UNCHANGED <<visible, aside>>
      /\ IF rest # {}
         THEN /\ doomed' = gone /\ sweepWeak' = weak /\ UNCHANGED state
              /\ Counting(clear, swept)
         ELSE /\ doomed' = {} /\ sweepWeak' = {} /\ state' = "pause"
              /\ Counting(rf1, hd1)
  BY DEF Slice
<1>2. header \in [Tables -> Headers] /\ refs \in [Objects -> SUBSET Objects]
      /\ pinned \in Seq(Tables)
  BY DEF GInv, HeapType
<1>3. {"none", "white"} \subseteq Headers /\ Tables \subseteq Objects
  BY DEF Headers, Colours, Objects
<1>4. /\ clear \in [Objects -> SUBSET Objects] /\ swept \in [Tables -> Headers]
      /\ \A o \in Objects : clear[o] \subseteq refs[o]
      /\ \A t \in Tables : /\ t \in chosen => swept[t] = "none"
                           /\ t \notin chosen => swept[t] = header[t]
  BY <1>2, <1>3
<1> HIDE DEF clear, swept, gone
<1>5. /\ rf1 \in [Objects -> SUBSET Objects] /\ hd1 \in [Tables -> Headers]
      /\ \A o \in Objects : rf1[o] \subseteq refs[o]
      /\ \A t \in Tables : /\ t \in chosen => hd1[t] = "none"
                           /\ t \notin chosen => hd1[t] = header[t]
                                                 \/ (header[t] = "black" /\ hd1[t] = "white")
                           /\ hd1[t] # "black"
      /\ \A w \in weak : \A t \in rf1[w] : t \notin gone
  <2>1. \A o \in Objects : rf1[o] \subseteq clear[o]
    OBVIOUS
  <2>2. rf1 \in [Objects -> SUBSET Objects]
    BY <1>4
  <2>3. \A o \in Objects : rf1[o] \subseteq refs[o]
    BY <1>4, <2>1
  <2>4. hd1 \in [Tables -> Headers]
    BY <1>3, <1>4
  <2>5. \A t \in Tables : /\ t \in chosen => hd1[t] = "none"
                          /\ t \notin chosen => hd1[t] = header[t]
                                                \/ (header[t] = "black" /\ hd1[t] = "white")
                          /\ hd1[t] # "black"
    BY <1>4
  <2>6. \A w \in weak : w \in Objects
    BY <1>3
  <2>7. \A w \in weak : rf1[w] = clear[w] \ gone
    BY <2>6
  <2> QED BY <2>2, <2>3, <2>4, <2>5, <2>7
<1> HIDE DEF rf1, hd1
<1>6. ToSet(pinned') \subseteq ToSet(pinned)
  BY <1>1, <1>2, AmongElements
<1>7. CASE rest # {}
  <2>1. Counting(clear, swept) /\ sweepWeak' = weak /\ state' = state
    BY <1>1, <1>7
  <2>2. Clearing(clear, swept, plain, chosen, weak, dead)
    BY <1>4, <1>7 DEF Clearing
  <2> QED BY <1>1, <1>6, <1>7, <2>1, <2>2 DEF Clears
<1>8. CASE rest = {}
  <2>1. Counting(rf1, hd1) /\ sweepWeak' = {} /\ state' = "pause"
    BY <1>1, <1>8
  <2>2. Clearing(rf1, hd1, plain, chosen, weak, dead)
    BY <1>5 DEF Clearing, gone
  <2> QED BY <1>1, <1>6, <1>8, <2>1, <2>2 DEF Clears
<1> QED BY <1>7, <1>8

(* A slice frees only what it clears, and ends a sweep once.               *)
LEMMA SliceMarks ==
  ASSUME GInv, GInv', MInv,
         NEW plain \in SUBSET Tables, NEW chosen \in SUBSET plain,
         NEW weak \in SUBSET Tables, NEW dead, NEW count,
         Slice(plain, chosen, weak, dead, count),
         \A u \in With("dead") :
           /\ u \notin plain /\ u \notin weak
           /\ \A i \in DOMAIN plans' : u \notin PlanHolds(plans'[i])
  PROVE  /\ DeadGone' /\ EmptiedPlain'
         /\ state' = "pause" => With("black")' = {}
         /\ ~sweeping' => state' = "pause" /\ sweepPlain' = {} /\ sweepWeak' = {}
         /\ plain \ chosen = {} => ~sweeping'
<1>0. PICK rf, hd : Clearing(rf, hd, plain, chosen, weak, dead) /\ Counting(rf, hd)
  <2>1. Clears(plain, chosen, weak, dead)
    BY SliceDoes
  <2> QED BY <2>1 DEF Clears
<1>a. /\ sweepPlain' = plain \ chosen /\ sweepWeak' \subseteq weak
      /\ ToSet(pinned') \subseteq ToSet(pinned)
      /\ UNCHANGED <<visible, aside>>
      /\ sweeping' = (plain \ chosen # {})
      /\ plain \ chosen # {} => state' = state
      /\ plain \ chosen = {} => state' = "pause" /\ sweepWeak' = {}
  BY SliceDoes
<1>1. /\ rf \in [Objects -> SUBSET Objects] /\ hd \in [Tables -> Headers]
      /\ \A o \in Objects : rf[o] \subseteq refs[o]
      /\ \A t \in Tables :
           /\ t \in chosen => hd[t] = "none"
           /\ t \notin chosen => hd[t] = header[t] \/ (header[t] = "black" /\ hd[t] = "white")
      /\ plain \ chosen = {} => \A t \in Tables : hd[t] # "black"
  BY <1>0 DEF Clearing
<1>2. \A u \in With("dead") : u \notin Held'
  <2> SUFFICES ASSUME NEW u \in With("dead") PROVE u \notin Held'
    OBVIOUS
  <2>1. u \notin visible /\ u \notin aside /\ u \notin ToSet(pinned)
    BY DeadNowhere DEF MInv
  <2>2. /\ u \notin sweepPlain' /\ u \notin sweepWeak' /\ u \notin ToSet(pinned')
        /\ u \notin visible' /\ u \notin aside'
    BY <1>a, <2>1
  <2> QED BY <2>2 DEF Held
<1>3. \A u \in Tables : hd[u] = "dead" <=> header[u] = "dead"
  <2> SUFFICES ASSUME NEW u \in Tables PROVE hd[u] = "dead" <=> header[u] = "dead"
    OBVIOUS
  <2>1. CASE u \in chosen
    <3>1. u \notin With("dead")
      BY <2>1
    <3>2. header[u] # "dead"
      BY <3>1 DEF With
    <3> QED BY <1>1, <2>1, <3>2
  <2>2. CASE u \notin chosen
    BY <1>1, <2>2
  <2> QED BY <2>1, <2>2
<1>4. /\ DeadGone' /\ EmptiedPlain'
      /\ \A u \in Tables : header'[u] = hd[u] \/ header'[u] = "dead"
  BY <1>0, <1>1, <1>2, <1>3, CountingFrees DEF MInv
<1>5. state' = "pause" => With("black")' = {}
  <2> SUFFICES ASSUME state' = "pause", NEW u \in Tables, header'[u] = "black" PROVE FALSE
    BY DEF With
  <2>1. hd[u] = "black"
    BY <1>4
  <2>2. plain \ chosen # {} /\ state = "pause" /\ header[u] = "black"
    BY <1>1, <1>a, <2>1
  <2> QED BY <2>2 DEF MInv, Phases, With
<1> QED BY <1>a, <1>4, <1>5

(* The slices and sweeps.                                                  *)
LEMMA AutoSliceMarks ==
  ASSUME GInv, GInv', MInv, AutoSlice
  PROVE  MInv'
<1>1. PICK chosen \in InBudget(sweepPlain) :
        Slice(sweepPlain, chosen, sweepWeak, doomed, bytes)
  BY DEF AutoSlice, SliceStaged
<1>2. UNCHANGED plans /\ Runs
  BY DEF AutoSlice
<1>3. chosen \in SUBSET sweepPlain /\ sweepPlain \in SUBSET Tables /\ sweepWeak \in SUBSET Tables
  BY BudgetOf, StagedApart
<1>4. \A u \in With("dead") :
        /\ u \notin sweepPlain /\ u \notin sweepWeak
        /\ \A i \in DOMAIN plans' : u \notin PlanHolds(plans'[i])
  BY <1>2, DeadNowhere DEF MInv
<1>5. /\ DeadGone' /\ EmptiedPlain'
      /\ state' = "pause" => With("black")' = {}
      /\ ~sweeping' => state' = "pause" /\ sweepPlain' = {} /\ sweepWeak' = {}
  BY <1>1, <1>3, <1>4, SliceMarks
<1>6. plans # << >> => Top.stage = "run" /\ Top' = Top
  BY <1>2 DEF Runs, Top
<1>7. Phases'
  BY <1>2, <1>5, <1>6 DEF Phases
<1>8. MarkedAll'
  <2> SUFFICES ASSUME Len(plans') = 1, Top'.stage = "settle" PROVE FALSE
    BY DEF MarkedAll
  <2>1. plans # << >>
    BY <1>2
  <2> QED BY <1>6, <2>1
<1> QED BY <1>5, <1>7, <1>8 DEF MInv

LEMMA DrainStagedMarks ==
  ASSUME GInv, GInv', MInv, DrainStaged
  PROVE  MInv'
<1> DEFINE p == [stage |-> "plan", plain |-> {}, queue |-> << >>]
<1>1. Slice(sweepPlain, sweepPlain, sweepWeak, doomed, bytes) /\ plans' = Append(plans, p)
  BY DEF DrainStaged, SliceStaged
<1>2. p \in Pending /\ p.stage = "plan" /\ PlanHolds(p) = {}
  BY DEF Pending, PlanHolds, ToSet
<1> HIDE DEF p
<1>3. /\ plans \in Seq(Pending \cup Planned) /\ Len(plans') = Len(plans) + 1
      /\ plans'[Len(plans) + 1] = p
      /\ \A i \in 1..Len(plans) : plans'[i] = plans[i]
      /\ DOMAIN plans' = 1..(Len(plans) + 1) /\ Len(plans) \in Nat
  BY <1>1, <1>2, LastAdded DEF GInv, Nesting
<1>4. Top' = p /\ plans' # << >>
  BY <1>3 DEF Top
<1>5. \A u \in With("dead") :
        /\ u \notin sweepPlain /\ u \notin sweepWeak
        /\ \A i \in DOMAIN plans' : u \notin PlanHolds(plans'[i])
  <2> SUFFICES ASSUME NEW u \in With("dead"), NEW i \in DOMAIN plans'
               PROVE  u \notin PlanHolds(plans'[i])
    BY DeadNowhere DEF MInv
  <2>1. i = Len(plans) + 1 \/ i \in 1..Len(plans)
    BY <1>3
  <2>2. i \in 1..Len(plans) => i \in DOMAIN plans
    BY <1>3
  <2> QED BY <1>2, <1>3, <2>1, <2>2, DeadNowhere DEF MInv
<1>6. sweepPlain \in SUBSET Tables /\ sweepWeak \in SUBSET Tables
      /\ sweepPlain \in SUBSET sweepPlain
  BY StagedApart
<1>7. /\ DeadGone' /\ EmptiedPlain'
      /\ state' = "pause" => With("black")' = {}
      /\ ~sweeping' => state' = "pause" /\ sweepPlain' = {} /\ sweepWeak' = {}
  <2>1. Slice(sweepPlain, sweepPlain, sweepWeak, doomed, bytes)
    BY <1>1
  <2> QED BY <1>5, <1>6, <2>1, SliceMarks
<1>8. Phases'
  <2>1. sweeping' = (sweepPlain \ sweepPlain # {})
    BY <1>1 DEF Slice
  <2>2. ~sweeping'
    BY <2>1
  <2> QED BY <1>4, <1>7, <2>2 DEF Phases
<1>9. MarkedAll'
  BY <1>2, <1>4 DEF MarkedAll
<1> QED BY <1>7, <1>8, <1>9 DEF MInv

LEMMA SweepMarks ==
  ASSUME GInv, GInv', MInv, Sweep
  PROVE  MInv'
<1> DEFINE weak == {t \in With("black") : hasWeak /\ kind[t] = "weak"}
           n    == Len(plans)
<1>1. plans # << >> /\ Top.stage = "settle" /\ plans' = Front(plans)
  BY DEF Sweep
<1>2. PICK chosen \in {Top.plain} \cup InBudget(Top.plain) :
        Slice(Top.plain, chosen, weak, Top.cleared, Minus(bytes, Top.dropped))
  BY DEF Sweep
<1>3. /\ n \in Nat \ {0} /\ n \in 1..n /\ Top = plans[n] /\ Top \in Planned
      /\ Top.plain \in SUBSET Tables /\ n \in DOMAIN plans
  BY <1>1, TopIsPlan, PlanFields DEF GInv, Nesting
<1>4. /\ plans' \in Seq(Pending \cup Planned) /\ Len(plans') = n - 1
      /\ \A i \in 1..Len(plans') : plans'[i] = plans[i]
  BY <1>1, LastDropped DEF GInv, Nesting
<1>5. chosen \in SUBSET Top.plain /\ weak \in SUBSET Tables
  BY <1>3, BudgetOf DEF With
<1>6. \A u \in With("dead") :
        /\ u \notin Top.plain /\ u \notin weak
        /\ \A i \in DOMAIN plans' : u \notin PlanHolds(plans'[i])
  <2> SUFFICES ASSUME NEW u \in With("dead")
               PROVE  /\ u \notin Top.plain /\ u \notin weak
                      /\ \A i \in DOMAIN plans' : u \notin PlanHolds(plans'[i])
    OBVIOUS
  <2>1. \A i \in DOMAIN plans : u \notin PlanHolds(plans[i])
    BY DeadNowhere DEF MInv
  <2>2. u \notin Top.plain
    BY <1>3, <2>1 DEF PlanHolds
  <2>3. u \notin weak
    BY DEF With
  <2>4. \A i \in DOMAIN plans' : i \in DOMAIN plans /\ plans'[i] = plans[i]
    BY <1>3, <1>4
  <2> QED BY <2>1, <2>2, <2>3, <2>4
<1> HIDE DEF weak
<1>7. /\ DeadGone' /\ EmptiedPlain'
      /\ state' = "pause" => With("black")' = {}
      /\ ~sweeping' => state' = "pause" /\ sweepPlain' = {} /\ sweepWeak' = {}
  BY <1>2, <1>3, <1>5, <1>6, SliceMarks
<1>8. plans' # << >> => Top'.stage = "run"
  <2> SUFFICES ASSUME plans' # << >> PROVE Top'.stage = "run"
    OBVIOUS
  <2>1. n - 1 \in 1..n /\ n - 1 < n /\ n - 1 \in 1..Len(plans')
    BY <1>3, <1>4
  <2>2. Top' = plans[n - 1]
    BY <1>4, <2>1 DEF Top
  <2> QED BY <2>1, <2>2 DEF GInv, Nesting
<1>9. Phases'
  BY <1>7, <1>8 DEF Phases
<1>10. MarkedAll'
  <2> SUFFICES ASSUME Len(plans') = 1, Top'.stage = "settle" PROVE FALSE
    BY DEF MarkedAll
  <2>1. plans' # << >>
    OBVIOUS
  <2> QED BY <1>8, <2>1
<1> QED BY <1>7, <1>9, <1>10 DEF MInv

(* What is reached from some of the anchors, through some of the objects,  *)
(* is led to by the anchors.                                               *)
LEMMA ReachedIsAnchored ==
  ASSUME GInv, NEW from \in SUBSET Objects, NEW through, NEW C \in SUBSET Objects,
         from \subseteq C, \A o \in C : StrongRefs(o) \subseteq C
  PROVE  Reach(from, through) \subseteq C
<1>1. refs \in [Objects -> SUBSET Objects]
  BY DEF GInv, HeapType
<1>2. \A o \in C \cap Objects : o \in through => StrongRefs(o) \subseteq C
  OBVIOUS
<1> QED BY <1>1, <1>2, ReachIsClosure

(* A collection that is the only one spares what the anchors lead to, and  *)
(* nothing else: before a collection no table is black, no table that was  *)
(* emptied or freed is weak or refers to anything, and nobody else holds   *)
(* tables.                                                                 *)
LEMMA SparesAnchored ==
  ASSUME GInv, MInv, ~sweeping, state = "pause",
         \A i \in DOMAIN plans : plans[i].stage = "plan",
         NEW C \in SUBSET Objects,
         visible \cup aside \cup Closures \cup With("none") \cup With("gray") \subseteq C,
         \A g \in With("gray") : refs[g] \subseteq C,
         \A o \in C : StrongRefs(o) \subseteq C
  PROVE  \A t \in Whites \ Condemned : t \in C
<1> DEFINE white    == Whites \ Marked
           internal == InternalHolders(white, SeesWeak)
           outside  == {t \in white :
                          HeldOutside(t) \/ \E o \in Objects \ internal : t \in refs[o]}
<1>1. /\ Tables \subseteq Objects /\ Closures \subseteq Objects
      /\ Whites \subseteq Tables /\ Marked \subseteq Whites
      /\ visible \subseteq Objects
      /\ \A i \in DOMAIN plans : PlanHolds(plans[i]) = {}
      /\ Arguments = {}
  <2>1. ASSUME NEW i \in DOMAIN plans PROVE PlanHolds(plans[i]) = {}
    <3>1. plans[i] \in Pending \cup Planned
      BY DEF GInv, Nesting
    <3>2. plans[i].plain = {} /\ plans[i].queue = << >>
      BY <3>1, PlanFields
    <3> QED BY <3>2 DEF PlanHolds, ToSet
  <2>2. Arguments = {}
    BY DEF Arguments
  <2> QED BY <2>1, <2>2, Roots
<1>2. Marked \subseteq C
  <2>1. Marked = Reach(visible \cup Arguments, Closures \cup Whites) \cap Whites
    BY DEF Marked
  <2>2. visible \cup Arguments \in SUBSET Objects /\ visible \cup Arguments \subseteq C
    BY <1>1
  <2>3. Reach(visible \cup Arguments, Closures \cup Whites) \subseteq C
    BY <2>2, ReachedIsAnchored
  <2> QED BY <2>1, <2>3
<1>3. ASSUME NEW s \in outside PROVE s \in C
  <2>1. s \in white /\ s \in Tables
    BY <1>1
  <2>2. CASE HeldOutside(s)
    BY <1>1, <2>2 DEF HeldOutside, MInv, Phases
  <2>3. CASE \E o \in Objects \ internal : s \in refs[o]
    <3>1. PICK o \in Objects \ internal : s \in refs[o]
      BY <2>3
    <3>2. CASE o \in Closures
      <4>1. o \in C /\ StrongRefs(o) = refs[o]
        BY <3>2, ObjectsAssumption DEF StrongRefs
      <4> QED BY <3>1, <4>1
    <3>3. CASE o \in Marked
      <4>1. kind[o] # "weak"
        <5> SUFFICES ASSUME kind[o] = "weak" PROVE FALSE
          OBVIOUS
        <5>1. SeesWeak
          BY <3>3 DEF SeesWeak
        <5>2. o \in internal
          BY <3>3, <5>1 DEF InternalHolders
        <5> QED BY <3>1, <5>2
      <4>2. o \in C /\ StrongRefs(o) = refs[o]
        BY <1>2, <3>3, <4>1 DEF StrongRefs
      <4> QED BY <3>1, <4>2
    <3>4. CASE o \in Tables /\ o \notin Marked
      <4>1. o \notin Whites
        BY <3>1, <3>4 DEF InternalHolders
      <4>2. header[o] \in Headers /\ header[o] # "white" /\ header[o] # "young"
        BY <3>4, <4>1 DEF GInv, HeapType, Whites, With
      <4>3. header[o] # "black"
        BY <3>4 DEF MInv, Phases, With
      <4>4. CASE header[o] = "gray"
        BY <3>1, <3>4, <4>4 DEF With
      <4>5. CASE header[o] = "dead"
        BY <3>1, <3>4, <4>5 DEF With, MInv, DeadGone
      <4>6. CASE header[o] = "none"
        <5>1. o \in With("none")
          BY <3>4, <4>6 DEF With
        <5>2. o \in C /\ kind[o] = "plain"
          BY <5>1 DEF MInv, EmptiedPlain
        <5>3. StrongRefs(o) = refs[o]
          BY <5>2 DEF StrongRefs
        <5> QED BY <3>1, <5>2, <5>3
      <4> QED BY <4>2, <4>3, <4>4, <4>5, <4>6 DEF Headers, Colours
    <3> QED BY <3>1, <3>2, <3>3, <3>4 DEF Objects
  <2> QED BY <2>2, <2>3
<1>4. Reach(outside, Closures \cup white) \subseteq C
  <2>1. outside \in SUBSET Objects /\ outside \subseteq C
    BY <1>1, <1>3
  <2> HIDE DEF outside, white
  <2> QED BY <2>1, ReachedIsAnchored
<1>5. Spared(white, internal) = outside \cup (Reach(outside, Closures \cup white) \cap white)
  BY DEF Spared
<1>6. Condemned = white \ Spared(white, internal)
  BY DEF Condemned
<1> HIDE DEF outside, internal
<1> QED BY <1>2, <1>3, <1>4, <1>5, <1>6

(* A collection that plans, after the others in `outer`.                   *)
LEMMA PlanMarks ==
  ASSUME GInv, GInv', MInv, NEW outer \in Seq(Pending \cup Planned), Plan(outer), ~sweeping,
         outer = << >> => state = "pause" /\ \A i \in DOMAIN plans : plans[i].stage = "plan"
  PROVE  MInv'
<1>1. PICK p : /\ plans' = Append(outer, p) /\ p \in Planned
               /\ p.stage = "settle" /\ p.next = 1
               /\ ToSet(p.queue) = ToSet(pinned) \cap Condemned
               /\ p.plain = Condemned \ ToSet(p.queue)
  BY PlanMakes
<1>2. /\ hasWeak' = SeesWeak /\ state' = "sweep"
      /\ UNCHANGED <<kind, refs, visible, aside, pinned, sweeping, sweepPlain, sweepWeak>>
      /\ \A t \in Tables :
           /\ t \in Marked => header'[t] = "black"
           /\ t \in Whites => header'[t] \in {"black", "white"}
           /\ header[t] = "dead" => header'[t] = "none"
           /\ t \notin Whites /\ header[t] # "dead" => header'[t] = header[t]
  BY PlanMakes
<1>3. Len(plans') = Len(outer) + 1 /\ Top' = p /\ plans' # << >> /\ Len(outer) \in Nat
  <2>1. Len(plans') = Len(outer) + 1 /\ plans'[Len(outer) + 1] = p /\ Len(outer) \in Nat
    BY <1>1, LastAdded
  <2> QED BY <2>1 DEF Top
<1>4. \A t \in Tables :
        /\ header'[t] # "dead"
        /\ header'[t] = "none" => header[t] \in {"none", "dead"}
        /\ header[t] = "none" => header'[t] = "none"
        /\ header[t] = "gray" => header'[t] = "gray"
        /\ header[t] = "black" => header'[t] = "black"
        /\ header'[t] \in Colours => t \in Whites \/ header[t] = header'[t]
  <2> SUFFICES ASSUME NEW t \in Tables
               PROVE  /\ header'[t] # "dead"
                      /\ header'[t] = "none" => header[t] \in {"none", "dead"}
                      /\ header[t] = "none" => header'[t] = "none"
                      /\ header[t] = "gray" => header'[t] = "gray"
                      /\ header[t] = "black" => header'[t] = "black"
                      /\ header'[t] \in Colours => t \in Whites \/ header[t] = header'[t]
    OBVIOUS
  <2>1. t \in Whites <=> header[t] \in {"white", "young"}
    BY DEF Whites, With
  <2>2. header[t] \in Headers /\ "none" \notin Colours /\ "dead" \notin Colours
    BY DEF GInv, HeapType, Colours
  <2>3. CASE t \in Whites
    BY <1>2, <2>1, <2>3
  <2>4. CASE header[t] = "dead"
    BY <1>2, <2>1, <2>2, <2>4
  <2>5. CASE t \notin Whites /\ header[t] # "dead"
    BY <1>2, <2>1, <2>5
  <2> QED BY <2>3, <2>4, <2>5
<1>5. DeadGone' /\ EmptiedPlain'
  <2>1. With("dead")' = {}
    <3>1. \A t \in Tables : header'[t] # "dead"
      BY <1>4
    <3> QED BY <3>1 DEF With
  <2>2. ASSUME NEW t \in Tables, header'[t] = "none" PROVE kind'[t] = "plain"
    <3>1. header[t] \in {"none", "dead"} /\ kind'[t] = kind[t]
      BY <1>2, <1>4, <2>2
    <3> QED BY <3>1 DEF With, MInv, DeadGone, EmptiedPlain
  <2> QED BY <2>1, <2>2 DEF DeadGone, EmptiedPlain, With
<1>6. Phases'
  BY <1>1, <1>2, <1>3 DEF Phases, MInv
<1>7. MarkedAll'
  <2> SUFFICES ASSUME Len(plans') = 1, p.queue = << >>
               PROVE  /\ \A t \in Tables : Tracked(t)' /\ t \notin p.plain =>
                           \A C \in SUBSET Objects : Anchored(C)' => t \in C
                      /\ \A w \in visible' \cap Tables :
                           kind'[w] = "weak" /\ header'[w] # "gray"
                             => header'[w] = "black" /\ hasWeak'
    BY <1>3 DEF MarkedAll
  <2>1. outer = << >> /\ state = "pause" /\ \A i \in DOMAIN plans : plans[i].stage = "plan"
    <3>1. Len(outer) = 0
      BY <1>3
    <3>2. outer = << >>
      BY <3>1
    <3> QED BY <3>2
  <2>2. p.plain = Condemned
    BY <1>1 DEF ToSet
  <2>3. With("black") = {}
    BY <2>1 DEF MInv, Phases
  <2>4. ASSUME NEW t \in Tables, Tracked(t)', t \notin p.plain,
               NEW C \in SUBSET Objects, Anchored(C)'
        PROVE  t \in C
    <3>1. \A o \in Objects : StrongRefs(o)' = StrongRefs(o)
      BY <1>2 DEF StrongRefs
    <3>2. \A o \in C : StrongRefs(o) \subseteq C
      BY <2>4, <3>1 DEF Anchored
    <3>3. /\ visible \subseteq C /\ aside \subseteq C /\ Closures \subseteq C
          /\ With("none")' \subseteq C /\ With("gray")' \subseteq C
          /\ \A g \in With("gray")' : refs[g] \subseteq C
      BY <1>2, <2>4 DEF Anchored, Anchors
    <3>4. With("none") \subseteq With("none")' /\ With("gray") \subseteq With("gray")'
      BY <1>4 DEF With
    <3>5. /\ visible \cup aside \cup Closures \cup With("none") \cup With("gray") \subseteq C
          /\ \A g \in With("gray") : refs[g] \subseteq C
      BY <3>3, <3>4
    <3>6. CASE t \in Whites
      BY <2>1, <2>2, <2>4, <3>2, <3>5, <3>6, SparesAnchored
    <3>7. CASE t \notin Whites
      <4>1. header[t] = header'[t] /\ header[t] \in Colours
        BY <1>4, <2>4, <3>7 DEF Tracked
      <4>2. header[t] # "black" /\ header[t] # "white"
        BY <2>3, <3>7 DEF With, Whites
      <4>3. t \in With("gray")
        BY <4>1, <4>2 DEF Colours, With
      <4> QED BY <3>5, <4>3
    <3> QED BY <3>6, <3>7
  <2>5. ASSUME NEW w \in visible \cap Tables, kind[w] = "weak", header'[w] # "gray"
        PROVE  header'[w] = "black" /\ hasWeak'
    <3>1. header[w] \in Headers
      BY DEF GInv, HeapType
    <3>2. header[w] # "none" /\ header[w] # "dead"
      BY <2>5 DEF With, MInv, DeadGone, EmptiedPlain
    <3>3. header[w] # "gray" /\ header[w] # "black"
      BY <1>4, <2>3, <2>5 DEF With
    <3>4. w \in Whites
      BY <3>1, <3>2, <3>3 DEF Headers, Colours, Whites, With
    <3>5. visible \cup Arguments \in SUBSET Objects /\ refs \in [Objects -> SUBSET Objects]
      BY Roots DEF Objects
    <3>6. w \in Reach(visible \cup Arguments, Closures \cup Whites)
      BY <3>5, ReachIsClosure
    <3>7. w \in Marked
      BY <2>1, <3>4, <3>6 DEF Marked
    <3> QED BY <1>2, <2>5, <3>7 DEF SeesWeak
  <2> QED BY <1>2, <2>4, <2>5
<1> QED BY <1>5, <1>6, <1>7 DEF MInv

(* Both ways to begin a collection.                                        *)
LEMMA CollectMarks ==
  ASSUME GInv, GInv', MInv, Collect
  PROVE  MInv'
<1>0. plans \in Seq(Pending \cup Planned) /\ Len(plans) \in Nat
  BY DEF GInv, Nesting
<1>1. CASE plans # << >> /\ Top.stage = "plan" /\ Plan(Front(plans))
  <2> DEFINE outer == Front(plans)
  <2>1. Len(plans) \in 1..Len(plans) /\ Top = plans[Len(plans)]
    BY <1>1, TopIsPlan DEF GInv
  <2>2. outer \in Seq(Pending \cup Planned) /\ Len(outer) = Len(plans) - 1
    BY <1>0, <1>1, LastDropped
  <2>3. state = "pause" /\ ~sweeping
    BY <1>1 DEF MInv, Phases
  <2>4. ASSUME outer = << >>, NEW i \in DOMAIN plans PROVE plans[i].stage = "plan"
    <3>1. i = Len(plans)
      BY <1>0, <2>2, <2>4
    <3> QED BY <1>1, <2>1, <3>1
  <2>5. Plan(outer)
    BY <1>1
  <2> HIDE DEF outer
  <2> QED BY <2>2, <2>3, <2>4, <2>5, PlanMarks
<1>2. CASE Runs /\ ~sweeping /\ Nested /\ Plan(plans)
  <2>1. plans = << >> => state = "pause" /\ \A i \in DOMAIN plans : plans[i].stage = "plan"
    BY <1>2 DEF MInv, Phases
  <2> QED BY <1>0, <1>2, <2>1, PlanMarks
<1> QED BY <1>1, <1>2 DEF Collect

(* The first state, and every step.                                        *)
LEMMA InitMInv == Init => MInv
<1> SUFFICES ASSUME Init PROVE MInv
  OBVIOUS
<1>1. /\ header = [t \in Tables |-> "none"] /\ kind = [t \in Tables |-> "plain"]
      /\ state = "pause" /\ sweepPlain = {} /\ sweepWeak = {} /\ plans = << >>
  BY DEF Init
<1>2. With("dead") = {} /\ With("black") = {}
  BY <1>1 DEF With
<1>3. EmptiedPlain
  BY <1>1 DEF EmptiedPlain, With
<1>4. Len(plans) = 0
  BY <1>1
<1> QED BY <1>1, <1>2, <1>3, <1>4 DEF MInv, DeadGone, Phases, MarkedAll

LEMMA StepMarks ==
  ASSUME GInv, MInv, [Next]_vars
  PROVE  MInv'
<1>1. GInv'
  BY StepRight
<1>2. CASE Program
  BY <1>1, <1>2, ProgramMarks
<1>3. CASE Collect
  BY <1>1, <1>3, CollectMarks
<1>4. CASE DrainStaged
  BY <1>1, <1>4, DrainStagedMarks
<1>5. CASE AutoSlice
  BY <1>1, <1>5, AutoSliceMarks
<1>6. CASE StartFinalizer
  BY <1>6, StartFinalizerMarks
<1>7. CASE \E ok \in BOOLEAN : FinalizerEnds(ok)
  BY <1>1, <1>7, FinalizerEndsMarks
<1>8. CASE Sweep
  BY <1>1, <1>8, SweepMarks
<1>9. CASE UNCHANGED vars
  <2>1. UNCHANGED <<header, kind, refs, visible, aside, pinned, bytes, state, hasWeak,
                    sweeping, sweepPlain, sweepWeak, doomed, plans>>
    BY <1>9 DEF vars, tables, tracker, staged, program
  <2>2. DeadGone' /\ EmptiedPlain'
    BY <2>1, DeadNowhere, FreedStay DEF MInv, Held
  <2>3. Phases'
    BY <2>1 DEF MInv, Phases, Top, With
  <2>4. MarkedAll'
    <3>1. \A t \in Tables : Tracked(t)' = Tracked(t)
      BY <2>1 DEF Tracked
    <3>2. \A C \in SUBSET Objects : Anchored(C)' = Anchored(C)
      BY <2>1 DEF Anchored, Anchors, StrongRefs, With
    <3>3. Top' = Top
      BY <2>1 DEF Top
    <3> QED BY <2>1, <3>1, <3>2, <3>3 DEF MInv, MarkedAll
  <2> QED BY <2>2, <2>3, <2>4 DEF MInv
<1> QED BY <1>2, <1>3, <1>4, <1>5, <1>6, <1>7, <1>8, <1>9 DEF Next, Collector

-----------------------------------------------------------------------------
(***************************************************************************)
(* What begins a collection, and what ends one.                            *)
(***************************************************************************)

(* The program plans no collection.                                        *)
LEMMA ProgramPlansNone ==
  ASSUME Program
  PROVE  plans' = plans
<1>1. ASSUME NEW birth \in Births, NewTable(birth[1], birth[2]) PROVE plans' = plans
  BY <1>1 DEF NewTable
<1>2. ASSUME NEW c \in Closures, NEW o \in visible, NewClosure(c, o) PROVE plans' = plans
  BY <1>2 DEF NewClosure
<1>3. ASSUME NEW p \in visible, NEW o \in Objects, Store(p, o) \/ Erase(p, o) \/ Load(p, o)
      PROVE  plans' = plans
  BY <1>3 DEF Store, Erase, Load
<1>4. UseArgument \/ Resume => plans' = plans
  BY DEF UseArgument, Resume
<1>5. ASSUME NEW o \in visible, Forget(o) \/ Suspend(o) PROVE plans' = plans
  BY <1>5 DEF Forget, Suspend
<1> QED BY <1>1, <1>2, <1>3, <1>4, <1>5 DEF Program

(* Only a collection that begins has a new plan, of what it condemned.     *)
PlansRightly == Plans => PlanHolds(Top') \cap InUse = {}

(* No other step looks like the beginning of one.                          *)
LEMMA StepPlans ==
  ASSUME GInv, [Next]_vars
  PROVE  PlansRightly
<1> SUFFICES ASSUME Plans PROVE PlanHolds(Top') \cap InUse = {}
  BY DEF PlansRightly
<1>1. /\ plans' # << >> /\ Top'.stage = "settle"
      /\ plans # << >> => Len(plans') > Len(plans) \/ Top.stage = "plan"
  BY DEF Plans
<1>2. plans \in Seq(Pending \cup Planned) /\ Len(plans) \in Nat
  BY DEF GInv, Nesting
<1>3. CASE Collect
  <2>1. CASE plans # << >> /\ Plan(Front(plans))
    <3>1. Front(plans) \in Seq(Pending \cup Planned)
      BY <1>2, <2>1, LastDropped
    <3> QED BY <2>1, <3>1, PlanTakesCondemned
  <2>2. CASE Plan(plans)
    BY <1>2, <2>2, PlanTakesCondemned
  <2> QED BY <1>3, <2>1, <2>2 DEF Collect
<1>4. CASE plans' = plans
  BY <1>1, <1>2, <1>4 DEF Top
<1>5. CASE StartFinalizer
  <2>1. PICK p \in Planned : /\ SetTop(p) /\ p.stage = "run" /\ p.plain = Top.plain
                             /\ p.queue = Top.queue
    BY <1>5, StartFinalizerDoes
  <2>2. plans # << >>
    BY <1>5, StartFinalizerDoes
  <2>3. Top' = p
    BY <2>1, <2>2, TopHoldsSame
  <2> QED BY <1>1, <2>1, <2>3
<1>6. CASE \E ok \in BOOLEAN : FinalizerEnds(ok)
  <2>1. PICK ok \in BOOLEAN : FinalizerEnds(ok)
    BY <1>6
  <2>2. plans # << >> /\ Top.stage = "run"
    BY <2>1 DEF FinalizerEnds, Runs
  <2>3. PICK p \in Planned : /\ SetTop(p) /\ p.stage = "settle" /\ p.plain = Top.plain
                             /\ p.queue = Top.queue
    BY <2>1, FinalizerEndsDoes
  <2>4. Len(plans') = Len(plans)
    BY <2>2, <2>3, TopHoldsSame
  <2> QED BY <1>1, <1>2, <2>2, <2>4
<1>7. CASE Sweep
  <2>1. plans # << >> /\ Top.stage = "settle" /\ plans' = Front(plans)
    BY <1>7 DEF Sweep
  <2>2. Len(plans') = Len(plans) - 1
    BY <1>2, <2>1, LastDropped
  <2> QED BY <1>1, <1>2, <2>1, <2>2
<1>8. CASE DrainStaged
  <2> DEFINE p == [stage |-> "plan", plain |-> {}, queue |-> << >>]
  <2>1. p \in Pending /\ p.stage = "plan" /\ plans' = Append(plans, p)
    BY <1>8 DEF DrainStaged, Pending
  <2> HIDE DEF p
  <2>2. Top' = p
    BY <1>2, <2>1, LastAdded DEF Top
  <2> QED BY <1>1, <2>1, <2>2
<1>9. CASE AutoSlice
  BY <1>4, <1>9 DEF AutoSlice
<1>10. CASE Program
  BY <1>4, <1>10, ProgramPlansNone
<1>11. CASE UNCHANGED vars
  BY <1>4, <1>11 DEF vars
<1> QED BY <1>3, <1>5, <1>6, <1>7, <1>8, <1>9, <1>10, <1>11 DEF Next, Collector

(* What a sweep that ends a collection leaves behind.                      *)
LEMMA EndsBySweep ==
  ASSUME GInv, [Next]_vars, EndsUndisturbed
  PROVE  Sweep
<1>1. Len(plans) = 1 /\ plans' = << >> /\ Top.queue = << >> /\ plans # << >>
  BY DEF EndsUndisturbed
<1>2. plans \in Seq(Pending \cup Planned) /\ Len(plans) \in Nat
  BY DEF GInv, Nesting
<1>3. ASSUME Collect PROVE FALSE
  <2>1. CASE plans # << >> /\ Plan(Front(plans))
    <3>1. Front(plans) \in Seq(Pending \cup Planned)
      BY <1>2, <2>1, LastDropped
    <3>2. PICK p : plans' = Append(Front(plans), p) /\ p \in Planned
      BY <2>1, <3>1, PlanMakes
    <3> QED BY <1>1, <3>1, <3>2
  <2>2. CASE Plan(plans)
    <3>1. PICK p : plans' = Append(plans, p) /\ p \in Planned
      BY <1>2, <2>2, PlanMakes
    <3> QED BY <1>1, <1>2, <3>1
  <2> QED BY <1>3, <2>1, <2>2 DEF Collect
<1>4. plans' # plans
  BY <1>1
<1>5. ASSUME StartFinalizer PROVE FALSE
  <2>1. PICK p \in Planned : /\ SetTop(p) /\ p.stage = "run" /\ p.plain = Top.plain
                             /\ p.queue = Top.queue
    BY <1>5, StartFinalizerDoes
  <2>2. plans' # << >>
    BY <1>1, <2>1, TopHoldsSame
  <2> QED BY <1>1, <2>2
<1>6. ASSUME NEW ok \in BOOLEAN, FinalizerEnds(ok) PROVE FALSE
  <2>1. PICK p \in Planned : /\ SetTop(p) /\ p.stage = "settle" /\ p.plain = Top.plain
                             /\ p.queue = Top.queue
    BY <1>6, FinalizerEndsDoes
  <2>2. plans' # << >>
    BY <1>1, <2>1, TopHoldsSame
  <2> QED BY <1>1, <2>2
<1>7. ASSUME DrainStaged PROVE FALSE
  <2>1. plans' = Append(plans, [stage |-> "plan", plain |-> {}, queue |-> << >>])
    BY <1>7 DEF DrainStaged
  <2> QED BY <1>1, <1>2, <2>1
<1>8. ~ AutoSlice /\ ~ Program /\ ~ UNCHANGED vars
  BY <1>4, ProgramPlansNone DEF AutoSlice, vars
<1> QED BY <1>3, <1>5, <1>6, <1>7, <1>8 DEF Next, Collector

(* The part of SliceDoes about references and headers.                     *)
LEMMA SliceClears ==
  ASSUME GInv, NEW plain \in SUBSET Tables, NEW chosen \in SUBSET plain,
         NEW weak \in SUBSET Tables, NEW dead, NEW count,
         Slice(plain, chosen, weak, dead, count)
  PROVE  Clears(plain, chosen, weak, dead)
BY SliceDoes

(* The sweep of a collection that no finalizer disturbed.                  *)
LEMMA LastSweep ==
  ASSUME GInv, GInv', MInv, [Next]_vars, EndsUndisturbed
  PROVE  /\ Top.stage = "settle" /\ Top.plain \in SUBSET Tables
         /\ \A t \in Tables : header'[t] \in Colours => Tracked(t) /\ t \notin Top.plain
         /\ \A w \in Tables : kind[w] = "weak" /\ header[w] = "black" /\ hasWeak
                                => refs'[w] \cap Top.plain = {}
<1> DEFINE weak == {t \in With("black") : hasWeak /\ kind[t] = "weak"}
<1>0. Sweep
  BY EndsBySweep
<1>1. plans # << >> /\ Top.stage = "settle"
  BY <1>0 DEF Sweep
<1>2. PICK chosen \in {Top.plain} \cup InBudget(Top.plain) :
        Slice(Top.plain, chosen, weak, Top.cleared, Minus(bytes, Top.dropped))
  BY <1>0 DEF Sweep
<1>3. Top \in Planned /\ Top.plain \in SUBSET Tables
  BY <1>1, TopIsPlan, PlanFields DEF GInv, Nesting
<1>4. chosen \in SUBSET Top.plain /\ weak \in SUBSET Tables
  BY <1>2, <1>3, BudgetOf DEF With
<1>5. sweeping' = (Top.plain \ chosen # {}) /\ Clears(Top.plain, chosen, weak, Top.cleared)
  <2> HIDE DEF weak
  <2>1. Slice(Top.plain, chosen, weak, Top.cleared, Minus(bytes, Top.dropped))
    BY <1>2
  <2>2. Top.plain \in SUBSET Tables /\ chosen \in SUBSET Top.plain /\ weak \in SUBSET Tables
    BY <1>3, <1>4
  <2>3. Clears(Top.plain, chosen, weak, Top.cleared)
    BY <2>1, <2>2, SliceClears
  <2>4. sweeping' = (Top.plain \ chosen # {})
    BY <2>1 DEF Slice
  <2> QED BY <2>3, <2>4
<1>6. Top.plain \ chosen = {} /\ chosen = Top.plain
  BY <1>4, <1>5 DEF EndsUndisturbed
<1>7. PICK rf, hd : Clearing(rf, hd, Top.plain, chosen, weak, Top.cleared) /\ Counting(rf, hd)
  BY <1>5 DEF Clears
<1>8. /\ rf \in [Objects -> SUBSET Objects] /\ hd \in [Tables -> Headers]
      /\ \A o \in Objects : rf[o] \subseteq refs[o]
      /\ \A t \in Tables :
           /\ t \in chosen => hd[t] = "none"
           /\ t \notin chosen => hd[t] = header[t] \/ (header[t] = "black" /\ hd[t] = "white")
      /\ \A w \in weak : \A t \in rf[w] : t \notin Gone(weak, Top.cleared, chosen)
  BY <1>6, <1>7 DEF Clearing
<1>9. /\ \A o \in Objects : refs'[o] \subseteq rf[o]
      /\ \A t \in Tables : header'[t] = hd[t] \/ header'[t] = "dead"
  <2>1. refs' = [o \in Objects |-> IF o \in Kept(rf, Held') THEN rf[o] ELSE {}]
        /\ header' = [t \in Tables |-> IF t \in Kept(rf, Held') \/ hd[t] = "none"
                                       THEN hd[t] ELSE "dead"]
    BY <1>7 DEF Counting
  <2> QED BY <2>1
<1>10. ASSUME NEW t \in Tables, header'[t] \in Colours
       PROVE  Tracked(t) /\ t \notin Top.plain
  <2>1. hd[t] \in Colours
    BY <1>9, <1>10 DEF Colours
  <2> QED BY <1>6, <1>8, <2>1 DEF Colours, Tracked
<1>11. ASSUME NEW w \in Tables, kind[w] = "weak" /\ header[w] = "black" /\ hasWeak
       PROVE  refs'[w] \cap Top.plain = {}
  <2>1. w \in weak
    BY <1>11 DEF With
  <2>2. Top.plain \subseteq Gone(weak, Top.cleared, chosen)
    BY <1>6, <2>1 DEF Gone
  <2>3. refs'[w] \subseteq rf[w]
    BY <1>9 DEF Objects
  <2> HIDE DEF weak
  <2> QED BY <1>8, <2>1, <2>2, <2>3
<1> QED BY <1>1, <1>3, <1>10, <1>11

(* What the two properties of such a sweep say of a step.                  *)
LeavesNoGarbage ==
  EndsUndisturbed =>
    \A t \in Tables : header'[t] \in Colours => t \in Reach(Anchors, Objects)
LeavesNoEntries ==
  EndsUndisturbed =>
    \A w \in visible \cap Tables :
      kind[w] = "weak" /\ header[w] # "gray" => refs'[w] \cap Top.plain = {}

(* Marking saw everything that is left, and every weak table in sight.     *)
LEMMA StepLeaves ==
  ASSUME GInv, MInv, [Next]_vars
  PROVE  LeavesNoGarbage /\ LeavesNoEntries
<1> SUFFICES ASSUME EndsUndisturbed PROVE LeavesNoGarbage /\ LeavesNoEntries
  BY DEF LeavesNoGarbage, LeavesNoEntries
<1>1. GInv'
  BY StepRight
<1>2. /\ Top.stage = "settle"
      /\ \A t \in Tables : header'[t] \in Colours => Tracked(t) /\ t \notin Top.plain
      /\ \A w \in Tables : kind[w] = "weak" /\ header[w] = "black" /\ hasWeak
                             => refs'[w] \cap Top.plain = {}
  BY <1>1, LastSweep
<1>3. Len(plans) = 1 /\ Top.queue = << >>
  BY DEF EndsUndisturbed
<1>4. /\ \A t \in Tables : Tracked(t) /\ t \notin Top.plain =>
           \A C \in SUBSET Objects : Anchored(C) => t \in C
      /\ \A w \in visible \cap Tables :
           kind[w] = "weak" /\ header[w] # "gray" => header[w] = "black" /\ hasWeak
  BY <1>2, <1>3 DEF MInv, MarkedAll
<1>5. LeavesNoGarbage
  <2> DEFINE C == Reach(Anchors, Objects)
  <2>1. Anchors \in SUBSET Objects /\ refs \in [Objects -> SUBSET Objects]
    BY DEF GInv, HeapType, Anchors, With, Objects
  <2>2. /\ C \in SUBSET Objects /\ Anchors \subseteq C
        /\ \A o \in C : o \in Objects => StrongRefs(o) \subseteq C
    BY <2>1, ReachIsClosure
  <2>3. Anchored(C)
    BY <2>2 DEF Anchored
  <2> HIDE DEF C
  <2>4. \A t \in Tables : Tracked(t) /\ t \notin Top.plain => t \in C
    BY <1>4, <2>2, <2>3
  <2> QED BY <1>2, <2>4 DEF LeavesNoGarbage, C
<1>6. LeavesNoEntries
  BY <1>2, <1>4 DEF LeavesNoEntries
<1> QED BY <1>5, <1>6

-----------------------------------------------------------------------------
(***************************************************************************)
(* Sums.                                                                   *)
(***************************************************************************)

(* The sums of the first values of w.                                      *)
Summing(p, w) ==
  p \in [Nat -> Nat] /\ p[0] = 0 /\ \A n \in Nat : p[n + 1] = p[n] + w[n + 1]

(* They exist: running totals, computed again and again.                   *)
LEMMA SumsExist ==
  ASSUME NEW w \in [Nat -> Nat]
  PROVE  \E p : Summing(p, w)
<1> DEFINE U == Nat \X Nat
           F == [u \in U |-> <<u[1] + 1, u[2] + w[u[1] + 1]>>]
<1>1. F \in [U -> U] /\ <<0, 0>> \in U
  OBVIOUS
<1>2. PICK r : Iterating(r, U, F, <<0, 0>>)
  <2> HIDE DEF U, F
  <2> QED BY <1>1, Iterates
<1>3. /\ r \in [Nat -> U] /\ r[0] = <<0, 0>>
      /\ \A n \in Nat : r[n + 1] = <<r[n][1] + 1, r[n][2] + w[r[n][1] + 1]>>
  BY <1>2 DEF Iterating
<1>4. \A n \in Nat : r[n][1] = n
  <2> DEFINE T == {n \in Nat : r[n][1] # n}
  <2> SUFFICES ASSUME T # {} PROVE FALSE
    OBVIOUS
  <2>1. PICK x \in T : \A y \in T : x <= y
    BY LeastNumber
  <2>2. x # 0
    BY <1>3
  <2>3. x - 1 \in Nat /\ x - 1 \notin T /\ (x - 1) + 1 = x
    BY <2>1, <2>2
  <2>4. r[(x - 1) + 1] = <<r[x - 1][1] + 1, r[x - 1][2] + w[r[x - 1][1] + 1]>>
    BY <1>3, <2>3
  <2>5. r[x - 1][1] = x - 1
    BY <2>3
  <2> QED BY <2>1, <2>3, <2>4, <2>5
<1> DEFINE p == [n \in Nat |-> r[n][2]]
<1>5. p \in [Nat -> Nat] /\ p[0] = 0
  BY <1>3
<1>6. ASSUME NEW n \in Nat PROVE p[n + 1] = p[n] + w[n + 1]
  <2>1. r[n + 1] = <<r[n][1] + 1, r[n][2] + w[r[n][1] + 1]>> /\ r[n][1] = n
    BY <1>3, <1>4
  <2> QED BY <2>1
<1> HIDE DEF p
<1> QED BY <1>5, <1>6 DEF Summing

(* Up to m, v and w are the same, except that v has d more at x.           *)
Differ(v, w, m, x, d) == \A i \in 1..m : v[i] = w[i] + (IF i = x THEN d ELSE 0)
SumsApart(p, q, m, x, d) == \A n \in 0..m : p[n] = q[n] + (IF x \in 1..n THEN d ELSE 0)

(* The sums of two functions that differ in one place, by d.               *)
LEMMA SumsDiffer ==
  ASSUME NEW v \in [Nat -> Nat], NEW w \in [Nat -> Nat], NEW p, NEW q,
         Summing(p, v), Summing(q, w), NEW m \in Nat, NEW x \in Nat, NEW d \in Nat,
         Differ(v, w, m, x, d)
  PROVE  SumsApart(p, q, m, x, d)
<1> DEFINE T == {n \in 0..m : p[n] # q[n] + (IF x \in 1..n THEN d ELSE 0)}
<1> SUFFICES ASSUME T # {} PROVE FALSE
  BY DEF SumsApart
<1>0. T \subseteq Nat
  OBVIOUS
<1>a. /\ p \in [Nat -> Nat] /\ p[0] = 0 /\ \A n \in Nat : p[n + 1] = p[n] + v[n + 1]
      /\ q \in [Nat -> Nat] /\ q[0] = 0 /\ \A n \in Nat : q[n + 1] = q[n] + w[n + 1]
  BY DEF Summing
<1>1. PICK k \in T : \A y \in T : k <= y
  <2> HIDE DEF T
  <2> QED BY <1>0, LeastNumber
<1>2. k \in 0..m /\ k # 0
  <2>1. 1..0 = {} /\ d \in Nat
    OBVIOUS
  <2>2. p[0] = q[0] + (IF x \in 1..0 THEN d ELSE 0)
    BY <1>a, <2>1
  <2> QED BY <1>1, <2>2
<1>3. k - 1 \in 0..m /\ k - 1 \notin T /\ (k - 1) + 1 = k
  BY <1>1, <1>2
<1>4. p[k - 1] = q[k - 1] + (IF x \in 1..(k - 1) THEN d ELSE 0)
  BY <1>3
<1>5. p[k] = p[k - 1] + v[k] /\ q[k] = q[k - 1] + w[k]
  <2>1. k - 1 \in Nat
    BY <1>3
  <2>2. p[(k - 1) + 1] = p[k - 1] + v[(k - 1) + 1] /\ q[(k - 1) + 1] = q[k - 1] + w[(k - 1) + 1]
    BY <1>a, <2>1
  <2> QED BY <1>3, <2>2
<1>6. /\ p[k] \in Nat /\ q[k] \in Nat /\ p[k - 1] \in Nat /\ q[k - 1] \in Nat
      /\ v[k] \in Nat /\ w[k] \in Nat
  BY <1>a, <1>2, <1>3
<1>7. v[k] = w[k] + (IF k = x THEN d ELSE 0)
  BY <1>2 DEF Differ
<1>8. p[k] = q[k] + (IF x \in 1..k THEN d ELSE 0)
  <2>1. CASE k = x
    <3>1. x \in 1..k /\ x \notin 1..(k - 1)
      BY <1>2, <2>1
    <3> QED BY <1>4, <1>5, <1>6, <1>7, <2>1, <3>1
  <2>2. CASE k # x
    <3>1. x \in 1..k <=> x \in 1..(k - 1)
      BY <1>2, <2>2
    <3> QED BY <1>4, <1>5, <1>6, <1>7, <2>2, <3>1
  <2> QED BY <2>1, <2>2
<1> QED BY <1>1, <1>8

(* The fold of Gc's BytesAgree.                                            *)
SumOf(F) == FoldFunction(+, 0, F)

(* The fold as a solution of its equation.                                 *)
Adding(g, S, F) ==
  g = [s \in SUBSET S |->
         IF s = {} THEN 0
         ELSE LET x == CHOOSE x \in s : TRUE IN F[x] + g[s \ {x}]]

(* FoldFunction chooses a solution.                                        *)
LEMMA SumIsFold ==
  ASSUME NEW F
  PROVE  SumOf(F) = (CHOOSE g : Adding(g, DOMAIN F, F))[DOMAIN F]
BY DEF SumOf, FoldFunction, FoldFunctionOnSet, MapThenFoldSet, Adding

(* The values of F in s, and zero elsewhere.                               *)
Within(F, s) == [i \in Nat |-> IF i \in s THEN F[i] ELSE 0]
Sums(w) == CHOOSE p : Summing(p, w)

(* They exist for the values of F in any set of positions.                 *)
LEMMA SumsOf ==
  ASSUME NEW n \in Nat, NEW F \in [1..n -> Nat], NEW s \in SUBSET (1..n)
  PROVE  Within(F, s) \in [Nat -> Nat] /\ Summing(Sums(Within(F, s)), Within(F, s))
<1>1. Within(F, s) \in [Nat -> Nat]
  BY DEF Within
<1>2. \E p : Summing(p, Within(F, s))
  BY <1>1, SumsExist
<1> QED BY <1>1, <1>2 DEF Sums

(* Adding up to n.                                                         *)
LEMMA SumsAdd ==
  ASSUME NEW n \in Nat, NEW F \in [1..n -> Nat]
  PROVE  /\ Sums(Within(F, {}))[n] = 0
         /\ \A s \in SUBSET (1..n) : \A x \in s :
              Sums(Within(F, s))[n] = F[x] + Sums(Within(F, s \ {x}))[n]
<1>1. Sums(Within(F, {}))[n] = 0
  <2> DEFINE z == [i \in Nat |-> 0]
  <2>1. Within(F, {}) = z
    BY DEF Within
  <2>2. z \in [Nat -> Nat] /\ Summing(z, z)
    BY DEF Summing
  <2>3. Summing(Sums(z), z)
    BY <2>1, SumsOf
  <2>4. Differ(z, z, n, 0, 0)
    BY DEF Differ
  <2>5. z[n] = 0
    OBVIOUS
  <2> HIDE DEF z
  <2>6. Sums(z)[n] = z[n] + (IF 0 \in 1..n THEN 0 ELSE 0)
    <3>1. n \in 0..n /\ 0 \in Nat
      OBVIOUS
    <3>2. SumsApart(Sums(z), z, n, 0, 0)
      BY <2>2, <2>3, <2>4, <3>1, SumsDiffer
    <3> QED BY <3>1, <3>2 DEF SumsApart
  <2> QED BY <2>1, <2>5, <2>6
<1>2. ASSUME NEW s \in SUBSET (1..n), NEW x \in s
      PROVE  Sums(Within(F, s))[n] = F[x] + Sums(Within(F, s \ {x}))[n]
  <2> DEFINE v == Within(F, s)
             w == Within(F, s \ {x})
  <2>1. /\ v \in [Nat -> Nat] /\ Summing(Sums(v), v)
        /\ w \in [Nat -> Nat] /\ Summing(Sums(w), w)
    BY SumsOf
  <2>2. x \in 1..n /\ x \in Nat /\ F[x] \in Nat
    OBVIOUS
  <2>3. Differ(v, w, n, x, F[x])
    BY <2>2 DEF Within, Differ
  <2>a. v = Within(F, s) /\ w = Within(F, s \ {x})
    OBVIOUS
  <2> HIDE DEF v, w
  <2>4. Sums(v)[n] = Sums(w)[n] + (IF x \in 1..n THEN F[x] ELSE 0)
    <3> DEFINE d == F[x]
    <3>1. n \in 0..n /\ d \in Nat /\ F[x] = d
      BY <2>2
    <3> HIDE DEF d
    <3>2. Differ(v, w, n, x, d)
      BY <2>3, <3>1
    <3>3. SumsApart(Sums(v), Sums(w), n, x, d)
      BY <2>1, <2>2, <3>1, <3>2, SumsDiffer
    <3> QED BY <3>1, <3>3 DEF SumsApart
  <2>5. Sums(w)[n] \in Nat
    BY <2>1 DEF Summing
  <2> QED BY <2>2, <2>4, <2>5, <2>a
<1> QED BY <1>1, <1>2

(* Any function that solves the equation of the fold gives the sums, in    *)
(* whichever order it takes the elements.                                  *)
LEMMA AddingIsSums ==
  ASSUME NEW n \in Nat, NEW F \in [1..n -> Nat], NEW g, Adding(g, 1..n, F)
  PROVE  g[1..n] = Sums(Within(F, 1..n))[n]
<1> DEFINE W(s) == Sums(Within(F, s))[n]
           T == {k \in Nat : \E s \in SUBSET (1..n) : Cardinality(s) = k /\ g[s] # W(s)}
<1>1. \A s \in SUBSET (1..n) : IsFiniteSet(s) /\ Cardinality(s) \in Nat
  <2>1. IsFiniteSet(1..n)
    BY FS_Interval
  <2> QED BY <2>1, FS_Subset, FS_CardinalityType
<1>2. W({}) = 0
  BY SumsAdd
<1>3. ASSUME NEW s \in SUBSET (1..n), NEW x \in s
      PROVE  W(s) = F[x] + W(s \ {x})
  BY SumsAdd
<1>4. \A s \in SUBSET (1..n) :
        g[s] = IF s = {} THEN 0
               ELSE LET x == CHOOSE x \in s : TRUE IN F[x] + g[s \ {x}]
  BY DEF Adding
<1>5. T = {}
  <2> SUFFICES ASSUME T # {} PROVE FALSE
    OBVIOUS
  <2>0. T \subseteq Nat
    OBVIOUS
  <2>1. PICK k \in T : \A y \in T : k <= y
    <3> HIDE DEF T
    <3> QED BY <2>0, LeastNumber
  <2>2. PICK s \in SUBSET (1..n) : Cardinality(s) = k /\ g[s] # W(s)
    OBVIOUS
  <2>3. s # {}
    BY <1>2, <1>4, <2>2
  <2> DEFINE x == CHOOSE x \in s : TRUE
  <2>4. x \in s /\ g[s] = F[x] + g[s \ {x}]
    BY <1>4, <2>3
  <2> HIDE DEF x
  <2>5. Cardinality(s \ {x}) = k - 1 /\ Cardinality(s \ {x}) \in Nat /\ k \in Nat
    <3> HIDE DEF W, T
    <3>1. IsFiniteSet(s) /\ Cardinality(s) \in Nat /\ s \ {x} \in SUBSET (1..n)
      BY <1>1
    <3> QED BY <1>1, <2>2, <2>4, <3>1, FS_RemoveElement
  <2>6. k - 1 \notin T
    <3> HIDE DEF T, W
    <3> QED BY <2>1, <2>5
  <2>7. g[s \ {x}] = W(s \ {x})
    BY <2>5, <2>6
  <2> HIDE DEF W, T
  <2> QED BY <1>3, <2>2, <2>4, <2>7
<1>6. Cardinality(1..n) \in Nat
  BY <1>1
<1> QED BY <1>5, <1>6

(* So the fold is the last running total.                                  *)
LEMMA SumIsLast ==
  ASSUME NEW n \in Nat, NEW F \in [1..n -> Nat], NEW w \in [Nat -> Nat],
         NEW p, Summing(p, w), \A i \in 1..n : w[i] = F[i]
  PROVE  SumOf(F) = p[n]
<1> DEFINE v == Within(F, 1..n)
           W == [s \in SUBSET (1..n) |-> Sums(Within(F, s))[n]]
<1>1. SumOf(F) = (CHOOSE g : Adding(g, 1..n, F))[1..n]
  BY SumIsFold
<1>2. Adding(W, 1..n, F)
  <2>1. Sums(Within(F, {}))[n] = 0
    BY SumsAdd
  <2>2. ASSUME NEW s \in SUBSET (1..n), s # {}, NEW x, x = CHOOSE y \in s : TRUE
        PROVE  Sums(Within(F, s))[n] = F[x] + W[s \ {x}]
    <3>1. x \in s /\ s \ {x} \in SUBSET (1..n)
      BY <2>2
    <3>2. W[s \ {x}] = Sums(Within(F, s \ {x}))[n]
      BY <3>1
    <3> HIDE DEF W
    <3> QED BY <3>1, <3>2, SumsAdd
  <2>3. \A s \in SUBSET (1..n) :
          W[s] = IF s = {} THEN 0
                 ELSE LET x == CHOOSE x \in s : TRUE IN F[x] + W[s \ {x}]
    <3> SUFFICES ASSUME NEW s \in SUBSET (1..n)
                 PROVE  W[s] = IF s = {} THEN 0
                               ELSE LET x == CHOOSE x \in s : TRUE IN F[x] + W[s \ {x}]
      OBVIOUS
    <3>1. W[s] = Sums(Within(F, s))[n]
      OBVIOUS
    <3> HIDE DEF W
    <3>2. CASE s = {}
      BY <2>1, <3>1, <3>2
    <3>3. CASE s # {}
      <4>1. W[s] = F[CHOOSE y \in s : TRUE] + W[s \ {CHOOSE y \in s : TRUE}]
        BY <2>2, <3>1, <3>3
      <4> QED BY <3>3, <4>1
    <3> QED BY <3>2, <3>3
  <2> DEFINE R == [s \in SUBSET (1..n) |->
                    IF s = {} THEN 0
                    ELSE LET x == CHOOSE x \in s : TRUE IN F[x] + W[s \ {x}]]
  <2>4. W = R
    <3>1. \A s \in SUBSET (1..n) : W[s] = R[s]
      <4> HIDE DEF W
      <4> QED BY <2>3
    <3> QED BY <3>1
  <2> QED BY <2>4 DEF Adding
<1> HIDE DEF W
<1>3. SumOf(F) = Sums(v)[n]
  BY <1>1, <1>2, AddingIsSums
<1>4. v \in [Nat -> Nat] /\ Summing(Sums(v), v)
  BY SumsOf
<1>5. Differ(v, w, n, 0, 0)
  BY DEF Within, Differ
<1> HIDE DEF v
<1>6. n \in 0..n /\ 0 \in Nat
  OBVIOUS
<1>7. SumsApart(Sums(v), p, n, 0, 0)
  BY <1>4, <1>5, <1>6, SumsDiffer
<1>8. p[n] \in Nat
  BY DEF Summing
<1> QED BY <1>3, <1>6, <1>7, <1>8 DEF SumsApart

(* A sum is that without the last value, plus the last value.              *)
LEMMA SumByLast ==
  ASSUME NEW n \in Nat, NEW F \in [1..n -> Nat]
  PROVE  /\ SumOf(F) \in Nat
         /\ n = 0 => SumOf(F) = 0
         /\ n # 0 => SumOf(F) = SumOf([i \in 1..(n - 1) |-> F[i]]) + F[n]
<1> DEFINE w == Within(F, 1..n)
           p == Sums(w)
<1>1. /\ w \in [Nat -> Nat] /\ Summing(p, w)
      /\ \A i \in 1..n : w[i] = F[i]
  BY SumsOf DEF Within
<1> HIDE DEF w, p
<1>2. SumOf(F) = p[n]
  BY <1>1, SumIsLast
<1>3. p \in [Nat -> Nat] /\ p[0] = 0 /\ \A k \in Nat : p[k + 1] = p[k] + w[k + 1]
  BY <1>1 DEF Summing
<1>4. ASSUME n # 0 PROVE SumOf(F) = SumOf([i \in 1..(n - 1) |-> F[i]]) + F[n]
  <2> DEFINE G == [i \in 1..(n - 1) |-> F[i]]
  <2>1. n - 1 \in Nat /\ (n - 1) + 1 = n /\ n \in 1..n
    BY <1>4
  <2>2. G \in [1..(n - 1) -> Nat] /\ \A i \in 1..(n - 1) : w[i] = G[i]
    <3>1. \A i \in 1..(n - 1) : i \in 1..n
      OBVIOUS
    <3> QED BY <1>1, <3>1
  <2> HIDE DEF G
  <2>3. SumOf(G) = p[n - 1]
    BY <1>1, <2>1, <2>2, SumIsLast
  <2>4. p[(n - 1) + 1] = p[n - 1] + w[(n - 1) + 1]
    BY <1>3, <2>1
  <2> QED BY <1>1, <1>2, <2>1, <2>3, <2>4 DEF G
<1> QED BY <1>2, <1>3, <1>4

-----------------------------------------------------------------------------
(***************************************************************************)
(* The count of bytes, step by step.                                       *)
(***************************************************************************)

(* What a collection took off the tracker but not off the count yet.       *)
Owe(p) == IF p.stage = "plan" THEN 0 ELSE p.dropped
Owes(s) == [i \in DOMAIN s |-> IF s[i].stage = "plan" THEN 0 ELSE s[i].dropped]
Used == {t \in Tables : header[t] # "none"}

(* What collections owe, and how that changes with the list of them.       *)
LEMMA OweType ==
  ASSUME NEW p \in Pending \cup Planned
  PROVE  Owe(p) \in Nat
BY PlanFields DEF Owe

LEMMA OwesType ==
  ASSUME NEW s \in Seq(Pending \cup Planned)
  PROVE  /\ Owes(s) \in [1..Len(s) -> Nat] /\ SumOf(Owes(s)) \in Nat
         /\ \A i \in 1..Len(s) : Owes(s)[i] = Owe(s[i])
<1>1. \A i \in 1..Len(s) : Owe(s[i]) \in Nat
  BY OweType
<1>2. Owes(s) = [i \in 1..Len(s) |-> Owe(s[i])]
  BY DEF Owes, Owe
<1>3. Owes(s) \in [1..Len(s) -> Nat] /\ Len(s) \in Nat
  BY <1>1, <1>2
<1>4. SumOf(Owes(s)) \in Nat
  BY <1>3, SumByLast
<1> QED BY <1>2, <1>3, <1>4

LEMMA OwesNothing == SumOf(Owes(<< >>)) = 0
<1>1. << >> \in Seq(Pending \cup Planned) /\ Len(<< >>) = 0
  OBVIOUS
<1>2. Owes(<< >>) \in [1..0 -> Nat]
  BY <1>1, OwesType
<1> QED BY <1>2, SumByLast

LEMMA OwesAdded ==
  ASSUME NEW s \in Seq(Pending \cup Planned), NEW p \in Pending \cup Planned
  PROVE  SumOf(Owes(Append(s, p))) = SumOf(Owes(s)) + Owe(p)
<1> DEFINE r == Append(s, p)
           n == Len(s) + 1
<1>1. /\ r \in Seq(Pending \cup Planned) /\ Len(r) = n /\ n \in Nat /\ n # 0
      /\ n - 1 = Len(s) /\ r[n] = p /\ \A i \in 1..(n - 1) : r[i] = s[i]
  BY LastAdded
<1> HIDE DEF r, n
<1>2. /\ Owes(r) \in [1..n -> Nat] /\ Owes(s) \in [1..(n - 1) -> Nat]
      /\ \A i \in 1..n : Owes(r)[i] = Owe(r[i])
      /\ \A i \in 1..(n - 1) : Owes(s)[i] = Owe(s[i])
  BY <1>1, OwesType
<1>3. [i \in 1..(n - 1) |-> Owes(r)[i]] = Owes(s)
  BY <1>1, <1>2
<1>4. SumOf(Owes(r)) = SumOf([i \in 1..(n - 1) |-> Owes(r)[i]]) + Owes(r)[n]
  BY <1>1, <1>2, SumByLast
<1>5. Owes(r)[n] = Owe(p)
  BY <1>1, <1>2
<1> QED BY <1>3, <1>4, <1>5 DEF r

LEMMA OwesDropped ==
  ASSUME NEW s \in Seq(Pending \cup Planned), s # << >>
  PROVE  SumOf(Owes(s)) = SumOf(Owes(Front(s))) + Owe(s[Len(s)])
<1> DEFINE r == Front(s)
           n == Len(s)
<1>1. /\ r \in Seq(Pending \cup Planned) /\ Len(r) = n - 1 /\ n \in Nat /\ n # 0
      /\ \A i \in 1..(n - 1) : r[i] = s[i]
  BY LastDropped
<1> HIDE DEF r
<1>2. /\ Owes(s) \in [1..n -> Nat] /\ Owes(r) \in [1..(n - 1) -> Nat]
      /\ \A i \in 1..n : Owes(s)[i] = Owe(s[i])
      /\ \A i \in 1..(n - 1) : Owes(r)[i] = Owe(r[i])
  BY <1>1, OwesType
<1>3. [i \in 1..(n - 1) |-> Owes(s)[i]] = Owes(r)
  BY <1>1, <1>2
<1>4. SumOf(Owes(s)) = SumOf([i \in 1..(n - 1) |-> Owes(s)[i]]) + Owes(s)[n]
  BY <1>1, <1>2, SumByLast
<1>5. Owes(s)[n] = Owe(s[n])
  BY <1>1, <1>2
<1> QED BY <1>3, <1>4, <1>5 DEF r

LEMMA OwesReplaced ==
  ASSUME NEW s \in Seq(Pending \cup Planned), s # << >>, NEW p \in Pending \cup Planned,
         Owe(p) = Owe(s[Len(s)])
  PROVE  Owes([s EXCEPT ![Len(s)] = p]) = Owes(s)
<1> DEFINE r == [s EXCEPT ![Len(s)] = p]
<1>1. /\ r \in Seq(Pending \cup Planned) /\ Len(r) = Len(s) /\ r[Len(s)] = p
      /\ \A i \in 1..Len(s) : i # Len(s) => r[i] = s[i]
  BY LastReplaced
<1> HIDE DEF r
<1>2. /\ Owes(r) \in [1..Len(s) -> Nat] /\ Owes(s) \in [1..Len(s) -> Nat]
      /\ \A i \in 1..Len(s) : Owes(r)[i] = Owe(r[i]) /\ Owes(s)[i] = Owe(s[i])
  BY <1>1, OwesType
<1>3. \A i \in 1..Len(s) : Owes(r)[i] = Owes(s)[i]
  BY <1>1, <1>2
<1>4. Owes(r) = Owes(s)
  BY <1>2, <1>3
<1> QED BY <1>4 DEF r

(* BytesAgree in these terms.                                              *)
BytesMatch == bytes = Cardinality(Used) + SumOf(Owes(plans))

LEMMA BytesMatchIs == BytesMatch <=> BytesAgree
BY DEF BytesMatch, BytesAgree, Used, Owes, SumOf

(* What is staged was tracked when it was condemned: its header is not     *)
(* young, and so the count includes it if it has one.                      *)
StagedOld == \A t \in sweepPlain : header[t] # "young"
BInv == StagedOld /\ BytesMatch

(* There are finitely many headers to count.                               *)
LEMMA UsedFinite ==
  /\ IsFiniteSet(Used) /\ Cardinality(Used) \in Nat
  /\ IsFiniteSet(With("dead"))
<1>1. IsFiniteSet(Tables)
  BY ObjectsAssumption, FS_Subset DEF Objects
<1> QED BY <1>1, FS_Subset, FS_CardinalityType DEF Used, With

(* Refcounting takes no header away.                                       *)
LEMMA CountingUses ==
  ASSUME NEW rf, NEW hd, Counting(rf, hd), NEW t \in Tables
  PROVE  /\ header'[t] = "none" <=> hd[t] = "none"
         /\ header'[t] = "young" => hd[t] = "young"
BY DEF Counting

(* Steps that neither give a header nor take one.                          *)
LEMMA QuietBytes ==
  ASSUME BInv, UNCHANGED bytes, SumOf(Owes(plans')) = SumOf(Owes(plans)),
         sweepPlain' = sweepPlain,
         \A t \in Tables : /\ header'[t] = "none" <=> header[t] = "none"
                           /\ header'[t] = "young" => header[t] = "young",
         sweepPlain \subseteq Tables
  PROVE  BInv'
<1>1. Used' = Used
  BY DEF Used
<1>2. StagedOld'
  BY DEF BInv, StagedOld
<1> QED BY <1>1, <1>2 DEF BInv, BytesMatch

(* A new table counts as one, and has a header now.                        *)
LEMMA NewTableBytes ==
  ASSUME GInv, BInv, NEW t \in Tables, NEW m, NewTable(t, m)
  PROVE  BInv'
<1> USE DEF staged
<1>1. /\ t \notin InMemory /\ header' = [header EXCEPT ![t] = "young"]
      /\ bytes' = bytes + 1 /\ UNCHANGED <<sweepPlain, plans>>
  BY DEF NewTable, MayMake
<1>2. header \in [Tables -> Headers] /\ bytes \in Nat
  BY DEF GInv, HeapType
<1>3. header[t] = "none" /\ t \notin sweepPlain
  BY <1>1 DEF InMemory, Held
<1>4. Used' = Used \cup {t} /\ t \notin Used
  BY <1>1, <1>2, <1>3 DEF Used
<1>5. Cardinality(Used \cup {t}) = Cardinality(Used) + 1 /\ Cardinality(Used) \in Nat
  BY <1>4, UsedFinite, FS_AddElement
<1>6. SumOf(Owes(plans)) \in Nat /\ SumOf(Owes(plans')) = SumOf(Owes(plans))
  BY <1>1, OwesType DEF GInv, Nesting
<1>7. StagedOld'
  <2>1. sweepPlain \subseteq Tables
    BY DEF GInv, HeapType
  <2> QED BY <1>1, <1>2, <1>3, <2>1 DEF BInv, StagedOld
<1>8. bytes' = Cardinality(Used') + SumOf(Owes(plans'))
  BY <1>1, <1>2, <1>4, <1>5, <1>6 DEF BInv, BytesMatch
<1> QED BY <1>7, <1>8 DEF BInv, BytesMatch

(* A step of the program that makes no table.                              *)
LEMMA UseBytes ==
  ASSUME GInv, BInv, UNCHANGED <<tracker, plans>>,
         \A t \in Tables : /\ header'[t] = "none" <=> header[t] = "none"
                           /\ header'[t] = "young" => header[t] = "young"
  PROVE  BInv'
<1>1. UNCHANGED <<bytes, sweepPlain, plans>>
  BY DEF tracker, staged
<1>2. sweepPlain \subseteq Tables
  BY DEF GInv, HeapType
<1> QED BY <1>1, <1>2, QuietBytes

(* Nothing else that the program does changes either.                      *)
LEMMA ProgramBytes ==
  ASSUME GInv, BInv, Program
  PROVE  BInv'
<1> USE DEF tables
<1>0. header \in [Tables -> Headers]
  BY DEF GInv, HeapType
<1>1. ASSUME NEW birth \in Births, NewTable(birth[1], birth[2]) PROVE BInv'
  <2>1. birth[1] \in Tables
    BY BirthsAssumption
  <2> QED BY <1>1, <2>1, NewTableBytes
<1>2. ASSUME NEW c \in Closures, NEW o \in visible, NewClosure(c, o) PROVE BInv'
  <2>1. UNCHANGED <<header, tracker, plans>>
    BY <1>2 DEF NewClosure
  <2> QED BY <2>1, UseBytes
<1>3. ASSUME NEW p \in visible, NEW o \in Objects, Store(p, o) PROVE BInv'
  <2>1. UNCHANGED <<tracker, plans>> /\ header' = Barrier(p, o)
    BY <1>3 DEF Store
  <2>2. \A t \in Tables : /\ header'[t] = "none" <=> header[t] = "none"
                          /\ header'[t] = "young" => header[t] = "young"
    BY <1>0, <2>1 DEF Barrier, With
  <2> QED BY <2>1, <2>2, UseBytes
<1>4. ASSUME NEW p \in visible, NEW o \in Objects, Erase(p, o) PROVE BInv'
  <2>1. UNCHANGED <<tracker, plans>> /\ Counting([refs EXCEPT ![p] = @ \ {o}], header)
    BY <1>4 DEF Erase
  <2>2. \A t \in Tables : /\ header'[t] = "none" <=> header[t] = "none"
                          /\ header'[t] = "young" => header[t] = "young"
    BY <2>1, CountingUses
  <2> QED BY <2>1, <2>2, UseBytes
<1>5. ASSUME NEW p \in visible, NEW o \in Objects, Load(p, o) PROVE BInv'
  <2>1. UNCHANGED <<header, tracker, plans>>
    BY <1>5 DEF Load
  <2> QED BY <2>1, UseBytes
<1>6. ASSUME UseArgument \/ Resume PROVE BInv'
  <2>1. UNCHANGED <<header, tracker, plans>>
    BY <1>6 DEF UseArgument, Resume
  <2> QED BY <2>1, UseBytes
<1>7. ASSUME NEW o \in visible, Forget(o) PROVE BInv'
  <2>1. UNCHANGED <<tracker, plans>> /\ Counting(refs, header)
    BY <1>7 DEF Forget
  <2>2. \A t \in Tables : /\ header'[t] = "none" <=> header[t] = "none"
                          /\ header'[t] = "young" => header[t] = "young"
    BY <2>1, CountingUses
  <2> QED BY <2>1, <2>2, UseBytes
<1>8. ASSUME NEW o \in visible, Suspend(o) PROVE BInv'
  <2>1. UNCHANGED <<header, tracker, plans>>
    BY <1>8 DEF Suspend
  <2> QED BY <2>1, UseBytes
<1> QED BY <1>1, <1>2, <1>3, <1>4, <1>5, <1>6, <1>7, <1>8 DEF Program

(* A collection that begins takes the headers of freed tables off.         *)
LEMMA PlanBytes ==
  ASSUME GInv, BInv, NEW outer \in Seq(Pending \cup Planned), Plan(outer),
         SumOf(Owes(outer)) = SumOf(Owes(plans))
  PROVE  BInv'
<1>1. PICK p : /\ plans' = Append(outer, p) /\ p \in Planned
               /\ p.stage = "settle" /\ p.dropped = Cardinality(With("dead"))
  BY PlanMakes
<1>2. UNCHANGED <<bytes, sweepPlain>>
      /\ \A t \in Tables :
           /\ t \in Whites => header'[t] \in {"black", "white"}
           /\ header[t] = "dead" => header'[t] = "none"
           /\ t \notin Whites /\ header[t] # "dead" => header'[t] = header[t]
  BY PlanMakes
<1>3. \A t \in Tables : /\ header'[t] = "none" <=> header[t] \in {"none", "dead"}
                        /\ header'[t] # "young"
  BY <1>2 DEF Whites, With
<1>4. Used' = Used \ With("dead") /\ With("dead") \subseteq Used
  BY <1>3 DEF Used, With
<1>5. Cardinality(Used \ With("dead")) = Cardinality(Used) - Cardinality(With("dead"))
      /\ Cardinality(Used) \in Nat /\ Cardinality(With("dead")) \in Nat
  <2>1. Used \cap With("dead") = With("dead")
    BY <1>4
  <2> QED BY <2>1, UsedFinite, FS_Difference, FS_CardinalityType
<1>6. SumOf(Owes(plans')) = SumOf(Owes(plans)) + Cardinality(With("dead"))
      /\ SumOf(Owes(plans)) \in Nat
  BY <1>1, OwesAdded, OwesType DEF Owe
<1>7. StagedOld'
  <2>1. sweepPlain \subseteq Tables
    BY DEF GInv, HeapType
  <2> QED BY <1>2, <1>3, <2>1 DEF StagedOld
<1>8. bytes' = Cardinality(Used') + SumOf(Owes(plans'))
  BY <1>2, <1>4, <1>5, <1>6 DEF BInv, BytesMatch
<1> QED BY <1>7, <1>8 DEF BInv, BytesMatch

(* Both ways to begin a collection; one that waited owed nothing.          *)
LEMMA CollectBytes ==
  ASSUME GInv, BInv, Collect
  PROVE  BInv'
<1>1. plans \in Seq(Pending \cup Planned)
  BY DEF GInv, Nesting
<1>2. CASE plans # << >> /\ Top.stage = "plan" /\ Plan(Front(plans))
  <2>1. Front(plans) \in Seq(Pending \cup Planned)
    BY <1>1, <1>2, LastDropped
  <2>2. Owe(plans[Len(plans)]) = 0
    BY <1>2 DEF Owe, Top
  <2>3. SumOf(Owes(plans)) = SumOf(Owes(Front(plans))) + Owe(plans[Len(plans)])
    BY <1>1, <1>2, OwesDropped
  <2>4. SumOf(Owes(Front(plans))) \in Nat
    BY <2>1, OwesType
  <2>5. SumOf(Owes(Front(plans))) = SumOf(Owes(plans))
    BY <2>2, <2>3, <2>4
  <2> QED BY <1>2, <2>1, <2>5, PlanBytes
<1>3. CASE Plan(plans)
  BY <1>1, <1>3, PlanBytes
<1> QED BY <1>2, <1>3 DEF Collect

(* The innermost collection owes the same.                                 *)
LEMMA TopOwesSame ==
  ASSUME GInv, plans # << >>, NEW p \in Planned, SetTop(p), p.stage # "plan",
         Top.stage # "plan", p.dropped = Top.dropped
  PROVE  SumOf(Owes(plans')) = SumOf(Owes(plans))
<1>1. plans \in Seq(Pending \cup Planned) /\ plans' = [plans EXCEPT ![Len(plans)] = p]
  BY DEF GInv, Nesting, SetTop
<1>2. Owe(p) = Owe(plans[Len(plans)])
  BY DEF Owe, Top
<1> QED BY <1>1, <1>2, OwesReplaced

(* Finalizers start, and end: one that clears its table counts one off.    *)
LEMMA StartFinalizerBytes ==
  ASSUME GInv, BInv, StartFinalizer
  PROVE  BInv'
<1>1. plans # << >> /\ UNCHANGED <<header, bytes, sweepPlain>>
  BY StartFinalizerDoes
<1>2. PICK p \in Planned : SetTop(p) /\ p.stage = "run" /\ p.dropped = Top.dropped
  BY StartFinalizerDoes
<1>3. Top.stage = "settle"
  BY DEF StartFinalizer
<1>4. SumOf(Owes(plans')) = SumOf(Owes(plans))
  BY <1>1, <1>2, <1>3, TopOwesSame
<1>5. sweepPlain \subseteq Tables
  BY DEF GInv, HeapType
<1> QED BY <1>1, <1>4, <1>5, QuietBytes

LEMMA FinalizerEndsBytes ==
  ASSUME GInv, BInv, NEW ok \in BOOLEAN, FinalizerEnds(ok)
  PROVE  BInv'
<1>1. plans # << >> /\ UNCHANGED sweepPlain
  BY FinalizerEndsDoes
<1>2. PICK p \in Planned : SetTop(p) /\ p.stage = "settle" /\ p.dropped = Top.dropped
  BY FinalizerEndsDoes
<1>3. Top.stage = "run"
  BY DEF FinalizerEnds, Runs
<1>4. SumOf(Owes(plans')) = SumOf(Owes(plans))
  BY <1>1, <1>2, <1>3, TopOwesSame
<1>5. sweepPlain \subseteq Tables /\ bytes \in Nat
  BY DEF GInv, HeapType
<1>6. PICK t \in Tables, rf \in [Objects -> SUBSET Objects], hd \in [Tables -> Headers] :
        /\ Tracked(t) /\ Counting(rf, hd)
        /\ \A u \in Tables : u # t => hd[u] = header[u]
        /\ \/ hd[t] = "white" /\ bytes' = bytes
           \/ hd[t] = "none" /\ bytes' = Minus(bytes, 1)
  BY FinalizerEndsDoes
<1>7. \A u \in Tables : /\ header'[u] = "none" <=> hd[u] = "none"
                        /\ header'[u] = "young" => hd[u] = "young"
  BY <1>6, CountingUses
<1>8. header[t] # "none"
  BY <1>6 DEF Tracked, Colours
<1>9. CASE hd[t] = "white" /\ bytes' = bytes
  <2>1. \A u \in Tables : /\ header'[u] = "none" <=> header[u] = "none"
                          /\ header'[u] = "young" => header[u] = "young"
    BY <1>6, <1>7, <1>8, <1>9
  <2> QED BY <1>1, <1>4, <1>5, <1>9, <2>1, QuietBytes
<1>10. CASE hd[t] = "none" /\ bytes' = Minus(bytes, 1)
  <2>1. Used' = Used \ {t} /\ t \in Used
    BY <1>6, <1>7, <1>8, <1>10 DEF Used
  <2>2. Cardinality(Used \ {t}) = Cardinality(Used) - 1 /\ Cardinality(Used) \in Nat
        /\ Cardinality(Used \ {t}) \in Nat
    <3>1. IsFiniteSet(Used \ {t})
      BY UsedFinite, FS_Subset
    <3> QED BY <2>1, <3>1, UsedFinite, FS_RemoveElement, FS_CardinalityType
  <2>3. SumOf(Owes(plans)) \in Nat
    BY OwesType DEF GInv, Nesting
  <2>4. bytes' = Cardinality(Used') + SumOf(Owes(plans'))
    BY <1>4, <1>5, <1>10, <2>1, <2>2, <2>3 DEF BInv, BytesMatch, Minus
  <2>5. StagedOld'
    BY <1>1, <1>5, <1>6, <1>7, <1>10 DEF BInv, StagedOld
  <2> QED BY <2>4, <2>5 DEF BInv, BytesMatch
<1> QED BY <1>6, <1>9, <1>10

(* A slice takes off the count what it takes off the tracker.              *)
LEMMA SliceBytes ==
  ASSUME GInv, NEW plain \in SUBSET Tables, NEW chosen \in SUBSET plain,
         NEW weak \in SUBSET Tables, NEW dead, NEW count \in Nat, NEW owed \in Nat,
         Slice(plain, chosen, weak, dead, count),
         count = Cardinality(Used) + owed,
         \A t \in plain : Tracked(t) \/ header[t] = "none"
  PROVE  bytes' = Cardinality(Used') + owed /\ StagedOld'
<1> DEFINE taken == {t \in chosen : Tracked(t)}
<1>1. /\ sweepPlain' = plain \ chosen /\ Clears(plain, chosen, weak, dead)
      /\ bytes' = Minus(count, Cardinality(taken))
  BY SliceClears DEF Slice
<1>2. PICK rf, hd : Clearing(rf, hd, plain, chosen, weak, dead) /\ Counting(rf, hd)
  BY <1>1 DEF Clears
<1>3. \A t \in Tables :
        /\ t \in chosen => hd[t] = "none"
        /\ t \notin chosen => hd[t] = header[t] \/ (header[t] = "black" /\ hd[t] = "white")
  BY <1>2 DEF Clearing
<1>4. \A t \in Tables : /\ header'[t] = "none" <=> hd[t] = "none"
                        /\ header'[t] = "young" => hd[t] = "young"
  BY <1>2, CountingUses
<1>5. Used' = Used \ taken /\ taken \subseteq Used
  <2>1. \A t \in chosen : t \in taken <=> header[t] # "none"
    BY DEF Tracked, Colours
  <2>2. taken \subseteq Used
    BY <2>1 DEF Used
  <2>3. \A t \in Tables : header'[t] # "none" <=> header[t] # "none" /\ t \notin chosen
    BY <1>3, <1>4
  <2> HIDE DEF taken
  <2>4. taken \subseteq chosen
    BY DEF taken
  <2> QED BY <2>1, <2>2, <2>3, <2>4 DEF Used
<1> HIDE DEF taken
<1>6. /\ Cardinality(Used \ taken) = Cardinality(Used) - Cardinality(taken)
      /\ Cardinality(Used) \in Nat /\ Cardinality(taken) \in Nat
      /\ Cardinality(Used \ taken) \in Nat
  <2>1. Used \cap taken = taken
    BY <1>5
  <2>2. IsFiniteSet(Used) /\ IsFiniteSet(taken)
    BY <1>5, UsedFinite, FS_Subset
  <2>3. IsFiniteSet(Used \ taken)
    BY <2>2, FS_Difference
  <2>4. Cardinality(Used \ taken) = Cardinality(Used) - Cardinality(Used \cap taken)
    BY <2>2, FS_Difference
  <2>5. /\ Cardinality(Used) \in Nat /\ Cardinality(taken) \in Nat
        /\ Cardinality(Used \ taken) \in Nat
    BY <2>2, <2>3, FS_CardinalityType
  <2> QED BY <2>1, <2>4, <2>5
<1>7. bytes' = Cardinality(Used') + owed
  BY <1>1, <1>5, <1>6 DEF Minus
<1>8. StagedOld'
  <2>1. ASSUME NEW t \in plain \ chosen PROVE header'[t] # "young"
    <3>1. header[t] # "young" /\ t \in Tables
      BY DEF Tracked, Colours
    <3> QED BY <1>3, <1>4, <3>1
  <2> QED BY <1>1, <2>1 DEF StagedOld
<1> QED BY <1>7, <1>8

(* What is staged was not freed, since the tracker holds it.               *)
LEMMA StagedTracked ==
  ASSUME GInv, MInv, BInv, NEW t \in sweepPlain
  PROVE  Tracked(t) \/ header[t] = "none"
<1>1. t \in Tables /\ header[t] \in Headers
  BY DEF GInv, HeapType
<1>2. header[t] # "dead"
  BY <1>1, DeadNowhere DEF MInv, With
<1> QED BY <1>1, <1>2 DEF Tracked, Headers, BInv, StagedOld

LEMMA SliceStagedBytes ==
  ASSUME GInv, MInv, BInv, NEW chosen \in SUBSET sweepPlain,
         Slice(sweepPlain, chosen, sweepWeak, doomed, bytes),
         SumOf(Owes(plans')) = SumOf(Owes(plans))
  PROVE  BInv'
<1>1. bytes = Cardinality(Used) + SumOf(Owes(plans)) /\ bytes \in Nat
      /\ SumOf(Owes(plans)) \in Nat
  BY OwesType DEF GInv, HeapType, Nesting, BInv, BytesMatch
<1>2. sweepPlain \in SUBSET Tables /\ sweepWeak \in SUBSET Tables
  BY StagedApart
<1>3. \A t \in sweepPlain : Tracked(t) \/ header[t] = "none"
  BY StagedTracked
<1>4. bytes' = Cardinality(Used') + SumOf(Owes(plans)) /\ StagedOld'
  BY <1>1, <1>2, <1>3, SliceBytes
<1> QED BY <1>4 DEF BInv, BytesMatch

LEMMA AutoSliceBytes ==
  ASSUME GInv, MInv, BInv, AutoSlice
  PROVE  BInv'
<1>1. PICK chosen \in InBudget(sweepPlain) :
        Slice(sweepPlain, chosen, sweepWeak, doomed, bytes)
  BY DEF AutoSlice, SliceStaged
<1>2. chosen \in SUBSET sweepPlain
  BY StagedApart, BudgetOf
<1>3. plans' = plans
  BY DEF AutoSlice
<1> QED BY <1>1, <1>2, <1>3, SliceStagedBytes

LEMMA DrainStagedBytes ==
  ASSUME GInv, MInv, BInv, DrainStaged
  PROVE  BInv'
<1> DEFINE p == [stage |-> "plan", plain |-> {}, queue |-> << >>]
<1>1. Slice(sweepPlain, sweepPlain, sweepWeak, doomed, bytes) /\ plans' = Append(plans, p)
  BY DEF DrainStaged, SliceStaged
<1>2. p \in Pending /\ Owe(p) = 0
  BY DEF Pending, Owe
<1> HIDE DEF p
<1>3. plans \in Seq(Pending \cup Planned) /\ SumOf(Owes(plans)) \in Nat
  BY OwesType DEF GInv, Nesting
<1>4. SumOf(Owes(plans')) = SumOf(Owes(plans)) + Owe(p)
  BY <1>1, <1>2, <1>3, OwesAdded
<1>5. SumOf(Owes(plans')) = SumOf(Owes(plans)) /\ sweepPlain \in SUBSET sweepPlain
  BY <1>2, <1>3, <1>4
<1> QED BY <1>1, <1>5, SliceStagedBytes

(* A sweep takes off what its collection owed.                             *)
LEMMA SweepBytes ==
  ASSUME GInv, BInv, Sweep
  PROVE  BInv'
<1> DEFINE weak  == {t \in With("black") : hasWeak /\ kind[t] = "weak"}
           owed  == SumOf(Owes(plans'))
           count == Minus(bytes, Top.dropped)
<1>1. plans # << >> /\ Top.stage = "settle" /\ plans' = Front(plans)
  BY DEF Sweep
<1>2. PICK chosen \in {Top.plain} \cup InBudget(Top.plain) :
        Slice(Top.plain, chosen, weak, Top.cleared, count)
  BY DEF Sweep
<1>3. /\ Top = plans[Len(plans)] /\ Top \in Planned /\ Len(plans) \in 1..Len(plans)
      /\ Top.plain \in SUBSET Tables /\ Top.dropped \in Nat
      /\ plans \in Seq(Pending \cup Planned)
  BY <1>1, TopIsPlan, PlanFields DEF GInv, Nesting
<1>4. chosen \in SUBSET Top.plain /\ weak \in SUBSET Tables
  BY <1>2, <1>3, BudgetOf DEF With
<1>5. owed \in Nat
  BY <1>1, <1>3, LastDropped, OwesType
<1>6. SumOf(Owes(plans)) = owed + Top.dropped
  <2>1. SumOf(Owes(plans)) = SumOf(Owes(Front(plans))) + Owe(plans[Len(plans)])
    BY <1>1, <1>3, OwesDropped
  <2>2. Owe(plans[Len(plans)]) = Top.dropped
    BY <1>1, <1>3 DEF Owe
  <2> QED BY <1>1, <2>1, <2>2
<1>7. count = Cardinality(Used) + owed /\ count \in Nat
  <2>1. bytes = Cardinality(Used) + SumOf(Owes(plans)) /\ Cardinality(Used) \in Nat
        /\ bytes \in Nat
    BY UsedFinite DEF BInv, BytesMatch, GInv, HeapType
  <2> HIDE DEF owed
  <2>2. bytes = Cardinality(Used) + owed + Top.dropped
    BY <1>3, <1>5, <1>6, <2>1
  <2> QED BY <1>3, <1>5, <2>1, <2>2 DEF Minus
<1>8. \A t \in Top.plain : Tracked(t) \/ header[t] = "none"
  BY <1>3 DEF GInv, PlainApart
<1> HIDE DEF weak, count
<1>9. bytes' = Cardinality(Used') + owed /\ StagedOld'
  <2> HIDE DEF owed
  <2> QED BY <1>2, <1>3, <1>4, <1>5, <1>7, <1>8, SliceBytes
<1> QED BY <1>9 DEF BInv, BytesMatch

(* The first state, and every step.                                        *)
LEMMA InitBInv == Init => BInv
<1> SUFFICES ASSUME Init PROVE BInv
  OBVIOUS
<1>1. /\ header = [t \in Tables |-> "none"] /\ bytes = 0 /\ plans = << >> /\ sweepPlain = {}
  BY DEF Init
<1>2. Used = {} /\ Cardinality({}) = 0
  BY <1>1, FS_EmptySet DEF Used
<1>3. SumOf(Owes(plans)) = 0
  BY <1>1, OwesNothing
<1> QED BY <1>1, <1>2, <1>3 DEF BInv, BytesMatch, StagedOld

LEMMA StepBytes ==
  ASSUME GInv, MInv, BInv, [Next]_vars
  PROVE  BInv'
<1>1. CASE Program
  BY <1>1, ProgramBytes
<1>2. CASE Collect
  BY <1>2, CollectBytes
<1>3. CASE DrainStaged
  BY <1>3, DrainStagedBytes
<1>4. CASE AutoSlice
  BY <1>4, AutoSliceBytes
<1>5. CASE StartFinalizer
  BY <1>5, StartFinalizerBytes
<1>6. CASE \E ok \in BOOLEAN : FinalizerEnds(ok)
  BY <1>6, FinalizerEndsBytes
<1>7. CASE Sweep
  BY <1>7, SweepBytes
<1>8. CASE UNCHANGED vars
  <2>1. UNCHANGED <<header, bytes, sweepPlain, plans>>
    BY <1>8 DEF vars, tables, tracker, staged
  <2>2. sweepPlain \subseteq Tables
    BY DEF GInv, HeapType
  <2> QED BY <2>1, <2>2, QuietBytes
<1> QED BY <1>1, <1>2, <1>3, <1>4, <1>5, <1>6, <1>7, <1>8 DEF Next, Collector

-----------------------------------------------------------------------------
(***************************************************************************)
(* The theorems.                                                           *)
(***************************************************************************)

(* The three inductive invariants; first what collections hold and plan.   *)
THEOREM GInvHolds == Spec => []GInv
<1>1. Init => GInv
  BY InitGInv
<1>2. GInv /\ [Next]_vars => GInv'
  BY StepRight
<1> QED BY <1>1, <1>2, PTL DEF Spec

(* The state is well formed.                                               *)
THEOREM GcTypeHolds == Spec => []TypeOK
<1>1. GInv => TypeOK
  BY GInvTypes
<1> QED BY <1>1, GInvHolds, PTL

(* What a collection planned to clear or to finalize stays tracked until   *)
(* it is, and pinned until it is finalized, however collections nest.      *)
THEOREM PlannedStaysWholeHolds == Spec => []PlannedStaysWhole
<1>1. GInv => PlannedStaysWhole
  BY GInvPlanned
<1> QED BY <1>1, GInvHolds, PTL

(* A table's finalizer is started at most once.                            *)
THEOREM FinalizedOnceHolds == Spec => FinalizedOnce
<1>1. GInv /\ [Next]_vars => [StartsOnce]_vars
  BY StepRight
<1>2. [StartsOnce]_vars =>
        [plans' # << >> /\ Top'.stage = "run" /\ Len(plans') = Len(plans) /\ Top.stage = "settle"
           => Top.queue[Top.next] \notin ran]_vars
  BY DEF StartsOnce
<1> QED BY <1>1, <1>2, GInvHolds, PTL DEF Spec, FinalizedOnce

(* A table gives up its pin only when its finalizer ends.                  *)
THEOREM FinalizedBeforeDeathHolds == Spec => FinalizedBeforeDeath
<1>1. GInv /\ [Next]_vars => [TakesPinRightly]_vars
  BY StepRight
<1>2. [TakesPinRightly]_vars =>
        [\A t \in ToSet(pinned) \ ToSet(pinned') :
           plans # << >> /\ Top.stage = "run" /\ Top.queue[Top.next] = t]_vars
  BY DEF TakesPinRightly
<1> QED BY <1>1, <1>2, GInvHolds, PTL DEF Spec, FinalizedBeforeDeath

(* What freed tables, phases and marking have to do with each other.       *)
THEOREM MInvHolds == Spec => []MInv
<1>1. Init => MInv
  BY InitMInv
<1>2. GInv /\ MInv /\ [Next]_vars => MInv'
  BY StepMarks
<1> QED BY <1>1, <1>2, GInvHolds, PTL DEF Spec

(* A collection condemns only what the program cannot reach: not from its  *)
(* stack, not from those put aside, and not from a finalizer's argument.   *)
THEOREM CondemnsOnlyGarbageHolds == Spec => CondemnsOnlyGarbage
<1>1. GInv /\ [Next]_vars => [PlansRightly]_vars
  BY StepPlans
<1>2. [PlansRightly]_vars => [Plans => PlanHolds(Top') \cap InUse = {}]_vars
  BY DEF PlansRightly
<1> QED BY <1>1, <1>2, GInvHolds, PTL DEF Spec, CondemnsOnlyGarbage

(* A collection that no finalizer disturbed leaves no tracked table that   *)
(* the anchors do not lead to.                                             *)
THEOREM CollectsGarbageHolds == Spec => CollectsGarbage
<1>1. GInv /\ MInv /\ [Next]_vars => [LeavesNoGarbage]_vars
  BY StepLeaves
<1>2. [LeavesNoGarbage]_vars =>
        [EndsUndisturbed =>
           \A t \in Tables : header'[t] \in Colours => t \in Reach(Anchors, Objects)]_vars
  BY DEF LeavesNoGarbage
<1> QED BY <1>1, <1>2, GInvHolds, MInvHolds, PTL DEF Spec, CollectsGarbage

(* Such a collection leaves no entry of a table that it emptied in a weak  *)
(* table that the program sees.                                            *)
THEOREM WeakEntriesGoneHolds == Spec => WeakEntriesGone
<1>1. GInv /\ MInv /\ [Next]_vars => [LeavesNoEntries]_vars
  BY StepLeaves
<1>2. [LeavesNoEntries]_vars =>
        [EndsUndisturbed =>
           \A w \in visible \cap Tables :
             kind[w] = "weak" /\ header[w] # "gray" => refs'[w] \cap Top.plain = {}]_vars
  BY DEF LeavesNoEntries
<1> QED BY <1>1, <1>2, GInvHolds, MInvHolds, PTL DEF Spec, WeakEntriesGone

(* The count does not drift.                                               *)
THEOREM BytesAgreeHolds == Spec => []BytesAgree
<1>1. Init => BInv
  BY InitBInv
<1>2. GInv /\ MInv /\ BInv /\ [Next]_vars => BInv'
  BY StepBytes
<1>3. BInv => BytesAgree
  BY BytesMatchIs DEF BInv
<1> QED BY <1>1, <1>2, <1>3, GInvHolds, MInvHolds, PTL DEF Spec
=============================================================================
