-------------------------------- MODULE Gc --------------------------------
(***************************************************************************)
(* The cycle collector of vm/gc.rs and what drives it in vm/machine.rs:    *)
(* marking, the plan of a collection, finalizers, the sweep in slices, and *)
(* the program (and the finalizers, which may collect again) in between.   *)
(*                                                                         *)
(* Tables and closures are reference counted.  An object stands for an     *)
(* address: the address of a table is free again when nothing refers to it *)
(* and the tracker has no header for it any more.  Left out: buffers, the  *)
(* sizes, by which the program allocates its way to the next automatic     *)
(* step (here that may come at any time), and metatables: whether a table  *)
(* is weak or has a finalizer is settled when it is made.                  *)
(***************************************************************************)
EXTENDS Integers, Sequences, FiniteSets, SequencesExt, Subsequences

CONSTANTS
  Tables,     (* addresses of tables                                         *)
  Closures,   (* closures, which the tracker does not know                   *)
  Births,     (* which kind of table may get which address: a bound          *)
  MaxObjects, (* bound on the addresses in use                               *)
  MaxEdges,   (* bound on the references that objects hold                   *)
  MaxLocals,  (* bound on the references that the program holds              *)
  MaxPlans    (* bound on the collections nested in one another              *)

Objects == Tables \cup Closures

ASSUME ObjectsAssumption == IsFiniteSet(Objects) /\ Closures \cap Tables = {}
ASSUME BirthsAssumption  == Births \subseteq Tables \X {"plain", "weak", "final"}
ASSUME BoundsAssumption  == {MaxObjects, MaxEdges, MaxLocals, MaxPlans} \subseteq Nat

VARIABLES
  header,      (* each table's header in GcTracker: none, young, its colour, *)
               (* or "dead" if refcounting freed the table                   *)
  kind,        (* what a table's metatable says                              *)
  refs,        (* what each object refers to                                 *)
  visible,     (* what the globals and the visible stack refer to            *)
  aside,       (* what the stacks of suspended coroutines refer to           *)
  pinned,      (* GcTracker::pinned, newest first                            *)
  bytes,       (* GcTracker::bytes_allocated, each table counting as one     *)
  state,       (* GcTracker::state; Propagate only exists inside a step      *)
  hasWeak,     (* GcTracker::has_weak_tables                                 *)
  sweeping,    (* GcTracker::sweeping                                        *)
  sweepPlain,  (* GcTracker::sweep_plain                                     *)
  sweepWeak,   (* GcTracker::sweep_weak                                      *)
  doomed,      (* GcTracker::sweep_doomed_tables                             *)
  plans,       (* the collections under way, the innermost one last          *)
  ran          (* history: the tables whose finalizer was started            *)

program == <<visible, aside>>
staged  == <<sweeping, sweepPlain, sweepWeak, doomed>>
tracker == <<pinned, bytes, state, hasWeak, staged>>
tables  == <<header, kind, tracker>>
vars    == <<tables, refs, program, plans, ran>>

Colours == {"white", "gray", "black"}
Kinds   == {"plain", "weak", "final"}   (* final: it has a __gc handler *)
Tracked(t) == header[t] \in Colours
Among(seq, set) == Retain(seq, {k \in DOMAIN seq : seq[k] \in set})
With(colour) == {t \in Tables : header[t] = colour}

-----------------------------------------------------------------------------
(***************************************************************************)
(* Reachability and reference counts.                                      *)
(***************************************************************************)

(* A weak table does not hold its tables.                                  *)
StrongRefs(o) ==
  IF o \in Tables /\ kind[o] = "weak" THEN refs[o] \cap Closures ELSE refs[o]

(* What can be reached from `from` by looking into the objects `through`.  *)
Reach(from, through) ==
  LET upTo[n \in Nat] ==
        IF n = 0 THEN from
        ELSE LET S == upTo[n - 1]
             IN  S \cup UNION {StrongRefs(o) : o \in S \cap through}
  IN  upTo[Cardinality(Objects)]

(* References from the program, the Rust stack and the tracker.            *)
PlanHolds(p) == p.plain \cup ToSet(p.queue)
Held ==
  visible \cup aside \cup ToSet(pinned) \cup sweepPlain \cup sweepWeak
    \cup UNION {PlanHolds(plans[i]) : i \in DOMAIN plans}

(* What keeps a reference count above zero if `rf` are the references and  *)
(* `held` has others: cycles keep themselves.                              *)
Referred(rf, held) ==
  LET after[n \in Nat] ==
        IF n = 0 THEN UNION {rf[o] : o \in Objects}
        ELSE UNION {rf[o] : o \in held \cup after[n - 1]}
  IN  after[Cardinality(Objects)]
Kept(rf, held) == held \cup Referred(rf, held)

(* The step's references and headers, and what refcounting then frees: a   *)
(* freed table's header stays behind.  A table that is used but has no     *)
(* header was emptied, and its metatable with it.                          *)
Counting(rf, hd) ==
  \E kept \in {Kept(rf, Held')} :
  /\ refs' = [o \in Objects |-> IF o \in kept THEN rf[o] ELSE {}]
  /\ header' = [t \in Tables |-> IF t \in kept \/ hd[t] = "none" THEN hd[t] ELSE "dead"]
  /\ kind' = [t \in Tables |-> IF t \in kept /\ hd[t] # "none" THEN kind[t] ELSE "plain"]

(* The addresses in use; any other one can be given to a new object.       *)
InMemory ==
  Held \cup (UNION {refs[o] : o \in Objects}) \cup {t \in Tables : header[t] # "none"}
MayMake(o) == o \notin InMemory /\ Cardinality(InMemory) < MaxObjects

-----------------------------------------------------------------------------
(***************************************************************************)
(* The program, and the finalizers.                                        *)
(***************************************************************************)

Top == plans[Len(plans)]
SetTop(p) == plans' = [plans EXCEPT ![Len(plans)] = p]

(* The program runs: no collection is under way, or its finalizer runs.    *)
Runs == plans # << >> => Top.stage = "run"
Room == Cardinality(visible) + Cardinality(aside) < MaxLocals
RoomForEdge ==
  Cardinality(UNION {{o} \X refs[o] : o \in Objects}) < MaxEdges

(* NewTable and, right after it, setmetatable.                             *)
NewTable(t, metatable) ==
  /\ Runs /\ Room /\ MayMake(t)
  /\ visible' = visible \cup {t}
  /\ header' = [header EXCEPT ![t] = "young"]
  /\ kind' = [kind EXCEPT ![t] = metatable]
  /\ pinned' = IF metatable = "final" THEN <<t>> \o pinned ELSE pinned
  /\ hasWeak' = (hasWeak \/ metatable = "weak")
  /\ bytes' = bytes + 1
  /\ ran' = ran \ {t}
  /\ UNCHANGED <<refs, aside, state, staged, plans>>

(* A closure over what the program holds, once its scope has returned.     *)
NewClosure(c, captured) ==
  /\ Runs /\ Room /\ RoomForEdge /\ MayMake(c)
  /\ visible' = visible \cup {c}
  /\ refs' = [refs EXCEPT ![c] = {captured}]
  /\ UNCHANGED <<tables, aside, plans, ran>>

(* write_barrier: a black table that is given a white one turns gray.      *)
Barrier(p, o) ==
  IF p \in With("black") /\ o \in With("white")
  THEN [header EXCEPT ![p] = "gray"] ELSE header

(* What follows is done with an object `p` that the program holds.         *)
Store(p, o) ==
  /\ Runs /\ p \in Tables /\ o \in visible \ refs[p] /\ RoomForEdge
  /\ refs' = [refs EXCEPT ![p] = @ \cup {o}]
  /\ header' = Barrier(p, o)
  /\ UNCHANGED <<kind, program, tracker, plans, ran>>

Erase(p, o) ==
  /\ Runs /\ o \in refs[p]
  /\ UNCHANGED <<program, tracker, plans, ran>>
  /\ Counting([refs EXCEPT ![p] = @ \ {o}], header)

Load(p, o) ==
  /\ Runs /\ Room /\ o \in refs[p] \ visible
  /\ visible' = visible \cup {o}
  /\ UNCHANGED <<tables, refs, aside, plans, ran>>

(* A finalizer uses its argument, or stores it where it stays.             *)
UseArgument ==
  /\ Runs /\ plans # << >> /\ Room
  /\ visible' = visible \cup {Top.queue[Top.next]}
  /\ UNCHANGED <<tables, refs, aside, plans, ran>>

Forget(o) ==
  /\ Runs
  /\ visible' = visible \ {o}
  /\ UNCHANGED <<aside, tracker, plans, ran>>
  /\ Counting(refs, header)

(* The coroutine that has `o` in a local is suspended, or goes on (outside *)
(* finalizers: a bound).                                                   *)
Suspend(o) ==
  /\ plans = << >> /\ aside = {}
  /\ visible' = visible \ {o} /\ aside' = {o}
  /\ UNCHANGED <<tables, refs, plans, ran>>
Resume ==
  /\ plans = << >> /\ aside # {}
  /\ visible' = visible \cup aside /\ aside' = {}
  /\ UNCHANGED <<tables, refs, plans, ran>>

Program ==
  \/ \E birth \in Births : NewTable(birth[1], birth[2])
  \/ \E c \in Closures, o \in visible : NewClosure(c, o)
  \/ \E p \in visible, o \in Objects : Store(p, o) \/ Erase(p, o) \/ Load(p, o)
  \/ UseArgument \/ Resume
  \/ \E o \in visible : Forget(o) \/ Suspend(o)

-----------------------------------------------------------------------------
(***************************************************************************)
(* collect_plan.                                                           *)
(***************************************************************************)

(* The finalizers that run have their arguments on the stack.              *)
Arguments ==
  {plans[i].queue[plans[i].next] : i \in {k \in DOMAIN plans : plans[k].stage = "run"}}

(* flush_young makes the young tables white.                               *)
Whites == With("white") \cup With("young")

(* mark_roots and propagate_all: only white tables are marked and only     *)
(* they, and closures, are looked into.  A collection inside the finalizer *)
(* of another one does not mark.                                           *)
Marked ==
  IF state = "pause"
  THEN Reach(visible \cup Arguments, Closures \cup Whites) \cap Whites ELSE {}

(* Mutant: references between garbage tables are not told apart.           *)
NoInternalHolders(white, weak) == {}

(* The tables whose references count as internal: the white ones, and, if  *)
(* there are weak tables, the black ones among those.                      *)
InternalHolders(white, weak) ==
  white \cup {t \in With("black") \cup Marked : weak /\ kind[t] = "weak"}

(* Mutant: what a collection further out holds is not seen.                *)
HeldByProgram(t) == t \in visible \cup aside

(* Anything else that holds a table, other than its pin.                   *)
HeldOutside(t) ==
  \/ t \in visible \cup aside \cup sweepPlain \cup sweepWeak
  \/ \E i \in DOMAIN plans : t \in PlanHolds(plans[i])

(* Mutant: what a spared table leads to is not spared.                     *)
SparedAlone(white, internal) ==
  {t \in white : HeldOutside(t) \/ \E o \in Objects \ internal : t \in refs[o]}

(* A table that something else holds is spared, with all it leads to.      *)
Spared(white, internal) ==
  LET outside == {t \in white :
                    HeldOutside(t) \/ \E o \in Objects \ internal : t \in refs[o]}
  IN  outside \cup (Reach(outside, Closures \cup white) \cap white)

(* Mutant: a young table is not finalized.                                 *)
QueueWithoutYoung(condemned) ==
  Among(pinned, {t \in condemned : header[t] = "white"})

(* The finalizers to run: tables with a handler that did not run, newest   *)
(* first.                                                                  *)
Queue(condemned) == Among(pinned, condemned)

(* A collection plans: it marks, and finds out what to clear and what to   *)
(* finalize, newest first.                                                 *)
Plan(outer) ==
  LET weak      == hasWeak \/ \E t \in Marked : kind[t] = "weak"
      white     == Whites \ Marked
      internal  == InternalHolders(white, weak)
      condemned == white \ Spared(white, internal)
      queue     == Queue(condemned)
      black     == Marked \cup ToSet(queue)
  IN  /\ plans' = Append(outer,
                    [stage    |-> "settle",
                     plain    |-> condemned \ ToSet(queue),
                     queue    |-> queue,
                     next     |-> 1,
                     internal |-> [t \in ToSet(queue) |->
                                     Cardinality({o \in internal : t \in refs[o]})],
                     dropped  |-> Cardinality(With("dead")),
                     cleared  |-> {}])
      /\ header' = [t \in Tables |->
                      CASE t \in black            -> "black"
                        [] t \in Whites \ black   -> "white"
                        [] header[t] = "dead"     -> "none"
                        [] OTHER                  -> header[t]]
      /\ hasWeak' = weak
      /\ state' = "sweep"
      /\ UNCHANGED <<kind, refs, program, pinned, bytes, staged, ran>>

-----------------------------------------------------------------------------
(***************************************************************************)
(* settle_queue.                                                           *)
(***************************************************************************)

StartFinalizer ==
  /\ plans # << >> /\ Top.stage = "settle" /\ Top.next <= Len(Top.queue)
  /\ SetTop([Top EXCEPT !.stage = "run"])
  /\ ran' = ran \cup {Top.queue[Top.next]}
  /\ UNCHANGED <<tables, refs, program>>

(* How many references there are besides the queue's, the pin's and that   *)
(* of the argument, which settle_queue still has; each holder counts once. *)
OtherHolders(t) ==
  Cardinality({o \in Objects : t \in refs[o]})
    + (IF t \in visible THEN 1 ELSE 0) + (IF t \in aside THEN 1 ELSE 0)

(* Mutants: bytes are taken off twice, or not at all; the pin stays.       *)
MinusTwice(n, m) == n - 2 * m
MinusNothing(n, m) == n
StillPinned(t) == pinned

(* saturating_sub.                                                         *)
Minus(n, m) == IF m > n THEN 0 ELSE n - m

(* `finalized` is set: without its pin the table is never queued again.    *)
Unpinned(t) == Among(pinned, Tables \ {t})

(* settle_table: the table stays if more refers to it than the white       *)
(* tables did when the collection was planned.                             *)
FinalizerEnds(ok) ==
  /\ plans # << >> /\ Runs
  /\ LET t     == Top.queue[Top.next]
         stays == ok /\ OtherHolders(t) + 1 > Top.internal[t]
     IN  /\ pinned' = Unpinned(t)
         /\ SetTop([Top EXCEPT
                      !.stage = "settle",
                      !.next = @ + 1,
                      !.cleared = IF stays THEN @ ELSE @ \cup {t}])
         /\ UNCHANGED <<program, state, hasWeak, staged, ran>>
         /\ IF stays
            THEN /\ UNCHANGED bytes
                 /\ Counting(refs, [header EXCEPT ![t] = "white"])
            ELSE /\ bytes' = Minus(bytes, 1)
                 /\ Counting([refs EXCEPT ![t] = {}], [header EXCEPT ![t] = "none"])

-----------------------------------------------------------------------------
(***************************************************************************)
(* sweep_begin, sweep_slice, and the drivers gc_collect and gc_auto_step.  *)
(***************************************************************************)

(* Mutant: only what settling emptied is pruned.                           *)
GoneSettled(weak, dead, chosen) == dead

(* The doomed set, kept up only if there are weak tables to prune.         *)
Gone(weak, dead, chosen) == IF weak = {} THEN dead ELSE dead \cup chosen

(* sweep_slice: of the tables `plain` it clears those in `chosen`; when    *)
(* none is left it prunes the weak tables, and the collection is over.     *)
(* The doomed set is not used any more then.                               *)
Slice(plain, chosen, weak, dead, count) ==
  LET rest  == plain \ chosen
      gone  == Gone(weak, dead, chosen)
      clear == [o \in Objects |-> IF o \in chosen THEN {} ELSE refs[o]]
      swept == [t \in Tables |-> IF t \in chosen THEN "none" ELSE header[t]]
  IN
  /\ sweepPlain' = rest
  /\ sweeping' = (rest # {})
  /\ bytes' = Minus(count, Cardinality({t \in chosen : Tracked(t)}))
  /\ pinned' = Among(pinned, Tables \ chosen)
  /\ UNCHANGED <<program, ran>>
  /\ IF rest # {}
     THEN /\ doomed' = gone /\ sweepWeak' = weak
          /\ UNCHANGED state
          /\ Counting(clear, swept)
     ELSE /\ doomed' = {} /\ sweepWeak' = {}
          /\ state' = "pause"
          /\ Counting([o \in Objects |-> IF o \in weak THEN clear[o] \ gone ELSE clear[o]],
                      [t \in Tables |-> IF swept[t] = "black" THEN "white" ELSE swept[t]])

(* SLICE_BUDGET tables, here one.                                          *)
InBudget(plain) == IF plain = {} THEN {{}} ELSE {{t} : t \in plain}

(* sweep_begin, and all that follows in gc_collect, or one slice in        *)
(* gc_auto_step.  What is still staged, by a step inside a finalizer, is   *)
(* replaced.                                                               *)
Sweep ==
  /\ plans # << >> /\ Top.stage = "settle" /\ Top.next > Len(Top.queue)
  /\ plans' = Front(plans)
  /\ LET weak == {t \in With("black") : hasWeak /\ kind[t] = "weak"} IN
     /\ hasWeak' = (weak # {})
     /\ \E chosen \in {Top.plain} \cup InBudget(Top.plain) :
          Slice(Top.plain, chosen, weak, Top.cleared, Minus(bytes, Top.dropped))

(* gc_auto_step while a sweep is staged.                                   *)
SliceStaged(chosen) == Slice(sweepPlain, chosen, sweepWeak, doomed, bytes)
AutoSlice ==
  /\ Runs /\ sweeping
  /\ UNCHANGED <<hasWeak, plans>>
  /\ \E chosen \in InBudget(sweepPlain) : SliceStaged(chosen)

(* gc_collect drains a staged sweep before it plans; nothing else happens  *)
(* in between.                                                             *)
Nested == Len(plans) < MaxPlans
DrainStaged ==
  /\ Runs /\ sweeping /\ Nested
  /\ plans' = Append(plans, [stage |-> "plan", plain |-> {}, queue |-> << >>])
  /\ SliceStaged(sweepPlain)
  /\ UNCHANGED hasWeak
Collect ==
  \/ plans # << >> /\ Top.stage = "plan" /\ Plan(Front(plans))
  \/ Runs /\ ~sweeping /\ Nested /\ Plan(plans)

Collector ==
  \/ Collect \/ DrainStaged \/ AutoSlice
  \/ StartFinalizer \/ (\E ok \in BOOLEAN : FinalizerEnds(ok))
  \/ Sweep

Init ==
  /\ header = [t \in Tables |-> "none"]
  /\ kind = [t \in Tables |-> "plain"]
  /\ refs = [o \in Objects |-> {}]
  /\ visible = {} /\ aside = {} /\ pinned = << >> /\ bytes = 0
  /\ state = "pause" /\ hasWeak = FALSE
  /\ sweeping = FALSE /\ sweepPlain = {} /\ sweepWeak = {} /\ doomed = {}
  /\ plans = << >> /\ ran = {}

Next == Program \/ Collector
Spec == Init /\ [][Next]_vars

-----------------------------------------------------------------------------
(***************************************************************************)
(* Properties.                                                             *)
(***************************************************************************)

(* The state is well formed.                                               *)
TypeOK ==
  /\ header \in [Tables -> Colours \cup {"none", "young", "dead"}]
  /\ kind \in [Tables -> Kinds]
  /\ refs \in [Objects -> SUBSET Objects]
  /\ visible \subseteq Objects /\ aside \subseteq Objects
  /\ pinned \in Seq(Tables)
  /\ bytes \in Nat
  /\ state \in {"pause", "sweep"} /\ hasWeak \in BOOLEAN
  /\ sweeping \in BOOLEAN
  /\ sweepPlain \subseteq Tables /\ sweepWeak \subseteq Tables /\ doomed \subseteq Tables
  /\ ran \subseteq Tables
  /\ \A i \in DOMAIN plans :
       /\ plans[i].stage \in {"plan", "settle", "run"}
       /\ plans[i].plain \subseteq Tables
       /\ plans[i].queue \in Seq(Tables)

(* A collection only condemns what the program cannot reach: neither from  *)
(* the visible stack, nor from stacks put aside, which are not marked, nor *)
(* from the arguments of the finalizers that wait for it.                  *)
InUse == Reach(visible \cup aside \cup Arguments, Objects)
Plans ==
  /\ plans' # << >> /\ Top'.stage = "settle" /\ Top'.next = 1
  /\ plans # << >> => Len(plans') > Len(plans) \/ Top.stage = "plan"
CondemnsOnlyGarbage == [][Plans => PlanHolds(Top') \cap InUse = {}]_vars

(* What a collection has condemned stays whole until its finalizers have   *)
(* all run, whatever collections they start: the tables still to clear are *)
(* tracked, those still to finalize are and have their pin, so that no     *)
(* finalizer meets an emptied table that did not have one itself.          *)
PlannedStaysWhole ==
  \A i \in DOMAIN plans : LET p == plans[i] IN
    p.stage \in {"settle", "run"} =>
      /\ \A t \in p.plain : Tracked(t)
      /\ \A k \in p.next..Len(p.queue) :
           Tracked(p.queue[k]) /\ p.queue[k] \in ToSet(pinned)

(* A finalizer runs at most once, whatever is collected while it runs or   *)
(* later ...                                                               *)
FinalizedOnce ==
  [][plans' # << >> /\ Top'.stage = "run" /\ Len(plans') = Len(plans) /\ Top.stage = "settle"
       => Top.queue[Top.next] \notin ran]_vars

(* ... and at least once: a table with a finalizer gives up its pin, which *)
(* keeps it alive, only when that has run.                                 *)
FinalizedBeforeDeath ==
  [][\A t \in ToSet(pinned) \ ToSet(pinned') :
       plans # << >> /\ Top.stage = "run" /\ Top.queue[Top.next] = t]_vars

(* bytes_allocated is what the headers stand for, and what the collections *)
(* under way took off the tracker but not off the count yet: it does not   *)
(* drift, however collections nest.                                        *)
BytesAgree ==
  bytes = Cardinality({t \in Tables : header[t] # "none"})
            + FoldFunction(+, 0, [i \in DOMAIN plans |->
                                    IF plans[i].stage = "plan" THEN 0 ELSE plans[i].dropped])

(* An explicit collection that no finalizer disturbed leaves no garbage    *)
(* behind, cycles between tables included, except what closures, tables    *)
(* that were emptied but are in use, and tables turned gray by the barrier *)
(* (which are never looked at again) refer to.                             *)
EndsUndisturbed ==
  Len(plans) = 1 /\ plans' = << >> /\ Top.queue = << >> /\ ~sweeping'
Anchors ==
  visible \cup aside \cup Closures \cup With("none") \cup With("gray")
    \cup UNION {refs[t] : t \in With("gray")}
CollectsGarbage ==
  [][EndsUndisturbed =>
       \A t \in Tables : header'[t] \in Colours => t \in Reach(Anchors, Objects)]_vars

(* ... and no weak table in sight that refers to an emptied table.         *)
WeakEntriesGone ==
  [][EndsUndisturbed =>
       \A w \in visible \cap Tables :
         kind[w] = "weak" /\ header[w] # "gray" => refs'[w] \cap Top.plain = {}]_vars
=============================================================================
