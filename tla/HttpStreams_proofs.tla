------------------------- MODULE HttpStreams_proofs -------------------------
(***************************************************************************)
(* Theorems about WorkerPool and about HttpStreams, whose requests and     *)
(* reads go through it, for any number of jobs, tasks and threads and a    *)
(* body of any length.                                                     *)
(*                                                                         *)
(* The pool: the counters, the promises about idle threads, and that every *)
(* step of it is one Background allows.  The streams: what reads return is *)
(* the beginning of the body, and the pool keeps its own invariants under  *)
(* requests and reads.  Of the pool only what Background says is used      *)
(* there: a job that is submitted was not at work, and one that is done    *)
(* was.                                                                    *)
(***************************************************************************)
EXTENDS HttpStreams, FiniteSetTheorems, FunctionTheorems, TLAPS

(* How many threads are at one of `set`, when they are at `places`.        *)
CountOf(places, set) == Cardinality({w \in Workers : places[w] \in set})

Alive == {"looks", "waits", "woken", "timedOut", "runs"}
Idle  == {"waits", "woken", "timedOut"}
Awake == {"looks", "woken", "timedOut"}
Free  == {"looks", "waits", "woken", "timedOut"}

(* The inductive invariant: the counters, and what they decide.            *)
Counters ==
  /\ at \in [Workers -> Place]
  /\ workers = CountOf(at, Alive)
  /\ idle = CountOf(at, Idle)
Served ==
  /\ CountOf(at, {"waits"}) # 0 => Len(jobs) <= CountOf(at, Awake)
  /\ Len(jobs) <= CountOf(at, Free) \/ workers = MaxWorkers \/ refused

In(place, set) == IF place \in set THEN 1 ELSE 0

(* Every job is in one place, and is a job.                                *)
Running == {w \in Workers : at[w] = "runs"}
OnePlace ==
  /\ jobs \in Seq(Jobs)
  /\ job \in [Workers -> Jobs \cup {NoJob}]
  /\ inline \in Jobs \cup {NoJob}
  /\ refused \in BOOLEAN
  /\ \A w \in Running : job[w] \in Jobs
  /\ \A i, k \in DOMAIN jobs : jobs[i] = jobs[k] => i = k
  /\ \A w, v \in Running : job[w] = job[v] => w = v
  /\ \A i \in DOMAIN jobs, w \in Running : jobs[i] # job[w]
  /\ \A i \in DOMAIN jobs : jobs[i] # inline
  /\ \A w \in Running : job[w] # inline

IInv == Counters /\ Served /\ OnePlace

-----------------------------------------------------------------------------
(***************************************************************************)
(* Counting threads.                                                       *)
(***************************************************************************)

(* Counts are natural numbers; 0 is the count of nobody.                   *)
LEMMA CountType ==
  ASSUME NEW places, NEW set
  PROVE  /\ IsFiniteSet({w \in Workers : places[w] \in set})
         /\ CountOf(places, set) \in Nat
         /\ CountOf(places, set) = 0 <=> {w \in Workers : places[w] \in set} = {}
<1> DEFINE S == {w \in Workers : places[w] \in set}
<1>1. IsFiniteSet(S)
  BY WorkersAssumption, FS_Subset
<1> HIDE DEF S
<1>2. Cardinality(S) \in Nat /\ (Cardinality(S) = 0 <=> S = {})
  BY <1>1, FS_CardinalityType, FS_EmptySet
<1> QED BY <1>1, <1>2 DEF S, CountOf

(* Only thread w changes place, to p.                                      *)
Moves(places, places2, w, p) ==
  /\ places2[w] = p
  /\ \A v \in Workers \ {w} : places2[v] = places[v]

(* A thread that goes from one place to another changes the counts of the  *)
(* two places.                                                             *)
LEMMA CountMove ==
  ASSUME NEW places, NEW q, NEW w \in Workers, NEW p, Moves(places, q, w, p)
  PROVE  \A set :
           CountOf(q, set)
           = CountOf(places, set) + In(p, set) - In(places[w], set)
<1> TAKE set
<1> DEFINE S == {v \in Workers : places[v] \in set}
           T == {v \in Workers : q[v] \in set}
<1>1. IsFiniteSet(S) /\ Cardinality(S) \in Nat
  BY CountType DEF CountOf
<1>2. w \in S <=> places[w] \in set
  OBVIOUS
<1>3. T = IF p \in set THEN S \cup {w} ELSE S \ {w}
  BY DEF Moves
<1> HIDE DEF S, T
<1>4. Cardinality(S \cup {w}) = IF w \in S THEN Cardinality(S) ELSE Cardinality(S) + 1
  BY <1>1, FS_AddElement
<1>5. Cardinality(S \ {w}) = IF w \in S THEN Cardinality(S) - 1 ELSE Cardinality(S)
  BY <1>1, FS_RemoveElement
<1>6. Cardinality(T) = Cardinality(S) + In(p, set)
                                      - In(places[w], set)
  BY <1>1, <1>2, <1>3, <1>4, <1>5 DEF In
<1> QED BY <1>6 DEF S, T, CountOf

(* The counts the invariant is about are natural numbers.                  *)
LEMMA CountsAreNat ==
  ASSUME NEW places
  PROVE  /\ CountOf(places, {"waits"}) \in Nat /\ CountOf(places, Alive) \in Nat
         /\ CountOf(places, Idle) \in Nat /\ CountOf(places, Awake) \in Nat
         /\ CountOf(places, Free) \in Nat
BY CountType

(* Which places the invariant counts together.                             *)
LEMMA Places ==
  /\ In("none", {"waits"}) = 0 /\ In("looks", {"waits"}) = 0 /\ In("waits", {"waits"}) = 1
  /\ In("woken", {"waits"}) = 0 /\ In("timedOut", {"waits"}) = 0 /\ In("runs", {"waits"}) = 0
  /\ In("none", Alive) = 0 /\ In("looks", Alive) = 1 /\ In("waits", Alive) = 1
  /\ In("woken", Alive) = 1 /\ In("timedOut", Alive) = 1 /\ In("runs", Alive) = 1
  /\ In("none", Idle) = 0 /\ In("looks", Idle) = 0 /\ In("waits", Idle) = 1
  /\ In("woken", Idle) = 1 /\ In("timedOut", Idle) = 1 /\ In("runs", Idle) = 0
  /\ In("none", Awake) = 0 /\ In("looks", Awake) = 1 /\ In("waits", Awake) = 0
  /\ In("woken", Awake) = 1 /\ In("timedOut", Awake) = 1 /\ In("runs", Awake) = 0
  /\ In("none", Free) = 0 /\ In("looks", Free) = 1 /\ In("waits", Free) = 1
  /\ In("woken", Free) = 1 /\ In("timedOut", Free) = 1 /\ In("runs", Free) = 0
BY DEF In, Alive, Idle, Awake, Free

(* notify_one wakes one of the threads that wait, if there are any: it     *)
(* stays idle, and is awake.                                               *)
LEMMA Notified ==
  ASSUME NEW places \in [Workers -> Place], NotifyOne(places)
  PROVE  /\ at' \in [Workers -> Place]
         /\ \A w \in Workers : at'[w] = "runs" <=> places[w] = "runs"
         /\ CountOf(at', Alive) = CountOf(places, Alive)
         /\ CountOf(at', Idle) = CountOf(places, Idle)
         /\ CountOf(at', Free) = CountOf(places, Free)
         /\ \/ CountOf(places, {"waits"}) = 0 /\ at' = places
            \/ /\ CountOf(places, {"waits"}) # 0
               /\ CountOf(at', Awake) = CountOf(places, Awake) + 1
<1> DEFINE waiting == {w \in Workers : places[w] = "waits"}
<1>1. CASE waiting = {}
  <2>1. {w \in Workers : places[w] \in {"waits"}} = {}
    BY <1>1
  <2> QED BY <1>1, <2>1, CountType DEF NotifyOne
<1>2. CASE waiting # {}
  <2>1. PICK w \in waiting : at' = [places EXCEPT ![w] = "woken"]
    BY <1>2 DEF NotifyOne
  <2>2. w \in Workers /\ places[w] = "waits" /\ "woken" \in Place
    BY <2>1 DEF Place
  <2>3. \A set : CountOf(at', set)
                   = CountOf(places, set) + In("woken", set)
                                          - In("waits", set)
    <3>1. Moves(places, at', w, "woken")
      BY <2>1, <2>2 DEF Moves
    <3> QED BY <2>2, <3>1, CountMove
  <2>4. \A set : CountOf(places, set) \in Nat
    BY CountType
  <2>5. /\ CountOf(at', Alive) = CountOf(places, Alive)
        /\ CountOf(at', Idle) = CountOf(places, Idle)
        /\ CountOf(at', Free) = CountOf(places, Free)
        /\ CountOf(at', Awake) = CountOf(places, Awake) + 1
    BY <2>3, <2>4, Places
  <2>6. CountOf(places, {"waits"}) # 0
    BY <2>2, CountType
  <2>7. \A v \in Workers : at'[v] = "runs" <=> places[v] = "runs"
    BY <2>1, <2>2
  <2> QED BY <2>1, <2>2, <2>5, <2>6, <2>7
<1> QED BY <1>1, <1>2

(* A move of a thread, and what it does to every count.                    *)
LEMMA CountsOfMove ==
  ASSUME at \in [Workers -> Place], NEW w \in Workers, NEW to \in Place,
         at' = [at EXCEPT ![w] = to]
  PROVE  /\ at' \in [Workers -> Place]
         /\ \A set : CountOf(at', set)
                       = CountOf(at, set) + In(to, set)
                                          - In(at[w], set)
<1>1. Moves(at, at', w, to) /\ at' \in [Workers -> Place]
  BY DEF Moves
<1>2. \A set : CountOf(at', set)
                  = CountOf(at, set) + In(to, set)
                                     - In(at[w], set)
  BY <1>1, CountMove
<1> QED BY <1>1, <1>2

(* A step of a thread keeps the counters right, and the jobs served.       *)
LEMMA WorkerKeepsCounts ==
  ASSUME Counters, Served, jobs \in Seq(Jobs), NEW w \in Workers,
         Worker(w) \/ WakesByItself(w)
  PROVE  Counters' /\ Served'
<1> DEFINE Move(from, to) == at[w] = from /\ at' = [at EXCEPT ![w] = to]
<1>1. /\ at \in [Workers -> Place] /\ MaxWorkers' = MaxWorkers
      /\ workers = CountOf(at, Alive) /\ idle = CountOf(at, Idle)
      /\ CountOf(at, {"waits"}) # 0 => Len(jobs) <= CountOf(at, Awake)
      /\ Len(jobs) <= CountOf(at, Free) \/ workers = MaxWorkers \/ refused
  BY DEF Counters, Served, MaxWorkers
<1>2. jobs # << >> => Len(jobs) > 0 /\ Len(Tail(jobs)) = Len(jobs) - 1
  OBVIOUS
<1>3. Len(jobs) \in Nat /\ (jobs = << >> => Len(jobs) = 0)
  OBVIOUS
<1>4. ASSUME NEW from \in Place, NEW to \in Place, Move(from, to)
      PROVE  /\ at' \in [Workers -> Place]
             /\ CountOf(at', {"waits"})
                  = CountOf(at, {"waits"}) + In(to, {"waits"}) - In(from, {"waits"})
             /\ CountOf(at', Alive) = CountOf(at, Alive) + In(to, Alive) - In(from, Alive)
             /\ CountOf(at', Idle) = CountOf(at, Idle) + In(to, Idle) - In(from, Idle)
             /\ CountOf(at', Awake) = CountOf(at, Awake) + In(to, Awake) - In(from, Awake)
             /\ CountOf(at', Free) = CountOf(at, Free) + In(to, Free) - In(from, Free)
  <2>1. /\ at' \in [Workers -> Place]
        /\ \A set : CountOf(at', set) = CountOf(at, set) + In(to, set) - In(at[w], set)
    BY <1>1, <1>4, CountsOfMove
  <2> QED BY <1>4, <2>1
<1>10. /\ CountOf(at, {"waits"}) \in Nat /\ CountOf(at, Alive) \in Nat
       /\ CountOf(at, Idle) \in Nat /\ CountOf(at, Awake) \in Nat
       /\ CountOf(at, Free) \in Nat
       /\ CountOf(at', {"waits"}) \in Nat /\ CountOf(at', Alive) \in Nat
       /\ CountOf(at', Idle) \in Nat /\ CountOf(at', Awake) \in Nat
       /\ CountOf(at', Free) \in Nat
  BY CountsAreNat
<1> USE DEF Place
<1>5. CASE Take(w)
  <2>1. PICK from \in Awake : Move(from, "runs")
    BY <1>5 DEF Take, Awake
  <2>2. /\ at' \in [Workers -> Place]
        /\ CountOf(at', {"waits"}) = CountOf(at, {"waits"})
        /\ CountOf(at', Alive) = CountOf(at, Alive)
        /\ CountOf(at', Idle) = CountOf(at, Idle) - In(from, Idle)
        /\ CountOf(at', Awake) = CountOf(at, Awake) - 1
        /\ CountOf(at', Free) = CountOf(at, Free) - 1
    <3>1. from \in {"looks", "woken", "timedOut"}
      BY DEF Awake
    <3>2. /\ In("runs", {"waits"}) = 0 /\ In(from, {"waits"}) = 0
          /\ In("runs", Alive) = 1 /\ In(from, Alive) = 1
          /\ In("runs", Idle) = 0 /\ In(from, Idle) \in {0, 1}
          /\ In("runs", Awake) = 0 /\ In(from, Awake) = 1
          /\ In("runs", Free) = 0 /\ In(from, Free) = 1
      BY <3>1, Places
    <3>3. /\ at' \in [Workers -> Place]
          /\ CountOf(at', {"waits"})
               = CountOf(at, {"waits"}) + In("runs", {"waits"}) - In(from, {"waits"})
          /\ CountOf(at', Alive) = CountOf(at, Alive) + In("runs", Alive) - In(from, Alive)
          /\ CountOf(at', Idle) = CountOf(at, Idle) + In("runs", Idle) - In(from, Idle)
          /\ CountOf(at', Awake) = CountOf(at, Awake) + In("runs", Awake) - In(from, Awake)
          /\ CountOf(at', Free) = CountOf(at, Free) + In("runs", Free) - In(from, Free)
      <4>1. from \in Place /\ "runs" \in Place
        BY <3>1
      <4> QED BY <1>4, <2>1, <4>1
    <3> HIDE DEF Move
    <3> QED BY <1>10, <3>2, <3>3
  <2>3. /\ idle' = idle - In(from, Idle)
        /\ Len(jobs') = Len(jobs) - 1
        /\ UNCHANGED <<workers, refused>>
    BY <1>1, <1>2, <1>10, <1>5, <2>1, Places DEF Take, IdleWithout, Awake
  <2> QED BY <1>1, <1>3, <2>2, <2>3, <1>10 DEF Counters, Served
<1>6. CASE Wait(w)
  <2>1. PICK from \in {"looks", "woken"} : Move(from, "waits")
    BY <1>6 DEF Wait
  <2>2. /\ at' \in [Workers -> Place]
        /\ CountOf(at', Alive) = CountOf(at, Alive)
        /\ CountOf(at', Idle) = CountOf(at, Idle) + 1 - In(from, Idle)
        /\ CountOf(at', Awake) \in Nat /\ CountOf(at', Free) \in Nat
    BY <1>4, <1>10, <2>1, Places DEF Awake
  <2>3. /\ idle' = idle + 1 - In(from, Idle)
        /\ Len(jobs') = 0
        /\ UNCHANGED <<workers, refused>>
    BY <1>1, <1>3, <1>10, <1>6, <2>1, Places DEF Wait, IdleWithout
  <2> QED BY <1>1, <2>2, <2>3, <1>10 DEF Counters, Served
<1>7. CASE Exit(w)
  <2>1. Move("timedOut", "none")
    BY <1>7 DEF Exit
  <2>2. /\ at' \in [Workers -> Place]
        /\ CountOf(at', Alive) = CountOf(at, Alive) - 1
        /\ CountOf(at', Idle) = CountOf(at, Idle) - 1
        /\ CountOf(at', Awake) \in Nat /\ CountOf(at', Free) \in Nat
    BY <1>4, <1>10, <2>1, Places DEF Awake
  <2>3. idle' = idle - 1 /\ workers' = workers - 1 /\ Len(jobs') = 0
    BY <1>3, <1>7 DEF Exit, IdleWithout
  <2> QED BY <1>1, <2>2, <2>3, <1>10 DEF Counters, Served
<1>8. CASE JobEnds(w)
  <2>1. Move("runs", "looks") /\ UNCHANGED <<jobs, workers, idle, refused>>
    BY <1>8 DEF JobEnds
  <2>2. /\ at' \in [Workers -> Place]
        /\ CountOf(at', {"waits"}) = CountOf(at, {"waits"})
        /\ CountOf(at', Alive) = CountOf(at, Alive)
        /\ CountOf(at', Idle) = CountOf(at, Idle)
        /\ CountOf(at', Awake) = CountOf(at, Awake) + 1
        /\ CountOf(at', Free) = CountOf(at, Free) + 1
    BY <1>4, <1>10, <2>1, Places DEF Awake
  <2> QED BY <1>1, <1>3, <2>1, <2>2, <1>10 DEF Counters, Served
<1>9. CASE WakesByItself(w)
  <2>1. PICK to \in {"timedOut", "woken"} : Move("waits", to)
    BY <1>9 DEF WakesByItself
  <2>2. /\ at' \in [Workers -> Place]
        /\ CountOf(at, {"waits"}) # 0
        /\ CountOf(at', Alive) = CountOf(at, Alive)
        /\ CountOf(at', Idle) = CountOf(at, Idle)
        /\ CountOf(at', Awake) = CountOf(at, Awake) + 1
        /\ CountOf(at', Free) = CountOf(at, Free)
    <3>1. CASE to = "timedOut"
      BY <1>4, <1>10, <2>1, <3>1, Places
    <3>2. CASE to = "woken"
      BY <1>4, <1>10, <2>1, <3>2, Places
    <3> QED BY <2>1, <3>1, <3>2
  <2>3. UNCHANGED <<jobs, workers, idle, refused>>
    BY <1>9 DEF WakesByItself
  <2> QED BY <1>1, <1>3, <2>2, <2>3, <1>10 DEF Counters, Served
<1> QED BY <1>5, <1>6, <1>7, <1>8, <1>9 DEF Worker

(* No count exceeds MAX_WORKERS, and an idle thread is a free one.         *)
LEMMA CountBounds ==
  ASSUME NEW places
  PROVE  /\ CountOf(places, Alive) <= MaxWorkers
         /\ CountOf(places, Idle) <= CountOf(places, Free)
         /\ MaxWorkers \in Nat
<1>1. ASSUME NEW S, NEW T, IsFiniteSet(T), S \subseteq T
      PROVE  Cardinality(S) <= Cardinality(T)
  BY <1>1, FS_Subset
<1>2. {w \in Workers : places[w] \in Idle} \subseteq {w \in Workers : places[w] \in Free}
  BY DEF Idle, Free
<1>3. CountOf(places, Idle) <= CountOf(places, Free)
  BY <1>1, <1>2, CountType DEF CountOf
<1>4. CountOf(places, Alive) <= MaxWorkers
  BY <1>1, WorkersAssumption DEF CountOf, MaxWorkers
<1>5. MaxWorkers \in Nat
  BY WorkersAssumption, FS_CardinalityType DEF MaxWorkers
<1> QED BY <1>3, <1>4, <1>5

(* A step of `submit` keeps the counters right, and the jobs served.       *)
LEMMA SubmitKeepsCounts ==
  ASSUME Counters, Served, jobs \in Seq(Jobs), refused \in BOOLEAN, NEW j \in Jobs,
         SubmitToPool(j) \/ SubmitAndStart(j) \/ SubmitRefused(j)
  PROVE  Counters' /\ Served'
<1>1. /\ at \in [Workers -> Place] /\ MaxWorkers' = MaxWorkers
      /\ workers = CountOf(at, Alive) /\ idle = CountOf(at, Idle)
      /\ CountOf(at, {"waits"}) # 0 => Len(jobs) <= CountOf(at, Awake)
      /\ Len(jobs) <= CountOf(at, Free) \/ workers = MaxWorkers \/ refused
  BY DEF Counters, Served, MaxWorkers
<1>2. Len(jobs) \in Nat /\ Len(Append(jobs, j)) = Len(jobs) + 1
  OBVIOUS
<1>3. /\ CountOf(at, {"waits"}) \in Nat /\ CountOf(at, Alive) \in Nat
      /\ CountOf(at, Idle) \in Nat /\ CountOf(at, Awake) \in Nat
      /\ CountOf(at, Free) \in Nat /\ MaxWorkers \in Nat
      /\ CountOf(at', {"waits"}) \in Nat /\ CountOf(at', Awake) \in Nat
      /\ CountOf(at, Alive) <= MaxWorkers /\ CountOf(at, Idle) <= CountOf(at, Free)
  BY CountsAreNat, CountBounds
<1>4. ASSUME jobs' = Append(jobs, j), NotifyOne(at), UNCHANGED <<workers, idle>>,
             ~NeedsThread(Append(jobs, j)) \/ refused'
      PROVE  Counters' /\ Served'
  <2>1. /\ at' \in [Workers -> Place]
        /\ CountOf(at', Alive) = CountOf(at, Alive)
        /\ CountOf(at', Idle) = CountOf(at, Idle)
        /\ CountOf(at', Free) = CountOf(at, Free)
        /\ \/ CountOf(at, {"waits"}) = 0 /\ at' = at
           \/ /\ CountOf(at, {"waits"}) # 0
              /\ CountOf(at', Awake) = CountOf(at, Awake) + 1
    BY <1>1, <1>4, Notified
  <2>2. CountOf(at', {"waits"}) # 0 => Len(jobs') <= CountOf(at', Awake)
    BY <1>1, <1>2, <1>3, <1>4, <2>1
  <2>3. Len(jobs') <= CountOf(at', Free) \/ workers' = MaxWorkers \/ refused'
    BY <1>1, <1>2, <1>3, <1>4, <2>1 DEF NeedsThread
  <2> QED BY <1>1, <1>4, <2>1, <2>2, <2>3 DEF Counters, Served
<1>5. CASE SubmitToPool(j)
  BY <1>4, <1>5 DEF SubmitToPool
<1>6. CASE SubmitAndStart(j)
  <2>1. PICK w \in Threads({"none"}) : NotifyOne([at EXCEPT ![w] = "looks"])
    BY <1>6 DEF SubmitAndStart
  <2> DEFINE places == [at EXCEPT ![w] = "looks"]
  <2>2. w \in Workers /\ at[w] = "none"
    BY <2>1 DEF Threads
  <2>3. places \in [Workers -> Place] /\ Moves(at, places, w, "looks")
    BY <1>1, <2>2 DEF Moves, Place
  <2>4. NotifyOne(places)
    BY <2>1
  <2> HIDE DEF places
  <2>5. /\ CountOf(places, {"waits"}) = CountOf(at, {"waits"})
        /\ CountOf(places, Alive) = CountOf(at, Alive) + 1
        /\ CountOf(places, Idle) = CountOf(at, Idle)
        /\ CountOf(places, Awake) = CountOf(at, Awake) + 1
        /\ CountOf(places, Free) = CountOf(at, Free) + 1
    <3>1. \A set : CountOf(places, set)
                     = CountOf(at, set) + In("looks", set) - In("none", set)
      BY <2>2, <2>3, CountMove
    <3> QED BY <1>3, <3>1, Places
  <2>6. /\ at' \in [Workers -> Place]
        /\ CountOf(at', Alive) = CountOf(places, Alive)
        /\ CountOf(at', Idle) = CountOf(places, Idle)
        /\ CountOf(at', Free) = CountOf(places, Free)
        /\ \/ CountOf(places, {"waits"}) = 0 /\ at' = places
           \/ /\ CountOf(places, {"waits"}) # 0
              /\ CountOf(at', Awake) = CountOf(places, Awake) + 1
    BY <2>3, <2>4, Notified
  <2>7. /\ jobs' = Append(jobs, j) /\ workers' = workers + 1
        /\ UNCHANGED <<idle, refused>> /\ workers < MaxWorkers
    BY <1>6 DEF SubmitAndStart, NeedsThread
  <2>8. CountOf(at', {"waits"}) # 0 => Len(jobs') <= CountOf(at', Awake)
    <3>0. Len(jobs') = Len(jobs) + 1 /\ Len(jobs) \in Nat
      BY <1>2, <2>7
    <3>1. CASE at' = places
      BY <1>1, <1>3, <2>5, <3>0, <3>1
    <3>2. CASE CountOf(places, {"waits"}) # 0 /\ CountOf(at', Awake) = CountOf(places, Awake) + 1
      BY <1>1, <1>3, <2>5, <3>0, <3>2
    <3> QED BY <2>6, <3>1, <3>2
  <2>9. Len(jobs') <= CountOf(at', Free) \/ workers' = MaxWorkers \/ refused'
    BY <1>1, <1>2, <1>3, <2>5, <2>6, <2>7
  <2> QED BY <1>1, <2>5, <2>6, <2>7, <2>8, <2>9 DEF Counters, Served
<1>7. CASE SubmitRefused(j)
  <2>1. CASE workers = 0
    BY <1>1, <1>7, <2>1 DEF SubmitRefused, Counters, Served
  <2>2. CASE workers # 0
    BY <1>4, <1>7, <2>2 DEF SubmitRefused
  <2> QED BY <2>1, <2>2
<1> QED BY <1>5, <1>6, <1>7

-----------------------------------------------------------------------------
(***************************************************************************)
(* Every job is in one place, and each step is one Background allows.      *)
(***************************************************************************)

(* The jobs at work are those queued, those that run, and the inline one.  *)
LEMMA AtWorkMembers ==
  \A x : x \in AtWork <=>
    \/ \E i \in DOMAIN jobs : x = jobs[i]
    \/ \E w \in Running : x = job[w]
    \/ x = inline /\ x # NoJob
BY DEF AtWork, Threads, Running

(* The same, after a step.                                                 *)
LEMMA AtWorkMembersNext ==
  \A x : x \in AtWork' <=>
    \/ \E i \in DOMAIN jobs' : x = jobs'[i]
    \/ \E w \in Running' : x = job'[w]
    \/ x = inline' /\ x # NoJob
BY DEF AtWork, Threads, Running

(* A job that is not at work is added to the end of the queue.             *)
LEMMA JobQueued ==
  ASSUME OnePlace, NEW j \in Jobs, Submits(j), jobs' = Append(jobs, j),
         UNCHANGED <<job, inline>>, refused' \in BOOLEAN, Running' = Running
  PROVE  OnePlace' /\ Promise!Submit(j)
<1>1. /\ j # NoJob /\ inline = NoJob
      /\ \A i \in DOMAIN jobs : jobs[i] # j
      /\ \A w \in Running : job[w] # j
  BY AtWorkMembers, NoJobAssumption DEF Submits
<1>2. /\ jobs' \in Seq(Jobs) /\ DOMAIN jobs' = DOMAIN jobs \cup {Len(jobs) + 1}
      /\ Len(jobs) + 1 \notin DOMAIN jobs
      /\ jobs'[Len(jobs) + 1] = j /\ \A i \in DOMAIN jobs : jobs'[i] = jobs[i]
  BY DEF OnePlace
<1>3. OnePlace'
  BY <1>1, <1>2 DEF OnePlace
<1>4. AtWork' = AtWork \cup {j}
  BY <1>1, <1>2, AtWorkMembers, AtWorkMembersNext
<1> QED BY <1>3, <1>4 DEF Promise!Submit, Submits

(* A step of `submit` takes the job, into one place.                       *)
LEMMA SubmitTakesJob ==
  ASSUME OnePlace, at \in [Workers -> Place], NEW j \in Jobs,
         SubmitToPool(j) \/ SubmitAndStart(j) \/ SubmitRefused(j)
  PROVE  OnePlace' /\ Promise!Submit(j)
<1>1. ASSUME NEW places \in [Workers -> Place], NotifyOne(places),
             \A w \in Workers : places[w] = "runs" <=> at[w] = "runs"
      PROVE  Running' = Running
  BY <1>1, Notified DEF Running
<1>2. CASE SubmitToPool(j)
  BY <1>1, <1>2, JobQueued DEF SubmitToPool, OnePlace
<1>3. CASE SubmitAndStart(j)
  <2>1. PICK w \in Threads({"none"}) : NotifyOne([at EXCEPT ![w] = "looks"])
    BY <1>3 DEF SubmitAndStart
  <2>2. [at EXCEPT ![w] = "looks"] \in [Workers -> Place]
    BY DEF Place
  <2>3. \A v \in Workers : [at EXCEPT ![w] = "looks"][v] = "runs" <=> at[v] = "runs"
    BY <2>1 DEF Threads
  <2>4. Running' = Running
    BY <1>1, <2>1, <2>2, <2>3
  <2> QED BY <1>3, <2>4, JobQueued DEF SubmitAndStart, OnePlace
<1>4. CASE SubmitRefused(j)
  <2>1. CASE workers = 0
    <3>1. inline' = j /\ UNCHANGED <<jobs, at, job>> /\ refused' = TRUE /\ Submits(j)
      BY <1>4, <2>1 DEF SubmitRefused
    <3>2. /\ j # NoJob /\ inline = NoJob
          /\ \A i \in DOMAIN jobs : jobs[i] # j
          /\ \A w \in Running : job[w] # j
      BY <3>1, AtWorkMembers, NoJobAssumption DEF Submits
    <3>3. Running' = Running
      BY <3>1 DEF Running
    <3>4. OnePlace'
      BY <3>1, <3>2, <3>3 DEF OnePlace
    <3>5. AtWork' = AtWork \cup {j}
      BY <3>1, <3>2, <3>3, AtWorkMembers, AtWorkMembersNext
    <3> QED BY <3>1, <3>4, <3>5 DEF Promise!Submit, Submits
  <2>2. CASE workers # 0
    <3>1. NotifyOne(at) /\ jobs' = Append(jobs, j) /\ UNCHANGED <<job, inline>>
          /\ refused' = TRUE /\ Submits(j)
      BY <1>4, <2>2 DEF SubmitRefused
    <3>2. Running' = Running
      BY <1>1, <3>1
    <3> QED BY <3>1, <3>2, JobQueued
  <2> QED BY <2>1, <2>2
<1> QED BY <1>2, <1>3, <1>4

(* The job `submit` ran itself is done.                                    *)
LEMMA InlineIsDone ==
  ASSUME OnePlace, InlineDone
  PROVE  OnePlace' /\ Promise!Done(inline) /\ inline \in Jobs
<1>1. /\ inline # NoJob /\ inline' = NoJob /\ UNCHANGED <<jobs, job, refused>>
      /\ Running' = Running /\ inline \in Jobs
  BY DEF InlineDone, Running, OnePlace
<1>2. /\ \A i \in DOMAIN jobs : jobs[i] \in Jobs /\ jobs[i] # inline
      /\ \A w \in Running : job[w] \in Jobs /\ job[w] # inline
  BY DEF OnePlace
<1>3. OnePlace'
  BY <1>1, <1>2, NoJobAssumption DEF OnePlace
<1>4. inline \in AtWork /\ AtWork' = AtWork \ {inline}
  BY <1>1, <1>2, AtWorkMembers, AtWorkMembersNext
<1> QED BY <1>1, <1>3, <1>4 DEF Promise!Done

(* A job that is taken from the queue stays at work.                       *)
LEMMA JobTaken ==
  ASSUME OnePlace, at \in [Workers -> Place], NEW w \in Workers, Take(w)
  PROVE  OnePlace' /\ UNCHANGED AtWork
<1>1. /\ jobs # << >> /\ job' = [job EXCEPT ![w] = Head(jobs)] /\ jobs' = Tail(jobs)
      /\ UNCHANGED <<inline, refused>>
      /\ w \notin Running /\ Running' = Running \cup {w}
  BY DEF Take, Running
<1>2. /\ jobs \in Seq(Jobs) /\ job \in [Workers -> Jobs \cup {NoJob}]
      /\ inline \in Jobs \cup {NoJob} /\ refused \in BOOLEAN
      /\ \A v \in Running : job[v] \in Jobs
      /\ \A i, k \in DOMAIN jobs : jobs[i] = jobs[k] => i = k
      /\ \A v, u \in Running : job[v] = job[u] => v = u
      /\ \A i \in DOMAIN jobs, v \in Running : jobs[i] # job[v]
      /\ \A i \in DOMAIN jobs : jobs[i] # inline
      /\ \A v \in Running : job[v] # inline
  BY DEF OnePlace
<1>3. /\ 1 \in DOMAIN jobs /\ Head(jobs) = jobs[1] /\ Head(jobs) \in Jobs
      /\ jobs' \in Seq(Jobs)
      /\ \A i \in DOMAIN jobs' : i \in Nat /\ i + 1 \in DOMAIN jobs
                                 /\ i + 1 # 1 /\ jobs'[i] = jobs[i + 1]
      /\ \A i \in DOMAIN jobs : i = 1 \/ (i - 1 \in DOMAIN jobs' /\ jobs'[i - 1] = jobs[i])
  BY <1>1, <1>2
<1>4. /\ job'[w] = jobs[1] /\ job' \in [Workers -> Jobs \cup {NoJob}]
      /\ \A v \in Running : job'[v] = job[v]
  BY <1>1, <1>2, <1>3 DEF Running
<1>5. OnePlace'
  <2>1. \A v \in Running' : job'[v] \in Jobs
    BY <1>1, <1>2, <1>3, <1>4
  <2>2. \A i, k \in DOMAIN jobs' : jobs'[i] = jobs'[k] => i = k
    <3> TAKE i, k \in DOMAIN jobs'
    <3> HAVE jobs'[i] = jobs'[k]
    <3>1. i + 1 = k + 1 /\ i \in Nat /\ k \in Nat
      BY <1>2, <1>3
    <3> QED BY <3>1
  <2>3. \A v, u \in Running' : job'[v] = job'[u] => v = u
    BY <1>1, <1>2, <1>3, <1>4
  <2>4. \A i \in DOMAIN jobs', v \in Running' : jobs'[i] # job'[v]
    BY <1>1, <1>2, <1>3, <1>4
  <2>5. \A i \in DOMAIN jobs' : jobs'[i] # inline'
    BY <1>1, <1>2, <1>3
  <2>6. \A v \in Running' : job'[v] # inline'
    BY <1>1, <1>2, <1>3, <1>4
  <2> QED BY <1>1, <1>2, <1>3, <1>4, <2>1, <2>2, <2>3, <2>4, <2>5, <2>6 DEF OnePlace
<1>6. AtWork' = AtWork
  <2>1. \A x : (\E i \in DOMAIN jobs : x = jobs[i])
               <=> x = jobs[1] \/ \E i \in DOMAIN jobs' : x = jobs'[i]
    BY <1>3
  <2>2. \A x : (\E v \in Running' : x = job'[v])
               <=> x = jobs[1] \/ \E v \in Running : x = job[v]
    BY <1>1, <1>4
  <2>3. \A x : x \in AtWork' <=>
          \/ \E i \in DOMAIN jobs' : x = jobs'[i]
          \/ x = jobs[1]
          \/ \E v \in Running : x = job[v]
          \/ x = inline /\ x # NoJob
    BY <1>1, <2>2, AtWorkMembersNext
  <2>4. \A x : x \in AtWork' <=> x \in AtWork
    BY <2>1, <2>3, AtWorkMembers
  <2> QED BY <2>4
<1> QED BY <1>5, <1>6

(* The job a thread has run is done.                                       *)
LEMMA JobIsDone ==
  ASSUME OnePlace, at \in [Workers -> Place], NEW w \in Workers, JobEnds(w)
  PROVE  OnePlace' /\ Promise!Done(job[w]) /\ job[w] \in Jobs
<1>1. /\ UNCHANGED <<jobs, inline, refused>>
      /\ w \in Running /\ Running' = Running \ {w}
  BY DEF JobEnds, Running
<1>2. /\ job' \in [Workers -> Jobs \cup {NoJob}]
      /\ \A v \in Running' : job'[v] = job[v]
  BY <1>1 DEF JobEnds, OnePlace, Running
<1>3. OnePlace' /\ job[w] \in Jobs
  BY <1>1, <1>2 DEF OnePlace
<1>4. job[w] \in AtWork /\ AtWork' = AtWork \ {job[w]}
  <2>1. /\ job[w] # NoJob /\ job[w] # inline
        /\ \A i \in DOMAIN jobs : jobs[i] # job[w]
        /\ \A v \in Running : job[v] = job[w] => v = w
    BY <1>1, <1>3, NoJobAssumption DEF OnePlace
  <2>2. \A x : (\E v \in Running : x = job[v])
               <=> x = job[w] \/ \E v \in Running' : x = job'[v]
    BY <1>1, <1>2
  <2>3. \A v \in Running' : job'[v] # job[w]
    BY <1>1, <1>2, <2>1
  <2>4. job[w] \in AtWork
    BY <1>1, AtWorkMembers
  <2>5. \A x : x \in AtWork <=>
          \/ \E i \in DOMAIN jobs' : x = jobs'[i]
          \/ x = job[w]
          \/ \E v \in Running' : x = job'[v]
          \/ x = inline' /\ x # NoJob
    BY <1>1, <2>2, AtWorkMembers
  <2>6. \A x : x \in AtWork' <=> x \in AtWork /\ x # job[w]
    BY <1>1, <2>1, <2>3, <2>5, AtWorkMembersNext
  <2> QED BY <2>4, <2>6
<1> QED BY <1>3, <1>4 DEF Promise!Done

(* The other steps of a thread leave every job where it is.                *)
LEMMA JobsLeftAlone ==
  ASSUME OnePlace, at \in [Workers -> Place], NEW w \in Workers,
         Wait(w) \/ Exit(w) \/ WakesByItself(w)
  PROVE  OnePlace' /\ UNCHANGED AtWork
<1>1. UNCHANGED <<jobs, job, inline, refused>>
  BY DEF Wait, Exit, WakesByItself
<1>2. \E to \in {"waits", "none", "timedOut", "woken"} :
        at[w] # "runs" /\ at' = [at EXCEPT ![w] = to]
  BY DEF Wait, Exit, WakesByItself
<1>3. Running' = Running
  BY <1>2 DEF Running
<1>4. OnePlace'
  BY <1>1, <1>3 DEF OnePlace
<1>5. AtWork' = AtWork
  BY <1>1, <1>3, AtWorkMembers, AtWorkMembersNext
<1> QED BY <1>4, <1>5

-----------------------------------------------------------------------------
(***************************************************************************)
(* The invariant.                                                          *)
(***************************************************************************)

(* It holds of a pool without threads, and Background has no job at work.  *)
LEMMA InitIInv == Init => IInv /\ Promise!Init
<1> SUFFICES ASSUME Init PROVE IInv /\ Promise!Init
  OBVIOUS
<1>1. /\ jobs = << >> /\ workers = 0 /\ idle = 0 /\ inline = NoJob /\ refused = FALSE
      /\ at \in [Workers -> Place] /\ job \in [Workers -> Jobs \cup {NoJob}]
      /\ \A w \in Workers : at[w] = "none"
  BY DEF Init, Place
<1>2. Running = {}
  BY <1>1 DEF Running
<1>3. OnePlace
  <2>1. jobs \in Seq(Jobs) /\ DOMAIN jobs = {}
    BY <1>1
  <2> QED BY <1>1, <1>2, <2>1 DEF OnePlace
<1>4. /\ {w \in Workers : at[w] \in Alive} = {} /\ {w \in Workers : at[w] \in Idle} = {}
      /\ {w \in Workers : at[w] \in {"waits"}} = {}
  BY <1>1 DEF Alive, Idle
<1>5. CountOf(at, Alive) = 0 /\ CountOf(at, Idle) = 0 /\ CountOf(at, {"waits"}) = 0
  BY <1>4, CountType
<1>6. Counters /\ Served
  BY <1>1, <1>5, CountsAreNat DEF Counters, Served
<1>7. AtWork = {}
  BY <1>1, <1>2, AtWorkMembers
<1> QED BY <1>3, <1>6, <1>7 DEF IInv, Promise!Init

(* Every step keeps it, and is a step of Background or leaves it alone.    *)
LEMMA NextIInv == IInv /\ [Next]_vars => IInv' /\ [Promise!Next]_AtWork
<1> SUFFICES ASSUME IInv, [Next]_vars PROVE IInv' /\ [Promise!Next]_AtWork
  OBVIOUS
<1>1. /\ Counters /\ Served /\ OnePlace /\ at \in [Workers -> Place]
      /\ jobs \in Seq(Jobs) /\ refused \in BOOLEAN
  BY DEF IInv, Counters, OnePlace
<1>2. ASSUME NEW j \in Jobs, SubmitToPool(j) \/ SubmitAndStart(j) \/ SubmitRefused(j)
      PROVE  IInv' /\ [Promise!Next]_AtWork
  BY <1>1, <1>2, SubmitKeepsCounts, SubmitTakesJob DEF IInv, Promise!Next
<1>3. CASE InlineDone
  <2>1. UNCHANGED <<jobs, workers, idle, at, refused>>
    BY <1>3 DEF InlineDone
  <2>2. Counters' /\ Served'
    BY <1>1, <2>1 DEF Counters, Served, CountOf, MaxWorkers
  <2> QED BY <1>1, <1>3, <2>2, InlineIsDone DEF IInv, Promise!Next
<1>4. ASSUME NEW w \in Workers, Worker(w) \/ WakesByItself(w)
      PROVE  IInv' /\ [Promise!Next]_AtWork
  <2>1. Counters' /\ Served'
    BY <1>1, <1>4, WorkerKeepsCounts
  <2>2. CASE Take(w)
    BY <1>1, <2>1, <2>2, JobTaken DEF IInv
  <2>3. CASE JobEnds(w)
    BY <1>1, <2>1, <2>3, JobIsDone DEF IInv, Promise!Next
  <2>4. CASE Wait(w) \/ Exit(w) \/ WakesByItself(w)
    BY <1>1, <2>1, <2>4, JobsLeftAlone DEF IInv
  <2> QED BY <1>4, <2>2, <2>3, <2>4 DEF Worker
<1>5. CASE UNCHANGED vars
  <2>1. UNCHANGED <<jobs, workers, idle, at, job, inline, refused>>
    BY <1>5 DEF vars
  <2> QED BY <1>1, <2>1 DEF IInv, Counters, Served, OnePlace, Running, CountOf,
                          MaxWorkers, AtWork, Threads
<1> QED BY <1>2, <1>3, <1>4, <1>5 DEF Next

(* A sequence without repetitions has as many elements as it is long.      *)
LEMMA QueueCardinality ==
  ASSUME OnePlace
  PROVE  LET queued == {jobs[i] : i \in DOMAIN jobs}
         IN  IsFiniteSet(queued) /\ Cardinality(queued) = Len(jobs)
<1> DEFINE queued == {jobs[i] : i \in DOMAIN jobs}
<1>1. /\ Len(jobs) \in Nat /\ DOMAIN jobs = 1..Len(jobs)
      /\ jobs \in [1..Len(jobs) -> queued]
      /\ \A i, k \in 1..Len(jobs) : jobs[i] = jobs[k] => i = k
      /\ \A x \in queued : \E i \in 1..Len(jobs) : jobs[i] = x
  BY DEF OnePlace
<1>2. IsFiniteSet(1..Len(jobs)) /\ Cardinality(1..Len(jobs)) = Len(jobs)
  BY <1>1, FS_Interval
<1> HIDE DEF queued
<1>3. ExistsBijection(1..Len(jobs), queued)
  BY <1>1, Fun_IsBij DEF ExistsBijection
<1>4. IsFiniteSet(queued) /\ Cardinality(queued) = Len(jobs)
  BY <1>2, <1>3, FS_Bijection
<1> QED BY <1>4 DEF queued

(* As many jobs run as threads run one.                                    *)
LEMMA RunningCardinality ==
  ASSUME OnePlace
  PROVE  LET run == {job[w] : w \in Running}
         IN  IsFiniteSet(run) /\ Cardinality(run) = Cardinality(Running)
<1> DEFINE run == {job[w] : w \in Running}
           f == [w \in Running |-> job[w]]
<1>1. /\ f \in [Running -> run]
      /\ \A w, v \in Running : f[w] = f[v] => w = v
      /\ \A x \in run : \E w \in Running : f[w] = x
  BY DEF OnePlace
<1>2. IsFiniteSet(Running)
  BY WorkersAssumption, FS_Subset DEF Running
<1> HIDE DEF run, f
<1>3. ExistsBijection(Running, run)
  BY <1>1, Fun_IsBij DEF ExistsBijection
<1>4. IsFiniteSet(run) /\ Cardinality(run) = Cardinality(Running)
  BY <1>2, <1>3, FS_Bijection
<1> QED BY <1>4 DEF run

(* As no job is in two places, those at work are as many as there are in   *)
(* the three places together.                                              *)
LEMMA AtWorkCardinality ==
  ASSUME OnePlace
  PROVE  Cardinality(AtWork)
         = Len(jobs) + Cardinality(Running) + (IF inline = NoJob THEN 0 ELSE 1)
<1> DEFINE queued == {jobs[i] : i \in DOMAIN jobs}
           run == {job[w] : w \in Running}
<1>1. /\ IsFiniteSet(queued) /\ Cardinality(queued) = Len(jobs)
      /\ IsFiniteSet(run) /\ Cardinality(run) = Cardinality(Running)
  BY QueueCardinality, RunningCardinality
<1>2. Cardinality(queued) \in Nat /\ Cardinality(run) \in Nat
  BY <1>1, FS_CardinalityType
<1>3. queued \cap run = {} /\ inline \notin queued \cup run
  BY DEF OnePlace
<1>4. AtWork = (queued \cup run) \cup ({inline} \ {NoJob})
  BY DEF AtWork, Threads, Running
<1> HIDE DEF queued, run
<1>5. /\ IsFiniteSet(queued \cup run)
      /\ Cardinality(queued \cup run) = Cardinality(queued) + Cardinality(run)
  <2>1. queued \cap run = {} /\ Cardinality({}) = 0
    BY <1>3, FS_EmptySet
  <2>2. Cardinality(queued \cap run) = 0
    BY <2>1, Zenon
  <2>3. /\ IsFiniteSet(queued \cup run)
        /\ Cardinality(queued \cup run)
             = Cardinality(queued) + Cardinality(run) - Cardinality(queued \cap run)
    BY <1>1, FS_Union
  <2> QED BY <1>2, <2>2, <2>3
<1>6. CASE inline = NoJob
  <2>1. AtWork = queued \cup run
    BY <1>4, <1>6
  <2> QED BY <1>1, <1>2, <1>5, <1>6, <2>1
<1>7. CASE inline # NoJob
  <2>1. AtWork = (queued \cup run) \cup {inline}
    BY <1>4, <1>7
  <2>2. Cardinality(AtWork) = Cardinality(queued \cup run) + 1
    BY <1>3, <1>5, <2>1, FS_AddElement
  <2> QED BY <1>1, <1>2, <1>5, <1>7, <2>2
<1> QED BY <1>6, <1>7

(* The invariant says what the properties say.                             *)
LEMMA IInvImplies ==
  IInv => TypeOK /\ CountersAgree /\ NobodySleepsOnWork /\ QueuedJobsHaveThreads
<1> SUFFICES ASSUME IInv
             PROVE  TypeOK /\ CountersAgree /\ NobodySleepsOnWork /\ QueuedJobsHaveThreads
  OBVIOUS
<1>1. Counters /\ Served /\ OnePlace /\ at \in [Workers -> Place]
  BY DEF IInv, Counters
<1>2. TypeOK
  BY <1>1, CountsAreNat DEF TypeOK, Counters, OnePlace
<1>3. /\ Workers \ Threads({"none"}) = {w \in Workers : at[w] \in Alive}
      /\ Threads({"waits", "woken", "timedOut"}) = {w \in Workers : at[w] \in Idle}
      /\ Threads({"looks", "woken", "timedOut"}) = {w \in Workers : at[w] \in Awake}
      /\ Workers \ Threads({"none", "runs"}) = {w \in Workers : at[w] \in Free}
      /\ Threads({"waits"}) = {w \in Workers : at[w] \in {"waits"}}
      /\ Threads({"runs"}) = Running
  BY <1>1 DEF Threads, Place, Alive, Idle, Awake, Free, Running
<1>4. CountersAgree
  BY <1>1, <1>3, AtWorkCardinality DEF CountersAgree, Counters, CountOf
<1>5. NobodySleepsOnWork
  <2>1. Threads({"waits"}) # {} => CountOf(at, {"waits"}) # 0
    BY <1>3, CountType
  <2> QED BY <1>1, <1>3, <2>1 DEF NobodySleepsOnWork, Served, CountOf
<1>6. QueuedJobsHaveThreads
  BY <1>1, <1>3 DEF QueuedJobsHaveThreads, Served, CountOf
<1> QED BY <1>2, <1>4, <1>5, <1>6

(* The invariant holds of every behaviour.                                 *)
LEMMA InvariantHolds == Spec => []IInv
<1>1. Init => IInv
  BY InitIInv
<1>2. IInv /\ [Next]_vars => IInv'
  BY NextIInv
<1> QED BY <1>1, <1>2, PTL DEF Spec

-----------------------------------------------------------------------------
(***************************************************************************)
(* Theorems.                                                               *)
(***************************************************************************)

(* The state of the pool is always well formed.                            *)
THEOREM PoolTypeHolds == Spec => []TypeOK
<1>1. IInv => TypeOK
  BY IInvImplies
<1> QED BY <1>1, InvariantHolds, PTL

(* Queue::workers and Queue::idle never drift from the threads they count, *)
(* and no job is ever in two places, or lost between them.                 *)
THEOREM CountersAgreeHolds == Spec => []CountersAgree
<1>1. IInv => CountersAgree
  BY IInvImplies
<1> QED BY <1>1, InvariantHolds, PTL

(* No thread of the pool is left waiting on work it could do.              *)
THEOREM NobodySleepsOnWorkHolds == Spec => []NobodySleepsOnWork
<1>1. IInv => NobodySleepsOnWork
  BY IInvImplies
<1> QED BY <1>1, InvariantHolds, PTL

(* `submit` starts as many threads as the queue needs, or as it may.       *)
THEOREM QueuedJobsHaveThreadsHolds == Spec => []QueuedJobsHaveThreads
<1>1. IInv => QueuedJobsHaveThreads
  BY IInvImplies
<1> QED BY <1>1, InvariantHolds, PTL

(* The pool does to the jobs at work only what Background lets it: a job   *)
(* is submitted once, and done once.                                       *)
THEOREM PoolImplementsBackground == Spec => Promise!Init /\ [][Promise!Next]_AtWork
<1>1. Init => Promise!Init
  BY InitIInv
<1>2. IInv /\ [Next]_vars => [Promise!Next]_AtWork
  BY NextIInv
<1> QED BY <1>1, <1>2, InvariantHolds, PTL DEF Spec

-----------------------------------------------------------------------------
(***************************************************************************)
(* The streams.                                                            *)
(***************************************************************************)
Outcomes ==
  {NotSent, <<"end", 0>>, <<"error", 0>>, <<"panic", 0>>, <<"response", 0>>}
    \cup {<<"chunk", n>> : n \in Nat}

StreamType ==
  /\ slot \in {"absent", "parked", "taken"}
  /\ opened \in BOOLEAN
  /\ kind \in [Jobs -> Kinds]
  /\ waits \in SUBSET Jobs
  /\ outcome \in [Jobs -> Outcomes]
  /\ position \in Nat
  /\ returned \in Seq(Nat)

(* Jobs do something until their completion is taken or dropped.           *)
Completions ==
  /\ \A j \in Jobs : outcome[j] # NotSent => j \in waits /\ j \notin AtWork
  /\ \A j \in Jobs : kind[j] # "other" => j \in AtWork \/ outcome[j] # NotSent
  /\ \A j \in waits : kind[j] # "other"

(* One request at most can open the stream, and nothing reads it before.   *)
OpenedOnce ==
  /\ ~opened => slot = "absent" /\ position = 0 /\ returned = << >>
                  /\ \A j \in Jobs : kind[j] # "read"
  /\ \A i, j \in waits : kind[i] = "request" /\ kind[j] = "request" => i = j /\ ~opened

(* One read at most is in flight, and none while the reader is in STREAMS. *)
OneReader ==
  /\ \A i, j \in Jobs : kind[i] = "read" /\ kind[j] = "read" => i = j
  /\ slot = "parked" => \A j \in Jobs : kind[j] # "read"

(* What came off the connection was returned, or is about to be, unless    *)
(* the reader was lost.                                                    *)
Accounted ==
  /\ slot = "parked" => position = Len(returned)
  /\ \A j \in waits : kind[j] = "read" =>
       \/ outcome[j] = NotSent /\ position = Len(returned)
       \/ outcome[j] \in {<<"end", 0>>, <<"error", 0>>, <<"panic", 0>>}
       \/ outcome[j] = <<"chunk", position>> /\ position = Len(returned) + 1

Ordered == \A i \in 1..Len(returned) : returned[i] = i

StreamInv ==
  StreamType /\ Completions /\ OpenedOnce /\ OneReader /\ Accounted /\ Ordered

-----------------------------------------------------------------------------
(***************************************************************************)
(* What a step does to the jobs at work.                                   *)
(***************************************************************************)

LEMMA PoolAtRest ==
  ASSUME UNCHANGED vars
  PROVE  UNCHANGED AtWork
BY DEF vars, AtWork, Threads

LEMMA SubmittedTakesJob ==
  ASSUME IInv, NEW j \in Jobs, NEW what, Submitted(j, what)
  PROVE  j \notin AtWork /\ AtWork' = AtWork \cup {j}
<1>1. OnePlace /\ at \in [Workers -> Place]
  BY DEF IInv, Counters
<1>2. SubmitToPool(j) \/ SubmitAndStart(j) \/ SubmitRefused(j)
  BY DEF Submitted
<1> QED BY <1>1, <1>2, SubmitTakesJob DEF Promise!Submit

(* Every step of HttpStreams is one of the pool, or leaves it alone.       *)
LEMMA StepsOfThePool ==
  ASSUME [HttpNext]_httpVars
  PROVE  [Next]_vars
<1>1. CASE UNCHANGED httpVars
  BY <1>1 DEF httpVars
<1>2. ASSUME NEW j \in Jobs, OtherWork(j) \/ Request(j) \/ Read(j)
      PROVE  Next
  BY <1>2 DEF OtherWork, Request, Read, Submitted, Next
<1>3. ASSUME NEW j \in Jobs, Cancel(j) \/ Finish(j)
      PROVE  UNCHANGED vars
  BY <1>3 DEF Cancel, Finish
<1>4. CASE ReadInPlace \/ End
  BY <1>4 DEF ReadInPlace, End
<1>5. CASE SendsInline
  BY <1>5 DEF SendsInline, Next
<1>6. ASSUME NEW w \in Workers, HttpWorker(w) \/ (WakesByItself(w) /\ UNCHANGED streamVars)
      PROVE  Next
  BY <1>6 DEF HttpWorker, SendsFrom, Worker, Next
<1> QED BY <1>1, <1>2, <1>3, <1>4, <1>5, <1>6 DEF HttpNext

-----------------------------------------------------------------------------
(***************************************************************************)
(* The interpreter's thread.                                               *)
(***************************************************************************)

LEMMA OtherWorkKeeps ==
  ASSUME IInv, StreamInv, NEW j \in Jobs, OtherWork(j)
  PROVE  StreamInv'
<1>1. j \notin AtWork /\ AtWork' = AtWork \cup {j}
  BY SubmittedTakesJob DEF OtherWork
<1>2. /\ j \notin waits /\ kind' = [kind EXCEPT ![j] = "other"]
      /\ UNCHANGED <<slot, opened, waits, outcome, position, returned>>
  BY DEF OtherWork, Submitted
<1>3. StreamType' /\ Ordered'
  BY <1>2 DEF StreamInv, StreamType, Ordered, Kinds
<1>4. Completions'
  BY <1>1, <1>2 DEF StreamInv, StreamType, Completions
<1>5. OpenedOnce' /\ OneReader' /\ Accounted'
  BY <1>2 DEF StreamInv, StreamType, OpenedOnce, OneReader, Accounted
<1> QED BY <1>3, <1>4, <1>5 DEF StreamInv

LEMMA RequestKeeps ==
  ASSUME IInv, StreamInv, NEW j \in Jobs, Request(j)
  PROVE  StreamInv'
<1>1. j \notin AtWork /\ AtWork' = AtWork \cup {j}
  BY SubmittedTakesJob DEF Request
<1>2. /\ j \notin waits /\ waits' = waits \cup {j} /\ kind' = [kind EXCEPT ![j] = "request"]
      /\ ~opened /\ \A i \in waits : kind[i] # "request"
      /\ UNCHANGED <<slot, opened, outcome, position, returned>>
  BY DEF Request, Submitted
<1>3. StreamType' /\ Ordered'
  BY <1>2 DEF StreamInv, StreamType, Ordered, Kinds
<1>4. Completions'
  BY <1>1, <1>2 DEF StreamInv, StreamType, Completions
<1>5. OpenedOnce' /\ OneReader' /\ Accounted'
  BY <1>2 DEF StreamInv, StreamType, OpenedOnce, OneReader, Accounted
<1> QED BY <1>3, <1>4, <1>5 DEF StreamInv

LEMMA ReadKeeps ==
  ASSUME IInv, StreamInv, NEW j \in Jobs, Read(j)
  PROVE  StreamInv'
<1>1. j \notin AtWork /\ AtWork' = AtWork \cup {j}
  BY SubmittedTakesJob DEF Read
<1>2. /\ j \notin waits /\ waits' = waits \cup {j} /\ kind' = [kind EXCEPT ![j] = "read"]
      /\ slot = "parked" /\ slot' = "taken"
      /\ UNCHANGED <<opened, outcome, position, returned>>
  BY DEF Read, Submitted
<1>3. StreamType' /\ Ordered'
  BY <1>2 DEF StreamInv, StreamType, Ordered, Kinds
<1>4. Completions'
  BY <1>1, <1>2 DEF StreamInv, StreamType, Completions
<1>5. OpenedOnce' /\ OneReader'
  BY <1>2 DEF StreamInv, StreamType, OpenedOnce, OneReader
<1>6. Accounted'
  <2>1. outcome[j] = NotSent /\ position = Len(returned)
    BY <1>2 DEF StreamInv, Completions, Accounted
  <2> QED BY <1>2, <2>1 DEF StreamInv, StreamType, OneReader, Accounted
<1> QED BY <1>3, <1>4, <1>5, <1>6 DEF StreamInv

LEMMA CancelKeeps ==
  ASSUME StreamInv, NEW j \in Jobs, Cancel(j)
  PROVE  StreamInv'
<1>1. UNCHANGED AtWork
  BY PoolAtRest DEF Cancel
<1>2. /\ j \in waits /\ waits' = waits \ {j}
      /\ outcome' = [outcome EXCEPT ![j] = NotSent]
      /\ kind' = IF outcome[j] = NotSent THEN kind ELSE [kind EXCEPT ![j] = "other"]
      /\ UNCHANGED <<slot, opened, position, returned>>
  BY DEF Cancel, Released
<1>3. StreamType' /\ Ordered'
  BY <1>2 DEF StreamInv, StreamType, Ordered, Kinds, Outcomes
<1>4. Completions'
  BY <1>1, <1>2 DEF StreamInv, StreamType, Completions
<1>5. OpenedOnce' /\ OneReader' /\ Accounted'
  BY <1>2 DEF StreamInv, StreamType, OpenedOnce, OneReader, Accounted
<1> QED BY <1>3, <1>4, <1>5 DEF StreamInv

(* A chunk that follows is appended where it belongs.                      *)
LEMMA ChunkInOrder ==
  ASSUME returned \in Seq(Nat), Ordered, returned' = Append(returned, Len(returned) + 1)
  PROVE  /\ returned' \in Seq(Nat) /\ Ordered'
         /\ Len(returned') = Len(returned) + 1
BY DEF Ordered

LEMMA FinishKeeps ==
  ASSUME StreamInv, NEW j \in Jobs, Finish(j)
  PROVE  StreamInv'
<1>1. UNCHANGED AtWork
  BY PoolAtRest DEF Finish
<1>2. /\ j \in waits /\ waits' = waits \ {j} /\ outcome[j] # NotSent
      /\ outcome' = [outcome EXCEPT ![j] = NotSent]
      /\ kind' = [kind EXCEPT ![j] = "other"]
      /\ UNCHANGED position
  BY DEF Finish, Released
<1>3. Completions'
  BY <1>1, <1>2 DEF StreamInv, StreamType, Completions
<1>4. /\ kind' \in [Jobs -> Kinds] /\ waits' \in SUBSET Jobs
      /\ outcome' \in [Jobs -> Outcomes] /\ position' \in Nat
  BY <1>2 DEF StreamInv, StreamType, Kinds, Outcomes
<1>5. CASE kind[j] = "read"
  <2>1. FinishRead(outcome[j]) /\ opened
    BY <1>5 DEF Finish, StreamInv, OpenedOnce
  <2>2. \A i \in Jobs : kind'[i] # "read"
    BY <1>2, <1>5 DEF StreamInv, StreamType, OneReader
  <2>3. UNCHANGED opened
    BY <2>1 DEF FinishRead
  <2>4. OpenedOnce' /\ OneReader'
    BY <1>2, <2>1, <2>2, <2>3 DEF StreamInv, StreamType, OpenedOnce, OneReader
  <2>5. CASE outcome[j] \in {<<"end", 0>>, <<"error", 0>>, <<"panic", 0>>}
    <3>1. outcome[j][1] \in {"end", "error", "panic"}
      BY <2>5
    <3>2. UNCHANGED returned /\ slot' \in {"absent", slot}
      BY <2>1, <3>1 DEF FinishRead
    <3>3. slot # "parked"
      BY <1>5 DEF StreamInv, OneReader
    <3> QED BY <1>3, <1>4, <2>2, <2>3, <2>4, <3>2, <3>3
            DEF StreamInv, StreamType, Accounted, Ordered
  <2>6. CASE outcome[j] = <<"chunk", position>> /\ position = Len(returned) + 1
    <3>1. outcome[j][1] = "chunk" /\ outcome[j][2] = Len(returned) + 1
      BY <2>6
    <3>2. /\ returned' = Append(returned, Len(returned) + 1)
          /\ slot' \in {"absent", "parked"}
      BY <2>1, <3>1 DEF FinishRead
    <3>3. returned' \in Seq(Nat) /\ Ordered' /\ Len(returned') = position
      BY <2>6, <3>2, ChunkInOrder DEF StreamInv, StreamType
    <3> QED BY <1>2, <1>3, <1>4, <2>2, <2>3, <2>4, <3>2, <3>3
            DEF StreamInv, StreamType, Accounted
  <2> QED BY <1>2, <1>5, <2>5, <2>6 DEF StreamInv, Accounted
<1>6. CASE kind[j] # "read"
  <2>1. kind[j] = "request"
    BY <1>2, <1>6 DEF StreamInv, StreamType, Completions, Kinds
  <2>2. /\ ~opened /\ slot = "absent" /\ position = 0 /\ returned = << >>
        /\ \A i \in Jobs : kind[i] # "read"
        /\ \A i \in waits : kind[i] = "request" => i = j
    BY <1>2, <2>1 DEF StreamInv, OpenedOnce
  <2>3. /\ UNCHANGED returned
        /\ \/ slot' = "parked" /\ opened' = TRUE
           \/ UNCHANGED <<slot, opened>>
    BY <1>6 DEF Finish, FinishRequest
  <2>4. /\ \A i \in Jobs : kind'[i] # "read"
        /\ \A i \in waits' : kind'[i] # "request"
    BY <1>2, <2>2 DEF StreamInv, StreamType
  <2>5. OpenedOnce' /\ OneReader' /\ Accounted'
    BY <1>2, <2>2, <2>3, <2>4 DEF StreamInv, StreamType, OpenedOnce, OneReader, Accounted
  <2> QED BY <1>3, <1>4, <2>2, <2>3, <2>5 DEF StreamInv, StreamType, Ordered
<1> QED BY <1>5, <1>6

LEMMA ReadInPlaceKeeps ==
  ASSUME StreamInv, ReadInPlace
  PROVE  StreamInv'
<1>1. UNCHANGED AtWork /\ UNCHANGED <<kind, waits, outcome>> /\ slot = "parked"
  BY PoolAtRest DEF ReadInPlace
<1>2. /\ opened /\ position = Len(returned) /\ position \in Nat
      /\ \A j \in Jobs : kind[j] # "read"
  BY <1>1 DEF StreamInv, StreamType, OpenedOnce, OneReader, Accounted
<1>3. PICK read \in ReadResults : FinishRead(read) /\ position' = PositionAfter(read)
  BY DEF ReadInPlace
<1>4. Completions'
  BY <1>1 DEF StreamInv, Completions
<1>5. UNCHANGED opened
  BY <1>3 DEF FinishRead
<1>6. OpenedOnce' /\ OneReader'
  BY <1>1, <1>2, <1>5 DEF StreamInv, OpenedOnce, OneReader
<1>7. CASE read = <<"chunk", position + 1>>
  <2>1. read[1] = "chunk" /\ read[2] = Len(returned) + 1
    BY <1>2, <1>7
  <2>2. /\ returned' = Append(returned, Len(returned) + 1)
        /\ slot' = "parked" /\ position' = Len(returned) + 1
    BY <1>1, <1>3, <2>1 DEF FinishRead, PositionAfter
  <2>3. returned' \in Seq(Nat) /\ Ordered' /\ Len(returned') = position'
    BY <2>2, ChunkInOrder DEF StreamInv, StreamType
  <2> QED BY <1>1, <1>2, <1>4, <1>5, <1>6, <2>2, <2>3 DEF StreamInv, StreamType, Accounted
<1>8. CASE read \in {<<"end", 0>>, <<"error", 0>>}
  <2>1. read[1] \in {"end", "error"} /\ read[1] # "chunk"
    BY <1>8
  <2>2. UNCHANGED <<returned, position>> /\ slot' = "absent"
    BY <1>3, <2>1 DEF FinishRead, PositionAfter
  <2> QED BY <1>1, <1>2, <1>4, <1>5, <1>6, <2>2 DEF StreamInv, StreamType, Accounted, Ordered
<1> QED BY <1>3, <1>7, <1>8 DEF ReadResults

LEMMA EndKeeps ==
  ASSUME StreamInv, End
  PROVE  StreamInv'
<1>1. UNCHANGED AtWork
  BY PoolAtRest DEF End
<1>2. /\ opened /\ slot' = "absent"
      /\ UNCHANGED <<opened, kind, waits, outcome, position, returned>>
  BY DEF End
<1> QED BY <1>1, <1>2 DEF StreamInv, StreamType, Completions, OpenedOnce, OneReader,
                          Accounted, Ordered

-----------------------------------------------------------------------------
(***************************************************************************)
(* The threads of the pool.                                                *)
(***************************************************************************)

LEMMA SendsKeeps ==
  ASSUME StreamInv, NEW j \in Jobs, j \in AtWork, AtWork' = AtWork \ {j}, Sends(j)
  PROVE  StreamInv'
<1>1. PICK sent \in Results(j) :
        /\ position' = PositionAfter(sent)
        /\ outcome' = IF j \in waits THEN [outcome EXCEPT ![j] = sent] ELSE outcome
  BY DEF Sends
<1>2. /\ kind' = IF j \in waits THEN kind ELSE [kind EXCEPT ![j] = "other"]
      /\ UNCHANGED <<slot, opened, waits, returned>>
  BY DEF Sends
<1>3. outcome[j] = NotSent
  BY DEF StreamInv, Completions
<1>4. kind' \in [Jobs -> Kinds] /\ Ordered' /\ position \in Nat /\ Len(returned) \in Nat
  BY <1>2 DEF StreamInv, StreamType, Kinds, Ordered
<1>5. CASE kind[j] = "read"
  <2>1. \/ sent = <<"chunk", position + 1>>
        \/ sent \in {<<"end", 0>>, <<"error", 0>>, <<"panic", 0>>}
    BY <1>1, <1>5 DEF Results, ReadResults
  <2>2. /\ opened /\ slot # "parked"
        /\ \A i \in Jobs : kind[i] = "read" => i = j
    BY <1>5 DEF StreamInv, OpenedOnce, OneReader
  <2>3. /\ sent \in Outcomes /\ sent # NotSent /\ position' \in Nat
        /\ \/ sent = <<"chunk", position'>> /\ position' = position + 1
           \/ sent \in {<<"end", 0>>, <<"error", 0>>, <<"panic", 0>>}
    BY <1>1, <1>4, <2>1 DEF Outcomes, NotSent, PositionAfter
  <2>4. StreamType'
    BY <1>1, <1>2, <1>4, <2>3 DEF StreamInv, StreamType
  <2>5. Completions'
    BY <1>1, <1>2, <2>3 DEF StreamInv, StreamType, Completions
  <2>6. OpenedOnce' /\ OneReader'
    BY <1>2, <2>2 DEF StreamInv, StreamType, OpenedOnce, OneReader
  <2>7. j \in waits => position = Len(returned)
    BY <1>3, <1>5 DEF StreamInv, Accounted, NotSent
  <2>8. Accounted'
    BY <1>1, <1>2, <1>4, <2>2, <2>3, <2>7 DEF StreamInv, StreamType, Accounted
  <2> QED BY <1>4, <2>4, <2>5, <2>6, <2>8 DEF StreamInv
<1>6. CASE kind[j] # "read"
  <2>1. /\ sent \in Outcomes /\ UNCHANGED position
        /\ kind[j] # "other" => sent # NotSent
    <3>1. sent \in {NotSent, <<"response", 0>>, <<"error", 0>>}
      BY <1>1, <1>6 DEF Results, StreamInv, StreamType, Kinds
    <3>2. sent[1] # "chunk"
      BY <3>1 DEF NotSent
    <3>3. kind[j] = "request" => sent # NotSent
      BY <1>1 DEF Results, NotSent
    <3> QED BY <1>1, <1>6, <3>1, <3>2, <3>3
            DEF Outcomes, PositionAfter, StreamInv, StreamType, Kinds
  <2>2. StreamType'
    BY <1>1, <1>2, <1>4, <2>1 DEF StreamInv, StreamType
  <2>3. Completions'
    BY <1>1, <1>2, <2>1 DEF StreamInv, StreamType, Completions
  <2>4. OpenedOnce' /\ OneReader' /\ Accounted'
    BY <1>1, <1>2, <1>6, <2>1 DEF StreamInv, StreamType, OpenedOnce, OneReader, Accounted
  <2> QED BY <1>4, <2>2, <2>3, <2>4 DEF StreamInv
<1> QED BY <1>5, <1>6

LEMMA RestKeeps ==
  ASSUME StreamInv, UNCHANGED AtWork, UNCHANGED streamVars
  PROVE  StreamInv'
BY DEF streamVars, StreamInv, StreamType, Completions, OpenedOnce, OneReader, Accounted,
       Ordered

-----------------------------------------------------------------------------
(***************************************************************************)
(* The invariant.                                                          *)
(***************************************************************************)

LEMMA HttpInitInv == HttpInit => IInv /\ StreamInv
<1> SUFFICES ASSUME HttpInit PROVE IInv /\ StreamInv
  OBVIOUS
<1>1. IInv /\ AtWork = {}
  BY InitIInv DEF HttpInit, Promise!Init
<1>2. StreamType
  <2>1. NotSent \in Outcomes /\ "other" \in Kinds /\ << >> \in Seq(Nat)
    BY DEF Outcomes, Kinds
  <2>2. kind \in [Jobs -> Kinds] /\ outcome \in [Jobs -> Outcomes]
    BY <2>1 DEF HttpInit
  <2> QED BY <2>1, <2>2 DEF HttpInit, StreamType
<1> QED BY <1>1, <1>2 DEF HttpInit, StreamInv, StreamType, Completions, OpenedOnce,
                          OneReader, Accounted, Ordered

LEMMA HttpNextInv == IInv /\ StreamInv /\ [HttpNext]_httpVars => IInv' /\ StreamInv'
<1> SUFFICES ASSUME IInv, StreamInv, [HttpNext]_httpVars PROVE IInv' /\ StreamInv'
  OBVIOUS
<1>1. IInv'
  BY StepsOfThePool, NextIInv
<1>2. OnePlace /\ at \in [Workers -> Place]
  BY DEF IInv, Counters
<1>3. CASE UNCHANGED httpVars
  <2>1. UNCHANGED vars /\ UNCHANGED streamVars
    BY <1>3 DEF httpVars
  <2> QED BY <1>1, <2>1, PoolAtRest, RestKeeps
<1>4. ASSUME NEW j \in Jobs, OtherWork(j) \/ Request(j) \/ Read(j) \/ Cancel(j) \/ Finish(j)
      PROVE  StreamInv'
  BY <1>4, OtherWorkKeeps, RequestKeeps, ReadKeeps, CancelKeeps, FinishKeeps
<1>5. ASSUME ReadInPlace \/ End
      PROVE  StreamInv'
  BY <1>5, ReadInPlaceKeeps, EndKeeps
<1>6. ASSUME SendsInline
      PROVE  StreamInv'
  <2>1. inline \in Jobs /\ inline \in AtWork /\ AtWork' = AtWork \ {inline}
    BY <1>2, <1>6, InlineIsDone DEF SendsInline, Promise!Done
  <2> QED BY <1>6, <2>1, SendsKeeps DEF SendsInline
<1>7. ASSUME NEW w \in Workers, SendsFrom(w)
      PROVE  StreamInv'
  <2>1. job[w] \in Jobs /\ job[w] \in AtWork /\ AtWork' = AtWork \ {job[w]}
    BY <1>2, <1>7, JobIsDone DEF SendsFrom, Promise!Done
  <2> QED BY <1>7, <2>1, SendsKeeps DEF SendsFrom
<1>8. ASSUME NEW w \in Workers, Take(w) \/ Wait(w) \/ Exit(w) \/ WakesByItself(w),
             UNCHANGED streamVars
      PROVE  StreamInv'
  BY <1>2, <1>8, JobTaken, JobsLeftAlone, RestKeeps
<1> QED BY <1>1, <1>3, <1>4, <1>5, <1>6, <1>7, <1>8 DEF HttpNext, HttpWorker

LEMMA HttpInvariantHolds == HttpSpec => [](IInv /\ StreamInv)
<1>1. HttpInit => IInv /\ StreamInv
  BY HttpInitInv
<1>2. IInv /\ StreamInv /\ [HttpNext]_httpVars => (IInv /\ StreamInv)'
  BY HttpNextInv
<1> QED BY <1>1, <1>2, PTL DEF HttpSpec

-----------------------------------------------------------------------------
(***************************************************************************)
(* Theorems.                                                               *)
(***************************************************************************)

(* Reads of a streamed body return its chunks in order, none missing and   *)
(* none twice, whichever tasks read, are cancelled, or close the stream    *)
(* meanwhile.                                                              *)
THEOREM BodyInOrderHolds == HttpSpec => []BodyInOrder
<1>1. StreamInv => BodyInOrder
  BY DEF StreamInv, StreamType, Ordered, BodyInOrder
<1> QED BY <1>1, HttpInvariantHolds, PTL

(* The pool keeps its promises under requests and reads, and tasks that    *)
(* are cancelled: what is proved of WorkerPool holds of HttpStreams.       *)
THEOREM PoolServesHttp ==
  HttpSpec => [](TypeOK /\ CountersAgree /\ NobodySleepsOnWork /\ QueuedJobsHaveThreads)
<1>1. IInv => TypeOK /\ CountersAgree /\ NobodySleepsOnWork /\ QueuedJobsHaveThreads
  BY IInvImplies
<1> QED BY <1>1, HttpInvariantHolds, PTL
=============================================================================
