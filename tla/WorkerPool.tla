----------------------------- MODULE WorkerPool -----------------------------
(***************************************************************************)
(* The pool of worker threads of vm/libs/background.rs: `submit`, called   *)
(* by the interpreter's thread, and `worker`, which each pool thread runs. *)
(*                                                                         *)
(* A step is what one thread does while it holds the mutex of the queue;   *)
(* waiting on the condition variable, and running a job, are between two   *)
(* steps.  A job that panics ends like any other: `run` catches the panic  *)
(* inside the job, which sends its completion all the same.                *)
(***************************************************************************)
EXTENDS Integers, Sequences, FiniteSets

CONSTANTS
  Jobs,     (* job ids; one is used again only when its job is done          *)
  Workers,  (* MAX_WORKERS: as many threads as the pool may have             *)
  NoJob

ASSUME WorkersAssumption == IsFiniteSet(Workers) /\ Workers # {}
ASSUME NoJobAssumption   == NoJob \notin Jobs

MaxWorkers == Cardinality(Workers)

VARIABLES
  jobs,     (* Queue::jobs                                                   *)
  workers,  (* Queue::workers                                                *)
  idle,     (* Queue::idle                                                   *)
  at,       (* where each thread is; "none" if it does not exist             *)
  job,      (* the job each thread runs                                      *)
  inline,   (* the job `submit` itself runs, if it does                      *)
  refused   (* whether the system ever refused the pool a thread             *)

vars == <<jobs, workers, idle, at, job, inline, refused>>

(* A thread is about to look at the queue, waits on the condition          *)
(* variable, was woken or timed out there and does not hold the mutex yet, *)
(* or runs a job.                                                          *)
Place == {"none", "looks", "waits", "woken", "timedOut", "runs"}
Threads(places) == {w \in Workers : at[w] \in places}

Init ==
  /\ jobs = << >> /\ workers = 0 /\ idle = 0
  /\ at = [w \in Workers |-> "none"]
  /\ job = [w \in Workers |-> NoJob]
  /\ inline = NoJob
  /\ refused = FALSE

-----------------------------------------------------------------------------
(***************************************************************************)
(* submit.                                                                 *)
(***************************************************************************)

(* Submitted and not done.                                                 *)
AtWork ==
  {jobs[i] : i \in DOMAIN jobs} \cup {job[w] : w \in Threads({"runs"})}
    \cup ({inline} \ {NoJob})

(* Mutants: nobody is notified; a thread is started only when none waits.  *)
NotifyNobody(places) == at' = places
OnlyIfNoneWaits(queue) == idle = 0 /\ workers < MaxWorkers

(* notify_one, once the threads are at `places`.                           *)
NotifyOne(places) ==
  LET waiting == {w \in Workers : places[w] = "waits"} IN
  IF waiting = {} THEN at' = places
  ELSE \E w \in waiting : at' = [places EXCEPT ![w] = "woken"]

NeedsThread(queue) == Len(queue) > idle /\ workers < MaxWorkers

(* The interpreter's thread does nothing else while it runs a job inline.  *)
Submits(j) == inline = NoJob /\ j \notin AtWork

(* The running threads are enough, or as many as there may be.             *)
SubmitToPool(j) ==
  /\ Submits(j)
  /\ ~NeedsThread(Append(jobs, j))
  /\ jobs' = Append(jobs, j)
  /\ NotifyOne(at)
  /\ UNCHANGED <<workers, idle, job, inline, refused>>

SubmitAndStart(j) ==
  /\ Submits(j)
  /\ NeedsThread(Append(jobs, j))
  /\ jobs' = Append(jobs, j)
  /\ \E w \in Threads({"none"}) : NotifyOne([at EXCEPT ![w] = "looks"])
  /\ workers' = workers + 1
  /\ UNCHANGED <<idle, job, inline, refused>>

(* There is no thread to be had: the ones that run will come to it, or, if *)
(* there are none, `submit` takes it back and runs it itself.              *)
SubmitRefused(j) ==
  /\ Submits(j)
  /\ NeedsThread(Append(jobs, j))
  /\ refused' = TRUE
  /\ IF workers = 0
     THEN inline' = j /\ UNCHANGED <<jobs, at>>
     ELSE jobs' = Append(jobs, j) /\ NotifyOne(at) /\ UNCHANGED inline
  /\ UNCHANGED <<workers, idle, job>>

InlineDone ==
  /\ inline # NoJob
  /\ inline' = NoJob
  /\ UNCHANGED <<jobs, workers, idle, at, job, refused>>

-----------------------------------------------------------------------------
(***************************************************************************)
(* worker.                                                                 *)
(***************************************************************************)

(* Mutant: counted down even if the thread did not wait.                   *)
IdleAlwaysWithout(w) == idle - 1

(* Back from the condition variable, `idle` is counted down again.         *)
IdleWithout(w) == IF at[w] \in {"woken", "timedOut"} THEN idle - 1 ELSE idle

(* With the mutex: the next job is taken, if there is one.                 *)
Take(w) ==
  /\ at[w] \in {"looks", "woken", "timedOut"}
  /\ jobs # << >>
  /\ job' = [job EXCEPT ![w] = Head(jobs)]
  /\ jobs' = Tail(jobs)
  /\ idle' = IdleWithout(w)
  /\ at' = [at EXCEPT ![w] = "runs"]
  /\ UNCHANGED <<workers, inline, refused>>

(* With nothing to do it waits (again), counted as idle.                   *)
Wait(w) ==
  /\ at[w] \in {"looks", "woken"}
  /\ jobs = << >>
  /\ idle' = IdleWithout(w) + 1
  /\ at' = [at EXCEPT ![w] = "waits"]
  /\ UNCHANGED <<jobs, workers, job, inline, refused>>

(* Mutants: a thread that timed out exits without looking at the queue, or *)
(* without counting itself out of the idle ones.                           *)
ExitBlindly(w) ==
  /\ at[w] = "timedOut"
  /\ idle' = IdleWithout(w)
  /\ workers' = workers - 1
  /\ at' = [at EXCEPT ![w] = "none"]
  /\ UNCHANGED <<jobs, job, inline, refused>>
ExitCounted(w) ==
  /\ at[w] = "timedOut" /\ jobs = << >>
  /\ workers' = workers - 1
  /\ at' = [at EXCEPT ![w] = "none"]
  /\ UNCHANGED <<idle, jobs, job, inline, refused>>

(* After IDLE_EXIT with nothing to do, the thread ends.                    *)
Exit(w) ==
  /\ at[w] = "timedOut"
  /\ jobs = << >>
  /\ idle' = IdleWithout(w)
  /\ workers' = workers - 1
  /\ at' = [at EXCEPT ![w] = "none"]
  /\ UNCHANGED <<jobs, job, inline, refused>>

(* wait_timeout ends by itself: after IDLE_EXIT, or for no reason.         *)
WakesByItself(w) ==
  /\ at[w] = "waits"
  /\ \E place \in {"timedOut", "woken"} : at' = [at EXCEPT ![w] = place]
  /\ UNCHANGED <<jobs, workers, idle, job, inline, refused>>

(* The job returned or panicked; the thread looks for the next one.        *)
JobEnds(w) ==
  /\ at[w] = "runs"
  /\ job' = [job EXCEPT ![w] = NoJob]
  /\ at' = [at EXCEPT ![w] = "looks"]
  /\ UNCHANGED <<jobs, workers, idle, inline, refused>>

Worker(w) == Take(w) \/ Wait(w) \/ Exit(w) \/ JobEnds(w)

Next ==
  \/ \E j \in Jobs : SubmitToPool(j) \/ SubmitAndStart(j) \/ SubmitRefused(j)
  \/ InlineDone
  \/ \E w \in Workers : Worker(w) \/ WakesByItself(w)

(* Threads go on, and jobs end.  Nothing is assumed of how soon a wait     *)
(* times out: a job that waits for that is 30 seconds late.                *)
Spec ==
  /\ Init /\ [][Next]_vars
  /\ WF_vars(InlineDone)
  /\ \A w \in Workers : WF_vars(Worker(w))

-----------------------------------------------------------------------------
(***************************************************************************)
(* Properties.                                                             *)
(***************************************************************************)

(* The counters are the numbers of threads they stand for (a drift of      *)
(* `idle` would stop the pool from growing, one of `workers` would let it  *)
(* grow past MAX_WORKERS), and each job is in one place.                   *)
CountersAgree ==
  /\ workers = Cardinality(Workers \ Threads({"none"}))
  /\ idle = Cardinality(Threads({"waits", "woken", "timedOut"}))
  /\ Cardinality(AtWork) =
       Len(jobs) + Cardinality(Threads({"runs"})) + (IF inline = NoJob THEN 0 ELSE 1)

(* No thread is left waiting while there are more queued jobs than threads *)
(* awake to take them: no notification is lost, and none is needed twice.  *)
NobodySleepsOnWork ==
  Threads({"waits"}) # {} =>
    Len(jobs) <= Cardinality(Threads({"looks", "woken", "timedOut"}))

(* "starting another worker if every running one is busy and the pool is   *)
(* not full yet": as long as the system had threads to give, a queued job  *)
(* has a thread that is not busy, unless all MAX_WORKERS are there.        *)
QueuedJobsHaveThreads ==
  \/ Len(jobs) <= Cardinality(Workers \ Threads({"none", "runs"}))
  \/ workers = MaxWorkers
  \/ refused

(* The pool does what Tasks assumes of background work: every job ends,    *)
(* once, even if the system refuses threads and nothing ever times out.    *)
Promise == INSTANCE Background WITH atWork <- AtWork
KeepsPromise == Promise!Spec

(* The state is well formed.                                               *)
TypeOK ==
  /\ jobs \in Seq(Jobs)
  /\ workers \in Nat /\ idle \in Nat
  /\ at \in [Workers -> Place]
  /\ job \in [Workers -> Jobs \cup {NoJob}]
  /\ inline \in Jobs \cup {NoJob}
  /\ refused \in BOOLEAN
=============================================================================
