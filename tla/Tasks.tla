-------------------------------- MODULE Tasks --------------------------------
(***************************************************************************)
(* The task scheduler (vm/libs/task.rs) on top of the coroutines, and the  *)
(* interpreter's side of background work (vm/libs/background.rs).          *)
(*                                                                         *)
(* Time is what is left of each wait: Tick takes one unit off every        *)
(* deadline at once, wherever the interpreter is.  A worker thread is seen *)
(* only through the completion it eventually sends.  Scripts do whatever   *)
(* the libraries let them.                                                 *)
(***************************************************************************)
EXTENDS Coroutines

CONSTANTS
  Delays,         (* the units of time a script may wait or delay for        *)
  JobIds,         (* the background jobs that may be referred to at once     *)
  MaxEntries,     (* bounds the entries of the queues a script can fill      *)
  DepthLimit,     (* whether scripts may recurse up to the call depth limit  *)
  ManualResume,   (* whether scripts resume or queue a coroutine that is     *)
                  (* already waiting for the scheduler                       *)
  Calls           (* the library calls scripts make, of AllCalls             *)

ASSUME DelaysAssumption == Delays \subseteq Nat
ASSUME JobIdsAssumption == JobIds \subseteq Nat
ASSUME FlagsAssumption  == {DepthLimit, ManualResume} \subseteq BOOLEAN

AllCalls == {"create", "resume", "close", "yield", "spawn", "defer", "delay",
             "wait", "cancel", "background", "poll", "try", "require"}
ASSUME CallsAssumption  == Calls \subseteq AllCalls

VARIABLES
  deferred,   (* Scheduler::deferred                                         *)
  sleeping,   (* Scheduler::sleeping, by deadline and then by age            *)
  ready,      (* Scheduler::ready                                            *)
  pollers,    (* Scheduler::pollers                                          *)
  waiting,    (* Scheduler::waiting: the thread each job id is filed under   *)
  atWork,     (* jobs the worker pool has not finished                       *)
  completions,(* the completion queue                                        *)
  taskIds,    (* Scheduler::task_ids                                         *)
  failed,     (* whether Scheduler::failed is more than zero                 *)
  outcome     (* how the program ended, or that it has not                   *)

taskVars == <<deferred, sleeping, ready, pollers, waiting, atWork,
              completions, taskIds, failed, outcome>>
queues == <<deferred, sleeping, ready, pollers, waiting, atWork, completions>>
vars == <<coVars, taskVars>>

(* One queued resumption: who, the suspension it answers ("start" for the  *)
(* ones made by defer and delay), and whether it raises an error there.    *)
Entry(t, at, fails) == [t |-> t, at |-> at, fails |-> fails]
Start(left) == At("start", left, 0)
Entries == [t : Threads, at : [k : ParkKind \cup {"start"}, left : Nat, id : Nat],
            fails : BOOLEAN]

(* What a worker sends; `fails` tells what `finish` will come to.          *)
Completion == [id : JobIds, fails : BOOLEAN]

(* A scheduler loop: run_until with a deadline, run_until(None), or one    *)
(* budgeted pass.  `due` is what is left of the pass; `deep` whether the   *)
(* script that called it stood at the call depth limit.                    *)
Loop(mode, until, deep) ==
  [k |-> "sched", mode |-> mode, until |-> until, due |-> 0, ran |-> FALSE,
   phase |-> "pass", deep |-> deep]

LoopActivation ==
  [k : {"sched"}, mode : {"until", "idle", "once"}, until : Nat, due : Nat,
   ran : BOOLEAN, phase : {"pass", "run"}, deep : BOOLEAN]

Deep == IF DepthLimit THEN BOOLEAN ELSE {FALSE}

Init ==
  /\ CoInit
  /\ deferred = << >> /\ sleeping = << >> /\ ready = << >> /\ pollers = << >>
  /\ waiting = [j \in JobIds |-> None]
  /\ atWork = {}
  /\ completions = << >>
  /\ taskIds = {}
  /\ failed = FALSE
  /\ outcome = "running"

-----------------------------------------------------------------------------
(***************************************************************************)
(* Operations of the scheduler's queues.                                   *)
(***************************************************************************)

(* sleep_until: after the sleepers with the same or an earlier deadline.   *)
SleepUntil(e) ==
  LET before == Cardinality({i \in DOMAIN sleeping :
                               sleeping[i].at.left <= e.at.left})
  IN InsertAt(sleeping, before + 1, e)

(* What `retain` leaves of a queue without the entries of t.               *)
Without(queue, t) == Retain(queue, {i \in DOMAIN queue : queue[i].t # t})

(* Mutant: a unit of time early.                                           *)
IsDueSoon(e) == e.at.left <= 1

(* The entries whose time has come, and the ones whose time has not.       *)
IsDue(e) == e.at.left = 0
Due(queue)    == Retain(queue, {i \in DOMAIN queue : IsDue(queue[i])})
NotDue(queue) == Retain(queue, {i \in DOMAIN queue : ~IsDue(queue[i])})

(* Scheduler::forget.                                                      *)
Forget(t) ==
  /\ deferred' = Without(deferred, t)
  /\ sleeping' = Without(sleeping, t)
  /\ pollers' = Without(pollers, t)
  /\ ready' = Without(ready, t)
  /\ waiting' = [j \in JobIds |-> IF waiting[j] = t THEN None ELSE waiting[j]]
  /\ taskIds' = taskIds \ {t}

(* Scheduler::is_idle.                                                     *)
IsIdle ==
  /\ deferred = << >> /\ sleeping = << >> /\ ready = << >> /\ pollers = << >>
  /\ \A j \in JobIds : waiting[j] = None

(* Mutant: outstanding background work keeps no program alive.             *)
MayEndWaiting == TRUE

NothingWaiting == \A j \in JobIds : waiting[j] = None

(* Ids come from a counter and are never reused; here one is reused only   *)
(* when neither the scheduler nor a worker nor the queue refers to it.     *)
FreeJobs ==
  {j \in JobIds : /\ waiting[j] = None
                  /\ j \notin atWork
                  /\ \A i \in DOMAIN completions : completions[i].id # j}

(* file_completion of each of `arrived`: the ones nobody waits for are     *)
(* dropped.                                                                *)
Filed(arrived) ==
  LET wanted == Retain(arrived, {i \in DOMAIN arrived :
                                   waiting[arrived[i].id] # None})
  IN [i \in DOMAIN wanted |->
        Entry(waiting[wanted[i].id], At("job", 0, wanted[i].id), wanted[i].fails)]

StillWaiting(arrived) ==
  [j \in JobIds |-> IF \E i \in DOMAIN arrived : arrived[i].id = j
                    THEN None ELSE waiting[j]]

(* What a pump of the event loop comes to: no event, some, or an error.    *)
Pumped == IF pollers = << >> THEN {"none"} ELSE {"none", "events", "error"}

(* service_pollers: events go to the poller that waits longest, the others *)
(* are woken when their time is over, and an error wakes them all.         *)
Unfed(pumped) == IF pumped = "events" THEN Tail(pollers) ELSE pollers
Fed(pumped)   == IF pumped = "events" THEN <<Head(pollers)>> ELSE << >>

(* Mutants: no poller is woken by its timeout; the ones behind a poller    *)
(* that got events are not put back.                                       *)
ServedEvents(pumped) ==
  IF pumped = "error"
  THEN [i \in DOMAIN pollers |-> Entry(pollers[i].t, pollers[i].at, TRUE)]
  ELSE Fed(pumped)
UnservedLost(pumped) == IF pumped = "none" THEN NotDue(pollers) ELSE << >>

Served(pumped) ==
  IF pumped = "error"
  THEN [i \in DOMAIN pollers |-> Entry(pollers[i].t, pollers[i].at, TRUE)]
  ELSE Fed(pumped) \o Due(Unfed(pumped))

Unserved(pumped) == IF pumped = "error" THEN << >> ELSE NotDue(Unfed(pumped))

-----------------------------------------------------------------------------
(***************************************************************************)
(* Resuming and suspending.                                                *)
(***************************************************************************)

(* coroutine_resume of a suspended (or new) coroutine, with an error when  *)
(* `fails`.  `via` is "task" when resume_with called it, which counts a    *)
(* failure and then takes a coroutine that is not suspended off the tasks. *)
Resume(t, via, base, deep, fails) ==
  LET raised  == t \in resumeError \/ (fails /\ park[t].k # "fresh")
      counted == via = "task" IN
  /\ Resumable(t)
  /\ \/ /\ deep
        /\ ResumeOverflows(t, IF raised THEN {t} ELSE {}, base)
        /\ failed' = (failed \/ counted)
        /\ UNCHANGED sleeping
     \/ /\ ~deep /\ raised
        /\ DieOfError(t, base)
        /\ failed' = (failed \/ counted)
        /\ UNCHANGED sleeping
     \/ /\ ~deep /\ raised
        /\ ErrorTakenForYield(t, base)
        /\ UNCHANGED <<failed, sleeping>>
     \/ /\ ~deep /\ ~raised /\ t \in YieldingNatives
        /\ \E d \in Delays :
             sleeping' = SleepUntil(Entry(t, At("timer", d, 0), FALSE))
        /\ DieYielding(t, base)
        /\ failed' = (failed \/ counted)
     \/ /\ ~deep /\ ~raised /\ t \notin YieldingNatives
        /\ Switch(t, via, base)
        /\ UNCHANGED <<failed, sleeping>>

(* The end of resume_with: a thread that is no longer suspended is taken   *)
(* off the tasks.  (While it runs that is still to come, in SwitchBack.)   *)
TasksAfter(t, ids) == IF status'[t] = "dead" THEN ids \ {t} ELSE ids

(* The running coroutine yields inside a native that will be answered.     *)
Suspend(at) == SwitchBack("suspended", at) /\ isYielding' = FALSE

(* The innermost activation is the running coroutine's own.                *)
BodyRuns == ScriptRuns /\ Executing.k = "co"

(* current_task: the running coroutine is a task and can yield here.       *)
InTask == ScriptRuns /\ Yieldable /\ currentCo \in taskIds

-----------------------------------------------------------------------------
(***************************************************************************)
(* Steps of scripts.                                                       *)
(***************************************************************************)

QueueRoom ==
  Len(deferred) + Len(sleeping) + Len(ready) + Len(pollers) < MaxEntries

Queued(t) ==
  \E q \in {deferred, sleeping, ready, pollers} :
    \E i \in DOMAIN q : q[i].t = t

MayHandOver(t) ==
  ManualResume \/ (/\ park[t].k \in {"awake", "fresh", "yield"}
                   /\ Resumable(t)
                   /\ ~Queued(t))

Create(t) == ScriptRuns /\ CreateCoroutine(t) /\ UNCHANGED taskVars

(* coroutine.resume, and calling what coroutine.wrap returned.  Resuming a *)
(* coroutine that is not suspended returns false and changes nothing.      *)
CoroutineResume(t) ==
  /\ ScriptRuns /\ MayHandOver(t) /\ status[t] = "suspended"
  /\ \E deep \in Deep : Resume(t, "resume", stack, deep, FALSE)
  /\ UNCHANGED <<deferred, ready, pollers, waiting, atWork, completions,
                 taskIds, outcome>>

(* task.spawn.                                                             *)
TaskSpawn(t) ==
  /\ ScriptRuns /\ MayHandOver(t)
  /\ \/ /\ \E deep \in Deep : Resume(t, "task", stack, deep, FALSE)
        /\ taskIds' = TasksAfter(t, taskIds \cup {t})
     \/ /\ ~Resumable(t)
        /\ taskIds' = taskIds \ {t}
        /\ UNCHANGED <<coVars, sleeping, failed>>
  /\ UNCHANGED <<deferred, ready, pollers, waiting, atWork, completions, outcome>>

(* task.defer.                                                             *)
TaskDefer(t) ==
  /\ ScriptRuns /\ MayHandOver(t) /\ QueueRoom
  /\ AsThread(t)
  /\ taskIds' = taskIds \cup {t}
  /\ deferred' = Append(deferred, Entry(t, Start(0), FALSE))
  /\ UNCHANGED <<stack, currentCo, nativeCalls, yieldFloor, isYielding,
                 resumeError, sleeping, ready, pollers, waiting, atWork,
                 completions, failed, outcome>>

(* task.delay.                                                             *)
TaskDelay(t, d) ==
  /\ ScriptRuns /\ MayHandOver(t) /\ QueueRoom
  /\ AsThread(t)
  /\ taskIds' = taskIds \cup {t}
  /\ sleeping' = SleepUntil(Entry(t, Start(d), FALSE))
  /\ UNCHANGED <<stack, currentCo, nativeCalls, yieldFloor, isYielding,
                 resumeError, deferred, ready, pollers, waiting, atWork,
                 completions, failed, outcome>>

(* task.wait where the running coroutine can yield.                        *)
TaskWait(d) ==
  /\ ScriptRuns /\ Yieldable /\ QueueRoom
  /\ sleeping' = SleepUntil(Entry(currentCo, At("timer", d, 0), FALSE))
  /\ Suspend(At("timer", d, 0))
  /\ UNCHANGED <<deferred, ready, pollers, waiting, atWork, completions,
                 taskIds, failed, outcome>>

(* task.wait anywhere else: it blocks, running the scheduler meanwhile.    *)
TaskWaitBlocking(d) ==
  /\ ScriptRuns /\ ~Yieldable /\ MayNest
  /\ \E deep \in Deep : stack' = Append(stack, Loop("until", d, deep))
  /\ UNCHANGED <<status, park, currentCo, nativeCalls, yieldFloor, isYielding,
                 resumeError, taskVars>>

(* background::run in a task: expect_completion, submit and the yield.     *)
(* (Elsewhere the work runs in place, and nothing here changes.)           *)
BackgroundRun ==
  /\ InTask
  /\ FreeJobs # {}
  /\ LET job == Min(FreeJobs) IN
     /\ waiting' = [waiting EXCEPT ![job] = currentCo]
     /\ atWork' = atWork \cup {job}
     /\ Suspend(At("job", 0, job))
  /\ UNCHANGED <<deferred, sleeping, ready, pollers, completions, taskIds,
                 failed, outcome>>

(* ui.poll with a timeout, in a task: park_poller.                         *)
PollParked(d) ==
  /\ InTask /\ QueueRoom /\ d > 0
  /\ pollers' = Append(pollers, Entry(currentCo, At("poll", d, 0), FALSE))
  /\ Suspend(At("poll", d, 0))
  /\ UNCHANGED <<deferred, sleeping, ready, waiting, atWork, completions,
                 taskIds, failed, outcome>>

(* ui.poll elsewhere, or with a zero timeout: next_due files what has      *)
(* arrived, the events are pumped in place, and run_for makes one pass.    *)
PollInPlace ==
  /\ ScriptRuns /\ MayNest
  /\ ready' = ready \o Filed(completions)
  /\ waiting' = StillWaiting(completions)
  /\ completions' = << >>
  /\ \E deep \in Deep : stack' = Append(stack, Loop("once", 0, deep))
  /\ UNCHANGED <<status, park, currentCo, nativeCalls, yieldFloor, isYielding,
                 resumeError, deferred, sleeping, pollers, atWork, taskIds,
                 failed, outcome>>

(* task.cancel: unscheduled in any case, and closed if it is suspended.    *)
(* For one that is running or normal the script gets an error afterwards.  *)
TaskCancel(t) ==
  /\ ScriptRuns /\ status[t] # "none"
  /\ Forget(t)
  /\ IF status[t] = "suspended" THEN CloseCoroutine(t) ELSE UNCHANGED coVars
  /\ UNCHANGED <<atWork, completions, failed, outcome>>

(* coroutine.close.                                                        *)
CoroutineClose(t) ==
  /\ ScriptRuns /\ CloseCoroutine(t) /\ UNCHANGED taskVars

(* coroutine.yield.                                                        *)
CoroutineYield ==
  /\ ScriptRuns /\ Yieldable
  /\ Suspend(Yielded)
  /\ UNCHANGED taskVars

(* The body of the running coroutine returns.                              *)
BodyReturns ==
  /\ BodyRuns
  /\ SwitchBack("dead", Awake)
  /\ taskIds' = IF Executing.via = "task" THEN taskIds \ {Executing.t} ELSE taskIds
  /\ UNCHANGED <<isYielding, queues, failed, outcome>>

(* The body of the running coroutine raises an error.  With is_yielding    *)
(* left set, `resume` takes the error for a yield.                         *)
BodyRaises ==
  /\ BodyRuns
  /\ \/ /\ ~isYielding
        /\ SwitchBack("dead", Awake)
        /\ taskIds' = IF Executing.via = "task" THEN taskIds \ {Executing.t}
                                                ELSE taskIds
        /\ failed' = (failed \/ Executing.via = "task")
        /\ UNCHANGED isYielding
     \/ /\ isYielding
        /\ Suspend(Yielded)
        /\ UNCHANGED <<taskIds, failed>>
  /\ UNCHANGED <<queues, outcome>>

CallBack   == EnterNative /\ UNCHANGED taskVars
CallReturn == LeaveNative /\ UNCHANGED taskVars
Require       == EnterModule /\ UNCHANGED taskVars
RequireReturn == LeaveModule /\ UNCHANGED taskVars

(* The main chunk returns: execute_program goes on with run_until_idle.    *)
MainReturns ==
  /\ ScriptRuns /\ Executing.k = "main"
  /\ stack' = <<Loop("idle", 0, FALSE)>>
  /\ UNCHANGED <<status, park, currentCo, nativeCalls, yieldFloor, isYielding,
                 resumeError, taskVars>>

(* An error in the main chunk ends the program; its tasks never run.       *)
MainRaises ==
  /\ ScriptRuns /\ Executing.k = "main"
  /\ stack' = << >>
  /\ outcome' = "error"
  /\ UNCHANGED <<status, park, currentCo, nativeCalls, yieldFloor, isYielding,
                 resumeError, queues, taskIds, failed>>

-----------------------------------------------------------------------------
(***************************************************************************)
(* Steps of the scheduler loop that is the innermost activation.           *)
(***************************************************************************)

LoopIn(phase) ==
  stack # << >> /\ Executing.k = "sched" /\ Executing.phase = phase

(* The stack with the innermost loop changed.                              *)
LoopBecomes(loop) == Append(Front(stack), loop)
NextPass == LoopBecomes([Executing EXCEPT !.phase = "pass", !.ran = FALSE])

IdleCoVars == <<status, park, currentCo, nativeCalls, yieldFloor, isYielding,
                resumeError>>

(* run_pass up to its loop: pollers, finished work, deferred tasks and due *)
(* sleepers become ready, and only as many as there are now are run.       *)
BeginPass ==
  /\ LoopIn("pass")
  /\ \E pumped \in Pumped :
       LET queue == ready \o Served(pumped) \o Filed(completions)
                          \o deferred \o Due(sleeping)
       IN /\ ready' = queue
          /\ pollers' = Unserved(pumped)
          /\ stack' = LoopBecomes([Executing EXCEPT !.phase = "run",
                                                    !.due = Len(queue)])
  /\ sleeping' = NotDue(sleeping)
  /\ deferred' = << >>
  /\ waiting' = StillWaiting(completions)
  /\ completions' = << >>
  /\ UNCHANGED <<IdleCoVars, atWork, taskIds, failed, outcome>>

(* One turn of run_pass's loop: the entry in front is taken and resumed,   *)
(* or dropped if its thread is not suspended any more.                     *)
ResumeNext ==
  /\ LoopIn("run") /\ Executing.due > 0 /\ ready # << >>
  /\ LET e    == Head(ready)
         base == LoopBecomes([Executing EXCEPT !.due = @ - 1, !.ran = TRUE])
     IN \/ /\ status[e.t] = "suspended"
           /\ Resume(e.t, "task", base, Executing.deep, e.fails)
           /\ taskIds' = TasksAfter(e.t, taskIds)
        \/ /\ status[e.t] # "suspended"
           /\ stack' = base
           /\ taskIds' = taskIds \ {e.t}
           /\ UNCHANGED <<IdleCoVars, sleeping, failed>>
  /\ ready' = Tail(ready)
  /\ UNCHANGED <<deferred, pollers, waiting, atWork, completions, outcome>>

(* The pass is over: nothing is due, or run_for's budget is spent.         *)
PassOver ==
  /\ LoopIn("run")
  /\ \/ Executing.due = 0 \/ ready = << >>
     \/ Executing.mode = "once" /\ Executing.ran

(* Mutant: a blocking wait only ends on a pass that ran nothing.           *)
DeadlineWhenIdle ==
  Executing.mode = "until" /\ Executing.until = 0 /\ ~Executing.ran

Deadline == Executing.mode = "until" /\ Executing.until = 0

(* run_until's `wake` has come: its deadline, a sleeper's or a poller's.   *)
WakeHasCome ==
  \/ Deadline
  \/ \E i \in DOMAIN sleeping : IsDue(sleeping[i])
  \/ \E i \in DOMAIN pollers : IsDue(pollers[i])

NoDeadline ==
  Executing.mode = "idle" /\ sleeping = << >> /\ pollers = << >>

(* run_for returns to ui.poll, or run_until to task.wait.                  *)
LoopReturns ==
  /\ PassOver /\ (Executing.mode = "once" \/ Deadline)
  /\ stack' = Front(stack)
  /\ UNCHANGED <<IdleCoVars, taskVars>>

(* A pass that ran something is followed by another one.                   *)
PassAgain ==
  /\ PassOver /\ Executing.mode # "once" /\ ~Deadline /\ Executing.ran
  /\ stack' = NextPass
  /\ UNCHANGED <<IdleCoVars, taskVars>>

(* The pass ran nothing, so run_until waits for something to happen.       *)
LoopWaits ==
  PassOver /\ Executing.mode # "once" /\ ~Deadline /\ ~Executing.ran

(* run_until_idle: no task is waiting any more, and the program is over.   *)
ProgramEnds ==
  /\ LoopWaits /\ NoDeadline /\ NothingWaiting
  /\ stack' = Front(stack)
  /\ outcome' = IF failed THEN "failed" ELSE "ok"
  /\ UNCHANGED <<IdleCoVars, queues, taskIds, failed>>

(* With a poller parked, it waits in the event loop, for at most until the *)
(* next deadline: pumping again, with the pollers that are over.           *)
WaitForEvents ==
  /\ LoopWaits /\ pollers # << >>
  /\ \E pumped \in Pumped :
       /\ ready' = ready \o Served(pumped)
       /\ pollers' = Unserved(pumped)
  /\ stack' = NextPass
  /\ UNCHANGED <<IdleCoVars, deferred, sleeping, waiting, atWork, completions,
                 taskIds, failed, outcome>>

(* With nothing but deadlines to wait for, it sleeps.                      *)
WaitForDeadline ==
  /\ LoopWaits /\ pollers = << >> /\ NothingWaiting /\ ~NoDeadline
  /\ WakeHasCome
  /\ stack' = NextPass
  /\ UNCHANGED <<IdleCoVars, taskVars>>

(* With background work outstanding, it waits on the completion queue.     *)
WaitForCompletion ==
  /\ LoopWaits /\ pollers = << >> /\ ~NothingWaiting
  /\ \/ /\ completions # << >>
        /\ LET arrived == <<Head(completions)>> IN
           /\ ready' = ready \o Filed(arrived)
           /\ waiting' = StillWaiting(arrived)
        /\ completions' = Tail(completions)
     \/ /\ completions = << >> /\ WakeHasCome
        /\ UNCHANGED <<ready, waiting, completions>>
  /\ stack' = NextPass
  /\ UNCHANGED <<IdleCoVars, deferred, sleeping, pollers, atWork, taskIds,
                 failed, outcome>>

-----------------------------------------------------------------------------
(***************************************************************************)
(* The world around the interpreter.                                       *)
(***************************************************************************)

(* Mutant: a job that panics sends no completion.                          *)
JobDoneUnlessItPanics(j) ==
  /\ j \in atWork
  /\ outcome = "running"
  /\ atWork' = atWork \ {j}
  /\ \E fails \in BOOLEAN :
       completions' = IF fails THEN completions
                      ELSE Append(completions, [id |-> j, fails |-> FALSE])
  /\ UNCHANGED <<coVars, deferred, sleeping, ready, pollers, waiting, taskIds,
                 failed, outcome>>

(* A worker finished a job and sent its completion.  The job, or the       *)
(* `finish` that turns its result into values, may have failed.            *)
JobDone(j) ==
  /\ j \in atWork
  /\ outcome = "running"
  /\ atWork' = atWork \ {j}
  /\ \E fails \in BOOLEAN :
       completions' = Append(completions, [id |-> j, fails |-> fails])
  /\ UNCHANGED <<coVars, deferred, sleeping, ready, pollers, waiting, taskIds,
                 failed, outcome>>

Less(n) == IF n > 0 THEN n - 1 ELSE 0
Later(at) == At(at.k, Less(at.left), at.id)
Sooner(queue) ==
  [i \in DOMAIN queue |-> Entry(queue[i].t, Later(queue[i].at), queue[i].fails)]

TimeLeft ==
  \/ \E q \in {sleeping, pollers} : \E i \in DOMAIN q : q[i].at.left > 0
  \/ \E i \in DOMAIN stack : stack[i].k = "sched" /\ stack[i].until > 0

(* A unit of time goes by for everything that is waiting.                  *)
Tick ==
  /\ TimeLeft /\ outcome = "running"
  /\ sleeping' = Sooner(sleeping)
  /\ pollers' = Sooner(pollers)
  /\ stack' = [i \in DOMAIN stack |->
                 IF stack[i].k = "sched"
                 THEN [stack[i] EXCEPT !.until = Less(@)] ELSE stack[i]]
  /\ park' = [t \in Threads |-> Later(park[t])]
  /\ UNCHANGED <<status, currentCo, nativeCalls, yieldFloor, isYielding,
                 resumeError, deferred, ready, waiting, atWork, completions,
                 taskIds, failed, outcome>>

Terminated == outcome # "running" /\ UNCHANGED vars

ScriptStep ==
  \/ "create"  \in Calls /\ \E t \in Threads : Create(t)
  \/ "resume"  \in Calls /\ \E t \in Threads : CoroutineResume(t)
  \/ "close"   \in Calls /\ \E t \in Threads : CoroutineClose(t)
  \/ "yield"   \in Calls /\ CoroutineYield
  \/ "spawn"   \in Calls /\ \E t \in Threads : TaskSpawn(t)
  \/ "defer"   \in Calls /\ \E t \in Threads : TaskDefer(t)
  \/ "delay"   \in Calls /\ \E t \in Threads, d \in Delays : TaskDelay(t, d)
  \/ "wait"    \in Calls /\ \E d \in Delays : TaskWait(d) \/ TaskWaitBlocking(d)
  \/ "cancel"  \in Calls /\ \E t \in Threads : TaskCancel(t)
  \/ "background" \in Calls /\ BackgroundRun
  \/ "poll"    \in Calls /\ (PollInPlace \/ \E d \in Delays : PollParked(d))
  \/ "try"     \in Calls /\ (CallBack \/ CallReturn)
  \/ "require" \in Calls /\ (Require \/ RequireReturn)
  \/ BodyReturns \/ BodyRaises
  \/ MainReturns \/ MainRaises

SchedulerStep ==
  \/ BeginPass \/ ResumeNext
  \/ LoopReturns \/ PassAgain \/ ProgramEnds
  \/ WaitForEvents \/ WaitForDeadline \/ WaitForCompletion

Next ==
  \/ ScriptStep
  \/ SchedulerStep
  \/ \E j \in JobIds : JobDone(j)
  \/ Tick
  \/ Terminated

Spec == Init /\ [][Next]_vars

(***************************************************************************)
(* Fairness.  The interpreter and the workers go on, and time passes.  Of  *)
(* scripts it is only assumed that none computes for ever: whenever one    *)
(* has control again and again, it gives it back (a coroutine by waiting,  *)
(* yielding or ending; a function a native called, by returning; the main  *)
(* chunk by a blocking wait or its end).  They may still loop for ever     *)
(* around their waits.                                                     *)
(***************************************************************************)
GivesBack(t) ==
  /\ currentCo = t
  /\ \/ BodyReturns \/ BodyRaises
     \/ "wait" \in Calls /\ \E d \in Delays : TaskWait(d)
     \/ "background" \in Calls /\ BackgroundRun
     \/ "poll" \in Calls /\ \E d \in Delays : PollParked(d)
     \/ "yield" \in Calls /\ CoroutineYield

NestedReturns(n) == Len(stack) = n /\ (CallReturn \/ RequireReturn)

MainGivesBack ==
  /\ ScriptRuns /\ Executing.k = "main"
  /\ \/ MainReturns
     \/ "wait" \in Calls /\ \E d \in Delays : TaskWaitBlocking(d)

Fairness ==
  /\ WF_vars(SchedulerStep)
  /\ WF_vars(Tick)
  /\ \A j \in JobIds : WF_vars(JobDone(j))
  /\ \A t \in Threads : SF_vars(GivesBack(t))
  /\ \A n \in 1..(MaxNested + 1 + Cardinality(Threads)) : SF_vars(NestedReturns(n))
  /\ SF_vars(MainGivesBack)

FairSpec == Spec /\ Fairness

-----------------------------------------------------------------------------
(***************************************************************************)
(* Properties.                                                             *)
(***************************************************************************)

(* The state is well formed; the queues hold nothing but entries.          *)
TypeOK ==
  /\ stack \in Seq(CoActivation \cup PlainActivation \cup LoopActivation)
  /\ status \in [Threads -> Status]
  /\ park \in [Threads -> Suspension]
  /\ currentCo \in Threads \cup {None}
  /\ nativeCalls \in Nat /\ yieldFloor \in Nat
  /\ isYielding \in BOOLEAN
  /\ resumeError \subseteq Threads
  /\ deferred \in Seq(Entries) /\ sleeping \in Seq(Entries)
  /\ ready \in Seq(Entries) /\ pollers \in Seq(Entries)
  /\ waiting \in [JobIds -> Threads \cup {None}]
  /\ atWork \subseteq JobIds
  /\ completions \in Seq(Completion)
  /\ taskIds \subseteq Threads
  /\ failed \in BOOLEAN
  /\ outcome \in {"running", "ok", "failed", "error"}

(* A task that waits for time, for background work or for events is always *)
(* referred to by a queue entry (or a job) that answers that very wait:    *)
(* no interleaving of passes, cancellations and nested schedulers loses    *)
(* a wake-up, while no resumption runs into the call depth limit and no    *)
(* native body leaves is_yielding set.                                     *)
Holds(queue, t, kind) ==
  \E i \in DOMAIN queue : queue[i].t = t /\ queue[i].at.k = kind

HoldsResult(t, job) ==
  \E i \in DOMAIN ready :
    ready[i].t = t /\ ready[i].at.k = "job" /\ ready[i].at.id = job

NoLostWake ==
  \A t \in Threads :
    /\ park[t].k = "timer" => Holds(sleeping, t, "timer") \/ Holds(ready, t, "timer")
    /\ park[t].k = "poll"  => Holds(pollers, t, "poll") \/ Holds(ready, t, "poll")
    /\ park[t].k = "job"   => \/ \E j \in JobIds : j = park[t].id /\ waiting[j] = t
                             \/ HoldsResult(t, park[t].id)

(* `waiting` refers to a job that a worker still has or whose completion   *)
(* is in the queue: the loop that waits for it is not waiting for ever.    *)
WaitedJobsRun ==
  \A j \in JobIds :
    waiting[j] # None =>
      j \in atWork \/ \E i \in DOMAIN completions : completions[i].id = j

(* run_until_idle returns only when is_idle (its debug_assert).            *)
EndsIdle == outcome \in {"ok", "failed"} => IsIdle

(* Every entry for a suspended coroutine answers the suspension it is in:  *)
(* the native it waits in returns what that native is documented to        *)
(* return, and `task.wait` not before its time.                            *)
Answers(e, t) ==
  status[t] = "suspended" =>
    IF e.at.k = "start" THEN park[t].k \in {"fresh", "yield"}
    ELSE park[t].k = e.at.k /\ park[t].id = e.at.id

WakesAnswerWaits ==
  /\ \A q \in {deferred, sleeping, ready, pollers} :
       \A i \in DOMAIN q : Answers(q[i], q[i].t)
  /\ \A j \in JobIds :
       waiting[j] # None =>
         (status[waiting[j]] = "suspended" => park[waiting[j]] = At("job", 0, j))
  /\ \A i \in DOMAIN ready :
       (ready[i].at.k = "timer" /\ status[ready[i].t] = "suspended")
         => park[ready[i].t].left = 0

(* A task's wait for time, for background work or for events always comes  *)
(* to an end, even while other tasks wait with no delay in endless loops   *)
(* (unless an error in the main chunk ends the whole program).             *)
WaitsEnd ==
  \A t \in Threads, kind \in {"timer", "job", "poll"} :
    park[t].k = kind ~> park[t].k # kind \/ outcome = "error"

(* Whatever the main chunk (or the loop that replaced it) set off returns  *)
(* to it: no pass of the scheduler goes on for ever.                       *)
ControlComesBack == Len(stack) > 1 ~> Len(stack) <= 1

(* A coroutine the scheduler runs is a task while it runs, so that a call  *)
(* in it that would block suspends only that task.                         *)
RunningTasksAreTasks ==
  \A i \in DOMAIN stack :
    IsCo(i) /\ stack[i].via = "task" => stack[i].t \in taskIds
=============================================================================
