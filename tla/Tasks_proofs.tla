----------------------------- MODULE Tasks_proofs -----------------------------
(***************************************************************************)
(* Theorems about Tasks for any number of threads, jobs, delays and queue  *)
(* entries.  In this order: the types and the discipline of coroutines;    *)
(* the queues as sets of entries, and what the scheduler leaves in them;   *)
(* background jobs; scheduler loops and the end of the program; where      *)
(* coroutines are suspended; that no wake-up is lost; and that wake-ups    *)
(* answer the suspensions they were made for.                              *)
(***************************************************************************)
EXTENDS Tasks, Coroutines_proofs

(* What may be on the stack.  Only `require` puts module bodies there.     *)
PlainKinds == {"main", "native"} \cup (IF "require" \in Calls THEN {"module"} ELSE {})
Activations == CoActivation \cup [k : PlainKinds] \cup LoopActivation

(* The part of the inductive invariant about the stack.                    *)
SInv ==
  /\ stack \in Seq(Activations)
  /\ status \in [Threads -> Status]
  /\ currentCo \in Threads \cup {None}
  /\ nativeCalls \in Nat /\ yieldFloor \in Nat
  /\ Disciplined(stack, status, currentCo)
  /\ Counted(stack, currentCo, yieldFloor, nativeCalls)

(* The fields an activation of each kind has, and what pushes which kind.  *)
LEMMA ActivationKinds ==
  /\ \A e \in Activations :
       /\ e.k = "co" => e \in CoActivation /\ e.t \in Threads
                        /\ e.caller \in Threads \cup {None} /\ e.floor \in Nat
       /\ e.k = "sched" => e \in LoopActivation
  /\ \A t \in Threads, via \in Via :
       CoBody(t, via).k = "co" /\ CoBody(t, via).t = t
       /\ CoBody(t, via).caller = currentCo /\ CoBody(t, via).floor = yieldFloor
  /\ \A t \in Threads, via \in Via :
       currentCo \in Threads \cup {None} /\ yieldFloor \in Nat
         => CoBody(t, via) \in Activations
  /\ NativeCall \in Activations /\ NativeCall.k = "native"
  /\ "require" \in Calls => ModuleBody \in Activations
  /\ ModuleBody.k = "module"
  /\ \A e \in Activations : "require" \notin Calls => e.k # "module"
  /\ \A e \in Activations : e.k \in {"co", "sched", "main", "native", "module"}
  /\ MainChunk \in Activations /\ MainChunk.k = "main"
  /\ \A mode \in {"until", "idle", "once"}, until \in Nat, deep \in BOOLEAN :
       Loop(mode, until, deep) \in LoopActivation
  /\ \A e \in LoopActivation : e \in Activations /\ e.k = "sched"
BY DEF Activations, CoActivation, PlainKinds, LoopActivation, CoBody,
       NativeCall, ModuleBody, MainChunk, Loop

-----------------------------------------------------------------------------
(***************************************************************************)
(* What steps do to the stack, one lemma for each kind of step.            *)
(***************************************************************************)

(* Loops go on while coroutines that are not on the stack are created,     *)
(* closed, or end without having run.                                      *)
LEMMA LoopsGoOnKeepsSInv ==
  ASSUME SInv, stack' \in Seq(Activations), SameButLoops(stack, stack'),
         status' \in [Threads -> Status],
         \A t \in Threads :
           status'[t] = status[t] \/ (status[t] \notin Onto /\ status'[t] \notin Onto),
         UNCHANGED <<currentCo, nativeCalls, yieldFloor>>
  PROVE  SInv'
<1>1. Disciplined(stack', status', currentCo)
  BY LoopsGoOn DEF SInv
<1>2. Counted(stack', currentCo, yieldFloor, nativeCalls)
  BY CountedLoopsGoOn DEF SInv
<1> QED BY <1>1, <1>2 DEF SInv

(* Entering a coroutine that can be resumed keeps the discipline.          *)
LEMMA SwitchKeepsSInv ==
  ASSUME SInv, NEW t \in Threads, NEW via \in Via, NEW base \in Seq(Activations),
         SameButLoops(stack, base), Resumable(t), Switch(t, via, base)
  PROVE  SInv'
<1> DEFINE e == CoBody(t, via)
<1>1. e \in Activations /\ e.k = "co" /\ e.t = t /\ e.caller = currentCo /\ e.floor = yieldFloor
  BY ActivationKinds DEF SInv
<1>2. Disciplined(base, status, currentCo)
  BY LoopsGoOn DEF SInv
<1>3. Counted(base, currentCo, yieldFloor, nativeCalls)
  BY CountedLoopsGoOn DEF SInv
<1>4. status[t] \notin Onto
  BY DEF Resumable, Onto
<1>5. /\ stack' = Append(base, e) /\ status' = Entered(t)
      /\ currentCo' = t /\ yieldFloor' = nativeCalls /\ nativeCalls' = nativeCalls
  BY DEF Switch
<1>6. \A u \in Threads : status'[u] = IF u = t THEN "running"
                                     ELSE IF u = currentCo THEN "normal" ELSE status[u]
  BY <1>5 DEF Entered
<1>7. status' \in [Threads -> Status]
  BY <1>5 DEF Entered, SInv, Status
<1> HIDE DEF e
<1>8. stack' \in Seq(Activations)
  BY <1>1, <1>5
<1>9. Disciplined(stack', status', t)
  BY <1>1, <1>2, <1>4, <1>5, <1>6, EnteredCo
<1>10. Counted(stack', t, nativeCalls, nativeCalls)
  BY <1>1, <1>2, <1>3, <1>4, <1>5, CountedEntered
<1> QED BY <1>5, <1>7, <1>8, <1>9, <1>10 DEF SInv

(* The activation of the current coroutine exists, and is on top when its  *)
(* body runs.                                                              *)
LEMMA RunningAtExists ==
  ASSUME SInv, currentCo # None
  PROVE  /\ RunningAt \in DOMAIN stack /\ Co(stack, RunningAt)
         /\ stack[RunningAt].t = currentCo
<1>1. \E i \in DOMAIN stack : IsCo(i) /\ stack[i].t = currentCo
  <2>1. \A i \in 1..(Len(stack) + 1 - 1) : i \in DOMAIN stack
    BY DEF SInv
  <2> QED BY <2>1 DEF SInv, Disciplined, Innermost, NextBelow, Co, IsCo
<1> QED BY <1>1 DEF RunningAt, IsCo, Co

(* If a coroutine's own frames are executing, it is the running one.       *)
LEMMA BodyIsCurrent ==
  ASSUME SInv, stack # << >>, Executing.k = "co"
  PROVE  currentCo # None /\ RunningAt = Len(stack) /\ Executing.t = currentCo
<1> DEFINE n == Len(stack)
<1>1. n \in Nat /\ n \in DOMAIN stack /\ DOMAIN stack = 1..n /\ Co(stack, n)
  BY DEF SInv, Executing, Co
<1>2. n \in 1..(n + 1 - 1)
  BY <1>1
<1>3. currentCo # None
  BY <1>1, <1>2 DEF SInv, Disciplined, Innermost, NextBelow
<1>4. /\ RunningAt \in DOMAIN stack /\ Co(stack, RunningAt)
      /\ stack[RunningAt].t = currentCo
  BY <1>3, RunningAtExists
<1>5. n <= RunningAt
  BY <1>1, <1>3, <1>4, CurrentIsInnermost DEF SInv
<1>6. RunningAt = n
  BY <1>1, <1>4, <1>5
<1> QED BY <1>3, <1>4, <1>6 DEF Executing

(* Giving control back to the caller keeps the discipline.                 *)
LEMMA SwitchBackKeepsSInv ==
  ASSUME SInv, NEW now \in {"suspended", "dead"}, NEW at,
         SwitchBack(now, at), stack # << >>, Executing.k = "co" \/ Yieldable
  PROVE  SInv' /\ currentCo \in Threads
<1> DEFINE r == RunningAt
<1>1. currentCo # None
  BY BodyIsCurrent DEF Yieldable
<1>2. r \in DOMAIN stack /\ Co(stack, r) /\ stack[r].t = currentCo
  BY <1>1, RunningAtExists
<1>3. /\ stack' = SubSeq(stack, 1, r - 1)
      /\ status' = Left(stack[r].t, now, stack[r].caller)
      /\ currentCo' = stack[r].caller /\ yieldFloor' = stack[r].floor
      /\ nativeCalls' = nativeCalls
  BY DEF SwitchBack
<1> HIDE DEF r
<1>4. /\ stack[r].t \in Threads /\ stack[r].caller \in Threads \cup {None}
      /\ stack[r].floor \in Nat
  BY <1>2, ActivationKinds DEF SInv, Co
<1>5. r \in 1..Len(stack)
  BY <1>2 DEF SInv
<1>6. now \notin Onto
  BY DEF Onto
<1>7. \A u \in Threads : status'[u] = IF u = currentCo THEN now
                                     ELSE IF u = stack[r].caller THEN "running"
                                     ELSE status[u]
  BY <1>2, <1>3 DEF Left
<1>8. Disciplined(stack', status', currentCo')
  BY <1>2, <1>3, <1>6, <1>7, LeftCo DEF SInv
<1>9. nativeCalls = CountBelow(stack, r)
  <2>1. CASE Yieldable
    BY <1>1, <1>2, <2>1, YieldableMeansNoNatives DEF SInv, Yieldable
  <2>2. CASE Executing.k = "co"
    <3>1. r = Len(stack)
      BY <2>2, BodyIsCurrent DEF r
    <3>2. stack[Len(stack)].k # "native"
      BY <2>2 DEF Executing
    <3>3. Counted(Front(stack), currentCo, yieldFloor, nativeCalls)
      BY <3>2, CountedPopped DEF SInv
    <3>4. Counted(Front(stack), currentCo, yieldFloor, CountBelow(stack, r))
      BY <1>5, <3>1, CountedBelow DEF SInv, Counted, Front
    <3> QED BY <3>3, <3>4 DEF Counted
  <2> QED BY <2>1, <2>2
<1>10. FloorFor(stack, stack[r].caller, stack[r].floor)
  BY <1>2 DEF SInv, Counted
<1>11. Counted(stack', currentCo', yieldFloor', nativeCalls')
  BY <1>3, <1>5, <1>9, <1>10, CountedBelow DEF SInv
<1>12. stack' \in Seq(Activations)
  <2>1. \A i \in 1..(r - 1) : stack[i] \in Activations
    BY <1>5 DEF SInv
  <2>2. r - 1 \in Int
    BY <1>5 DEF SInv
  <2> QED BY <1>3, <2>1, <2>2, SubSeqProperties
<1>13. status' \in [Threads -> Status]
  BY <1>3 DEF Left, SInv, Status
<1> QED BY <1>1, <1>3, <1>4, <1>8, <1>11, <1>12, <1>13 DEF SInv

(* A native, a module body or a loop on top keeps the discipline.          *)
LEMMA PushKeepsSInv ==
  ASSUME SInv, NEW e \in Activations, e.k \in {"native", "module", "sched"},
         stack' = Append(stack, e), UNCHANGED <<status, currentCo, yieldFloor>>,
         nativeCalls' = IF e.k = "native" THEN nativeCalls + 1 ELSE nativeCalls
  PROVE  SInv'
<1>1. Disciplined(stack', status, currentCo)
  BY Pushed DEF SInv
<1>2. Counted(stack', currentCo, yieldFloor,
              nativeCalls + (IF e.k = "native" THEN 1 ELSE 0))
  BY CountedPushed DEF SInv
<1>3. nativeCalls' = nativeCalls + (IF e.k = "native" THEN 1 ELSE 0)
  BY DEF SInv
<1>4. stack' \in Seq(Activations) /\ nativeCalls' \in Nat
  BY DEF SInv
<1> QED BY <1>1, <1>2, <1>3, <1>4 DEF SInv

(* So does its end.                                                        *)
LEMMA PopKeepsSInv ==
  ASSUME SInv, stack # << >>, Executing.k # "co", stack' = Front(stack),
         UNCHANGED <<status, currentCo, yieldFloor>>,
         nativeCalls' = IF Executing.k = "native" THEN nativeCalls - 1 ELSE nativeCalls
  PROVE  SInv'
<1>1. Disciplined(stack', status, currentCo)
  BY Popped DEF SInv, Executing, Co
<1>2. /\ stack[Len(stack)].k = "native" =>
           nativeCalls - 1 \in Nat
           /\ Counted(stack', currentCo, yieldFloor, nativeCalls - 1)
      /\ stack[Len(stack)].k # "native" =>
           Counted(stack', currentCo, yieldFloor, nativeCalls)
  BY CountedPopped DEF SInv
<1>3. nativeCalls' \in Nat /\ Counted(stack', currentCo, yieldFloor, nativeCalls')
  BY <1>2 DEF Executing, SInv
<1>4. stack' \in Seq(Activations)
  BY DEF SInv, Front
<1> QED BY <1>1, <1>3, <1>4 DEF SInv

(* Changes of status among coroutines that are not on the stack.           *)
LEMMA OffStackKeepsSInv ==
  ASSUME SInv, NEW t \in Threads, NEW now \in {"suspended", "dead"},
         status[t] \in {"none", "suspended"},
         NEW base \in Seq(Activations), SameButLoops(stack, base), stack' = base,
         status' = status \/ status' = [status EXCEPT ![t] = now],
         UNCHANGED <<currentCo, nativeCalls, yieldFloor>>
  PROVE  SInv'
<1>1. status' \in [Threads -> Status]
  BY DEF SInv, Status
<1>2. \A u \in Threads :
        status'[u] = status[u] \/ (status[u] \notin Onto /\ status'[u] \notin Onto)
  BY DEF SInv, Onto
<1> QED BY <1>1, <1>2, LoopsGoOnKeepsSInv

(* So does a function becoming a coroutine nobody has resumed yet.         *)
LEMMA AsThreadKeepsSInv ==
  ASSUME SInv, NEW t \in Threads, AsThread(t),
         NEW base \in Seq(Activations), SameButLoops(stack, base), stack' = base,
         UNCHANGED <<currentCo, nativeCalls, yieldFloor>>
  PROVE  SInv'
<1>1. CASE status[t] = "none"
  <2>1. status' = [status EXCEPT ![t] = "suspended"]
    BY <1>1 DEF AsThread, SInv
  <2> QED BY <1>1, <2>1, OffStackKeepsSInv
<1>2. CASE status[t] # "none"
  <2>1. status' = status
    BY <1>2 DEF AsThread, SInv
  <2> QED BY <2>1, LoopsGoOnKeepsSInv DEF SInv
<1> QED BY <1>1, <1>2

(* A stack is the same as itself but for its loops.                        *)
LEMMA SameStack == SInv => SameButLoops(stack, stack)
BY DEF SInv, SameButLoops

(* A resumption keeps the discipline, however it comes out.                *)
LEMMA ResumeKeepsSInv ==
  ASSUME SInv, NEW t \in Threads, NEW via \in Via, NEW base \in Seq(Activations),
         SameButLoops(stack, base), NEW deep, NEW fails,
         Resume(t, via, base, deep, fails)
  PROVE  SInv'
<1>1. status[t] \in {"none", "suspended"} /\ Resumable(t)
  BY DEF Resume, Resumable
<1>2. ASSUME NEW errors, ResumeOverflows(t, errors, base) PROVE SInv'
  BY <1>2, AsThreadKeepsSInv DEF ResumeOverflows
<1>3. CASE DieOfError(t, base)
  BY <1>1, <1>3, OffStackKeepsSInv DEF DieOfError
<1>4. CASE DieYielding(t, base)
  BY <1>1, <1>4, OffStackKeepsSInv DEF DieYielding
<1>5. CASE Switch(t, via, base)
  BY <1>1, <1>5, SwitchKeepsSInv
<1>6. CASE ErrorTakenForYield(t, base)
  BY <1>1, <1>6, OffStackKeepsSInv DEF ErrorTakenForYield
<1> QED BY <1>2, <1>3, <1>4, <1>5, <1>6 DEF Resume

(* So does a yield, where the VM allows one.                               *)
LEMMA SuspendKeepsSInv ==
  ASSUME SInv, NEW at, Suspend(at), ScriptRuns, Yieldable \/ Executing.k = "co"
  PROVE  SInv' /\ currentCo \in Threads
BY SwitchBackKeepsSInv DEF Suspend, ScriptRuns

(* The stack with the loop on top changed is otherwise the same.           *)
LEMMA LoopBecomesAt ==
  ASSUME SInv, stack # << >>, NEW loop \in LoopActivation
  PROVE  /\ LoopBecomes(loop) \in Seq(Activations)
         /\ Len(LoopBecomes(loop)) = Len(stack) /\ Len(stack) \in Nat \ {0}
         /\ \A i \in 1..(Len(stack) - 1) : LoopBecomes(loop)[i] = stack[i]
         /\ LoopBecomes(loop)[Len(stack)] = loop
<1> DEFINE n == Len(stack)
           s2 == LoopBecomes(loop)
           f == Front(stack)
<1>1. n \in Nat \ {0} /\ DOMAIN stack = 1..n
  BY DEF SInv
<1>2. loop \in Activations
  BY ActivationKinds
<1>3. f \in Seq(Activations) /\ Len(f) = n - 1 /\ \A i \in 1..(n - 1) : f[i] = stack[i]
  <2>1. \A i \in 1..(n - 1) : stack[i] \in Activations
    BY <1>1 DEF SInv
  <2> QED BY <1>1, <2>1, SubSeqProperties DEF Front
<1>4. s2 = Append(f, loop)
  BY DEF LoopBecomes
<1> HIDE DEF f, s2
<1>5. /\ s2 \in Seq(Activations) /\ Len(s2) = Len(f) + 1
      /\ \A i \in 1..Len(f) : s2[i] = f[i]
      /\ s2[Len(f) + 1] = loop
  BY <1>2, <1>3, <1>4, AppendProperties
<1> QED BY <1>1, <1>3, <1>5 DEF s2

(* The loop on top goes on.                                                *)
LEMMA LoopBecomesType ==
  ASSUME SInv, stack # << >>, Executing.k = "sched", NEW loop \in LoopActivation
  PROVE  LoopBecomes(loop) \in Seq(Activations) /\ SameButLoops(stack, LoopBecomes(loop))
<1>1. loop.k = "sched" /\ DOMAIN stack = 1..Len(stack)
  BY ActivationKinds DEF SInv
<1>2. \A i \in 1..Len(stack) : i \in 1..(Len(stack) - 1) \/ i = Len(stack)
  BY DEF SInv
<1> QED BY <1>1, <1>2, LoopBecomesAt DEF SameButLoops, Executing

-----------------------------------------------------------------------------
(***************************************************************************)
(* Every step keeps the discipline.                                        *)
(***************************************************************************)

(* Every step of a script keeps the discipline.                            *)
LEMMA ScriptStepKeepsSInv ==
  ASSUME TypeOK, SInv, ScriptStep
  PROVE  SInv'
<1> USE DEF ScriptRuns
<1>1. ASSUME NEW t \in Threads, Create(t) PROVE SInv'
  BY <1>1, SameStack, AsThreadKeepsSInv DEF Create, CreateCoroutine, SInv
<1>2. ASSUME NEW t \in Threads, CoroutineResume(t) PROVE SInv'
  BY <1>2, SameStack, ResumeKeepsSInv DEF CoroutineResume, Via, SInv
<1>3. ASSUME NEW t \in Threads, CloseCoroutine(t) PROVE SInv'
  <2>1. /\ status[t] = "suspended" /\ status' = [status EXCEPT ![t] = "dead"]
        /\ UNCHANGED <<stack, currentCo, nativeCalls, yieldFloor>>
    BY <1>3 DEF CloseCoroutine
  <2> QED BY <2>1, SameStack, OffStackKeepsSInv DEF SInv
<1>4. ASSUME NEW t \in Threads, TaskSpawn(t) PROVE SInv'
  <2>1. CASE UNCHANGED coVars
    BY <2>1 DEF coVars, SInv
  <2>2. CASE \E deep \in Deep : Resume(t, "task", stack, deep, FALSE)
    BY <2>2, SameStack, ResumeKeepsSInv DEF Via, SInv
  <2> QED BY <1>4, <2>1, <2>2 DEF TaskSpawn
<1>5. ASSUME NEW t \in Threads, TaskDefer(t) PROVE SInv'
  BY <1>5, SameStack, AsThreadKeepsSInv DEF TaskDefer, SInv
<1>6. ASSUME NEW t \in Threads, NEW d \in Delays, TaskDelay(t, d) PROVE SInv'
  BY <1>6, SameStack, AsThreadKeepsSInv DEF TaskDelay, SInv
<1>7. ASSUME NEW d \in Delays, TaskWait(d) PROVE SInv'
  BY <1>7, SuspendKeepsSInv DEF TaskWait
<1>8. ASSUME NEW d \in Delays, TaskWaitBlocking(d) PROVE SInv'
  <2>1. PICK deep \in Deep : stack' = Append(stack, Loop("until", d, deep))
    BY <1>8 DEF TaskWaitBlocking
  <2>2. /\ Loop("until", d, deep) \in Activations
        /\ Loop("until", d, deep).k = "sched"
    BY ActivationKinds, DelaysAssumption DEF Deep
  <2> QED BY <1>8, <2>1, <2>2, PushKeepsSInv DEF TaskWaitBlocking
<1>9. ASSUME NEW t \in Threads, TaskCancel(t) PROVE SInv'
  <2>1. CASE UNCHANGED coVars
    BY <2>1 DEF coVars, SInv
  <2> QED BY <1>3, <1>9, <2>1 DEF TaskCancel
<1>10. ASSUME BackgroundRun PROVE SInv'
  BY <1>10, SuspendKeepsSInv DEF BackgroundRun, InTask
<1>11. CASE PollInPlace
  <2>1. PICK deep \in Deep : stack' = Append(stack, Loop("once", 0, deep))
    BY <1>11 DEF PollInPlace
  <2>2. /\ Loop("once", 0, deep) \in Activations
        /\ Loop("once", 0, deep).k = "sched"
    BY ActivationKinds DEF Deep
  <2> QED BY <1>11, <2>1, <2>2, PushKeepsSInv DEF PollInPlace
<1>12. ASSUME NEW d \in Delays, PollParked(d) PROVE SInv'
  BY <1>12, SuspendKeepsSInv DEF PollParked, InTask
<1>13. CASE CallBack
  <2>1. NativeCall \in Activations /\ NativeCall.k = "native"
    BY ActivationKinds
  <2> QED BY <1>13, <2>1, PushKeepsSInv DEF CallBack, EnterNative
<1>14. CASE CallReturn
  BY <1>14, PopKeepsSInv DEF CallReturn, LeaveNative
<1>15. ASSUME "require" \in Calls, Require PROVE SInv'
  <2>1. ModuleBody \in Activations /\ ModuleBody.k = "module"
    BY <1>15, ActivationKinds
  <2> QED BY <1>15, <2>1, PushKeepsSInv DEF Require, EnterModule
<1>16. CASE RequireReturn
  BY <1>16, PopKeepsSInv DEF RequireReturn, LeaveModule
<1>17. CASE BodyReturns
  BY <1>17, SwitchBackKeepsSInv DEF BodyReturns, BodyRuns
<1>18. CASE BodyRaises
  BY <1>18, SwitchBackKeepsSInv DEF BodyRaises, BodyRuns, Suspend
<1>19. CASE MainReturns \/ MainRaises
  <2>1. stack # << >> /\ Executing.k = "main"
    BY <1>19 DEF MainReturns, MainRaises
  <2>2. Len(stack) = 1 /\ DOMAIN stack = 1..1
    <3>1. Len(stack) \in Nat /\ DOMAIN stack = 1..Len(stack) /\ Len(stack) # 0
      BY <2>1 DEF SInv
    <3>2. Len(stack) \in DOMAIN stack
      BY <3>1
    <3> QED BY <2>1, <3>1, <3>2 DEF SInv, Disciplined, MainFirst, Executing
  <2>3. UNCHANGED <<status, currentCo, nativeCalls, yieldFloor>>
    BY <1>19 DEF MainReturns, MainRaises
  <2>4. Front(stack) = << >>
    BY <2>2, SubSeqEmpty DEF Front
  <2>5. CASE MainRaises
    BY <2>1, <2>3, <2>4, <2>5, PopKeepsSInv DEF MainRaises
  <2>6. CASE MainReturns
    <3> DEFINE loop == Loop("idle", 0, FALSE)
    <3>1. loop \in Activations /\ loop.k = "sched"
      BY ActivationKinds
    <3> HIDE DEF loop
    <3>2. /\ Disciplined(<< >>, status, currentCo)
          /\ Counted(<< >>, currentCo, yieldFloor, nativeCalls)
      BY <2>1, <2>4, Popped, CountedPopped DEF SInv, Executing, Co
    <3>3. /\ Disciplined(Append(<< >>, loop), status, currentCo)
          /\ Counted(Append(<< >>, loop), currentCo, yieldFloor, nativeCalls + 0)
      <4>1. << >> \in Seq(Activations)
        OBVIOUS
      <4>2. Disciplined(Append(<< >>, loop), status, currentCo)
        BY <3>1, <3>2, <4>1, Pushed
      <4>3. Counted(Append(<< >>, loop), currentCo, yieldFloor,
                    nativeCalls + (IF loop.k = "native" THEN 1 ELSE 0))
        BY <3>1, <3>2, <4>1, CountedPushed
      <4> QED BY <3>1, <4>2, <4>3
    <3>4. stack' = Append(<< >>, loop) /\ stack' \in Seq(Activations)
      <4>1. stack' = <<loop>>
        BY <2>6 DEF MainReturns, loop
      <4>2. << >> \in Seq(Activations) /\ <<loop>> \in Seq(Activations)
        BY <3>1
      <4>3. Append(<< >>, loop) = << >> \o <<loop>>
        BY <3>1, <4>2, AppendIsConcat
      <4> QED BY <4>1, <4>2, <4>3, ConcatEmptySeq
    <3>5. nativeCalls + 0 = nativeCalls
      BY DEF SInv
    <3> QED BY <2>3, <3>3, <3>4, <3>5 DEF SInv
  <2> QED BY <1>19, <2>5, <2>6
<1>20. ASSUME NEW t \in Threads, CoroutineClose(t) PROVE SInv'
  BY <1>20, <1>3 DEF CoroutineClose
<1>21. CASE CoroutineYield
  BY <1>21, SuspendKeepsSInv DEF CoroutineYield
<1> QED BY <1>1, <1>2, <1>4, <1>5, <1>6, <1>7, <1>8, <1>9, <1>10, <1>11, <1>12,
           <1>13, <1>14, <1>15, <1>16, <1>17, <1>18, <1>19, <1>20, <1>21
        DEF ScriptStep

-----------------------------------------------------------------------------
(***************************************************************************)
(* The queues hold entries, whatever is done to them.                      *)
(***************************************************************************)

(* A queue entry is one.                                                   *)
LEMMA EntryType ==
  ASSUME NEW t \in Threads, NEW k \in ParkKind \cup {"start"}, NEW left \in Nat,
         NEW id \in Nat, NEW fails \in BOOLEAN
  PROVE  Entry(t, At(k, left, id), fails) \in Entries
BY DEF Entry, At, Entries

(* What is left of a queue is a queue.                                     *)
LEMMA QueueTypes ==
  ASSUME NEW q \in Seq(Entries)
  PROVE  /\ \A t : Without(q, t) \in Seq(Entries)
         /\ Due(q) \in Seq(Entries) /\ NotDue(q) \in Seq(Entries)
BY RetainType DEF Without, Due, NotDue

(* A sequence with an element inserted is a sequence of such elements.     *)
LEMMA InsertAtType ==
  ASSUME NEW A, NEW q \in Seq(A), NEW i \in 1..(Len(q) + 1), NEW e \in A
  PROVE  InsertAt(q, i, e) \in Seq(A)
<1>1. /\ \A m \in 1..(i - 1) : q[m] \in A
      /\ \A m \in i..Len(q) : q[m] \in A
  OBVIOUS
<1>2. SubSeq(q, 1, i - 1) \in Seq(A) /\ SubSeq(q, i, Len(q)) \in Seq(A)
  BY <1>1, SubSeqProperties
<1>3. <<e>> \in Seq(A)
  OBVIOUS
<1>4. SubSeq(q, 1, i - 1) \o <<e>> \in Seq(A)
  BY <1>2, <1>3, ConcatProperties
<1> QED BY <1>2, <1>4, ConcatProperties DEF InsertAt

(* The sleepers with one more are a queue.                                 *)
LEMMA SleepUntilType ==
  ASSUME TypeOK, NEW e \in Entries
  PROVE  SleepUntil(e) \in Seq(Entries)
<1> DEFINE I == {i \in DOMAIN sleeping : sleeping[i].at.left <= e.at.left}
           n == Cardinality(I)
<1>1. sleeping \in Seq(Entries) /\ Len(sleeping) \in Nat
      /\ DOMAIN sleeping = 1..Len(sleeping)
  BY DEF TypeOK
<1>2. IsFiniteSet(1..Len(sleeping)) /\ Cardinality(1..Len(sleeping)) = Len(sleeping)
  BY <1>1, FS_Interval
<1>3. I \in SUBSET (1..Len(sleeping))
  BY <1>1
<1>4. SleepUntil(e) = InsertAt(sleeping, n + 1, e)
  BY DEF SleepUntil
<1> HIDE DEF I
<1>5. n \in Nat /\ n <= Len(sleeping)
  BY <1>2, <1>3, FS_Subset, FS_CardinalityType
<1> HIDE DEF n
<1>6. n + 1 \in 1..(Len(sleeping) + 1)
  BY <1>1, <1>5
<1> QED BY <1>1, <1>4, <1>6, InsertAtType

(* Completions become entries for the threads that wait for them.          *)
LEMMA FiledType ==
  ASSUME TypeOK, NEW arrived \in Seq(Completion)
  PROVE  Filed(arrived) \in Seq(Entries)
         /\ StillWaiting(arrived) \in [JobIds -> Threads \cup {None}]
<1> DEFINE I == {i \in DOMAIN arrived : waiting[arrived[i].id] # None}
           wanted == Retain(arrived, I)
<1>0. I \in SUBSET (DOMAIN arrived) /\ \A j \in I : waiting[arrived[j].id] # None
  OBVIOUS
<1> HIDE DEF I
<1>1. wanted \in Seq(Completion)
  BY <1>0, RetainType
<1>2. ASSUME NEW i \in DOMAIN wanted
      PROVE  Entry(waiting[wanted[i].id], At("job", 0, wanted[i].id), wanted[i].fails)
               \in Entries
  <2>1. PICK j \in I : wanted[i] = arrived[j]
    BY <1>0, <1>2, RetainOnly
  <2>2. arrived[j] \in Completion /\ waiting[arrived[j].id] # None
    BY <1>0
  <2>3. arrived[j].id \in JobIds /\ arrived[j].fails \in BOOLEAN
    BY <2>2 DEF Completion
  <2>4. waiting[arrived[j].id] \in Threads /\ arrived[j].id \in Nat
    BY <2>2, <2>3, JobIdsAssumption DEF TypeOK
  <2> QED BY <2>1, <2>3, <2>4, EntryType DEF ParkKind
<1>3. Filed(arrived) = [i \in DOMAIN wanted |->
        Entry(waiting[wanted[i].id], At("job", 0, wanted[i].id), wanted[i].fails)]
  BY DEF Filed, I
<1> HIDE DEF wanted
<1>4. DOMAIN wanted = 1..Len(wanted) /\ Len(wanted) \in Nat
  BY <1>1
<1>5. Filed(arrived) \in [1..Len(wanted) -> Entries]
  BY <1>2, <1>3, <1>4
<1>6. Filed(arrived) \in Seq(Entries)
  BY <1>4, <1>5
<1> QED BY <1>6 DEF StillWaiting, TypeOK

(* The pollers that are served and the ones that are not are queues.       *)
LEMMA PumpTypes ==
  ASSUME TypeOK, NEW pumped \in Pumped
  PROVE  Served(pumped) \in Seq(Entries) /\ Unserved(pumped) \in Seq(Entries)
<1>1. << >> \in Seq(Entries)
  OBVIOUS
<1>2. CASE pumped = "error"
  <2> DEFINE failed_(i) == Entry(pollers[i].t, pollers[i].at, TRUE)
  <2>1. DOMAIN pollers = 1..Len(pollers) /\ Len(pollers) \in Nat
    BY DEF TypeOK
  <2>2. \A i \in 1..Len(pollers) : pollers[i] \in Entries
    BY DEF TypeOK
  <2>3. \A i \in 1..Len(pollers) : failed_(i) \in Entries
    BY <2>2 DEF Entry, Entries
  <2>4. [i \in 1..Len(pollers) |-> failed_(i)] \in [1..Len(pollers) -> Entries]
    BY <2>3
  <2>5. Served(pumped) = [i \in 1..Len(pollers) |-> failed_(i)]
    BY <1>2, <2>1 DEF Served
  <2>6. Unserved(pumped) = << >>
    BY <1>2 DEF Unserved
  <2> DEFINE s == [i \in 1..Len(pollers) |-> failed_(i)]
             n == Len(pollers)
  <2>7. n \in Nat /\ s \in [1..n -> Entries]
    BY <2>1, <2>4
  <2> HIDE DEF s, n
  <2>8. s \in Seq(Entries)
    BY <2>7
  <2> QED BY <1>1, <2>5, <2>6, <2>8, Zenon DEF s
<1>3. CASE pumped # "error"
  <2>1. Unfed(pumped) \in Seq(Entries) /\ Fed(pumped) \in Seq(Entries)
    BY HeadTailProperties DEF Unfed, Fed, TypeOK, Pumped
  <2>2. Due(Unfed(pumped)) \in Seq(Entries) /\ NotDue(Unfed(pumped)) \in Seq(Entries)
    BY <2>1, QueueTypes
  <2> QED BY <1>3, <2>1, <2>2, ConcatProperties DEF Served, Unserved
<1> QED BY <1>2, <1>3
-----------------------------------------------------------------------------
(***************************************************************************)
(* Steps of the scheduler loops, and of the world outside.                 *)
(***************************************************************************)

(* A loop is on top of the stack and stays a loop as it goes on.           *)
LEMMA LoopTypes ==
  ASSUME SInv, NEW phase, LoopIn(phase)
  PROVE  /\ stack # << >> /\ Executing.k = "sched" /\ Executing \in LoopActivation
         /\ [Executing EXCEPT !.phase = "pass", !.ran = FALSE] \in LoopActivation
         /\ \A n \in Nat : [Executing EXCEPT !.phase = "run", !.due = n] \in LoopActivation
         /\ Executing.due > 0 =>
              [Executing EXCEPT !.due = @ - 1, !.ran = TRUE] \in LoopActivation
<1>1. stack # << >> /\ Executing.k = "sched"
  BY DEF LoopIn
<1>2. Executing \in Activations
  BY <1>1 DEF SInv, Executing
<1>3. Executing \in LoopActivation
  BY <1>1, <1>2, ActivationKinds
<1>4. ASSUME NEW e \in LoopActivation
      PROVE  /\ [e EXCEPT !.phase = "pass", !.ran = FALSE] \in LoopActivation
             /\ \A n \in Nat : [e EXCEPT !.phase = "run", !.due = n] \in LoopActivation
             /\ e.due > 0 => [e EXCEPT !.due = @ - 1, !.ran = TRUE] \in LoopActivation
  <2>1. e.due \in Nat /\ (e.due > 0 => e.due - 1 \in Nat)
    BY DEF LoopActivation
  <2>2. \A n \in Nat : [e EXCEPT !.phase = "run", !.due = n] \in LoopActivation
    BY DEF LoopActivation
  <2>3. [e EXCEPT !.phase = "pass", !.ran = FALSE] \in LoopActivation
    BY DEF LoopActivation
  <2>4. \A n \in Nat : [e EXCEPT !.due = n, !.ran = TRUE] \in LoopActivation
    BY DEF LoopActivation
  <2> QED BY <2>1, <2>2, <2>3, <2>4
<1> QED BY <1>1, <1>3, <1>4

(* The loop on top of the stack goes on, and nothing else about the stack  *)
(* changes.                                                                *)
LEMMA LoopStepKeepsSInv ==
  ASSUME SInv, NEW phase, LoopIn(phase), NEW loop \in LoopActivation,
         stack' = LoopBecomes(loop),
         UNCHANGED <<status, currentCo, nativeCalls, yieldFloor>>
  PROVE  SInv'
<1>1. stack # << >> /\ Executing.k = "sched"
  BY DEF LoopIn
<1>2. LoopBecomes(loop) \in Seq(Activations) /\ SameButLoops(stack, LoopBecomes(loop))
  BY <1>1, LoopBecomesType
<1> QED BY <1>2, LoopsGoOnKeepsSInv DEF SInv

(* Starting the next pass keeps the discipline.                            *)
LEMMA NextPassKeepsSInv ==
  ASSUME SInv, LoopIn("run"), stack' = NextPass,
         UNCHANGED <<status, currentCo, nativeCalls, yieldFloor>>
  PROVE  SInv'
BY LoopTypes, LoopStepKeepsSInv DEF NextPass

(* The queue a pass starts with.                                           *)
LEMMA PassQueueType ==
  ASSUME TypeOK, NEW pumped \in Pumped
  PROVE  LET queue == ready \o Served(pumped) \o Filed(completions)
                            \o deferred \o Due(sleeping)
         IN queue \in Seq(Entries) /\ Len(queue) \in Nat
<1> DEFINE a == Served(pumped)
           b == Filed(completions)
           c == Due(sleeping)
<1>1. a \in Seq(Entries) /\ b \in Seq(Entries) /\ c \in Seq(Entries)
      /\ ready \in Seq(Entries) /\ deferred \in Seq(Entries)
  BY PumpTypes, FiledType, QueueTypes DEF TypeOK
<1> HIDE DEF a, b, c
<1>2. ready \o a \o b \o deferred \o c \in Seq(Entries)
  BY <1>1, ConcatProperties
<1>3. \A q \in Seq(Entries) : Len(q) \in Nat
  OBVIOUS
<1> QED BY <1>2, <1>3 DEF a, b, c

(* Every step of a scheduler loop keeps the discipline.                    *)
LEMMA SchedulerStepKeepsSInv ==
  ASSUME TypeOK, SInv, SchedulerStep
  PROVE  SInv'
<1>1. CASE BeginPass
  <2>1. PICK pumped \in Pumped :
          LET queue == ready \o Served(pumped) \o Filed(completions)
                             \o deferred \o Due(sleeping)
          IN stack' = LoopBecomes([Executing EXCEPT !.phase = "run",
                                                    !.due = Len(queue)])
    BY <1>1 DEF BeginPass
  <2>2. \E n \in Nat : stack' = LoopBecomes([Executing EXCEPT !.phase = "run", !.due = n])
    BY <2>1, PassQueueType
  <2>3. LoopIn("pass") /\ UNCHANGED <<status, currentCo, nativeCalls, yieldFloor>>
    BY <1>1 DEF BeginPass, IdleCoVars
  <2> QED BY <2>2, <2>3, LoopTypes, LoopStepKeepsSInv
<1>2. CASE ResumeNext
  <2> DEFINE loop == [Executing EXCEPT !.due = @ - 1, !.ran = TRUE]
             base == LoopBecomes(loop)
             e == Head(ready)
  <2>1. LoopIn("run") /\ Executing.due > 0 /\ ready # << >>
    BY <1>2 DEF ResumeNext
  <2>2. loop \in LoopActivation /\ stack # << >> /\ Executing.k = "sched"
    BY <2>1, LoopTypes
  <2>3. e.t \in Threads
    <3>1. e \in Entries
      BY <2>1, HeadTailProperties DEF TypeOK
    <3> QED BY <3>1 DEF Entries
  <2> HIDE DEF loop
  <2>4. base \in Seq(Activations) /\ SameButLoops(stack, base)
    BY <2>2, LoopBecomesType
  <2>5. CASE Resume(e.t, "task", base, Executing.deep, e.fails)
    <3> HIDE DEF base, e
    <3> QED BY <2>3, <2>4, <2>5, ResumeKeepsSInv DEF Via
  <2>6. CASE stack' = base /\ UNCHANGED IdleCoVars
    BY <2>1, <2>2, <2>6, LoopStepKeepsSInv DEF IdleCoVars
  <2> QED BY <1>2, <2>5, <2>6 DEF ResumeNext, loop
<1>3. CASE LoopReturns
  <2>1. stack # << >> /\ Executing.k = "sched" /\ stack' = Front(stack)
        /\ UNCHANGED <<status, currentCo, nativeCalls, yieldFloor>>
    BY <1>3 DEF LoopReturns, PassOver, LoopIn, IdleCoVars
  <2> QED BY <2>1, PopKeepsSInv
<1>4. CASE ProgramEnds
  <2>1. stack # << >> /\ Executing.k = "sched" /\ stack' = Front(stack)
        /\ UNCHANGED <<status, currentCo, nativeCalls, yieldFloor>>
    BY <1>4 DEF ProgramEnds, LoopWaits, PassOver, LoopIn, IdleCoVars
  <2> QED BY <2>1, PopKeepsSInv
<1>5. CASE PassAgain \/ WaitForEvents \/ WaitForDeadline \/ WaitForCompletion
  <2>1. LoopIn("run") /\ stack' = NextPass
        /\ UNCHANGED <<status, currentCo, nativeCalls, yieldFloor>>
    BY <1>5 DEF PassAgain, WaitForEvents, WaitForDeadline, WaitForCompletion,
                LoopWaits, PassOver, IdleCoVars
  <2> QED BY <2>1, NextPassKeepsSInv
<1> QED BY <1>1, <1>2, <1>3, <1>4, <1>5 DEF SchedulerStep

(* So does time going by.                                                  *)
LEMMA TickKeepsSInv ==
  ASSUME TypeOK, SInv, Tick
  PROVE  SInv'
<1> DEFINE n == Len(stack)
<1>1. n \in Nat /\ DOMAIN stack = 1..n
  BY DEF SInv
<1> DEFINE aged(e) == [e EXCEPT !.until = Less(@)]
<1>2. \A i \in 1..n : stack'[i] = IF stack[i].k = "sched" THEN aged(stack[i]) ELSE stack[i]
  BY <1>1 DEF Tick
<1>3. \A e \in LoopActivation : aged(e) \in LoopActivation /\ aged(e).k = "sched"
  BY DEF LoopActivation, Less
<1> HIDE DEF aged
<1>4. \A i \in 1..n : /\ stack'[i] \in Activations
                      /\ stack[i].k = "sched" => stack'[i].k = "sched"
                      /\ stack[i].k # "sched" => stack'[i] = stack[i]
  <2> TAKE i \in 1..n
  <2>1. stack[i] \in Activations
    BY <1>1 DEF SInv
  <2>2. CASE stack[i].k = "sched"
    BY <1>2, <1>3, <2>1, <2>2, ActivationKinds
  <2>3. CASE stack[i].k # "sched"
    BY <1>2, <2>1, <2>3
  <2> QED BY <2>2, <2>3
<1>5. DOMAIN stack' = 1..n /\ stack' = [i \in 1..n |-> stack'[i]]
  BY <1>1 DEF Tick
<1> HIDE DEF n
<1>6. stack' \in [1..n -> Activations]
  BY <1>4, <1>5
<1>7. stack' \in Seq(Activations)
  BY <1>1, <1>6
<1>8. Len(stack') = n
  BY <1>1, <1>5, <1>7
<1>9. SameButLoops(stack, stack')
  BY <1>1, <1>4, <1>8 DEF SameButLoops, n
<1>10. UNCHANGED <<status, currentCo, nativeCalls, yieldFloor>>
  BY DEF Tick
<1> QED BY <1>7, <1>9, <1>10, LoopsGoOnKeepsSInv DEF SInv
-----------------------------------------------------------------------------
(***************************************************************************)
(* The rest of the state keeps its type.                                   *)
(***************************************************************************)

(* The part of TypeOK that the discipline of the stack does not cover.     *)
CoTypes == park \in [Threads -> Suspension] /\ isYielding \in BOOLEAN
           /\ resumeError \subseteq Threads
QueuesOK == /\ deferred \in Seq(Entries) /\ sleeping \in Seq(Entries)
            /\ ready \in Seq(Entries) /\ pollers \in Seq(Entries)
            /\ waiting \in [JobIds -> Threads \cup {None}]
            /\ atWork \subseteq JobIds
            /\ completions \in Seq(Completion)
EndTypes == taskIds \subseteq Threads /\ failed \in BOOLEAN
            /\ outcome \in {"running", "ok", "failed", "error"}

(* The activations of the discipline are the ones of TypeOK.               *)
LEMMA StackType ==
  ASSUME NEW s \in Seq(Activations)
  PROVE  s \in Seq(CoActivation \cup PlainActivation \cup LoopActivation)
<1>1. Activations \subseteq CoActivation \cup PlainActivation \cup LoopActivation
  BY DEF Activations, PlainKinds, PlainActivation
<1> QED BY <1>1

(* TypeOK in parts: coroutines, queues, and how the program ends.          *)
LEMMA TypeParts == SInv => (TypeOK <=> CoTypes /\ QueuesOK /\ EndTypes)
BY StackType DEF TypeOK, SInv, CoTypes, QueuesOK, EndTypes

(* The suspensions coroutines are put in.                                  *)
LEMMA Suspensions ==
  /\ Awake \in Suspension /\ Fresh \in Suspension /\ Yielded \in Suspension
  /\ \A k \in ParkKind, left \in Nat, id \in Nat : At(k, left, id) \in Suspension
BY DEF Awake, Fresh, Yielded, At, Suspension, ParkKind

(* A new coroutine is suspended before its first instruction.              *)
LEMMA AsThreadTypes ==
  ASSUME CoTypes, NEW t \in Threads, AsThread(t)
  PROVE  park' \in [Threads -> Suspension]
BY Suspensions DEF AsThread, CoTypes

(* A resumption may put a native that yields to sleep.                     *)
LEMMA ResumeTypes ==
  ASSUME TypeOK, CoTypes, EndTypes, NEW t \in Threads, NEW via, NEW base,
         NEW deep, NEW fails, Resume(t, via, base, deep, fails)
  PROVE  CoTypes' /\ sleeping' \in Seq(Entries) /\ failed' \in BOOLEAN
<1>1. sleeping' \in Seq(Entries)
  <2>1. \A d \in Delays : SleepUntil(Entry(t, At("timer", d, 0), FALSE)) \in Seq(Entries)
    BY EntryType, SleepUntilType, DelaysAssumption DEF ParkKind
  <2>2. sleeping \in Seq(Entries)
    BY DEF TypeOK
  <2> QED BY <2>1, <2>2 DEF Resume
<1>2. failed' \in BOOLEAN
  BY DEF Resume, EndTypes
<1>3. ASSUME Switch(t, via, base) PROVE CoTypes'
  BY <1>3, Suspensions DEF Switch, CoTypes
<1>4. ASSUME DieYielding(t, base) PROVE CoTypes'
  BY <1>4, Suspensions DEF DieYielding, CoTypes
<1>5. ASSUME DieOfError(t, base) PROVE CoTypes'
  BY <1>5, Suspensions DEF DieOfError, CoTypes
<1>6. ASSUME NEW errors \in SUBSET {t}, ResumeOverflows(t, errors, base) PROVE CoTypes'
  BY <1>6, AsThreadTypes DEF ResumeOverflows, CoTypes
<1>7. ASSUME ErrorTakenForYield(t, base) PROVE CoTypes'
  BY <1>7 DEF ErrorTakenForYield, CoTypes
<1>8. CoTypes'
  BY <1>3, <1>4, <1>5, <1>6, <1>7 DEF Resume
<1> QED BY <1>1, <1>2, <1>8

(* What a coroutine that gives control back leaves is well formed.         *)
LEMMA SwitchBackTypes ==
  ASSUME CoTypes, NEW now, NEW at \in Suspension, SwitchBack(now, at),
         isYielding' \in BOOLEAN
  PROVE  CoTypes'
BY DEF SwitchBack, CoTypes

(* A cancellation leaves well-formed queues.                               *)
LEMMA ForgetTypes ==
  ASSUME QueuesOK, EndTypes, NEW t, Forget(t), UNCHANGED <<atWork, completions>>
  PROVE  QueuesOK' /\ taskIds' \subseteq Threads
BY QueueTypes DEF Forget, QueuesOK, EndTypes

(* A queue with one more entry is a queue.                                 *)
LEMMA AppendEntry ==
  ASSUME NEW q \in Seq(Entries), NEW e \in Entries
  PROVE  Append(q, e) \in Seq(Entries)
OBVIOUS

(* Every step of a script keeps the state well formed.                     *)
LEMMA ScriptStepKeepsTypes ==
  ASSUME TypeOK, SInv, ScriptStep
  PROVE  CoTypes' /\ QueuesOK' /\ EndTypes'
<1>0. CoTypes /\ QueuesOK /\ EndTypes
  BY TypeParts
<1> USE <1>0
<1>1. ASSUME NEW t \in Threads, Create(t) PROVE CoTypes' /\ QueuesOK' /\ EndTypes'
  <2>1. AsThread(t) /\ UNCHANGED <<isYielding, resumeError>> /\ UNCHANGED taskVars
    BY <1>1 DEF Create, CreateCoroutine
  <2> QED BY <2>1, AsThreadTypes DEF CoTypes, QueuesOK, EndTypes, taskVars
<1>2. ASSUME NEW t \in Threads, CoroutineResume(t)
      PROVE  CoTypes' /\ QueuesOK' /\ EndTypes'
  <2>1. PICK deep \in Deep : Resume(t, "resume", stack, deep, FALSE)
    BY <1>2 DEF CoroutineResume
  <2>2. CoTypes' /\ sleeping' \in Seq(Entries) /\ failed' \in BOOLEAN
    BY <2>1, ResumeTypes
  <2> QED BY <1>2, <2>2 DEF CoroutineResume, QueuesOK, EndTypes
<1>3. ASSUME NEW t \in Threads, CloseCoroutine(t) PROVE CoTypes'
  BY <1>3, Suspensions DEF CloseCoroutine, CoTypes
<1>4. ASSUME NEW t \in Threads, CoroutineClose(t)
      PROVE  CoTypes' /\ QueuesOK' /\ EndTypes'
  BY <1>3, <1>4 DEF CoroutineClose, QueuesOK, EndTypes, taskVars
<1>5. ASSUME NEW t \in Threads, TaskSpawn(t)
      PROVE  CoTypes' /\ QueuesOK' /\ EndTypes'
  <2>1. CoTypes' /\ sleeping' \in Seq(Entries) /\ failed' \in BOOLEAN
    <3>1. CASE UNCHANGED <<coVars, sleeping, failed>>
      BY <3>1 DEF coVars, CoTypes, QueuesOK, EndTypes
    <3>2. CASE \E deep \in Deep : Resume(t, "task", stack, deep, FALSE)
      BY <3>2, ResumeTypes
    <3> QED BY <1>5, <3>1, <3>2 DEF TaskSpawn
  <2>2. taskIds' \subseteq Threads
    BY <1>5 DEF TaskSpawn, TasksAfter, EndTypes
  <2> QED BY <1>5, <2>1, <2>2 DEF TaskSpawn, QueuesOK, EndTypes
<1>6. ASSUME NEW t \in Threads, TaskDefer(t)
      PROVE  CoTypes' /\ QueuesOK' /\ EndTypes'
  <2>1. park' \in [Threads -> Suspension]
    BY <1>6, AsThreadTypes DEF TaskDefer
  <2>2. deferred' \in Seq(Entries)
    <3>1. Entry(t, Start(0), FALSE) \in Entries
      BY EntryType DEF Start
    <3> QED BY <1>6, <3>1, AppendEntry DEF TaskDefer, QueuesOK
  <2> QED BY <1>6, <2>1, <2>2 DEF TaskDefer, CoTypes, QueuesOK, EndTypes
<1>7. ASSUME NEW t \in Threads, NEW d \in Delays, TaskDelay(t, d)
      PROVE  CoTypes' /\ QueuesOK' /\ EndTypes'
  <2>1. park' \in [Threads -> Suspension]
    BY <1>7, AsThreadTypes DEF TaskDelay
  <2>2. sleeping' \in Seq(Entries)
    <3>1. Entry(t, Start(d), FALSE) \in Entries
      BY EntryType, DelaysAssumption DEF Start
    <3> QED BY <1>7, <3>1, SleepUntilType DEF TaskDelay
  <2> QED BY <1>7, <2>1, <2>2 DEF TaskDelay, CoTypes, QueuesOK, EndTypes
<1>8. ASSUME NEW at, ScriptRuns, Yieldable, Suspend(at) PROVE currentCo \in Threads
  BY <1>8, SuspendKeepsSInv
<1>9. ASSUME NEW at \in Suspension, Suspend(at) PROVE CoTypes'
  BY <1>9, SwitchBackTypes DEF Suspend
<1>10. ASSUME NEW d \in Delays, TaskWait(d) PROVE CoTypes' /\ QueuesOK' /\ EndTypes'
  <2>1. At("timer", d, 0) \in Suspension
    BY Suspensions, DelaysAssumption DEF ParkKind
  <2>2. CoTypes' /\ currentCo \in Threads
    BY <1>8, <1>9, <1>10, <2>1 DEF TaskWait
  <2>3. Entry(currentCo, At("timer", d, 0), FALSE) \in Entries
    BY <2>2, EntryType, DelaysAssumption DEF ParkKind
  <2> QED BY <1>10, <2>2, <2>3, SleepUntilType DEF TaskWait, QueuesOK, EndTypes
<1>11. ASSUME NEW d \in Delays, TaskWaitBlocking(d)
       PROVE  CoTypes' /\ QueuesOK' /\ EndTypes'
  BY <1>11 DEF TaskWaitBlocking, CoTypes, QueuesOK, EndTypes, taskVars
<1>12. ASSUME NEW t \in Threads, TaskCancel(t)
       PROVE  CoTypes' /\ QueuesOK' /\ EndTypes'
  <2>1. QueuesOK' /\ taskIds' \subseteq Threads
    BY <1>12, ForgetTypes DEF TaskCancel
  <2>2. CoTypes'
    <3>1. CASE UNCHANGED coVars
      BY <3>1 DEF coVars, CoTypes
    <3> QED BY <1>3, <1>12, <3>1 DEF TaskCancel
  <2> QED BY <1>12, <2>1, <2>2 DEF TaskCancel, EndTypes
<1>13. CASE BackgroundRun
  <2> DEFINE job == Min(FreeJobs)
  <2>1. job \in JobIds
    <3>1. FreeJobs \subseteq Nat /\ FreeJobs # {} /\ FreeJobs \subseteq JobIds
      BY <1>13, JobIdsAssumption DEF BackgroundRun, FreeJobs
    <3> HIDE DEF job
    <3>2. job \in FreeJobs
      BY <3>1, LeastNumber DEF job, Min
    <3> QED BY <3>1, <3>2
  <2>2. /\ ScriptRuns /\ Yieldable /\ Suspend(At("job", 0, job))
        /\ waiting' = [waiting EXCEPT ![job] = currentCo]
        /\ atWork' = atWork \cup {job}
        /\ UNCHANGED <<deferred, sleeping, ready, pollers, completions, taskIds,
                       failed, outcome>>
    BY <1>13 DEF BackgroundRun, InTask
  <2> HIDE DEF job
  <2>3. At("job", 0, job) \in Suspension
    BY <2>1, Suspensions, JobIdsAssumption DEF ParkKind
  <2>4. CoTypes' /\ currentCo \in Threads
    BY <1>8, <1>9, <2>2, <2>3
  <2> QED BY <2>1, <2>2, <2>4 DEF QueuesOK, EndTypes
<1>14. ASSUME NEW d \in Delays, PollParked(d) PROVE CoTypes' /\ QueuesOK' /\ EndTypes'
  <2>1. At("poll", d, 0) \in Suspension
    BY Suspensions, DelaysAssumption DEF ParkKind
  <2>2. CoTypes' /\ currentCo \in Threads
    BY <1>8, <1>9, <1>14, <2>1 DEF PollParked, InTask
  <2>3. Entry(currentCo, At("poll", d, 0), FALSE) \in Entries
    BY <2>2, EntryType, DelaysAssumption DEF ParkKind
  <2>4. pollers' \in Seq(Entries)
    BY <1>14, <2>3, AppendEntry DEF PollParked, QueuesOK
  <2> QED BY <1>14, <2>2, <2>4 DEF PollParked, QueuesOK, EndTypes
<1>15. CASE PollInPlace
  <2>1. /\ Filed(completions) \in Seq(Entries)
        /\ StillWaiting(completions) \in [JobIds -> Threads \cup {None}]
    BY FiledType DEF QueuesOK
  <2>2. ready \o Filed(completions) \in Seq(Entries)
    BY <2>1, ConcatProperties DEF QueuesOK
  <2>3. << >> \in Seq(Completion)
    OBVIOUS
  <2> QED BY <1>15, <2>1, <2>2, <2>3 DEF PollInPlace, CoTypes, QueuesOK, EndTypes
<1>16. CASE CallBack \/ CallReturn \/ Require \/ RequireReturn \/ MainReturns
  BY <1>16 DEF CallBack, CallReturn, Require, RequireReturn, MainReturns,
       EnterNative, LeaveNative, EnterModule, LeaveModule, CoTypes, QueuesOK,
       EndTypes, taskVars
<1>17. CASE MainRaises
  BY <1>17 DEF MainRaises, CoTypes, QueuesOK, EndTypes, queues
<1>18. CASE BodyReturns
  <2>1. CoTypes'
    BY <1>18, SwitchBackTypes, Suspensions DEF BodyReturns, CoTypes
  <2>2. taskIds' \subseteq Threads
    BY <1>18 DEF BodyReturns, EndTypes
  <2> QED BY <1>18, <2>1, <2>2 DEF BodyReturns, QueuesOK, EndTypes, queues
<1>19. CASE BodyRaises
  <2>1. CoTypes'
    BY <1>9, <1>19, SwitchBackTypes, Suspensions DEF BodyRaises, CoTypes
  <2>2. taskIds' \subseteq Threads /\ failed' \in BOOLEAN
    BY <1>19 DEF BodyRaises, EndTypes
  <2> QED BY <1>19, <2>1, <2>2 DEF BodyRaises, QueuesOK, EndTypes, queues
<1>20. CASE CoroutineYield
  BY <1>9, <1>20, Suspensions DEF CoroutineYield, QueuesOK, EndTypes, taskVars
<1> QED BY <1>1, <1>2, <1>4, <1>5, <1>6, <1>7, <1>10, <1>11, <1>12, <1>13, <1>14,
           <1>15, <1>16, <1>17, <1>18, <1>19, <1>20
        DEF ScriptStep
(* So does every step of a scheduler loop.                                 *)
LEMMA SchedulerStepKeepsTypes ==
  ASSUME TypeOK, SInv, SchedulerStep
  PROVE  CoTypes' /\ QueuesOK' /\ EndTypes'
<1>0. CoTypes /\ QueuesOK /\ EndTypes
  BY TypeParts
<1> USE <1>0
<1>1. << >> \in Seq(Entries) /\ << >> \in Seq(Completion)
  OBVIOUS
<1>2. /\ Filed(completions) \in Seq(Entries)
      /\ StillWaiting(completions) \in [JobIds -> Threads \cup {None}]
      /\ Due(sleeping) \in Seq(Entries) /\ NotDue(sleeping) \in Seq(Entries)
  BY FiledType, QueueTypes DEF QueuesOK
<1>3. \A pumped \in Pumped : Served(pumped) \in Seq(Entries)
                             /\ Unserved(pumped) \in Seq(Entries)
                             /\ ready \o Served(pumped) \in Seq(Entries)
  BY PumpTypes, ConcatProperties DEF QueuesOK
<1>4. CASE BeginPass
  <2>1. ready' \in Seq(Entries) /\ pollers' \in Seq(Entries)
    BY <1>3, <1>4, PassQueueType DEF BeginPass
  <2> QED BY <1>1, <1>2, <1>4, <2>1 DEF BeginPass, IdleCoVars, CoTypes, QueuesOK, EndTypes
<1>5. CASE ResumeNext
  <2> DEFINE base == LoopBecomes([Executing EXCEPT !.due = @ - 1, !.ran = TRUE])
             e == Head(ready)
  <2>1. e \in Entries /\ ready' \in Seq(Entries)
    BY <1>5, HeadTailProperties DEF ResumeNext, QueuesOK
  <2>2. e.t \in Threads
    BY <2>1 DEF Entries
  <2>3. ASSUME Resume(e.t, "task", base, Executing.deep, e.fails)
        PROVE  CoTypes' /\ sleeping' \in Seq(Entries) /\ failed' \in BOOLEAN
    <3> HIDE DEF base, e
    <3> QED BY <2>2, <2>3, ResumeTypes
  <2>4. ASSUME UNCHANGED <<IdleCoVars, sleeping, failed>>
        PROVE  CoTypes' /\ sleeping' \in Seq(Entries) /\ failed' \in BOOLEAN
    BY <2>4 DEF IdleCoVars, CoTypes, QueuesOK, EndTypes
  <2> HIDE DEF base
  <2>5. /\ \/ Resume(e.t, "task", base, Executing.deep, e.fails)
           \/ UNCHANGED <<IdleCoVars, sleeping, failed>>
        /\ taskIds' = TasksAfter(e.t, taskIds) \/ taskIds' = taskIds \ {e.t}
        /\ UNCHANGED <<deferred, pollers, waiting, atWork, completions, outcome>>
    BY <1>5 DEF ResumeNext, base
  <2>6. taskIds' \subseteq Threads
    BY <2>5 DEF TasksAfter, EndTypes
  <2>7. CoTypes' /\ sleeping' \in Seq(Entries) /\ failed' \in BOOLEAN
    BY <2>3, <2>4, <2>5
  <2> HIDE DEF e
  <2> QED BY <2>1, <2>5, <2>6, <2>7 DEF QueuesOK, EndTypes
<1>6. CASE LoopReturns \/ PassAgain \/ WaitForDeadline
  BY <1>6 DEF LoopReturns, PassAgain, WaitForDeadline, IdleCoVars, taskVars,
              CoTypes, QueuesOK, EndTypes
<1>7. CASE ProgramEnds
  BY <1>7 DEF ProgramEnds, IdleCoVars, queues, CoTypes, QueuesOK, EndTypes
<1>8. CASE WaitForEvents
  BY <1>3, <1>8 DEF WaitForEvents, IdleCoVars, CoTypes, QueuesOK, EndTypes
<1>9. CASE WaitForCompletion
  <2> DEFINE arrived == <<Head(completions)>>
  <2>1. CASE completions = << >> /\ UNCHANGED <<ready, waiting, completions>>
    BY <1>9, <2>1 DEF WaitForCompletion, IdleCoVars, CoTypes, QueuesOK, EndTypes
  <2>2. CASE /\ completions # << >>
             /\ ready' = ready \o Filed(arrived)
             /\ waiting' = StillWaiting(arrived)
             /\ completions' = Tail(completions)
    <3>1. Head(completions) \in Completion /\ completions' \in Seq(Completion)
      BY <2>2, HeadTailProperties DEF QueuesOK
    <3>2. arrived \in Seq(Completion)
      BY <3>1
    <3>3. /\ Filed(arrived) \in Seq(Entries)
          /\ StillWaiting(arrived) \in [JobIds -> Threads \cup {None}]
      BY <3>2, FiledType
    <3>4. ready' \in Seq(Entries)
      BY <2>2, <3>3, ConcatProperties DEF QueuesOK
    <3> QED BY <1>9, <2>2, <3>1, <3>3, <3>4
            DEF WaitForCompletion, IdleCoVars, CoTypes, QueuesOK, EndTypes
  <2> QED BY <1>9, <2>1, <2>2 DEF WaitForCompletion
<1> QED BY <1>4, <1>5, <1>6, <1>7, <1>8, <1>9 DEF SchedulerStep

(* Entries a unit of time later are entries.                               *)
LEMMA SoonerType ==
  ASSUME NEW q \in Seq(Entries)
  PROVE  Sooner(q) \in Seq(Entries)
<1> DEFINE n == Len(q)
           aged(e) == Entry(e.t, Later(e.at), e.fails)
<1>1. n \in Nat /\ DOMAIN q = 1..n /\ \A i \in 1..n : q[i] \in Entries
  OBVIOUS
<1>2. \A e \in Entries : aged(e) \in Entries
  BY DEF Entries, Entry, Later, At, Less
<1>3. Sooner(q) = [i \in 1..n |-> aged(q[i])]
  BY <1>1 DEF Sooner
<1> HIDE DEF n, aged
<1>4. Sooner(q) \in [1..n -> Entries]
  BY <1>1, <1>2, <1>3
<1> QED BY <1>1, <1>4

(* So do a finished job and time going by.                                 *)
LEMMA WorldStepKeepsTypes ==
  ASSUME TypeOK, SInv, Tick \/ \E j \in JobIds : JobDone(j)
  PROVE  CoTypes' /\ QueuesOK' /\ EndTypes'
<1>0. CoTypes /\ QueuesOK /\ EndTypes
  BY TypeParts
<1> USE <1>0
<1>1. CASE Tick
  <2>1. sleeping' \in Seq(Entries) /\ pollers' \in Seq(Entries)
    BY <1>1, SoonerType DEF Tick, QueuesOK
  <2>2. park' \in [Threads -> Suspension]
    <3>1. \A at \in Suspension : Later(at) \in Suspension
      BY DEF Suspension, Later, At, Less
    <3> QED BY <1>1, <3>1 DEF Tick, CoTypes
  <2> QED BY <1>1, <2>1, <2>2 DEF Tick, CoTypes, QueuesOK, EndTypes
<1>2. ASSUME NEW j \in JobIds, JobDone(j) PROVE CoTypes' /\ QueuesOK' /\ EndTypes'
  <2>1. PICK fails \in BOOLEAN :
          completions' = Append(completions, [id |-> j, fails |-> fails])
    BY <1>2 DEF JobDone
  <2>2. completions' \in Seq(Completion)
    BY <2>1 DEF QueuesOK, Completion
  <2> QED BY <1>2, <2>2 DEF JobDone, coVars, CoTypes, QueuesOK, EndTypes
<1> QED BY <1>1, <1>2

-----------------------------------------------------------------------------
(***************************************************************************)
(* The inductive invariant, and what follows from it.                      *)
(***************************************************************************)

IInv == TypeOK /\ SInv

(* The initial state satisfies the inductive invariant.                    *)
LEMMA InitIInv == Init => IInv
<1> SUFFICES ASSUME Init PROVE IInv
  OBVIOUS
<1> USE DEF Init, CoInit
<1>1. stack = <<MainChunk>> /\ MainChunk \in Activations /\ MainChunk.k = "main"
  BY ActivationKinds
<1>2. stack \in Seq(Activations) /\ Len(stack) = 1 /\ DOMAIN stack = 1..1
      /\ stack[1] = MainChunk
  BY <1>1
<1>3. \A i \in DOMAIN stack : stack[i].k = "main" /\ i = 1
  BY <1>1, <1>2
<1>4. Disciplined(stack, status, currentCo)
  <2>1. \A i \in DOMAIN stack : ~Co(stack, i)
    BY <1>3 DEF Co
  <2>2. Once(stack) /\ Callers(stack) /\ MainFirst(stack)
    BY <1>3, <2>1 DEF Once, Callers, MainFirst
  <2>3. Innermost(stack, currentCo)
    BY <1>2, <2>1 DEF Innermost, NextBelow
  <2>4. Statuses(stack, status, currentCo)
    BY <2>1, NoneAssumption DEF Statuses, OnStack, Onto
  <2>5. CoTyped(stack, currentCo)
    BY <2>1 DEF CoTyped
  <2> QED BY <2>2, <2>3, <2>4, <2>5 DEF Disciplined
<1>5. Counted(stack, currentCo, yieldFloor, nativeCalls)
  <2>1. \A n : NativesBelow(stack, n) = {}
    BY <1>3 DEF NativesBelow
  <2>2. \A n : CountBelow(stack, n) = 0
    BY <2>1, FS_EmptySet DEF CountBelow
  <2>3. \A i \in DOMAIN stack : ~Co(stack, i)
    BY <1>3 DEF Co
  <2> QED BY <2>2, <2>3 DEF Counted, FloorFor
<1>6. SInv
  BY <1>2, <1>4, <1>5 DEF SInv, Status
<1>7. CoTypes /\ EndTypes
  BY Suspensions DEF CoTypes, EndTypes
<1>8. QueuesOK
  <2>1. << >> \in Seq(Entries) /\ << >> \in Seq(Completion)
    OBVIOUS
  <2> QED BY <2>1 DEF QueuesOK
<1> QED BY <1>6, <1>8, <1>7, TypeParts DEF IInv

(* Every step preserves it.                                                *)
LEMMA NextIInv == IInv /\ [Next]_vars => IInv'
<1> SUFFICES ASSUME TypeOK, SInv, [Next]_vars PROVE IInv'
  BY DEF IInv
<1>1. SInv' /\ CoTypes' /\ QueuesOK' /\ EndTypes'
  <2>1. CASE ScriptStep
    BY <2>1, ScriptStepKeepsSInv, ScriptStepKeepsTypes
  <2>2. CASE SchedulerStep
    BY <2>2, SchedulerStepKeepsSInv, SchedulerStepKeepsTypes
  <2>3. CASE \E j \in JobIds : JobDone(j)
    <3>1. SInv'
      BY <2>3 DEF JobDone, coVars, SInv
    <3> QED BY <2>3, <3>1, WorldStepKeepsTypes
  <2>4. CASE Tick
    BY <2>4, TickKeepsSInv, WorldStepKeepsTypes
  <2>5. CASE UNCHANGED vars
    <3>1. SInv'
      BY <2>5 DEF vars, coVars, SInv
    <3>2. CoTypes /\ QueuesOK /\ EndTypes
      BY TypeParts
    <3> QED BY <2>5, <3>1, <3>2 DEF vars, coVars, taskVars, CoTypes, QueuesOK, EndTypes
  <2> QED BY <2>1, <2>2, <2>3, <2>4, <2>5 DEF Next, Terminated
<1>2. TypeOK'
  BY <1>1, StackType DEF TypeOK, SInv, CoTypes, QueuesOK, EndTypes
<1> QED BY <1>1, <1>2 DEF IInv

(* It holds in every reachable state.                                      *)
LEMMA Invariance == Spec => []IInv
BY InitIInv, NextIInv, PTL DEF Spec

(* The state stays well formed, whatever scripts do: among others, counts  *)
(* of native calls never go below zero.                                    *)
THEOREM TypesHold == Spec => []TypeOK
<1>1. IInv => TypeOK
  BY DEF IInv
<1> QED BY <1>1, Invariance, PTL

(* No coroutine is entered again while it is running or waits for one that *)
(* it resumed, however scheduler loops and resumptions nest.               *)
THEOREM NeverReenteredHolds == Spec => []NeverReentered
<1>1. IInv => NeverReentered
  BY DEF IInv, SInv, Disciplined, Once, Co, NeverReentered, IsCo
<1> QED BY <1>1, Invariance, PTL

(* coroutine.status tells where a coroutine is in the nesting of calls.    *)
THEOREM StatusMatchesStackHolds == Spec => []StatusMatchesStack
<1>1. IInv => StatusMatchesStack
  <2> SUFFICES ASSUME IInv, NEW t \in Threads
               PROVE  /\ status[t] = "running" <=> currentCo = t
                      /\ status[t] \in {"running", "normal"}
                           <=> \E i \in DOMAIN stack : IsCo(i) /\ stack[i].t = t
    BY DEF StatusMatchesStack
  <2> QED BY DEF IInv, SInv, Disciplined, Statuses, OnStack, Onto, Co, IsCo
<1> QED BY <1>1, Invariance, PTL

(* A coroutine that yields or ends gives control back to the one that      *)
(* resumed it, which is the next coroutine on the stack.                   *)
THEOREM CallersChainHolds == Spec => []CallersChain
<1>1. IInv => CallersChain
  <2> SUFFICES ASSUME IInv, NEW i \in DOMAIN stack, IsCo(i)
               PROVE  /\ stack[i].caller # None =>
                           \E j \in 1..(i - 1) :
                             /\ IsCo(j) /\ stack[j].t = stack[i].caller
                             /\ \A m \in (j + 1)..(i - 1) : ~IsCo(m)
                      /\ stack[i].caller = None => \A m \in 1..(i - 1) : ~IsCo(m)
    BY DEF CallersChain
  <2>1. NextBelow(stack, i, stack[i].caller)
    BY DEF IInv, SInv, Disciplined, Callers, Co, IsCo
  <2> QED BY <2>1 DEF NextBelow, Co, IsCo
<1> QED BY <1>1, Invariance, PTL

(* In a program without `require`, a place where the VM lets a coroutine   *)
(* yield is in its own frames: the counts of native calls that decide it   *)
(* (native_calls, yield_floor) say what the Rust stack looks like, through *)
(* every nesting of coroutines, natives and scheduler loops.  With         *)
(* `require` this fails.                                                   *)
THEOREM YieldsFromOwnFramesHolds ==
  ASSUME "require" \notin Calls
  PROVE  Spec => []YieldsFromOwnFrames
<1>1. IInv => YieldsFromOwnFrames
  <2> SUFFICES ASSUME IInv, ScriptRuns, Yieldable
               PROVE  Executing.k = "co" /\ Executing.t = currentCo
    BY DEF YieldsFromOwnFrames
  <2> DEFINE n == Len(stack)
             r == RunningAt
  <2>1. SInv /\ currentCo # None /\ stack # << >> /\ Executing.k # "sched"
    BY DEF IInv, Yieldable, ScriptRuns
  <2>2. r \in DOMAIN stack /\ Co(stack, r) /\ stack[r].t = currentCo
    BY <2>1, RunningAtExists
  <2>3. n \in Nat /\ n \in DOMAIN stack /\ DOMAIN stack = 1..n /\ Executing = stack[n]
    BY <2>1 DEF SInv, Executing
  <2> HIDE DEF n, r
  <2>4. stack[n].k # "native"
    <3>1. \A i \in DOMAIN stack : r <= i => stack[i].k # "native"
      BY <2>1, <2>2, YieldableMeansNoNatives DEF SInv, Yieldable
    <3> QED BY <2>2, <2>3, <3>1
  <2>5. stack[n] \in Activations
    BY <2>1, <2>3 DEF SInv
  <2>6. stack[n].k \in {"co", "main"}
    BY <2>1, <2>3, <2>4, <2>5, ActivationKinds
  <2>7. CASE stack[n].k = "main"
    <3>1. n = 1 /\ r = n
      BY <2>1, <2>2, <2>3, <2>7 DEF SInv, Disciplined, MainFirst
    <3> QED BY <2>2, <2>3, <3>1 DEF Co
  <2>8. CASE stack[n].k = "co"
    <3>1. n <= r
      BY <2>1, <2>2, <2>3, <2>8, CurrentIsInnermost DEF SInv, Co
    <3>2. r = n
      BY <2>2, <2>3, <3>1
    <3> QED BY <2>2, <2>3, <3>2 DEF Co
  <2> QED BY <2>6, <2>7, <2>8
<1> QED BY <1>1, Invariance, PTL
-----------------------------------------------------------------------------
(***************************************************************************)
(* The queues as sets of entries, and whose they are.                      *)
(***************************************************************************)

(* The threads a queue has entries for, and that it has one for each.      *)
Owners(queue) == {queue[i].t : i \in DOMAIN queue}
OneEach(queue) == \A i, j \in DOMAIN queue : queue[i].t = queue[j].t => i = j

(* What a sequence is made of.                                             *)
LEMMA Positions ==
  ASSUME NEW S, NEW q \in Seq(S)
  PROVE  /\ Len(q) \in Nat /\ DOMAIN q = 1..Len(q)
         /\ \A e : e \in ToSet(q) <=> \E i \in 1..Len(q) : q[i] = e
         /\ \A e \in ToSet(q) : e \in S
BY DEF ToSet

(* The owners are those of the entries.                                    *)
LEMMA OwnersOfEntries ==
  ASSUME NEW q
  PROVE  /\ \A u : u \in Owners(q) <=> \E e \in ToSet(q) : e.t = u
         /\ \A i \in DOMAIN q : q[i] \in ToSet(q)
         /\ \A e \in ToSet(q) : \E i \in DOMAIN q : q[i] = e
BY DEF Owners, ToSet

(* A queue with nothing in it.                                             *)
LEMMA EmptyQueue ==
  ToSet(<< >>) = {} /\ Owners(<< >>) = {} /\ OneEach(<< >>)
BY DEF ToSet, Owners, OneEach

(* One queue after another.                                                *)
LEMMA ConcatEntries ==
  ASSUME NEW S, NEW p \in Seq(S), NEW q \in Seq(S)
  PROVE  /\ p \o q \in Seq(S)
         /\ ToSet(p \o q) = ToSet(p) \cup ToSet(q)
         /\ Owners(p \o q) = Owners(p) \cup Owners(q)
         /\ OneEach(p) /\ OneEach(q) /\ Owners(p) \cap Owners(q) = {}
              => OneEach(p \o q)
<1> DEFINE m == Len(p)
           n == Len(q)
           r == p \o q
<1>1. m \in Nat /\ n \in Nat /\ DOMAIN p = 1..m /\ DOMAIN q = 1..n
  OBVIOUS
<1>2. /\ r \in Seq(S) /\ DOMAIN r = 1..(m + n)
      /\ \A i \in 1..(m + n) : r[i] = IF i <= m THEN p[i] ELSE q[i - m]
  BY ConcatProperties
<1>3. /\ \A i \in 1..m : i \in 1..(m + n) /\ r[i] = p[i]
      /\ \A i \in 1..n : i + m \in 1..(m + n) /\ r[i + m] = q[i]
  BY <1>1, <1>2
<1>4. \A i \in 1..(m + n) : \/ i \in 1..m /\ r[i] = p[i]
                            \/ i - m \in 1..n /\ r[i] = q[i - m] /\ i = (i - m) + m
  BY <1>1, <1>2
<1> HIDE DEF m, n, r
<1>5. ToSet(r) = ToSet(p) \cup ToSet(q)
  <2>1. \A i \in 1..m : p[i] \in ToSet(r)
    BY <1>2, <1>3 DEF ToSet
  <2>2. \A i \in 1..n : q[i] \in ToSet(r)
    BY <1>2, <1>3 DEF ToSet
  <2>3. ASSUME NEW i \in 1..(m + n) PROVE r[i] \in ToSet(p) \cup ToSet(q)
    BY <1>1, <1>4 DEF ToSet
  <2>4. ToSet(p) \cup ToSet(q) \subseteq ToSet(r)
    BY <1>1, <2>1, <2>2 DEF ToSet
  <2>5. ToSet(r) \subseteq ToSet(p) \cup ToSet(q)
    <3> SUFFICES ASSUME NEW e \in ToSet(r) PROVE e \in ToSet(p) \cup ToSet(q)
      OBVIOUS
    <3>1. PICK i \in DOMAIN r : r[i] = e
      BY OwnersOfEntries
    <3> QED BY <1>2, <2>3, <3>1
  <2> QED BY <2>4, <2>5
<1>6. Owners(r) = Owners(p) \cup Owners(q)
  BY <1>5, OwnersOfEntries
<1>7. ASSUME OneEach(p), OneEach(q), Owners(p) \cap Owners(q) = {}
      PROVE  OneEach(r)
  <2> SUFFICES ASSUME NEW i \in 1..(m + n), NEW j \in 1..(m + n), r[i].t = r[j].t
               PROVE  i = j
    BY <1>2 DEF OneEach
  <2>1. \A k \in 1..m : p[k].t \in Owners(p)
    BY <1>1 DEF Owners
  <2>2. \A k \in 1..n : q[k].t \in Owners(q)
    BY <1>1 DEF Owners
  <2>3. CASE i \in 1..m /\ r[i] = p[i] /\ j \in 1..m /\ r[j] = p[j]
    BY <1>1, <1>7, <2>3 DEF OneEach
  <2>4. CASE /\ i - m \in 1..n /\ r[i] = q[i - m] /\ i = (i - m) + m
             /\ j - m \in 1..n /\ r[j] = q[j - m] /\ j = (j - m) + m
    <3>1. i - m = j - m
      BY <1>1, <1>7, <2>4 DEF OneEach
    <3> QED BY <2>4, <3>1
  <2> QED BY <1>4, <1>7, <2>1, <2>2, <2>3, <2>4
<1> QED BY <1>2, <1>5, <1>6, <1>7 DEF r

(* A queue with one more entry at its end.                                 *)
LEMMA AppendEntries ==
  ASSUME NEW S, NEW q \in Seq(S), NEW x \in S
  PROVE  /\ Append(q, x) \in Seq(S)
         /\ ToSet(Append(q, x)) = ToSet(q) \cup {x}
         /\ Owners(Append(q, x)) = Owners(q) \cup {x.t}
         /\ OneEach(q) /\ x.t \notin Owners(q) => OneEach(Append(q, x))
<1> DEFINE c == <<x>>
<1>1. c \in Seq(S) /\ Append(q, x) = q \o c
  BY AppendIsConcat
<1>2. ToSet(c) = {x} /\ Owners(c) = {x.t} /\ OneEach(c)
  BY DEF ToSet, Owners, OneEach
<1> HIDE DEF c
<1> QED BY <1>1, <1>2, ConcatEntries

(* The first entry of a queue, and the others.                             *)
LEMMA TailEntries ==
  ASSUME NEW S, NEW q \in Seq(S), q # << >>
  PROVE  /\ Head(q) \in S /\ Tail(q) \in Seq(S)
         /\ ToSet(q) = {Head(q)} \cup ToSet(Tail(q))
         /\ Owners(q) = {Head(q).t} \cup Owners(Tail(q))
         /\ OneEach(q) => OneEach(Tail(q)) /\ Head(q).t \notin Owners(Tail(q))
<1> DEFINE h == Head(q)
           r == Tail(q)
           n == Len(r)
<1>1. /\ h \in S /\ r \in Seq(S) /\ n \in Nat /\ DOMAIN r = 1..n
      /\ DOMAIN q = 1..(n + 1) /\ h = q[1] /\ \A i \in 1..n : r[i] = q[i + 1]
  <2>1. /\ h \in S /\ r \in Seq(S) /\ n = Len(q) - 1
        /\ \A i \in 1..n : r[i] = q[i + 1]
    BY HeadTailProperties
  <2>2. Len(q) \in Nat /\ DOMAIN q = 1..Len(q) /\ h = q[1]
    OBVIOUS
  <2>3. n \in Nat /\ DOMAIN r = 1..n
    BY <2>1
  <2> HIDE DEF h, r, n
  <2> QED BY <2>1, <2>2, <2>3
<1> HIDE DEF h, r, n
<1>2. \A i \in 1..n : i + 1 \in 1..(n + 1) /\ i + 1 # 1
  BY <1>1
<1>3. \A i \in 1..(n + 1) : i = 1 \/ (i - 1 \in 1..n /\ (i - 1) + 1 = i)
  BY <1>1
<1>4. 1 \in 1..(n + 1)
  BY <1>1
<1>5. ToSet(q) = {h} \cup ToSet(r)
  <2>1. {h} \cup ToSet(r) \subseteq ToSet(q)
    BY <1>1, <1>2, <1>4 DEF ToSet
  <2>2. \A i \in 1..n : r[i] \in ToSet(r)
    BY <1>1 DEF ToSet
  <2>3. ToSet(q) \subseteq {h} \cup ToSet(r)
    <3> SUFFICES ASSUME NEW e \in ToSet(q) PROVE e \in {h} \cup ToSet(r)
      OBVIOUS
    <3>1. PICK i \in 1..(n + 1) : q[i] = e
      BY <1>1, OwnersOfEntries
    <3>2. i # 1 => q[i] = r[i - 1]
      BY <1>1, <1>3
    <3> QED BY <1>1, <1>3, <2>2, <3>1, <3>2
  <2> QED BY <2>1, <2>3
<1>6. Owners(q) = {h.t} \cup Owners(r)
  BY <1>5, OwnersOfEntries
<1>7. ASSUME OneEach(q)
      PROVE  OneEach(r) /\ h.t \notin Owners(r)
  <2>1. \A i, j \in 1..n : r[i].t = r[j].t => i = j
    <3> TAKE i, j \in 1..n
    <3> HAVE r[i].t = r[j].t
    <3>1. i + 1 \in DOMAIN q /\ j + 1 \in DOMAIN q
      BY <1>1, <1>2
    <3>2. q[i + 1].t = q[j + 1].t
      BY <1>1
    <3>3. i + 1 = j + 1
      BY <1>7, <3>1, <3>2 DEF OneEach
    <3> QED BY <1>1, <3>3
  <2>2. \A i \in 1..n : r[i].t # h.t
    BY <1>1, <1>2, <1>4, <1>7 DEF OneEach
  <2> QED BY <1>1, <2>1, <2>2 DEF OneEach, Owners
<1> QED BY <1>1, <1>5, <1>6, <1>7 DEF h, r

(* Different elements retained were at different positions.                *)
LEMMA RetainApart ==
  ASSUME NEW S, NEW q \in Seq(S), NEW I \in SUBSET (DOMAIN q),
         NEW m \in DOMAIN Retain(q, I), NEW n \in DOMAIN Retain(q, I)
  PROVE  \E i, j \in I : /\ Retain(q, I)[m] = q[i] /\ Retain(q, I)[n] = q[j]
                         /\ i = j => m = n
<1>1. Len(q) \in Nat /\ DOMAIN q = 1..Len(q)
  OBVIOUS
<1>2. /\ m \in 1..Cardinality(I) /\ Retain(q, I)[m] = q[Nth(I, m)]
      /\ n \in 1..Cardinality(I) /\ Retain(q, I)[n] = q[Nth(I, n)]
  BY DEF Retain
<1>3. /\ Nth(I, m) \in I /\ Cardinality(UpTo(I, Nth(I, m))) = m
      /\ Nth(I, n) \in I /\ Cardinality(UpTo(I, Nth(I, n))) = n
  BY <1>1, <1>2, NthIsMember
<1> QED BY <1>2, <1>3

(* What is retained of a queue.                                            *)
LEMMA RetainEntries ==
  ASSUME NEW S, NEW q \in Seq(S), NEW I \in SUBSET (DOMAIN q)
  PROVE  /\ Retain(q, I) \in Seq(S)
         /\ ToSet(Retain(q, I)) = {q[i] : i \in I}
         /\ OneEach(q) => OneEach(Retain(q, I))
<1> DEFINE r == Retain(q, I)
<1>1. r \in Seq(S)
  BY RetainType
<1>2. \A n \in DOMAIN r : \E i \in I : r[n] = q[i]
  BY RetainOnly
<1>3. \A i \in I : \E n \in DOMAIN r : r[n] = q[i]
  BY RetainAll
<1>4. ToSet(r) = {q[i] : i \in I}
  BY <1>2, <1>3 DEF ToSet
<1>5. ASSUME OneEach(q), NEW m \in DOMAIN r, NEW n \in DOMAIN r, r[m].t = r[n].t
      PROVE  m = n
  <2>1. PICK i \in I, j \in I : r[m] = q[i] /\ r[n] = q[j] /\ (i = j => m = n)
    BY RetainApart
  <2> QED BY <1>5, <2>1 DEF OneEach
<1> QED BY <1>1, <1>4, <1>5 DEF OneEach

(* A queue with one more entry somewhere.                                  *)
LEMMA InsertEntries ==
  ASSUME NEW S, NEW q \in Seq(S), NEW k \in 1..(Len(q) + 1), NEW x \in S
  PROVE  /\ InsertAt(q, k, x) \in Seq(S)
         /\ ToSet(InsertAt(q, k, x)) = ToSet(q) \cup {x}
         /\ Owners(InsertAt(q, k, x)) = Owners(q) \cup {x.t}
         /\ OneEach(q) /\ x.t \notin Owners(q) => OneEach(InsertAt(q, k, x))
<1> DEFINE n == Len(q)
           a == SubSeq(q, 1, k - 1)
           b == SubSeq(q, k, n)
<1>1. n \in Nat /\ k \in Nat /\ k >= 1 /\ k <= n + 1 /\ DOMAIN q = 1..n
  OBVIOUS
<1>2. /\ \A i \in 1..(k - 1) : i \in 1..n
      /\ \A i \in k..n : i \in 1..n
      /\ \A i \in 1..n : i \in 1..(k - 1) \/ i \in k..n
      /\ \A i \in 1..(n - k + 1) : k + i - 1 \in k..n
      /\ \A i \in k..n : i - k + 1 \in 1..(n - k + 1) /\ k + (i - k + 1) - 1 = i
  BY <1>1
<1>3. /\ a \in Seq(S) /\ DOMAIN a = 1..(k - 1) /\ \A i \in 1..(k - 1) : a[i] = q[i]
  <2>1. \A i \in 1..(k - 1) : q[i] \in S
    BY <1>2
  <2>2. /\ a \in Seq(S) /\ Len(a) = IF 1 <= k - 1 THEN k - 1 - 1 + 1 ELSE 0
        /\ \A i \in 1..(k - 1 - 1 + 1) : a[i] = q[1 + i - 1]
    BY <1>1, <2>1, SubSeqProperties
  <2> HIDE DEF a
  <2>3. Len(a) = k - 1 /\ DOMAIN a = 1..(k - 1)
    BY <1>1, <2>2
  <2> QED BY <1>1, <2>2, <2>3
<1>4. /\ b \in Seq(S) /\ DOMAIN b = 1..(n - k + 1)
      /\ \A i \in 1..(n - k + 1) : b[i] = q[k + i - 1]
  <2>1. \A i \in k..n : q[i] \in S
    BY <1>2
  <2>2. /\ b \in Seq(S) /\ Len(b) = IF k <= n THEN n - k + 1 ELSE 0
        /\ \A i \in 1..(n - k + 1) : b[i] = q[k + i - 1]
    BY <1>1, <2>1, SubSeqProperties
  <2> HIDE DEF b
  <2>3. Len(b) = n - k + 1
    BY <1>1, <2>2
  <2> QED BY <2>2, <2>3
<1> HIDE DEF a, b, n
<1>5. ToSet(q) = ToSet(a) \cup ToSet(b)
  <2>1. \A e \in ToSet(a) \cup ToSet(b) : e \in ToSet(q)
    <3>1. \A i \in DOMAIN a : i \in DOMAIN q /\ a[i] = q[i]
      BY <1>1, <1>2, <1>3
    <3>2. \A i \in DOMAIN b : k + i - 1 \in DOMAIN q /\ b[i] = q[k + i - 1]
      BY <1>1, <1>2, <1>4
    <3> QED BY <3>1, <3>2, Zenon DEF ToSet
  <2>2. ASSUME NEW i \in 1..n PROVE q[i] \in ToSet(a) \cup ToSet(b)
    <3>1. CASE i \in 1..(k - 1)
      BY <1>3, <3>1 DEF ToSet
    <3>2. CASE i \in k..n
      <4>1. b[i - k + 1] = q[i] /\ i - k + 1 \in DOMAIN b
        BY <1>2, <1>4, <3>2
      <4> QED BY <4>1 DEF ToSet
    <3> QED BY <1>2, <3>1, <3>2
  <2> QED BY <1>1, <2>1, <2>2 DEF ToSet
<1>6. Owners(q) = Owners(a) \cup Owners(b)
  BY <1>5, OwnersOfEntries
<1>7. ASSUME OneEach(q)
      PROVE  OneEach(a) /\ OneEach(b) /\ Owners(a) \cap Owners(b) = {}
  <2>1. OneEach(a)
    BY <1>1, <1>2, <1>3, <1>7 DEF OneEach
  <2>2. OneEach(b)
    <3> SUFFICES ASSUME NEW i \in 1..(n - k + 1), NEW j \in 1..(n - k + 1), b[i].t = b[j].t
                 PROVE  i = j
      BY <1>4 DEF OneEach
    <3>1. k + i - 1 \in 1..n /\ k + j - 1 \in 1..n
      BY <1>1
    <3>2. q[k + i - 1].t = q[k + j - 1].t
      BY <1>4
    <3>3. k + i - 1 = k + j - 1
      BY <1>1, <1>7, <3>1, <3>2 DEF OneEach
    <3> QED BY <1>1, <3>3
  <2>3. ASSUME NEW i \in 1..(k - 1), NEW j \in 1..(n - k + 1) PROVE a[i].t # b[j].t
    <3>1. i # k + j - 1 /\ i \in 1..n /\ k + j - 1 \in 1..n
      BY <1>1
    <3> QED BY <1>1, <1>3, <1>4, <1>7, <3>1 DEF OneEach
  <2> QED BY <1>3, <1>4, <2>1, <2>2, <2>3 DEF Owners
<1> DEFINE c == <<x>>
           d == a \o c
<1>8. c \in Seq(S) /\ ToSet(c) = {x} /\ Owners(c) = {x.t} /\ OneEach(c)
  BY DEF ToSet, Owners, OneEach
<1>9. InsertAt(q, k, x) = d \o b
  BY DEF InsertAt, a, b, n
<1> HIDE DEF c
<1>10. /\ d \in Seq(S) /\ ToSet(d) = ToSet(a) \cup {x}
       /\ Owners(d) = Owners(a) \cup {x.t}
       /\ OneEach(a) /\ x.t \notin Owners(a) => OneEach(d)
  BY <1>3, <1>8, ConcatEntries
<1> HIDE DEF d
<1>11. /\ d \o b \in Seq(S) /\ ToSet(d \o b) = ToSet(d) \cup ToSet(b)
       /\ Owners(d \o b) = Owners(d) \cup Owners(b)
       /\ OneEach(d) /\ OneEach(b) /\ Owners(d) \cap Owners(b) = {} => OneEach(d \o b)
  BY <1>4, <1>10, ConcatEntries
<1> QED BY <1>5, <1>6, <1>7, <1>9, <1>10, <1>11

-----------------------------------------------------------------------------
(***************************************************************************)
(* What the operations of the scheduler leave in its queues.               *)
(***************************************************************************)

(* The entries that are due and the ones that are not.                     *)
LEMMA DueEntries ==
  ASSUME NEW q \in Seq(Entries)
  PROVE  /\ Due(q) \in Seq(Entries) /\ NotDue(q) \in Seq(Entries)
         /\ ToSet(Due(q)) = {e \in ToSet(q) : IsDue(e)}
         /\ ToSet(NotDue(q)) = {e \in ToSet(q) : ~IsDue(e)}
         /\ Owners(Due(q)) \subseteq Owners(q) /\ Owners(NotDue(q)) \subseteq Owners(q)
         /\ OneEach(q) => /\ OneEach(Due(q)) /\ OneEach(NotDue(q))
                          /\ Owners(Due(q)) \cap Owners(NotDue(q)) = {}
<1> DEFINE I == {i \in DOMAIN q : IsDue(q[i])}
           J == {i \in DOMAIN q : ~IsDue(q[i])}
<1>1. Due(q) = Retain(q, I) /\ NotDue(q) = Retain(q, J)
  BY DEF Due, NotDue
<1>2. I \in SUBSET (DOMAIN q) /\ J \in SUBSET (DOMAIN q)
  OBVIOUS
<1>3. /\ \A e : e \in {q[i] : i \in I} <=> e \in ToSet(q) /\ IsDue(e)
      /\ \A e : e \in {q[i] : i \in J} <=> e \in ToSet(q) /\ ~IsDue(e)
  BY DEF ToSet
<1>4. \A i \in I, j \in J : i # j /\ i \in DOMAIN q /\ j \in DOMAIN q
  OBVIOUS
<1> HIDE DEF I, J
<1>5. /\ Retain(q, I) \in Seq(Entries) /\ ToSet(Retain(q, I)) = {q[i] : i \in I}
      /\ OneEach(q) => OneEach(Retain(q, I))
  BY <1>2, RetainEntries
<1>6. /\ Retain(q, J) \in Seq(Entries) /\ ToSet(Retain(q, J)) = {q[i] : i \in J}
      /\ OneEach(q) => OneEach(Retain(q, J))
  BY <1>2, RetainEntries
<1>7. /\ ToSet(Due(q)) = {e \in ToSet(q) : IsDue(e)}
      /\ ToSet(NotDue(q)) = {e \in ToSet(q) : ~IsDue(e)}
  BY <1>1, <1>3, <1>5, <1>6
<1>8. Owners(Due(q)) \subseteq Owners(q) /\ Owners(NotDue(q)) \subseteq Owners(q)
  BY <1>7, OwnersOfEntries
<1>9. ASSUME OneEach(q) PROVE Owners(Due(q)) \cap Owners(NotDue(q)) = {}
  <2> SUFFICES ASSUME NEW u \in Owners(Due(q)), u \in Owners(NotDue(q)) PROVE FALSE
    OBVIOUS
  <2>1. PICK d \in ToSet(Due(q)) : d.t = u
    BY OwnersOfEntries
  <2>2. PICK n \in ToSet(NotDue(q)) : n.t = u
    BY OwnersOfEntries
  <2>3. PICK i \in I : q[i] = d
    BY <1>1, <1>5, <2>1
  <2>4. PICK j \in J : q[j] = n
    BY <1>1, <1>6, <2>2
  <2> QED BY <1>4, <1>9, <2>1, <2>2, <2>3, <2>4 DEF OneEach
<1> QED BY <1>1, <1>5, <1>6, <1>7, <1>8, <1>9

(* A queue without the entries of one thread.                              *)
LEMMA WithoutEntries ==
  ASSUME NEW q \in Seq(Entries), NEW t
  PROVE  /\ ToSet(Without(q, t)) = {e \in ToSet(q) : e.t # t}
         /\ Owners(Without(q, t)) = Owners(q) \ {t}
         /\ OneEach(q) => OneEach(Without(q, t))
<1> DEFINE I == {i \in DOMAIN q : q[i].t # t}
<1>1. Without(q, t) = Retain(q, I)
  BY DEF Without
<1>2. I \in SUBSET (DOMAIN q)
  OBVIOUS
<1>3. \A e : e \in {q[i] : i \in I} <=> e \in ToSet(q) /\ e.t # t
  BY DEF ToSet
<1> HIDE DEF I
<1>4. /\ ToSet(Retain(q, I)) = {q[i] : i \in I}
      /\ OneEach(q) => OneEach(Retain(q, I))
  BY <1>2, RetainEntries
<1>5. ToSet(Without(q, t)) = {e \in ToSet(q) : e.t # t}
  BY <1>1, <1>3, <1>4
<1>6. Owners(Without(q, t)) = Owners(q) \ {t}
  BY <1>5, OwnersOfEntries
<1> QED BY <1>1, <1>4, <1>5, <1>6

(* The sleepers with one more.                                             *)
LEMMA SleepUntilEntries ==
  ASSUME TypeOK, NEW e \in Entries
  PROVE  /\ SleepUntil(e) \in Seq(Entries)
         /\ ToSet(SleepUntil(e)) = ToSet(sleeping) \cup {e}
         /\ Owners(SleepUntil(e)) = Owners(sleeping) \cup {e.t}
         /\ OneEach(sleeping) /\ e.t \notin Owners(sleeping) => OneEach(SleepUntil(e))
<1> DEFINE I == {i \in DOMAIN sleeping : sleeping[i].at.left <= e.at.left}
           n == Cardinality(I)
<1>1. sleeping \in Seq(Entries) /\ Len(sleeping) \in Nat
      /\ DOMAIN sleeping = 1..Len(sleeping)
  BY DEF TypeOK
<1>2. IsFiniteSet(1..Len(sleeping)) /\ Cardinality(1..Len(sleeping)) = Len(sleeping)
  BY <1>1, FS_Interval
<1>3. I \in SUBSET (1..Len(sleeping))
  BY <1>1
<1>4. SleepUntil(e) = InsertAt(sleeping, n + 1, e)
  BY DEF SleepUntil
<1> HIDE DEF I
<1>5. n \in Nat /\ n <= Len(sleeping)
  BY <1>2, <1>3, FS_Subset, FS_CardinalityType
<1> DEFINE k == n + 1
<1>6. k \in 1..(Len(sleeping) + 1) /\ SleepUntil(e) = InsertAt(sleeping, k, e)
  BY <1>1, <1>4, <1>5
<1> HIDE DEF k
<1>7. /\ InsertAt(sleeping, k, e) \in Seq(Entries)
      /\ ToSet(InsertAt(sleeping, k, e)) = ToSet(sleeping) \cup {e}
      /\ Owners(InsertAt(sleeping, k, e)) = Owners(sleeping) \cup {e.t}
      /\ OneEach(sleeping) /\ e.t \notin Owners(sleeping)
           => OneEach(InsertAt(sleeping, k, e))
  BY <1>1, <1>6, InsertEntries
<1> QED BY <1>6, <1>7

(* A queue a unit of time later.                                           *)
LEMMA SoonerEntries ==
  ASSUME NEW q \in Seq(Entries)
  PROVE  /\ \A e \in ToSet(Sooner(q)) : \E d \in ToSet(q) :
              e = Entry(d.t, Later(d.at), d.fails)
         /\ \A d \in ToSet(q) : Entry(d.t, Later(d.at), d.fails) \in ToSet(Sooner(q))
         /\ Owners(Sooner(q)) = Owners(q)
         /\ OneEach(q) => OneEach(Sooner(q))
<1>1. DOMAIN Sooner(q) = DOMAIN q
  BY DEF Sooner
<1>2. \A i \in DOMAIN q : /\ Sooner(q)[i] = Entry(q[i].t, Later(q[i].at), q[i].fails)
                          /\ Sooner(q)[i].t = q[i].t
  BY DEF Sooner, Entry
<1> QED BY <1>1, <1>2 DEF ToSet, Owners, OneEach

(* The pollers that are served become ready as they are, but for an error; *)
(* each of the others stays parked.                                        *)
LEMMA PumpEntries ==
  ASSUME TypeOK, NEW pumped \in Pumped
  PROVE  /\ Served(pumped) \in Seq(Entries) /\ Unserved(pumped) \in Seq(Entries)
         /\ \A e \in ToSet(Served(pumped)) :
              \E d \in ToSet(pollers) : e.t = d.t /\ e.at = d.at
         /\ ToSet(Unserved(pumped)) \subseteq ToSet(pollers)
         /\ \A d \in ToSet(pollers) :
              \/ d \in ToSet(Unserved(pumped))
              \/ \E e \in ToSet(Served(pumped)) : e.t = d.t /\ e.at = d.at
         /\ Owners(Served(pumped)) \subseteq Owners(pollers)
         /\ Owners(Unserved(pumped)) \subseteq Owners(pollers)
         /\ OneEach(pollers) =>
              /\ OneEach(Served(pumped)) /\ OneEach(Unserved(pumped))
              /\ Owners(Served(pumped)) \cap Owners(Unserved(pumped)) = {}
<1>0. pollers \in Seq(Entries)
  BY DEF TypeOK
<1>1. CASE pumped = "error"
  <2> DEFINE s == [i \in DOMAIN pollers |-> Entry(pollers[i].t, pollers[i].at, TRUE)]
  <2>1. Served(pumped) = s /\ Unserved(pumped) = << >>
    BY <1>1 DEF Served, Unserved
  <2>2. /\ DOMAIN s = DOMAIN pollers
        /\ \A i \in DOMAIN pollers : s[i].t = pollers[i].t /\ s[i].at = pollers[i].at
    BY DEF Entry
  <2> HIDE DEF s
  <2>3. OneEach(pollers) => OneEach(s)
    BY <2>2 DEF OneEach
  <2>4. Owners(s) = Owners(pollers)
    BY <2>2 DEF Owners
  <2>5. /\ \A e \in ToSet(s) : \E d \in ToSet(pollers) : e.t = d.t /\ e.at = d.at
        /\ \A d \in ToSet(pollers) : \E e \in ToSet(s) : e.t = d.t /\ e.at = d.at
    BY <2>2 DEF ToSet
  <2> QED BY <2>1, <2>3, <2>4, <2>5, PumpTypes, EmptyQueue
<1>2. CASE pumped = "events"
  <2> DEFINE h == Head(pollers)
             r == Tail(pollers)
             a == <<h>>
  <2>1. pollers # << >>
    BY <1>2 DEF Pumped
  <2>2. /\ h \in Entries /\ r \in Seq(Entries)
        /\ ToSet(pollers) = {h} \cup ToSet(r)
        /\ Owners(pollers) = {h.t} \cup Owners(r)
        /\ OneEach(pollers) => OneEach(r) /\ h.t \notin Owners(r)
    BY <1>0, <2>1, TailEntries
  <2>3. Served(pumped) = a \o Due(r) /\ Unserved(pumped) = NotDue(r)
    BY <1>2 DEF Served, Unserved, Fed, Unfed
  <2>4. a \in Seq(Entries) /\ ToSet(a) = {h} /\ Owners(a) = {h.t} /\ OneEach(a)
    BY <2>2 DEF ToSet, Owners, OneEach
  <2> HIDE DEF a, h, r
  <2>5. /\ Due(r) \in Seq(Entries) /\ NotDue(r) \in Seq(Entries)
        /\ ToSet(Due(r)) = {e \in ToSet(r) : IsDue(e)}
        /\ ToSet(NotDue(r)) = {e \in ToSet(r) : ~IsDue(e)}
        /\ Owners(Due(r)) \subseteq Owners(r) /\ Owners(NotDue(r)) \subseteq Owners(r)
        /\ OneEach(r) => /\ OneEach(Due(r)) /\ OneEach(NotDue(r))
                         /\ Owners(Due(r)) \cap Owners(NotDue(r)) = {}
    BY <2>2, DueEntries
  <2>6. /\ a \o Due(r) \in Seq(Entries)
        /\ ToSet(a \o Due(r)) = ToSet(a) \cup ToSet(Due(r))
        /\ Owners(a \o Due(r)) = Owners(a) \cup Owners(Due(r))
        /\ OneEach(a) /\ OneEach(Due(r)) /\ Owners(a) \cap Owners(Due(r)) = {}
             => OneEach(a \o Due(r))
    BY <2>4, <2>5, ConcatEntries
  <2>7. /\ ToSet(Served(pumped)) = {h} \cup {e \in ToSet(r) : IsDue(e)}
        /\ ToSet(Unserved(pumped)) = {e \in ToSet(r) : ~IsDue(e)}
        /\ Owners(Served(pumped)) = {h.t} \cup Owners(Due(r))
    BY <2>3, <2>4, <2>5, <2>6
  <2>8. OneEach(pollers) =>
          /\ OneEach(Served(pumped)) /\ OneEach(Unserved(pumped))
          /\ Owners(Served(pumped)) \cap Owners(Unserved(pumped)) = {}
    BY <2>2, <2>3, <2>4, <2>5, <2>6, <2>7
  <2> QED BY <2>2, <2>3, <2>5, <2>6, <2>7, <2>8
<1>3. CASE pumped = "none"
  <2>1. Served(pumped) = << >> \o Due(pollers) /\ Unserved(pumped) = NotDue(pollers)
    BY <1>3 DEF Served, Unserved, Fed, Unfed
  <2>2. Due(pollers) \in Seq(Entries) /\ Served(pumped) = Due(pollers)
    BY <1>0, <2>1, DueEntries, ConcatEmptySeq
  <2> QED BY <1>0, <2>1, <2>2, DueEntries
<1> QED BY <1>1, <1>2, <1>3 DEF Pumped

(* The completions that have arrived become entries of the threads that    *)
(* wait for them.                                                          *)
LEMMA FiledEntries ==
  ASSUME TypeOK, NEW arrived \in Seq(Completion)
  PROVE  /\ \A e \in ToSet(Filed(arrived)) : \E i \in DOMAIN arrived :
              /\ waiting[arrived[i].id] # None
              /\ e = Entry(waiting[arrived[i].id], At("job", 0, arrived[i].id),
                           arrived[i].fails)
         /\ \A i \in DOMAIN arrived : waiting[arrived[i].id] # None =>
              Entry(waiting[arrived[i].id], At("job", 0, arrived[i].id), arrived[i].fails)
                \in ToSet(Filed(arrived))
         /\ /\ \A i, j \in DOMAIN arrived : arrived[i].id = arrived[j].id => i = j
            /\ \A j, k \in JobIds : waiting[j] # None /\ waiting[j] = waiting[k] => j = k
            => OneEach(Filed(arrived))
<1> DEFINE I == {i \in DOMAIN arrived : waiting[arrived[i].id] # None}
           r == Retain(arrived, I)
           filed(c) == Entry(waiting[c.id], At("job", 0, c.id), c.fails)
<1>1. /\ I \in SUBSET (DOMAIN arrived)
      /\ \A i : i \in I <=> i \in DOMAIN arrived /\ waiting[arrived[i].id] # None
  OBVIOUS
<1>2. Filed(arrived) = [i \in DOMAIN r |-> filed(r[i])]
  BY DEF Filed
<1>3. \A c : filed(c).t = waiting[c.id]
  BY DEF Entry
<1> HIDE DEF I
<1>4. \A n \in DOMAIN r : \E i \in I : r[n] = arrived[i]
  BY <1>1, RetainOnly
<1>5. \A i \in I : \E n \in DOMAIN r : r[n] = arrived[i]
  BY <1>1, RetainAll
<1>6. \A m, n \in DOMAIN r : \E i, j \in I :
        r[m] = arrived[i] /\ r[n] = arrived[j] /\ (i = j => m = n)
  BY <1>1, RetainApart
<1>7. \A i \in DOMAIN arrived : arrived[i].id \in JobIds
  <2>1. \A i \in DOMAIN arrived : arrived[i] \in Completion
    OBVIOUS
  <2> QED BY <2>1 DEF Completion
<1> HIDE DEF r, filed
<1>8. DOMAIN Filed(arrived) = DOMAIN r
      /\ \A n \in DOMAIN r : Filed(arrived)[n] = filed(r[n])
  BY <1>2
<1>9. \A e \in ToSet(Filed(arrived)) : \E i \in I : e = filed(arrived[i])
  BY <1>4, <1>8 DEF ToSet
<1>10. \A i \in I : filed(arrived[i]) \in ToSet(Filed(arrived))
  BY <1>5, <1>8 DEF ToSet
<1>11. ASSUME \A i, j \in DOMAIN arrived : arrived[i].id = arrived[j].id => i = j,
              \A j, k \in JobIds : waiting[j] # None /\ waiting[j] = waiting[k] => j = k
       PROVE  OneEach(Filed(arrived))
  <2> SUFFICES ASSUME NEW m \in DOMAIN r, NEW n \in DOMAIN r,
                      filed(r[m]).t = filed(r[n]).t
               PROVE  m = n
    BY <1>8 DEF OneEach
  <2>1. PICK i \in I, j \in I :
          r[m] = arrived[i] /\ r[n] = arrived[j] /\ (i = j => m = n)
    BY <1>6
  <2>2. arrived[i].id = arrived[j].id
    BY <1>1, <1>3, <1>7, <1>11, <2>1
  <2> QED BY <1>1, <1>11, <2>1, <2>2
<1> QED BY <1>1, <1>9, <1>10, <1>11 DEF filed

-----------------------------------------------------------------------------
(***************************************************************************)
(* Background jobs.                                                        *)
(***************************************************************************)

(* Each job is at work or in the completion queue, and once.               *)
JobsOnce ==
  /\ \A i, j \in DOMAIN completions : completions[i].id = completions[j].id => i = j
  /\ \A i \in DOMAIN completions : completions[i].id \notin atWork

JobsInv == JobsOnce /\ WaitedJobsRun

(* A job that may be given out is one nothing refers to.                   *)
LEMMA FreeJob ==
  ASSUME FreeJobs # {}
  PROVE  /\ Min(FreeJobs) \in JobIds /\ waiting[Min(FreeJobs)] = None
         /\ Min(FreeJobs) \notin atWork
         /\ \A i \in DOMAIN completions : completions[i].id # Min(FreeJobs)
<1> DEFINE job == Min(FreeJobs)
<1>1. FreeJobs \subseteq Nat
  BY JobIdsAssumption DEF FreeJobs
<1>2. job \in FreeJobs
  BY <1>1, LeastNumber DEF Min
<1> HIDE DEF job
<1>3. /\ job \in JobIds /\ waiting[job] = None /\ job \notin atWork
      /\ \A i \in DOMAIN completions : completions[i].id # job
  BY <1>2 DEF FreeJobs
<1> QED BY <1>3 DEF job

(* Which steps give jobs out, finish them or file their completions.       *)
LEMMA JobSteps ==
  ASSUME [Next]_vars
  PROVE  \/ BackgroundRun \/ PollInPlace \/ BeginPass \/ WaitForCompletion
         \/ \E t \in Threads : TaskCancel(t)
         \/ \E j \in JobIds : JobDone(j)
         \/ UNCHANGED <<waiting, atWork, completions>>
<1> DEFINE same == UNCHANGED <<waiting, atWork, completions>>
<1>1. ASSUME ScriptStep
      PROVE  BackgroundRun \/ PollInPlace \/ (\E t \in Threads : TaskCancel(t)) \/ same
  <2>1. ASSUME NEW t \in Threads,
               \/ Create(t) \/ CoroutineResume(t) \/ CoroutineClose(t)
               \/ TaskSpawn(t) \/ TaskDefer(t)
        PROVE  same
    BY <2>1 DEF Create, CoroutineResume, CoroutineClose, TaskSpawn, TaskDefer, taskVars
  <2>2. ASSUME NEW t \in Threads, NEW d \in Delays,
               TaskDelay(t, d) \/ TaskWait(d) \/ TaskWaitBlocking(d) \/ PollParked(d)
        PROVE  same
    BY <2>2 DEF TaskDelay, TaskWait, TaskWaitBlocking, PollParked, taskVars
  <2>3. ASSUME NEW d \in Delays, TaskWait(d) \/ TaskWaitBlocking(d) \/ PollParked(d)
        PROVE  same
    BY <2>3 DEF TaskWait, TaskWaitBlocking, PollParked, taskVars
  <2>4. ASSUME \/ CoroutineYield \/ CallBack \/ CallReturn \/ Require \/ RequireReturn
               \/ BodyReturns \/ BodyRaises \/ MainReturns \/ MainRaises
        PROVE  same
    BY <2>4 DEF CoroutineYield, CallBack, CallReturn, Require, RequireReturn,
       BodyReturns, BodyRaises, MainReturns, MainRaises, taskVars, queues
  <2> HIDE DEF same
  <2> QED BY <1>1, <2>1, <2>2, <2>3, <2>4 DEF ScriptStep
<1>2. ASSUME SchedulerStep PROVE BeginPass \/ WaitForCompletion \/ same
  BY <1>2 DEF SchedulerStep, ResumeNext, LoopReturns, PassAgain, ProgramEnds,
     WaitForEvents, WaitForDeadline, taskVars, queues
<1>3. Tick \/ Terminated \/ UNCHANGED vars => same
  BY DEF Tick, Terminated, vars, taskVars
<1> HIDE DEF same
<1>4. ASSUME Next
      PROVE  \/ BackgroundRun \/ PollInPlace \/ BeginPass \/ WaitForCompletion
             \/ (\E t \in Threads : TaskCancel(t)) \/ (\E j \in JobIds : JobDone(j)) \/ same
  BY <1>1, <1>2, <1>3, <1>4 DEF Next
<1> QED BY <1>3, <1>4 DEF same

(* Every step keeps each job in one place, and no waited-for job is lost.  *)
LEMMA JobStepKeepsJobs ==
  ASSUME TypeOK, JobsInv, [Next]_vars
  PROVE  JobsInv'
<1> USE DEF JobsInv, JobsOnce, WaitedJobsRun
<1>0. /\ waiting \in [JobIds -> Threads \cup {None}] /\ completions \in Seq(Completion)
      /\ Len(completions) \in Nat /\ DOMAIN completions = 1..Len(completions)
      /\ << >> \in Seq(Completion) /\ DOMAIN << >> = {}
  BY DEF TypeOK
<1>1. CASE BackgroundRun
  <2> DEFINE job == Min(FreeJobs)
  <2>1. /\ job \in JobIds /\ job \notin atWork
        /\ \A i \in DOMAIN completions : completions[i].id # job
    BY <1>1, FreeJob DEF BackgroundRun
  <2>2. /\ waiting' = [waiting EXCEPT ![job] = currentCo]
        /\ atWork' = atWork \cup {job} /\ completions' = completions
    BY <1>1 DEF BackgroundRun
  <2> HIDE DEF job
  <2> QED BY <1>0, <2>1, <2>2
<1>2. CASE PollInPlace \/ BeginPass
  <2>1. waiting' = StillWaiting(completions) /\ completions' = << >> /\ atWork' = atWork
    BY <1>2 DEF PollInPlace, BeginPass
  <2>2. \A j \in JobIds : waiting'[j] # None =>
          waiting[j] # None /\ \A i \in DOMAIN completions : completions[i].id # j
    BY <2>1 DEF StillWaiting
  <2> QED BY <1>0, <2>1, <2>2
<1>3. CASE WaitForCompletion
  <2>1. CASE UNCHANGED <<waiting, completions>>
    BY <1>3, <2>1 DEF WaitForCompletion
  <2>2. CASE /\ completions # << >> /\ waiting' = StillWaiting(<<Head(completions)>>)
             /\ completions' = Tail(completions)
    <3> DEFINE h == Head(completions)
               r == Tail(completions)
               n == Len(r)
    <3>1. /\ h = completions[1] /\ n \in Nat /\ DOMAIN r = 1..n
          /\ DOMAIN completions = 1..(n + 1) /\ \A i \in 1..n : r[i] = completions[i + 1]
      <4>1. /\ r \in Seq(Completion) /\ n = Len(completions) - 1
            /\ \A i \in 1..n : r[i] = completions[i + 1]
        BY <1>0, <2>2, HeadTailProperties
      <4>2. n \in Nat /\ DOMAIN r = 1..n
        BY <4>1
      <4>3. h = completions[1]
        BY <1>0
      <4> HIDE DEF h, r, n
      <4> QED BY <1>0, <4>1, <4>2, <4>3
    <3>2. \A j \in JobIds : waiting'[j] # None => waiting[j] # None /\ h.id # j
      BY <2>2 DEF StillWaiting
    <3>3. atWork' = atWork /\ completions' = r
      BY <1>3, <2>2 DEF WaitForCompletion
    <3> HIDE DEF h, r, n
    <3>4. \A i \in 1..n : i + 1 \in 1..(n + 1) /\ r[i] = completions[i + 1]
      BY <3>1
    <3>5. \A i \in 1..(n + 1) : i = 1 \/ (i - 1 \in 1..n /\ r[i - 1] = completions[i])
      BY <3>1
    <3>6. \A i, j \in 1..n : r[i].id = r[j].id => i = j
      <4> TAKE i, j \in 1..n
      <4> HAVE r[i].id = r[j].id
      <4>1. i + 1 \in DOMAIN completions /\ j + 1 \in DOMAIN completions
            /\ completions[i + 1].id = completions[j + 1].id
        BY <3>1, <3>4
      <4>2. i + 1 = j + 1
        BY <4>1
      <4> QED BY <4>2
    <3>7. \A i \in 1..n : r[i].id \notin atWork
      BY <3>1, <3>4
    <3>8. ASSUME NEW j \in JobIds, waiting'[j] # None
          PROVE  j \in atWork \/ \E i \in 1..n : r[i].id = j
      BY <3>1, <3>2, <3>5, <3>8
    <3> QED BY <3>1, <3>3, <3>6, <3>7, <3>8
  <2> QED BY <1>3, <2>1, <2>2 DEF WaitForCompletion
<1>4. ASSUME NEW t \in Threads, TaskCancel(t) PROVE JobsInv'
  BY <1>4 DEF TaskCancel, Forget
<1>5. ASSUME NEW j \in JobIds, JobDone(j) PROVE JobsInv'
  <2>1. PICK fails \in BOOLEAN :
          completions' = Append(completions, [id |-> j, fails |-> fails])
    BY <1>5 DEF JobDone
  <2> DEFINE n == Len(completions)
             c == [id |-> j, fails |-> fails]
  <2>2. c \in Completion /\ c.id = j
    BY DEF Completion
  <2>3. j \in atWork /\ atWork' = atWork \ {j} /\ waiting' = waiting
    BY <1>5 DEF JobDone
  <2> HIDE DEF c
  <2>4. /\ completions' \in Seq(Completion) /\ DOMAIN completions' = 1..(n + 1)
        /\ \A i \in 1..n : completions'[i] = completions[i]
        /\ completions'[n + 1] = c
    BY <1>0, <2>1, <2>2, AppendProperties DEF c
  <2> HIDE DEF n
  <2>5. \A i \in 1..(n + 1) : i \in 1..n \/ i = n + 1
    BY <1>0 DEF n
  <2>6. \A i \in 1..n : i \in 1..(n + 1)
    BY <1>0 DEF n
  <2>7. DOMAIN completions = 1..n /\ n + 1 \in 1..(n + 1)
    BY <1>0 DEF n
  <2> QED BY <2>2, <2>3, <2>4, <2>5, <2>6, <2>7
<1>6. CASE UNCHANGED <<waiting, atWork, completions>>
  BY <1>6
<1> QED BY <1>1, <1>2, <1>3, <1>4, <1>5, <1>6, JobSteps

(* No job is lost: whatever is waited for is at work, or its completion is *)
(* in the queue, however passes, blocking waits, cancellations and other   *)
(* completions come in between.  (A loop that waits on the completion      *)
(* queue for it does not wait for ever.)                                   *)
THEOREM WaitedJobsRunHolds == Spec => []WaitedJobsRun
<1>1. Init => JobsInv
  BY DEF Init, JobsInv, JobsOnce, WaitedJobsRun
<1>2. IInv /\ JobsInv /\ [Next]_vars => JobsInv'
  BY JobStepKeepsJobs DEF IInv
<1>3. JobsInv => WaitedJobsRun
  BY DEF JobsInv
<1> QED BY <1>1, <1>2, <1>3, Invariance, PTL DEF Spec

-----------------------------------------------------------------------------
(***************************************************************************)
(* Scheduler loops, and the end of the program.                            *)
(***************************************************************************)

(* A pass that has begun and in which nothing was due yet: there is        *)
(* nothing deferred, and nothing ready that the pass does not cover.       *)
Quiet(loop) == loop.phase = "run" /\ ~loop.ran
Loops ==
  \A i \in DOMAIN stack : stack[i].k = "sched" =>
    /\ stack[i].mode = "idle" => i = 1
    /\ stack[i].deep => DepthLimit
    /\ Quiet(stack[i]) =>
         i = Len(stack) /\ deferred = << >> /\ Len(ready) = stack[i].due
EndInv == Loops /\ (outcome # "running" => stack = << >>) /\ EndsIdle

(* What a script does to the stack.                                        *)
NewActivation(e) ==
  e.k = "sched" => e.phase = "pass" /\ e.mode # "idle" /\ (e.deep => DepthLimit)
ScriptStack ==
  \/ stack' = stack
  \/ \E r \in 1..Len(stack) : stack' = SubSeq(stack, 1, r - 1)
  \/ \E e \in Activations : stack' = Append(stack, e) /\ NewActivation(e)
  \/ stack' = <<Loop("idle", 0, FALSE)>>

(* A coroutine that gives control back leaves what is below it.            *)
LEMMA SwitchBackStack ==
  ASSUME SInv, NEW now, NEW at, SwitchBack(now, at), stack # << >>,
         Executing.k = "co" \/ Yieldable
  PROVE  ScriptStack
<1>1. RunningAt \in 1..Len(stack)
  BY BodyIsCurrent, RunningAtExists DEF Yieldable, SInv
<1> QED BY <1>1 DEF SwitchBack, ScriptStack

(* A resumption leaves the stack as it was, or puts a coroutine on it.     *)
LEMMA ResumeStack ==
  ASSUME NEW t \in Threads, NEW via \in Via, NEW base, NEW deep, NEW fails,
         Resume(t, via, base, deep, fails)
  PROVE  stack' = base \/ stack' = Append(base, CoBody(t, via))
BY DEF Resume, ResumeOverflows, DieOfError, ErrorTakenForYield, DieYielding, Switch

(* A script changes the stack in one of these ways.                        *)
LEMMA ScriptStacks ==
  ASSUME TypeOK, SInv, ScriptStep
  PROVE  ScriptStack
<1>0. /\ ScriptRuns
      /\ NativeCall \in Activations /\ NativeCall.k = "native"
      /\ "require" \in Calls => ModuleBody \in Activations
      /\ ModuleBody.k = "module"
  BY ActivationKinds DEF ScriptStep, Create, CoroutineResume, CoroutineClose,
     CoroutineYield, TaskSpawn, TaskDefer, TaskDelay, TaskWait, TaskWaitBlocking,
     TaskCancel, BackgroundRun, InTask, PollInPlace, PollParked, CallBack,
     CallReturn, Require, RequireReturn, EnterNative, LeaveNative, EnterModule,
     LeaveModule, BodyReturns, BodyRaises, BodyRuns, MainReturns, MainRaises
<1>1. stack # << >>
  BY <1>0 DEF ScriptRuns
<1>2. ASSUME NEW t \in Threads, NEW via \in Via, NEW deep, NEW fails,
             Resume(t, via, stack, deep, fails)
      PROVE  ScriptStack
  <2>1. CoBody(t, via) \in Activations /\ CoBody(t, via).k = "co"
    BY ActivationKinds DEF SInv
  <2> QED BY <1>2, <2>1, ResumeStack DEF ScriptStack, NewActivation
<1>3. ASSUME NEW t \in Threads, CoroutineResume(t) \/ TaskSpawn(t) PROVE ScriptStack
  <2>1. CASE UNCHANGED coVars
    BY <2>1 DEF ScriptStack, coVars
  <2> QED BY <1>2, <1>3, <2>1 DEF CoroutineResume, TaskSpawn, Via
<1>4. ASSUME NEW t \in Threads, \/ Create(t) \/ CoroutineClose(t) \/ TaskDefer(t)
                                \/ TaskCancel(t) \/ \E d \in Delays : TaskDelay(t, d)
      PROVE  ScriptStack
  BY <1>4 DEF ScriptStack, Create, CreateCoroutine, CoroutineClose, CloseCoroutine,
     TaskDefer, TaskCancel, TaskDelay, coVars
<1>5. ASSUME NEW at, Suspend(at), Yieldable PROVE ScriptStack
  BY <1>1, <1>5, SwitchBackStack DEF Suspend
<1>6. CASE BackgroundRun \/ CoroutineYield \/ \E d \in Delays : TaskWait(d) \/ PollParked(d)
  BY <1>5, <1>6 DEF BackgroundRun, InTask, CoroutineYield, TaskWait, PollParked
<1>7. ASSUME NEW loop, stack' = Append(stack, loop),
             \E mode \in {"until", "once"}, until \in Nat, deep \in Deep :
               loop = Loop(mode, until, deep)
      PROVE  ScriptStack
  <2>1. PICK mode \in {"until", "once"}, until \in Nat, deep \in Deep :
          loop = Loop(mode, until, deep)
    BY <1>7
  <2>2. deep \in BOOLEAN /\ (deep => DepthLimit)
    BY FlagsAssumption DEF Deep
  <2>3. loop \in Activations
    BY <2>1, <2>2, ActivationKinds
  <2>4. NewActivation(loop)
    BY <2>1, <2>2 DEF NewActivation, Loop
  <2> QED BY <1>7, <2>3, <2>4 DEF ScriptStack
<1>8. CASE PollInPlace \/ \E d \in Delays : TaskWaitBlocking(d)
  BY <1>7, <1>8, DelaysAssumption DEF PollInPlace, TaskWaitBlocking
<1>9. CASE CallBack \/ ("require" \in Calls /\ Require)
  BY <1>0, <1>9 DEF CallBack, EnterNative, Require, EnterModule, ScriptStack,
     NewActivation
<1>10. ASSUME stack' = Front(stack) PROVE ScriptStack
  <2>1. Len(stack) \in 1..Len(stack)
    BY <1>1 DEF SInv
  <2> QED BY <1>10, <2>1 DEF ScriptStack, Front
<1>11. CASE CallReturn \/ RequireReturn
  BY <1>10, <1>11 DEF CallReturn, RequireReturn, LeaveNative, LeaveModule
<1>12. CASE BodyReturns \/ BodyRaises
  BY <1>1, <1>12, SwitchBackStack DEF BodyReturns, BodyRaises, BodyRuns, Suspend
<1>13. CASE MainReturns
  BY <1>13 DEF MainReturns, ScriptStack
<1>14. CASE MainRaises
  <2>1. SubSeq(stack, 1, 1 - 1) = << >> /\ 1 \in 1..Len(stack)
    BY <1>1, SubSeqEmpty DEF SInv
  <2> QED BY <1>14, <2>1 DEF MainRaises, ScriptStack
<1> QED BY <1>3, <1>4, <1>6, <1>8, <1>9, <1>11, <1>12, <1>13, <1>14 DEF ScriptStep

(* After a step of a script no pass is quiet.                              *)
LEMMA ScriptLoops ==
  ASSUME SInv, Loops, ScriptRuns, ScriptStack
  PROVE  Loops'
<1> DEFINE n == Len(stack)
<1>1. n \in Nat \ {0} /\ DOMAIN stack = 1..n /\ stack[n].k # "sched"
  BY DEF ScriptRuns, SInv, Executing
<1>2. \A i \in 1..n : stack[i].k = "sched" => i # n /\ ~Quiet(stack[i])
  BY <1>1 DEF Loops
<1> DEFINE New(i) == /\ stack'[i].k = "sched" => stack'[i].phase = "pass"
                     /\ stack'[i].k = "sched" /\ stack'[i].mode = "idle" => i = 1
                     /\ stack'[i].k = "sched" /\ stack'[i].deep => DepthLimit
<1>3. \A i \in DOMAIN stack' : (i \in 1..n /\ stack'[i] = stack[i]) \/ New(i)
  <2>1. CASE stack' = stack
    BY <1>1, <2>1
  <2>2. ASSUME NEW r \in 1..n, stack' = SubSeq(stack, 1, r - 1)
        PROVE  \A i \in DOMAIN stack' : i \in 1..n /\ stack'[i] = stack[i]
    <3>1. r - 1 \in Int /\ \A i \in 1..(r - 1) : i \in 1..n /\ stack[i] \in Activations
      BY <1>1 DEF SInv
    <3>2. /\ stack' \in Seq(Activations)
          /\ Len(stack') = IF 1 <= r - 1 THEN r - 1 - 1 + 1 ELSE 0
          /\ \A i \in 1..(r - 1 - 1 + 1) : stack'[i] = stack[1 + i - 1]
      BY <2>2, <3>1, SubSeqProperties
    <3>3. DOMAIN stack' = 1..(r - 1)
      BY <3>1, <3>2
    <3> QED BY <1>1, <3>1, <3>2, <3>3
  <2>3. ASSUME NEW e \in Activations, stack' = Append(stack, e), NewActivation(e)
        PROVE  \A i \in DOMAIN stack' : (i \in 1..n /\ stack'[i] = stack[i]) \/ New(i)
    <3>1. /\ DOMAIN stack' = 1..(n + 1) /\ stack'[n + 1] = e
          /\ \A i \in 1..n : stack'[i] = stack[i]
      BY <1>1, <2>3, AppendProperties DEF SInv
    <3>2. \A i \in 1..(n + 1) : i \in 1..n \/ i = n + 1
      BY <1>1
    <3> QED BY <2>3, <3>1, <3>2 DEF NewActivation
  <2>4. ASSUME stack' = <<Loop("idle", 0, FALSE)>>
        PROVE  \A i \in DOMAIN stack' : New(i)
    <3>1. DOMAIN stack' = {1} /\ stack'[1] = Loop("idle", 0, FALSE)
      BY <2>4
    <3> QED BY <3>1 DEF Loop
  <2> QED BY <2>1, <2>2, <2>3, <2>4 DEF ScriptStack
<1>4. \A i \in DOMAIN stack' : stack'[i].k = "sched" =>
        /\ stack'[i].mode = "idle" => i = 1
        /\ stack'[i].deep => DepthLimit
        /\ ~Quiet(stack'[i])
  BY <1>1, <1>2, <1>3 DEF Loops, Quiet
<1> QED BY <1>4 DEF Loops, Quiet

(* A step of the loop on top: it becomes `loop`, or a coroutine is put on  *)
(* top of that.                                                            *)
LEMMA LoopStepLoops ==
  ASSUME SInv, Loops, stack # << >>, Executing.k = "sched",
         NEW loop \in LoopActivation,
         loop.mode = Executing.mode /\ loop.deep = Executing.deep,
         \/ stack' = LoopBecomes(loop)
            /\ (Quiet(loop) => deferred' = << >> /\ Len(ready') = loop.due)
         \/ ~Quiet(loop)
            /\ \E e \in Activations : stack' = Append(LoopBecomes(loop), e) /\ e.k = "co"
  PROVE  Loops'
<1> DEFINE n == Len(stack)
           b == LoopBecomes(loop)
<1>0. n \in Nat \ {0} /\ DOMAIN stack = 1..n /\ stack[n] = Executing /\ n \in 1..n
  BY DEF SInv, Executing
<1>1. /\ b \in Seq(Activations) /\ Len(b) = n /\ b[n] = loop
      /\ \A i \in 1..(n - 1) : b[i] = stack[i]
  BY LoopBecomesAt
<1> HIDE DEF b, n
<1>2. /\ DOMAIN b = 1..n
      /\ \A i \in 1..n : (i \in 1..(n - 1) /\ i # n) \/ i = n
  BY <1>0, <1>1
<1>3. loop.mode = "idle" => n = 1
  BY <1>0 DEF Loops
<1>4. loop.deep => DepthLimit
  BY <1>0 DEF Loops
<1>5. \A i \in 1..n : b[i].k = "sched" =>
        /\ b[i].mode = "idle" => i = 1
        /\ b[i].deep => DepthLimit
        /\ Quiet(b[i]) => i = n /\ Quiet(loop) /\ b[i].due = loop.due
  BY <1>0, <1>1, <1>2, <1>3, <1>4 DEF Loops, n
<1>6. CASE /\ stack' = b
           /\ (Quiet(loop) => deferred' = << >> /\ Len(ready') = loop.due)
  BY <1>0, <1>1, <1>2, <1>5, <1>6 DEF Loops, Quiet
<1>7. ASSUME ~Quiet(loop), NEW e \in Activations, stack' = Append(b, e), e.k = "co"
      PROVE  Loops'
  <2>1. /\ DOMAIN stack' = 1..(n + 1) /\ stack'[n + 1] = e
        /\ \A i \in 1..n : stack'[i] = b[i]
    BY <1>0, <1>1, <1>7, AppendProperties
  <2>2. \A i \in 1..(n + 1) : i \in 1..n \/ i = n + 1
    BY <1>0
  <2>3. \A i \in 1..(n + 1) : stack'[i].k = "sched" => i \in 1..n /\ stack'[i] = b[i]
    BY <1>7, <2>1, <2>2
  <2>4. \A i \in 1..(n + 1) : stack'[i].k = "sched" =>
          /\ stack'[i].mode = "idle" => i = 1
          /\ stack'[i].deep => DepthLimit
          /\ ~Quiet(stack'[i])
    <3> TAKE i \in 1..(n + 1)
    <3> HAVE stack'[i].k = "sched"
    <3>1. i \in 1..n /\ stack'[i] = b[i] /\ b[i].k = "sched"
      BY <2>3
    <3> QED BY <1>5, <1>7, <3>1
  <2> QED BY <2>1, <2>4 DEF Loops, Quiet
<1> QED BY <1>6, <1>7 DEF b

(* The loop on top is over.                                                *)
LEMMA LoopEnds ==
  ASSUME SInv, Loops, stack # << >>, stack' = Front(stack)
  PROVE  Loops' /\ (Len(stack) = 1 => stack' = << >>)
<1> DEFINE n == Len(stack)
<1>1. n \in Nat \ {0} /\ DOMAIN stack = 1..n /\ stack' = SubSeq(stack, 1, n - 1)
      /\ \A i \in 1..n : stack[i] \in Activations
  BY DEF SInv, Front
<1> HIDE DEF n
<1>2. \A i \in 1..(n - 1) : i \in 1..n /\ i # n
  BY <1>1
<1>3. /\ stack' \in Seq(Activations) /\ Len(stack') = n - 1
      /\ \A i \in 1..(n - 1) : stack'[i] = stack[i]
  BY <1>1, <1>2, SubSeqProperties
<1>4. DOMAIN stack' = 1..(n - 1)
  BY <1>1, <1>3
<1>5. Loops'
  BY <1>1, <1>2, <1>3, <1>4 DEF Loops, Quiet, n
<1>6. n = 1 => stack' = << >>
  BY <1>1, SubSeqEmpty
<1> QED BY <1>5, <1>6 DEF n

(* Every step keeps what is known of the loops and of how programs end.    *)
LEMMA StepKeepsEndInv ==
  ASSUME TypeOK, SInv, EndInv, [Next]_vars
  PROVE  EndInv'
<1> USE DEF EndInv
<1>1. CASE ScriptStep
  <2>1. ScriptRuns
    BY <1>1 DEF ScriptStep, Create, CoroutineResume, CoroutineClose,
     CoroutineYield, TaskSpawn, TaskDefer, TaskDelay, TaskWait, TaskWaitBlocking,
     TaskCancel, BackgroundRun, InTask, PollInPlace, PollParked, CallBack,
     CallReturn, Require, RequireReturn, EnterNative, LeaveNative, EnterModule,
     LeaveModule, BodyReturns, BodyRaises, BodyRuns, MainReturns, MainRaises
  <2>2. Loops'
    BY <1>1, <2>1, ScriptStacks, ScriptLoops
  <2>3. outcome = "running"
    BY <2>1 DEF ScriptRuns
  <2>4. outcome' = outcome \/ (outcome' = "error" /\ stack' = << >>)
    BY <1>1 DEF ScriptStep, Create, CoroutineResume, CoroutineClose,
     CoroutineYield, TaskSpawn, TaskDefer, TaskDelay, TaskWait, TaskWaitBlocking,
     TaskCancel, BackgroundRun, PollInPlace, PollParked, CallBack, CallReturn,
     Require, RequireReturn, BodyReturns, BodyRaises, MainReturns, MainRaises, taskVars
  <2> QED BY <2>2, <2>3, <2>4 DEF EndsIdle
<1>2. CASE SchedulerStep
  <2>1. PICK phase \in {"pass", "run"} : LoopIn(phase)
    BY <1>2 DEF SchedulerStep, BeginPass, ResumeNext, LoopReturns, PassAgain,
       ProgramEnds, WaitForEvents, WaitForDeadline, WaitForCompletion, LoopWaits,
       PassOver
  <2>2. /\ stack # << >> /\ Executing.k = "sched" /\ Executing \in LoopActivation
        /\ Executing.phase = phase /\ outcome = "running"
        /\ Len(stack) \in Nat \ {0} /\ DOMAIN stack = 1..Len(stack)
        /\ Len(stack) \in DOMAIN stack
    <3>1. stack # << >> /\ Executing.k = "sched" /\ Executing.phase = phase
      BY <2>1 DEF LoopIn
    <3>2. Executing \in LoopActivation
      BY <2>1, LoopTypes
    <3>3. /\ Len(stack) \in Nat \ {0} /\ DOMAIN stack = 1..Len(stack)
          /\ Len(stack) \in DOMAIN stack
      BY <3>1 DEF SInv
    <3> QED BY <3>1, <3>2, <3>3
  <2>3. CASE BeginPass
    <3>1. PICK pumped \in Pumped :
            LET queue == ready \o Served(pumped) \o Filed(completions)
                               \o deferred \o Due(sleeping)
            IN /\ ready' = queue
               /\ stack' = LoopBecomes([Executing EXCEPT !.phase = "run",
                                                         !.due = Len(queue)])
      BY <2>3 DEF BeginPass
    <3>2. PICK m \in Nat : /\ Len(ready') = m
                           /\ stack' = LoopBecomes([Executing EXCEPT !.phase = "run",
                                                                     !.due = m])
      BY <3>1, PassQueueType
    <3> DEFINE loop == [Executing EXCEPT !.phase = "run", !.due = m]
    <3>3. /\ loop \in LoopActivation /\ loop.due = m
          /\ loop.mode = Executing.mode /\ loop.deep = Executing.deep
      BY <2>1, <2>2, LoopTypes DEF LoopActivation
    <3>4. deferred' = << >> /\ outcome' = outcome
      BY <2>3 DEF BeginPass
    <3> HIDE DEF loop
    <3>5. stack' = LoopBecomes(loop)
      BY <3>2 DEF loop
    <3>6. Loops'
      BY <2>2, <3>2, <3>3, <3>4, <3>5, LoopStepLoops
    <3> QED BY <2>2, <3>4, <3>6 DEF EndsIdle
  <2>4. CASE ResumeNext
    <3> DEFINE loop == [Executing EXCEPT !.due = @ - 1, !.ran = TRUE]
               base == LoopBecomes(loop)
               e == Head(ready)
    <3>1. /\ loop \in LoopActivation /\ loop.mode = Executing.mode
          /\ loop.deep = Executing.deep /\ ~Quiet(loop)
      <4>1. LoopIn("run") /\ Executing.due > 0
        BY <2>4 DEF ResumeNext
      <4>2. loop \in LoopActivation
        BY <4>1, LoopTypes
      <4> QED BY <2>2, <4>2 DEF LoopActivation, Quiet
    <3>2. e.t \in Threads
      <4>1. e \in Entries
        BY <2>4, HeadTailProperties DEF TypeOK, ResumeNext
      <4> QED BY <4>1 DEF Entries
    <3> DEFINE body == CoBody(e.t, "task")
    <3>3. body \in Activations /\ body.k = "co"
      BY <3>2, ActivationKinds DEF SInv, Via
    <3> HIDE DEF loop
    <3>4. stack' = base \/ stack' = Append(base, body)
      <4>1. \/ Resume(e.t, "task", base, Executing.deep, e.fails)
            \/ stack' = base
        BY <2>4 DEF ResumeNext, loop
      <4> HIDE DEF e, base
      <4> QED BY <3>2, <4>1, ResumeStack DEF Via
    <3> HIDE DEF body
    <3>5. Loops'
      BY <2>2, <3>1, <3>3, <3>4, LoopStepLoops
    <3>6. outcome' = outcome
      BY <2>4 DEF ResumeNext
    <3> QED BY <2>2, <3>5, <3>6 DEF EndsIdle
  <2>5. CASE LoopReturns
    BY <2>2, <2>5, LoopEnds DEF LoopReturns, taskVars, EndsIdle
  <2>6. CASE ProgramEnds
    <3>1. /\ Executing.phase = "run" /\ ~Executing.ran /\ Executing.mode = "idle"
          /\ Executing.due = 0 \/ ready = << >>
          /\ sleeping = << >> /\ pollers = << >> /\ NothingWaiting
          /\ stack' = Front(stack) /\ UNCHANGED queues
      BY <2>6 DEF ProgramEnds, LoopWaits, PassOver, NoDeadline, LoopIn
    <3>2. Len(stack) = 1 /\ deferred = << >> /\ Len(ready) = Executing.due
      BY <2>2, <3>1 DEF Loops, Quiet, Executing
    <3>3. ready = << >>
      BY <3>1, <3>2, EmptySeq DEF TypeOK
    <3>4. IsIdle'
      BY <3>1, <3>2, <3>3 DEF IsIdle, queues, NothingWaiting
    <3>5. Loops' /\ stack' = << >>
      BY <2>2, <3>1, <3>2, LoopEnds
    <3> QED BY <3>4, <3>5 DEF EndsIdle
  <2>7. CASE PassAgain \/ WaitForEvents \/ WaitForDeadline \/ WaitForCompletion
    <3> DEFINE loop == [Executing EXCEPT !.phase = "pass", !.ran = FALSE]
    <3>1. stack' = LoopBecomes(loop) /\ outcome' = outcome
      BY <2>7 DEF PassAgain, WaitForEvents, WaitForDeadline, WaitForCompletion,
         NextPass, taskVars
    <3>2. /\ loop \in LoopActivation /\ ~Quiet(loop)
          /\ loop.mode = Executing.mode /\ loop.deep = Executing.deep
      BY <2>1, <2>2, LoopTypes DEF LoopActivation, Quiet
    <3> HIDE DEF loop
    <3>3. Loops'
      BY <2>2, <3>1, <3>2, LoopStepLoops
    <3> QED BY <2>2, <3>1, <3>3 DEF EndsIdle
  <2> QED BY <1>2, <2>3, <2>4, <2>5, <2>6, <2>7 DEF SchedulerStep
<1>3. CASE \E j \in JobIds : JobDone(j)
  BY <1>3 DEF JobDone, coVars, Loops, EndsIdle
<1>4. CASE Tick
  <2> DEFINE n == Len(stack)
             aged(e) == [e EXCEPT !.until = Less(@)]
  <2>1. n \in Nat /\ DOMAIN stack = 1..n
    BY DEF SInv
  <2>2. SInv'
    BY <1>4, TickKeepsSInv
  <2>3. DOMAIN stack' = 1..n /\ Len(stack') = n
    BY <1>4, <2>1, <2>2 DEF Tick, SInv
  <2>4. \A i \in 1..n : stack'[i] = IF stack[i].k = "sched" THEN aged(stack[i]) ELSE stack[i]
    BY <1>4, <2>1 DEF Tick
  <2>5. \A e \in LoopActivation :
          /\ aged(e).k = e.k /\ aged(e).mode = e.mode /\ aged(e).deep = e.deep
          /\ aged(e).phase = e.phase /\ aged(e).ran = e.ran /\ aged(e).due = e.due
    BY DEF LoopActivation
  <2> HIDE DEF aged
  <2>6. \A i \in 1..n : stack[i].k = "sched" => stack[i] \in LoopActivation
    BY <2>1, ActivationKinds DEF SInv
  <2>7. UNCHANGED <<deferred, ready, outcome>> /\ outcome = "running"
    BY <1>4 DEF Tick
  <2>8. ASSUME NEW i \in 1..n, stack'[i].k = "sched"
        PROVE  /\ stack[i].k = "sched"
               /\ stack'[i].mode = stack[i].mode /\ stack'[i].deep = stack[i].deep
               /\ stack'[i].due = stack[i].due /\ (Quiet(stack'[i]) <=> Quiet(stack[i]))
    BY <2>4, <2>5, <2>6, <2>8 DEF Quiet
  <2> HIDE DEF n
  <2>9. Loops'
    BY <2>1, <2>3, <2>7, <2>8 DEF Loops, Quiet, n
  <2> QED BY <2>7, <2>9 DEF EndsIdle
<1>5. CASE UNCHANGED vars
  BY <1>5 DEF vars, coVars, taskVars, Loops, EndsIdle, IsIdle
<1> QED BY <1>1, <1>2, <1>3, <1>4, <1>5 DEF Next, Terminated

(* A program that ends by itself leaves nothing that waits and nothing     *)
(* that is ready: no task of it is abandoned.                              *)
THEOREM EndsIdleHolds == Spec => []EndsIdle
<1>1. Init => EndInv
  <2> SUFFICES ASSUME Init PROVE EndInv
    OBVIOUS
  <2>1. DOMAIN stack = {1} /\ stack[1] = MainChunk
    BY DEF Init, CoInit
  <2> QED BY <2>1 DEF Init, EndInv, Loops, EndsIdle, MainChunk
<1>2. IInv /\ EndInv /\ [Next]_vars => EndInv'
  BY StepKeepsEndInv DEF IInv
<1>3. EndInv => EndsIdle
  BY DEF EndInv
<1> QED BY <1>1, <1>2, <1>3, Invariance, PTL DEF Spec

-----------------------------------------------------------------------------
(***************************************************************************)
(* Where coroutines are suspended.                                         *)
(***************************************************************************)

(* A coroutine is suspended at something when and only when its status     *)
(* says so.                                                                *)
ParkMatchesStatus ==
  \A t \in Threads : status[t] = "suspended" <=> park[t].k # "awake"

(* A step leaves a coroutine where it is: it may only become the one that  *)
(* runs, or stop being that, on the stack.                                 *)
Untouched(u) ==
  park'[u] = park[u]
  /\ (status'[u] = status[u] \/ (status[u] \in Onto /\ status'[u] \in Onto))

(* What becoming a coroutine, resuming, suspending and closing do.         *)
LEMMA AsThreadOutcome ==
  ASSUME TypeOK, NEW t \in Threads, AsThread(t)
  PROVE  /\ \A u \in Threads \ {t} : Untouched(u)
         /\ status'[t] = IF status[t] = "none" THEN "suspended" ELSE status[t]
         /\ park'[t] = IF status[t] = "none" THEN Fresh ELSE park[t]
BY DEF AsThread, TypeOK, Untouched

LEMMA ResumeOutcome ==
  ASSUME TypeOK, SInv, NEW t \in Threads, NEW via, NEW base, NEW deep \in BOOLEAN,
         NEW fails, Resume(t, via, base, deep, fails)
  PROVE  /\ \A u \in Threads \ {t} : Untouched(u)
         /\ deep => /\ status'[t] = "suspended" /\ sleeping' = sleeping
                    /\ park'[t] = IF status[t] = "none" THEN Fresh ELSE park[t]
         /\ ~deep => \/ /\ status'[t] \in {"running", "dead"} /\ park'[t] = Awake
                        /\ \/ sleeping' = sleeping
                           \/ /\ status'[t] = "dead"
                              /\ \E d \in Delays :
                                   sleeping' = SleepUntil(Entry(t, At("timer", d, 0), FALSE))
                     \/ isYielding /\ UNCHANGED <<status, park, sleeping>>
<1>1. /\ status \in [Threads -> Status] /\ park \in [Threads -> Suspension]
      /\ status[t] \in {"none", "suspended"}
      /\ \A u \in Threads : currentCo = u => status[u] = "running"
  BY DEF TypeOK, Resume, Resumable, SInv, Disciplined, Statuses
<1>2. CASE deep
  <2>1. sleeping' = sleeping /\ \E errors : ResumeOverflows(t, errors, base)
    BY <1>2 DEF Resume
  <2> QED BY <1>1, <1>2, <2>1, AsThreadOutcome DEF ResumeOverflows
<1>3. CASE ~deep
  <2>1. \/ sleeping' = sleeping
        \/ /\ DieYielding(t, base)
           /\ \E d \in Delays : sleeping' = SleepUntil(Entry(t, At("timer", d, 0), FALSE))
    BY <1>3 DEF Resume
  <2>0. DieYielding(t, base) => status'[t] = "dead"
    BY <1>1 DEF DieYielding
  <2>2. CASE DieOfError(t, base)
    BY <1>1, <1>3, <2>0, <2>1, <2>2 DEF DieOfError, Untouched
  <2>3. CASE DieYielding(t, base)
    BY <1>1, <1>3, <2>0, <2>1, <2>3 DEF DieYielding, Untouched
  <2>4. CASE Switch(t, via, base)
    <3>1. /\ status' = Entered(t) /\ park' = [park EXCEPT ![t] = Awake]
      BY <2>4 DEF Switch
    <3>2. ASSUME NEW u \in Threads \ {t} PROVE Untouched(u)
      BY <1>1, <3>1 DEF Entered, Untouched, Onto
    <3> QED BY <1>1, <1>3, <2>0, <2>1, <3>1, <3>2 DEF Entered
  <2>5. CASE ErrorTakenForYield(t, base)
    <3>1. isYielding /\ UNCHANGED <<status, park>>
      BY <2>5 DEF ErrorTakenForYield
    <3>2. ~DieYielding(t, base)
      BY <1>1, <2>0, <3>1
    <3> QED BY <1>3, <2>1, <3>1, <3>2 DEF Untouched
  <2> QED BY <1>3, <2>2, <2>3, <2>4, <2>5 DEF Resume
<1> QED BY <1>2, <1>3

LEMMA SwitchBackOutcome ==
  ASSUME TypeOK, SInv, NEW now, NEW at, SwitchBack(now, at), stack # << >>,
         Executing.k = "co" \/ Yieldable
  PROVE  /\ currentCo \in Threads /\ status[currentCo] = "running"
         /\ status'[currentCo] = now /\ park'[currentCo] = at
         /\ \A u \in Threads \ {currentCo} : Untouched(u)
<1> DEFINE r == RunningAt
<1>1. currentCo # None
  BY BodyIsCurrent DEF Yieldable
<1>2. r \in DOMAIN stack /\ Co(stack, r) /\ stack[r].t = currentCo
  BY <1>1, RunningAtExists
<1>3. /\ status' = Left(stack[r].t, now, stack[r].caller)
      /\ park' = [park EXCEPT ![stack[r].t] = at]
  BY DEF SwitchBack
<1> HIDE DEF r
<1>4. currentCo \in Threads /\ status[currentCo] = "running"
  BY <1>1 DEF SInv, Disciplined, Statuses
<1>5. ASSUME NEW u \in Threads, u = stack[r].caller PROVE status[u] \in Onto
  <2>1. NextBelow(stack, r, u) /\ u # None
    BY <1>2, <1>5, NoneAssumption DEF SInv, Disciplined, Callers
  <2>2. PICK i \in 1..(r - 1) : Co(stack, i) /\ stack[i].t = u
    BY <2>1 DEF NextBelow
  <2>3. r \in 1..Len(stack) /\ Len(stack) \in Nat /\ DOMAIN stack = 1..Len(stack)
    BY <1>2 DEF SInv
  <2>4. i \in DOMAIN stack
    BY <2>3
  <2> QED BY <2>2, <2>4 DEF SInv, Disciplined, Statuses, OnStack
<1>6. park \in [Threads -> Suspension]
  BY DEF TypeOK
<1>7. ASSUME NEW u \in Threads \ {currentCo} PROVE Untouched(u)
  BY <1>2, <1>3, <1>5, <1>6 DEF Left, Untouched, Onto
<1> QED BY <1>2, <1>3, <1>4, <1>6, <1>7 DEF Left

LEMMA SuspendOutcome ==
  ASSUME TypeOK, SInv, NEW at, Suspend(at), ScriptRuns, Executing.k = "co" \/ Yieldable
  PROVE  /\ currentCo \in Threads /\ status[currentCo] = "running"
         /\ status'[currentCo] = "suspended" /\ park'[currentCo] = at
         /\ \A u \in Threads \ {currentCo} : Untouched(u)
BY SwitchBackOutcome DEF Suspend, ScriptRuns

LEMMA CloseOutcome ==
  ASSUME TypeOK, NEW t \in Threads, CloseCoroutine(t)
  PROVE  /\ \A u \in Threads \ {t} : Untouched(u)
         /\ status[t] = "suspended" /\ status'[t] = "dead" /\ park'[t] = Awake
BY DEF CloseCoroutine, TypeOK, Untouched

(* Steps that leave every coroutine as it is, one that is made or handed   *)
(* to the scheduler, resumed, suspended, closed, or ends; or time goes by. *)
Elsewhere == UNCHANGED <<status, park>>
Turn(t) ==
  /\ \A u \in Threads \ {t} : Untouched(u)
  /\ \/ status'[t] = "suspended" /\ park'[t].k # "awake"
     \/ status'[t] # "suspended" /\ park'[t].k = "awake"
     \/ status'[t] = status[t] /\ park'[t] = park[t]

(* A coroutine that is touched ends up consistent.                         *)
LEMMA TurnKeepsPark ==
  ASSUME ParkMatchesStatus, NEW t \in Threads, Turn(t)
  PROVE  ParkMatchesStatus'
<1> SUFFICES ASSUME NEW u \in Threads
             PROVE  status'[u] = "suspended" <=> park'[u].k # "awake"
  BY DEF ParkMatchesStatus
<1>1. CASE u = t
  BY <1>1 DEF Turn, ParkMatchesStatus
<1>2. CASE u # t
  BY <1>2 DEF Turn, Untouched, ParkMatchesStatus, Onto
<1> QED BY <1>1, <1>2

(* The kinds of the suspensions.                                           *)
LEMMA SuspensionKinds ==
  /\ Awake.k = "awake" /\ Fresh.k = "fresh" /\ Yielded.k = "yield"
  /\ \A k, left, id : /\ At(k, left, id).k = k /\ At(k, left, id).left = left
                      /\ At(k, left, id).id = id
  /\ \A t, at, fails : Entry(t, at, fails).t = t /\ Entry(t, at, fails).at = at
BY DEF Awake, Fresh, Yielded, At, Entry

(* Every step keeps suspensions and statuses together.                     *)
LEMMA StepKeepsPark ==
  ASSUME TypeOK, SInv, ParkMatchesStatus, [Next]_vars
  PROVE  ParkMatchesStatus'
<1>0. stack # << >> => Len(stack) \in DOMAIN stack
  BY DEF SInv
<1>1. ASSUME Elsewhere PROVE ParkMatchesStatus'
  BY <1>1 DEF Elsewhere, ParkMatchesStatus
<1>2. ASSUME NEW t \in Threads, AsThread(t) PROVE ParkMatchesStatus'
  BY <1>2, AsThreadOutcome, TurnKeepsPark, SuspensionKinds DEF Turn
<1>3. ASSUME NEW t \in Threads, NEW via, NEW base, NEW deep \in BOOLEAN, NEW fails,
             Resume(t, via, base, deep, fails)
      PROVE  ParkMatchesStatus'
  <2>1. Turn(t)
    <3>1. CASE deep
      <4>1. /\ \A u \in Threads \ {t} : Untouched(u)
            /\ status'[t] = "suspended"
            /\ park'[t] = IF status[t] = "none" THEN Fresh ELSE park[t]
        BY <1>3, <3>1, ResumeOutcome
      <4>2. status[t] \in {"none", "suspended"}
        BY <1>3 DEF Resume, Resumable
      <4> QED BY <4>1, <4>2, SuspensionKinds DEF Turn, ParkMatchesStatus
    <3>2. CASE ~deep
      <4>1. /\ \A u \in Threads \ {t} : Untouched(u)
            /\ \/ status'[t] \in {"running", "dead"} /\ park'[t] = Awake
               \/ status'[t] = status[t] /\ park'[t] = park[t]
        BY <1>3, <3>2, ResumeOutcome
      <4> QED BY <4>1, SuspensionKinds DEF Turn
    <3> QED BY <3>1, <3>2
  <2> QED BY <2>1, TurnKeepsPark
<1>4. ASSUME NEW at, at.k # "awake", Suspend(at), ScriptRuns, Executing.k = "co" \/ Yieldable
      PROVE  ParkMatchesStatus'
  BY <1>4, SuspendOutcome, TurnKeepsPark DEF Turn
<1>5. ASSUME NEW t \in Threads, CloseCoroutine(t) PROVE ParkMatchesStatus'
  BY <1>5, CloseOutcome, TurnKeepsPark, SuspensionKinds DEF Turn
<1>6. ASSUME SwitchBack("dead", Awake), BodyRuns PROVE ParkMatchesStatus'
  BY <1>6, SwitchBackOutcome, TurnKeepsPark, SuspensionKinds
     DEF Turn, BodyRuns, ScriptRuns
<1>7. CASE ScriptStep
  <2>1. ASSUME NEW t \in Threads, Create(t) \/ TaskDefer(t) \/ \E d \in Delays : TaskDelay(t, d)
        PROVE  ParkMatchesStatus'
    BY <1>2, <2>1 DEF Create, CreateCoroutine, TaskDefer, TaskDelay
  <2>2. ASSUME NEW t \in Threads, CoroutineResume(t) \/ TaskSpawn(t)
        PROVE  ParkMatchesStatus'
    <3>1. CASE UNCHANGED coVars
      BY <1>1, <3>1 DEF coVars, Elsewhere
    <3>2. CASE \E deep \in Deep, via \in Via : Resume(t, via, stack, deep, FALSE)
      BY <1>3, <3>2 DEF Deep
    <3> QED BY <2>2, <3>1, <3>2 DEF CoroutineResume, TaskSpawn, Via
  <2>3. ASSUME NEW t \in Threads, CoroutineClose(t) \/ TaskCancel(t)
        PROVE  ParkMatchesStatus'
    <3>1. CASE UNCHANGED coVars
      BY <1>1, <3>1 DEF coVars, Elsewhere
    <3> QED BY <1>5, <2>3, <3>1 DEF CoroutineClose, TaskCancel
  <2>4. ASSUME \/ CoroutineYield \/ BackgroundRun
               \/ \E d \in Delays : TaskWait(d) \/ PollParked(d)
        PROVE  ParkMatchesStatus'
    <3>1. ScriptRuns /\ Yieldable
      BY <2>4 DEF CoroutineYield, TaskWait, BackgroundRun, InTask, PollParked
    <3>2. \/ Suspend(Yielded) \/ \E job : Suspend(At("job", 0, job))
          \/ \E d : Suspend(At("timer", d, 0)) \/ Suspend(At("poll", d, 0))
      BY <2>4, Zenon DEF CoroutineYield, TaskWait, BackgroundRun, PollParked
    <3>3. PICK at : Suspend(at) /\ at.k # "awake"
      BY <3>2, SuspensionKinds
    <3> QED BY <1>4, <3>1, <3>3
  <2>5. CASE BodyReturns \/ BodyRaises
    BY <1>4, <1>6, <2>5, SuspensionKinds DEF BodyReturns, BodyRaises, BodyRuns
  <2>6. ASSUME \/ CallBack \/ CallReturn \/ Require \/ RequireReturn \/ PollInPlace
               \/ MainReturns \/ MainRaises \/ \E d \in Delays : TaskWaitBlocking(d)
        PROVE  ParkMatchesStatus'
    BY <1>1, <2>6 DEF CallBack, CallReturn, Require, RequireReturn, EnterNative,
       LeaveNative, EnterModule, LeaveModule, MainReturns, MainRaises, PollInPlace,
       TaskWaitBlocking, Elsewhere
  <2> QED BY <1>7, <2>1, <2>2, <2>3, <2>4, <2>5, <2>6 DEF ScriptStep
<1>8. CASE SchedulerStep
  <2>1. CASE ResumeNext
    <3> DEFINE e == Head(ready)
               base == LoopBecomes([Executing EXCEPT !.due = @ - 1, !.ran = TRUE])
    <3>1. e.t \in Threads
      <4>1. e \in Entries
        BY <2>1, HeadTailProperties DEF TypeOK, ResumeNext
      <4> QED BY <4>1 DEF Entries
    <3>2. Executing.deep \in BOOLEAN
      BY <2>1, LoopTypes DEF ResumeNext, LoopActivation
    <3>3. Resume(e.t, "task", base, Executing.deep, e.fails) \/ UNCHANGED IdleCoVars
      BY <2>1 DEF ResumeNext
    <3> HIDE DEF e, base
    <3> QED BY <1>1, <1>3, <3>1, <3>2, <3>3 DEF IdleCoVars, Elsewhere
  <2> QED BY <1>1, <1>8, <2>1 DEF SchedulerStep, BeginPass, LoopReturns, PassAgain,
       ProgramEnds, WaitForEvents, WaitForDeadline, WaitForCompletion, IdleCoVars,
       Elsewhere
<1>9. CASE Tick
  <2>1. status' = status /\ \A t \in Threads : park'[t].k = park[t].k
    BY <1>9 DEF Tick, Later, At
  <2> QED BY <2>1 DEF ParkMatchesStatus
<1>10. CASE (\E j \in JobIds : JobDone(j)) \/ UNCHANGED vars
  BY <1>1, <1>10 DEF JobDone, vars, coVars, Elsewhere
<1> QED BY <1>7, <1>8, <1>9, <1>10 DEF Next, Terminated

-----------------------------------------------------------------------------
(***************************************************************************)
(* No wake-up is lost.                                                     *)
(***************************************************************************)

(* What NoLostWake says of one coroutine, in terms of the entries of the   *)
(* queues.                                                                 *)
Wakes(t) ==
  /\ park[t].k = "timer" =>
       \E e \in ToSet(sleeping) \cup ToSet(ready) : e.t = t /\ e.at.k = "timer"
  /\ park[t].k = "poll" =>
       \E e \in ToSet(pollers) \cup ToSet(ready) : e.t = t /\ e.at.k = "poll"
  /\ park[t].k = "job" =>
       \/ park[t].id \in JobIds /\ waiting[park[t].id] = t
       \/ \E e \in ToSet(ready) : e.t = t /\ e.at.k = "job" /\ e.at.id = park[t].id

LEMMA WakesAreHeld == NoLostWake <=> \A t \in Threads : Wakes(t)
<1>1. \A q, t, kind : Holds(q, t, kind) <=> \E e \in ToSet(q) : e.t = t /\ e.at.k = kind
  BY DEF Holds, ToSet
<1>2. \A t, job : HoldsResult(t, job) <=>
        \E e \in ToSet(ready) : e.t = t /\ e.at.k = "job" /\ e.at.id = job
  BY DEF HoldsResult, ToSet
<1>3. ASSUME NEW t
      PROVE  /\ Holds(sleeping, t, "timer") \/ Holds(ready, t, "timer") <=>
                  \E e \in ToSet(sleeping) \cup ToSet(ready) : e.t = t /\ e.at.k = "timer"
             /\ Holds(pollers, t, "poll") \/ Holds(ready, t, "poll") <=>
                  \E e \in ToSet(pollers) \cup ToSet(ready) : e.t = t /\ e.at.k = "poll"
  BY <1>1, Zenon
<1>4. \A t : (\E j \in JobIds : j = park[t].id /\ waiting[j] = t)
             <=> park[t].id \in JobIds /\ waiting[park[t].id] = t
  OBVIOUS
<1>5. ASSUME NEW t \in Threads
      PROVE  (/\ park[t].k = "timer" => Holds(sleeping, t, "timer") \/ Holds(ready, t, "timer")
              /\ park[t].k = "poll"  => Holds(pollers, t, "poll") \/ Holds(ready, t, "poll")
              /\ park[t].k = "job"   => \/ \E j \in JobIds : j = park[t].id /\ waiting[j] = t
                                       \/ HoldsResult(t, park[t].id))
             <=> Wakes(t)
  <2>1. (\E j \in JobIds : j = park[t].id /\ waiting[j] = t) \/ HoldsResult(t, park[t].id)
        <=> \/ park[t].id \in JobIds /\ waiting[park[t].id] = t
            \/ \E e \in ToSet(ready) : e.t = t /\ e.at.k = "job" /\ e.at.id = park[t].id
    BY <1>2, <1>4, Zenon
  <2> QED BY <1>3, <2>1, Zenon DEF Wakes
<1> QED BY <1>5, Zenon DEF NoLostWake

(* A step keeps the entries of a coroutine: the ones of sleepers, pollers  *)
(* and jobs may become ready.                                              *)
BecomesReady(e) ==
  \E d \in ToSet(ready)' : d.t = e.t /\ d.at.k = e.at.k /\ d.at.id = e.at.id
Kept(u) ==
  /\ \A e \in ToSet(ready) : e.t = u => BecomesReady(e)
  /\ \A e \in ToSet(sleeping) : e.t = u =>
       BecomesReady(e) \/ \E d \in ToSet(sleeping)' : d.t = u /\ d.at.k = e.at.k
  /\ \A e \in ToSet(pollers) : e.t = u =>
       BecomesReady(e) \/ \E d \in ToSet(pollers)' : d.t = u /\ d.at.k = e.at.k
  /\ \A j \in JobIds : waiting[j] = u =>
       \/ waiting'[j] = u
       \/ \E d \in ToSet(ready)' : d.t = u /\ d.at.k = "job" /\ d.at.id = j

LEMMA KeptWakes ==
  ASSUME NEW u \in Threads, Wakes(u), Kept(u),
         park'[u].k = park[u].k /\ park'[u].id = park[u].id
  PROVE  Wakes(u)'
<1>1. ASSUME park[u].k = "timer"
      PROVE  \E d \in ToSet(sleeping)' \cup ToSet(ready)' : d.t = u /\ d.at.k = "timer"
  BY <1>1 DEF Wakes, Kept, BecomesReady
<1>2. ASSUME park[u].k = "poll"
      PROVE  \E d \in ToSet(pollers)' \cup ToSet(ready)' : d.t = u /\ d.at.k = "poll"
  BY <1>2 DEF Wakes, Kept, BecomesReady
<1>3. ASSUME park[u].k = "job"
      PROVE  \/ park[u].id \in JobIds /\ waiting'[park[u].id] = u
             \/ \E d \in ToSet(ready)' : d.t = u /\ d.at.k = "job" /\ d.at.id = park[u].id
  BY <1>3 DEF Wakes, Kept, BecomesReady
<1> QED BY <1>1, <1>2, <1>3 DEF Wakes

(* A coroutine that waits for nothing needs no wake-up.                    *)
LEMMA NotParkedWakes ==
  ASSUME NEW u \in Threads, park'[u].k \in {"awake", "fresh", "yield"}
  PROVE  Wakes(u)'
BY DEF Wakes

(* Queues that only grow keep everybody's entries.                         *)
LEMMA GrowingKeeps ==
  ASSUME NEW u, ToSet(ready) \subseteq ToSet(ready)',
         ToSet(sleeping) \subseteq ToSet(sleeping)',
         ToSet(pollers) \subseteq ToSet(pollers)',
         \A j \in JobIds : waiting[j] = u => waiting'[j] = u
  PROVE  Kept(u)
BY DEF Kept, BecomesReady

(* Filing completions keeps the wake-ups of the threads that wait for them.*)
LEMMA FilingKeeps ==
  ASSUME TypeOK, NEW arrived \in Seq(Completion), NEW u \in Threads,
         waiting' = StillWaiting(arrived),
         ToSet(Filed(arrived)) \subseteq ToSet(ready)',
         NEW j \in JobIds, waiting[j] = u
  PROVE  \/ waiting'[j] = u
         \/ \E d \in ToSet(ready)' : d.t = u /\ d.at.k = "job" /\ d.at.id = j
<1>1. CASE \E i \in DOMAIN arrived : arrived[i].id = j
  <2>1. PICK i \in DOMAIN arrived : arrived[i].id = j
    BY <1>1
  <2>2. waiting[arrived[i].id] # None /\ waiting[arrived[i].id] = u
    BY <2>1, NoneAssumption
  <2>3. Entry(waiting[arrived[i].id], At("job", 0, arrived[i].id), arrived[i].fails)
          \in ToSet(Filed(arrived))
    BY <2>2, FiledEntries
  <2> QED BY <2>1, <2>2, <2>3, SuspensionKinds
<1>2. CASE ~ \E i \in DOMAIN arrived : arrived[i].id = j
  BY <1>2 DEF StillWaiting
<1> QED BY <1>1, <1>2

(* A pump keeps the wake-ups of the pollers.                               *)
LEMMA PumpKeeps ==
  ASSUME TypeOK, NEW pumped \in Pumped, pollers' = Unserved(pumped),
         ToSet(Served(pumped)) \subseteq ToSet(ready)', NEW e \in ToSet(pollers)
  PROVE  BecomesReady(e) \/ \E d \in ToSet(pollers)' : d.t = e.t /\ d.at.k = e.at.k
<1>1. \/ e \in ToSet(Unserved(pumped))
      \/ \E d \in ToSet(Served(pumped)) : d.t = e.t /\ d.at = e.at
  BY PumpEntries
<1> QED BY <1>1 DEF BecomesReady

(* Everything a pass begins with becomes ready.                            *)
LEMMA PassEntries ==
  ASSUME TypeOK, NEW pumped \in Pumped
  PROVE  LET queue == ready \o Served(pumped) \o Filed(completions)
                            \o deferred \o Due(sleeping)
         IN /\ queue \in Seq(Entries)
            /\ ToSet(queue) = ToSet(ready) \cup ToSet(Served(pumped))
                 \cup ToSet(Filed(completions)) \cup ToSet(deferred)
                 \cup ToSet(Due(sleeping))
            /\ Owners(queue) = Owners(ready) \cup Owners(Served(pumped))
                 \cup Owners(Filed(completions)) \cup Owners(deferred)
                 \cup Owners(Due(sleeping))
            /\ /\ OneEach(ready) /\ OneEach(Served(pumped)) /\ OneEach(Filed(completions))
               /\ OneEach(deferred) /\ OneEach(Due(sleeping))
               /\ Owners(ready) \cap Owners(Served(pumped)) = {}
               /\ (Owners(ready) \cup Owners(Served(pumped)))
                    \cap Owners(Filed(completions)) = {}
               /\ (Owners(ready) \cup Owners(Served(pumped))
                    \cup Owners(Filed(completions))) \cap Owners(deferred) = {}
               /\ (Owners(ready) \cup Owners(Served(pumped))
                    \cup Owners(Filed(completions)) \cup Owners(deferred))
                    \cap Owners(Due(sleeping)) = {}
               => OneEach(queue)
<1> DEFINE a == Served(pumped)
           b == Filed(completions)
           c == Due(sleeping)
           p == ready \o a
           q == p \o b
           r == q \o deferred
           s == r \o c
<1>1. a \in Seq(Entries) /\ b \in Seq(Entries) /\ c \in Seq(Entries)
      /\ ready \in Seq(Entries) /\ deferred \in Seq(Entries)
  BY PumpTypes, FiledType, QueueTypes DEF TypeOK
<1> HIDE DEF a, b, c
<1>2. /\ p \in Seq(Entries) /\ ToSet(p) = ToSet(ready) \cup ToSet(a)
      /\ Owners(p) = Owners(ready) \cup Owners(a)
      /\ OneEach(ready) /\ OneEach(a) /\ Owners(ready) \cap Owners(a) = {} => OneEach(p)
  BY <1>1, ConcatEntries
<1> HIDE DEF p
<1>3. /\ q \in Seq(Entries) /\ ToSet(q) = ToSet(p) \cup ToSet(b)
      /\ Owners(q) = Owners(p) \cup Owners(b)
      /\ OneEach(p) /\ OneEach(b) /\ Owners(p) \cap Owners(b) = {} => OneEach(q)
  BY <1>1, <1>2, ConcatEntries
<1> HIDE DEF q
<1>4. /\ r \in Seq(Entries) /\ ToSet(r) = ToSet(q) \cup ToSet(deferred)
      /\ Owners(r) = Owners(q) \cup Owners(deferred)
      /\ OneEach(q) /\ OneEach(deferred) /\ Owners(q) \cap Owners(deferred) = {}
           => OneEach(r)
  BY <1>1, <1>3, ConcatEntries
<1> HIDE DEF r
<1>5. /\ s \in Seq(Entries) /\ ToSet(s) = ToSet(r) \cup ToSet(c)
      /\ Owners(s) = Owners(r) \cup Owners(c)
      /\ OneEach(r) /\ OneEach(c) /\ Owners(r) \cap Owners(c) = {} => OneEach(s)
  BY <1>1, <1>4, ConcatEntries
<1> HIDE DEF s
<1>6. s = ready \o Served(pumped) \o Filed(completions) \o deferred \o Due(sleeping)
  BY DEF s, r, q, p, a, b, c
<1>7. s \in Seq(Entries)
      /\ ToSet(s) = ToSet(ready) \cup ToSet(a) \cup ToSet(b) \cup ToSet(deferred) \cup ToSet(c)
      /\ Owners(s) = Owners(ready) \cup Owners(a) \cup Owners(b) \cup Owners(deferred)
                       \cup Owners(c)
  BY <1>2, <1>3, <1>4, <1>5
<1>8. /\ OneEach(ready) /\ OneEach(a) /\ OneEach(b) /\ OneEach(deferred) /\ OneEach(c)
      /\ Owners(ready) \cap Owners(a) = {}
      /\ (Owners(ready) \cup Owners(a)) \cap Owners(b) = {}
      /\ (Owners(ready) \cup Owners(a) \cup Owners(b)) \cap Owners(deferred) = {}
      /\ (Owners(ready) \cup Owners(a) \cup Owners(b) \cup Owners(deferred))
           \cap Owners(c) = {}
      => OneEach(s)
  BY <1>2, <1>3, <1>4, <1>5
<1> QED BY <1>6, <1>7, <1>8 DEF a, b, c

(* No coroutine has lost its wake-up.                                      *)
AllWake == \A u \in Threads : Wakes(u)

(* Nothing is taken out of the queues, and no job changes hands.           *)
Growing ==
  /\ ToSet(ready) \subseteq ToSet(ready)'
  /\ ToSet(sleeping) \subseteq ToSet(sleeping)'
  /\ ToSet(pollers) \subseteq ToSet(pollers)'
  /\ \A j \in JobIds : waiting[j] # None => waiting'[j] = waiting[j]

LEMMA GrowingKeepsWakes ==
  ASSUME AllWake, Growing, NEW t \in Threads, \A u \in Threads \ {t} : Untouched(u),
         Wakes(t)' \/ park'[t] = park[t]
  PROVE  AllWake'
<1> SUFFICES ASSUME NEW u \in Threads PROVE Wakes(u)'
  BY DEF AllWake
<1>1. u # None
  BY NoneAssumption
<1>2. Wakes(u) /\ Kept(u)
  BY <1>1, GrowingKeeps DEF AllWake, Growing
<1>3. CASE u = t
  BY <1>2, <1>3, KeptWakes
<1>4. CASE u # t
  BY <1>2, <1>4, KeptWakes DEF Untouched
<1> QED BY <1>3, <1>4

(* The same when no coroutine is touched.                                  *)
LEMMA UnparkedKeepsWakes ==
  ASSUME AllWake, \A u \in Threads : Kept(u), park' = park
  PROVE  AllWake'
BY KeptWakes DEF AllWake

(* A coroutine that is resumed or handed over needs no wake-up, unless its *)
(* resumption fails at the call depth limit, or its error is taken for a   *)
(* yield.                                                                  *)
LEMMA ResumedKeepsWakes ==
  ASSUME TypeOK, SInv, ~isYielding, AllWake, NEW t \in Threads, NEW via, NEW base, NEW fails,
         Resume(t, via, base, FALSE, fails), UNCHANGED <<ready, pollers, waiting>>
  PROVE  AllWake'
<1>1. /\ \A u \in Threads \ {t} : Untouched(u)
      /\ park'[t] = Awake
      /\ \/ sleeping' = sleeping
         \/ \E d \in Delays : sleeping' = SleepUntil(Entry(t, At("timer", d, 0), FALSE))
  BY ResumeOutcome
<1>2. ASSUME NEW d \in Delays, sleeping' = SleepUntil(Entry(t, At("timer", d, 0), FALSE))
      PROVE  ToSet(sleeping) \subseteq ToSet(sleeping)'
  <2>1. Entry(t, At("timer", d, 0), FALSE) \in Entries
    BY EntryType, DelaysAssumption DEF ParkKind, Start
  <2> QED BY <1>2, <2>1, SleepUntilEntries
<1>3. Growing
  BY <1>1, <1>2 DEF Growing
<1>4. Wakes(t)'
  BY <1>1, NotParkedWakes, SuspensionKinds
<1> QED BY <1>1, <1>3, <1>4, GrowingKeepsWakes

(* Steps of scripts.                                                       *)
LEMMA ScriptStepKeepsWakes ==
  ASSUME DepthLimit = FALSE, TypeOK, SInv, ~isYielding, ParkMatchesStatus, AllWake,
         ScriptStep
  PROVE  AllWake'
<1>0. /\ sleeping \in Seq(Entries) /\ ready \in Seq(Entries) /\ pollers \in Seq(Entries)
      /\ completions \in Seq(Completion) /\ stack # << >> => Len(stack) \in DOMAIN stack
      /\ Deep = {FALSE}
  BY DEF TypeOK, SInv, Deep
<1>1. ASSUME UNCHANGED <<park, sleeping, ready, pollers, waiting>> PROVE AllWake'
  BY <1>1, GrowingKeeps, UnparkedKeepsWakes
<1>2. ASSUME NEW t \in Threads, AsThread(t), Growing PROVE AllWake'
  BY <1>2, AsThreadOutcome, GrowingKeepsWakes, NotParkedWakes, SuspensionKinds
<1>3. ASSUME NEW t \in Threads, Create(t) PROVE AllWake'
  BY <1>2, <1>3 DEF Create, CreateCoroutine, taskVars, Growing
<1>4. ASSUME NEW t \in Threads, CoroutineResume(t) PROVE AllWake'
  BY <1>0, <1>4, ResumedKeepsWakes DEF CoroutineResume
<1>5. ASSUME NEW t \in Threads, TaskSpawn(t) PROVE AllWake'
  <2>1. CASE \E deep \in Deep : Resume(t, "task", stack, deep, FALSE)
    BY <1>0, <1>5, <2>1, ResumedKeepsWakes DEF TaskSpawn
  <2>2. CASE UNCHANGED <<coVars, sleeping, failed>>
    BY <1>1, <1>5, <2>2 DEF TaskSpawn, coVars
  <2> QED BY <1>5, <2>1, <2>2 DEF TaskSpawn
<1>6. ASSUME NEW t \in Threads, TaskDefer(t) PROVE AllWake'
  BY <1>2, <1>6 DEF TaskDefer, Growing
<1>7. ASSUME NEW t \in Threads, NEW d \in Delays, TaskDelay(t, d) PROVE AllWake'
  <2>1. Entry(t, Start(d), FALSE) \in Entries
    BY EntryType, DelaysAssumption DEF ParkKind, Start
  <2>2. Growing
    BY <1>7, <2>1, SleepUntilEntries DEF TaskDelay, Growing
  <2> QED BY <1>2, <1>7, <2>2 DEF TaskDelay
<1>8. ASSUME NEW t \in Threads, CoroutineClose(t) PROVE AllWake'
  <2>1. Growing
    BY <1>8 DEF CoroutineClose, taskVars, Growing
  <2> QED BY <1>8, <2>1, CloseOutcome, GrowingKeepsWakes, NotParkedWakes, SuspensionKinds
       DEF CoroutineClose
<1>9. ASSUME NEW at, Suspend(at) \/ SwitchBack("dead", at), ScriptRuns,
             Executing.k = "co" \/ Yieldable, Growing,
             at \in {Awake, Yielded} \/ \A t \in Threads : t = currentCo => Wakes(t)'
      PROVE  AllWake'
  <2>1. PICK t \in Threads : /\ t = currentCo /\ park'[t] = at
                             /\ \A u \in Threads \ {t} : Untouched(u)
    BY <1>9, SuspendOutcome, SwitchBackOutcome DEF ScriptRuns
  <2>2. Wakes(t)'
    BY <1>9, <2>1, NotParkedWakes, SuspensionKinds
  <2> QED BY <1>9, <2>1, <2>2, GrowingKeepsWakes
<1>10. CASE CoroutineYield
  BY <1>9, <1>10 DEF CoroutineYield, Growing, taskVars
<1>11. CASE BodyReturns \/ BodyRaises
  <2>1. Growing
    BY <1>11 DEF BodyReturns, BodyRaises, queues, Growing
  <2> QED BY <1>9, <1>11, <2>1 DEF BodyReturns, BodyRaises, BodyRuns
<1>12. ASSUME NEW d \in Delays, TaskWait(d) PROVE AllWake'
  <2> DEFINE e == Entry(currentCo, At("timer", d, 0), FALSE)
  <2>1. ScriptRuns /\ Yieldable /\ Suspend(At("timer", d, 0)) /\ sleeping' = SleepUntil(e)
        /\ UNCHANGED <<ready, pollers, waiting>>
    BY <1>12 DEF TaskWait
  <2>2. currentCo \in Threads /\ park'[currentCo] = At("timer", d, 0)
    BY <2>1, SuspendOutcome
  <2>3. e \in Entries /\ e.t = currentCo /\ e.at.k = "timer"
    <3>1. e \in Entries
      BY <2>2, EntryType, DelaysAssumption DEF ParkKind
    <3> QED BY <3>1 DEF Entry, At
  <2> HIDE DEF e
  <2>4. ToSet(sleeping)' = ToSet(sleeping) \cup {e}
    BY <2>1, <2>3, SleepUntilEntries
  <2>5. Growing /\ \A t \in Threads : t = currentCo => Wakes(t)'
    BY <2>1, <2>2, <2>3, <2>4, SuspensionKinds DEF Growing, Wakes
  <2> QED BY <1>9, <2>1, <2>5
<1>13. CASE BackgroundRun
  <2> DEFINE job == Min(FreeJobs)
  <2>1. ScriptRuns /\ Yieldable /\ Suspend(At("job", 0, job))
        /\ waiting' = [waiting EXCEPT ![job] = currentCo]
        /\ UNCHANGED <<ready, pollers, sleeping>>
    BY <1>13 DEF BackgroundRun, InTask
  <2>2. currentCo \in Threads /\ park'[currentCo] = At("job", 0, job)
    BY <2>1, SuspendOutcome
  <2>3. job \in JobIds /\ waiting[job] = None
    BY <1>13, FreeJob DEF BackgroundRun
  <2> HIDE DEF job
  <2>4. waiting'[job] = currentCo /\ \A j \in JobIds : waiting[j] # None => waiting'[j] = waiting[j]
    BY <2>1, <2>3 DEF TypeOK
  <2>5. Growing /\ \A t \in Threads : t = currentCo => Wakes(t)'
    BY <2>1, <2>2, <2>3, <2>4, SuspensionKinds DEF Growing, Wakes
  <2> QED BY <1>9, <2>1, <2>5
<1>14. ASSUME NEW d \in Delays, PollParked(d) PROVE AllWake'
  <2> DEFINE e == Entry(currentCo, At("poll", d, 0), FALSE)
  <2>1. ScriptRuns /\ Yieldable /\ Suspend(At("poll", d, 0)) /\ pollers' = Append(pollers, e)
        /\ UNCHANGED <<ready, sleeping, waiting>>
    BY <1>14 DEF PollParked, InTask
  <2>2. currentCo \in Threads /\ park'[currentCo] = At("poll", d, 0)
    BY <2>1, SuspendOutcome
  <2>3. e \in Entries /\ e.t = currentCo /\ e.at.k = "poll"
    <3>1. e \in Entries
      BY <2>2, EntryType, DelaysAssumption DEF ParkKind
    <3> QED BY <3>1 DEF Entry, At
  <2> HIDE DEF e
  <2>4. ToSet(pollers)' = ToSet(pollers) \cup {e}
    BY <1>0, <2>1, <2>3, AppendEntries
  <2>5. Growing /\ \A t \in Threads : t = currentCo => Wakes(t)'
    BY <2>1, <2>2, <2>3, <2>4, SuspensionKinds DEF Growing, Wakes
  <2> QED BY <1>9, <2>1, <2>5
<1>15. ASSUME NEW t \in Threads, TaskCancel(t) PROVE AllWake'
  <2>1. /\ ready' = Without(ready, t) /\ sleeping' = Without(sleeping, t)
        /\ pollers' = Without(pollers, t)
        /\ waiting' = [j \in JobIds |-> IF waiting[j] = t THEN None ELSE waiting[j]]
    BY <1>15 DEF TaskCancel, Forget
  <2>2. /\ ToSet(ready)' = {e \in ToSet(ready) : e.t # t}
        /\ ToSet(sleeping)' = {e \in ToSet(sleeping) : e.t # t}
        /\ ToSet(pollers)' = {e \in ToSet(pollers) : e.t # t}
    BY <1>0, <2>1, WithoutEntries
  <2>3. ASSUME NEW u \in Threads \ {t} PROVE Kept(u)
    BY <2>1, <2>2 DEF Kept, BecomesReady
  <2>4. CASE CloseCoroutine(t)
    <3>1. ASSUME NEW u \in Threads \ {t} PROVE Wakes(u)'
      BY <2>3, <2>4, CloseOutcome, KeptWakes DEF AllWake, Untouched
    <3>2. Wakes(t)'
      BY <2>4, CloseOutcome, NotParkedWakes, SuspensionKinds
    <3> QED BY <3>1, <3>2 DEF AllWake
  <2>5. CASE status[t] # "suspended" /\ UNCHANGED coVars
    <3>1. park' = park /\ park[t].k = "awake"
      BY <2>5 DEF coVars, ParkMatchesStatus
    <3>2. ASSUME NEW u \in Threads \ {t} PROVE Wakes(u)'
      BY <2>3, <3>1, KeptWakes DEF AllWake
    <3> QED BY <3>1, <3>2, NotParkedWakes DEF AllWake
  <2> QED BY <1>15, <2>4, <2>5 DEF TaskCancel
<1>16. CASE PollInPlace
  <2>1. /\ ready' = ready \o Filed(completions) /\ waiting' = StillWaiting(completions)
        /\ UNCHANGED <<park, sleeping, pollers>>
    BY <1>16 DEF PollInPlace
  <2>2. ToSet(ready)' = ToSet(ready) \cup ToSet(Filed(completions))
    <3>1. Filed(completions) \in Seq(Entries)
      BY FiledType DEF TypeOK
    <3> QED BY <1>0, <2>1, <3>1, ConcatEntries
  <2>3. \A u \in Threads, j \in JobIds : waiting[j] = u =>
          \/ waiting'[j] = u
          \/ \E d \in ToSet(ready)' : d.t = u /\ d.at.k = "job" /\ d.at.id = j
    <3>1. /\ completions \in Seq(Completion)
          /\ ToSet(Filed(completions)) \subseteq ToSet(ready)'
      BY <2>2 DEF TypeOK
    <3> QED BY <2>1, <3>1, FilingKeeps
  <2>4. ASSUME NEW u \in Threads PROVE Kept(u)
    BY <2>1, <2>2, <2>3 DEF Kept, BecomesReady
  <2> QED BY <2>1, <2>4, UnparkedKeepsWakes
<1>17. ASSUME \/ CallBack \/ CallReturn \/ Require \/ RequireReturn
              \/ MainReturns \/ MainRaises \/ \E d \in Delays : TaskWaitBlocking(d)
       PROVE  AllWake'
  BY <1>1, <1>17 DEF CallBack, CallReturn, Require, RequireReturn, EnterNative,
     LeaveNative, EnterModule, LeaveModule, MainReturns, MainRaises,
     TaskWaitBlocking, taskVars, queues
<1> QED BY <1>3, <1>4, <1>5, <1>6, <1>7, <1>8, <1>10, <1>11, <1>12, <1>13, <1>14,
           <1>15, <1>16, <1>17 DEF ScriptStep

(* Steps of scheduler loops.                                               *)
LEMMA SchedulerStepKeepsWakes ==
  ASSUME DepthLimit = FALSE, TypeOK, SInv, Loops, ~isYielding, ParkMatchesStatus,
         AllWake, SchedulerStep
  PROVE  AllWake'
<1>0. /\ sleeping \in Seq(Entries) /\ ready \in Seq(Entries) /\ pollers \in Seq(Entries)
      /\ completions \in Seq(Completion)
  BY DEF TypeOK
<1>1. CASE BeginPass
  <2>1. PICK pumped \in Pumped :
          /\ ready' = ready \o Served(pumped) \o Filed(completions) \o deferred \o Due(sleeping)
          /\ pollers' = Unserved(pumped)
    BY <1>1 DEF BeginPass
  <2>2. /\ sleeping' = NotDue(sleeping) /\ waiting' = StillWaiting(completions)
        /\ park' = park
    BY <1>1 DEF BeginPass, IdleCoVars
  <2>3. ToSet(ready)' = ToSet(ready) \cup ToSet(Served(pumped))
          \cup ToSet(Filed(completions)) \cup ToSet(deferred) \cup ToSet(Due(sleeping))
    BY <2>1, PassEntries
  <2>4. \A e \in ToSet(sleeping) : e \in ToSet(ready)' \/ e \in ToSet(sleeping)'
    BY <1>0, <2>2, <2>3, DueEntries
  <2>5. \A e \in ToSet(pollers) :
          BecomesReady(e) \/ \E d \in ToSet(pollers)' : d.t = e.t /\ d.at.k = e.at.k
    BY <2>1, <2>3, PumpKeeps
  <2>6. \A u \in Threads, j \in JobIds : waiting[j] = u =>
          \/ waiting'[j] = u
          \/ \E d \in ToSet(ready)' : d.t = u /\ d.at.k = "job" /\ d.at.id = j
    BY <1>0, <2>2, <2>3, FilingKeeps
  <2>7. ASSUME NEW u \in Threads PROVE Kept(u)
    BY <2>3, <2>4, <2>5, <2>6 DEF Kept, BecomesReady
  <2> QED BY <2>2, <2>7, UnparkedKeepsWakes
<1>2. CASE ResumeNext
  <2> DEFINE e == Head(ready)
             base == LoopBecomes([Executing EXCEPT !.due = @ - 1, !.ran = TRUE])
  <2>1. /\ ready # << >> /\ ready' = Tail(ready) /\ UNCHANGED <<pollers, waiting>>
        /\ \/ status[e.t] = "suspended" /\ Resume(e.t, "task", base, Executing.deep, e.fails)
           \/ status[e.t] # "suspended" /\ UNCHANGED <<IdleCoVars, sleeping>>
    BY <1>2 DEF ResumeNext
  <2>2. e \in Entries /\ ToSet(ready) = {e} \cup ToSet(Tail(ready))
    BY <1>0, <2>1, TailEntries
  <2>3. PICK t \in Threads : t = e.t
    BY <2>2 DEF Entries
  <2>4. Executing.deep = FALSE
    <3>1. Len(stack) \in DOMAIN stack /\ Executing.k = "sched"
      BY <1>2 DEF ResumeNext, LoopIn, SInv
    <3>2. Executing.deep \in BOOLEAN
      BY <1>2, LoopTypes DEF ResumeNext, LoopActivation
    <3> QED BY <3>1, <3>2 DEF Loops, Executing
  <2> HIDE DEF e, base
  <2>5. ASSUME NEW u \in Threads \ {t}, ToSet(sleeping) \subseteq ToSet(sleeping)'
        PROVE  Kept(u)
    BY <2>1, <2>2, <2>3, <2>5 DEF Kept, BecomesReady
  <2>6. CASE Resume(e.t, "task", base, Executing.deep, e.fails)
    <3>1. /\ \A u \in Threads \ {t} : Untouched(u)
          /\ park'[t] = Awake
          /\ \/ sleeping' = sleeping
             \/ \E d \in Delays : sleeping' = SleepUntil(Entry(t, At("timer", d, 0), FALSE))
      <4>1. Resume(t, "task", base, FALSE, e.fails)
        BY <2>3, <2>4, <2>6
      <4> QED BY <4>1, ResumeOutcome
    <3>2. ASSUME NEW d \in Delays, sleeping' = SleepUntil(Entry(t, At("timer", d, 0), FALSE))
          PROVE  ToSet(sleeping) \subseteq ToSet(sleeping)'
      <4>1. Entry(t, At("timer", d, 0), FALSE) \in Entries
        BY <2>3, EntryType, DelaysAssumption DEF ParkKind, Start
      <4> QED BY <3>2, <4>1, SleepUntilEntries
    <3>3. \A u \in Threads \ {t} : Wakes(u)'
      BY <2>5, <3>1, <3>2, KeptWakes DEF AllWake, Untouched
    <3>4. Wakes(t)'
      BY <2>3, <3>1, NotParkedWakes, SuspensionKinds
    <3> QED BY <3>3, <3>4 DEF AllWake
  <2>7. CASE status[t] # "suspended" /\ UNCHANGED <<IdleCoVars, sleeping>>
    <3>1. park' = park /\ park[t].k = "awake"
      BY <2>3, <2>7 DEF IdleCoVars, ParkMatchesStatus
    <3>2. \A u \in Threads \ {t} : Wakes(u)'
      BY <2>5, <2>7, <3>1, KeptWakes DEF AllWake
    <3> QED BY <2>3, <3>1, <3>2, NotParkedWakes DEF AllWake
  <2> QED BY <2>1, <2>3, <2>6, <2>7
<1>3. CASE WaitForEvents
  <2>1. PICK pumped \in Pumped :
          ready' = ready \o Served(pumped) /\ pollers' = Unserved(pumped)
    BY <1>3 DEF WaitForEvents
  <2>2. UNCHANGED <<park, sleeping, waiting>>
    BY <1>3 DEF WaitForEvents, IdleCoVars
  <2>3. ToSet(ready)' = ToSet(ready) \cup ToSet(Served(pumped))
    BY <1>0, <2>1, PumpTypes, ConcatEntries
  <2>4. \A e \in ToSet(pollers) :
          BecomesReady(e) \/ \E d \in ToSet(pollers)' : d.t = e.t /\ d.at.k = e.at.k
    BY <2>1, <2>3, PumpKeeps
  <2>5. ASSUME NEW u \in Threads PROVE Kept(u)
    BY <2>2, <2>3, <2>4 DEF Kept, BecomesReady
  <2> QED BY <2>2, <2>5, UnparkedKeepsWakes
<1>4. CASE WaitForCompletion
  <2>1. UNCHANGED <<park, sleeping, pollers>>
    BY <1>4 DEF WaitForCompletion, IdleCoVars
  <2>2. CASE UNCHANGED <<ready, waiting>>
    BY <2>1, <2>2, GrowingKeeps, UnparkedKeepsWakes
  <2>3. CASE /\ completions # << >>
             /\ ready' = ready \o Filed(<<Head(completions)>>)
             /\ waiting' = StillWaiting(<<Head(completions)>>)
    <3> DEFINE arrived == <<Head(completions)>>
    <3>1. arrived \in Seq(Completion)
      BY <1>0, <2>3, HeadTailProperties
    <3>2. ready' = ready \o Filed(arrived) /\ waiting' = StillWaiting(arrived)
      BY <2>3
    <3> HIDE DEF arrived
    <3>3. ToSet(ready)' = ToSet(ready) \cup ToSet(Filed(arrived))
      BY <1>0, <3>1, <3>2, FiledType, ConcatEntries
    <3>4. ASSUME NEW u \in Threads PROVE Kept(u)
      BY <2>1, <3>1, <3>2, <3>3, FilingKeeps DEF Kept, BecomesReady
    <3> QED BY <2>1, <3>4, UnparkedKeepsWakes
  <2> QED BY <1>4, <2>2, <2>3 DEF WaitForCompletion
<1>5. CASE LoopReturns \/ PassAgain \/ ProgramEnds \/ WaitForDeadline
  <2>1. UNCHANGED <<park, sleeping, ready, pollers, waiting>>
    BY <1>5 DEF LoopReturns, PassAgain, ProgramEnds, WaitForDeadline, taskVars, queues,
       IdleCoVars
  <2> QED BY <2>1, GrowingKeeps, UnparkedKeepsWakes
<1> QED BY <1>1, <1>2, <1>3, <1>4, <1>5 DEF SchedulerStep

(* Time that goes by takes no entry out of the queues.                     *)
LEMMA TickKeepsWakes ==
  ASSUME TypeOK, AllWake, Tick
  PROVE  AllWake'
<1>0. sleeping \in Seq(Entries) /\ pollers \in Seq(Entries) /\ park \in [Threads -> Suspension]
  BY DEF TypeOK
<1>1. /\ sleeping' = Sooner(sleeping) /\ pollers' = Sooner(pollers)
      /\ ready' = ready /\ waiting' = waiting
      /\ \A u \in Threads : park'[u].k = park[u].k /\ park'[u].id = park[u].id
  BY DEF Tick, Later, At
<1>2. /\ \A e \in ToSet(sleeping) : \E d \in ToSet(sleeping)' : d.t = e.t /\ d.at.k = e.at.k
      /\ \A e \in ToSet(pollers) : \E d \in ToSet(pollers)' : d.t = e.t /\ d.at.k = e.at.k
  <2>1. \A e : /\ Entry(e.t, Later(e.at), e.fails).t = e.t
               /\ Entry(e.t, Later(e.at), e.fails).at.k = e.at.k
    BY DEF Entry, Later, At
  <2> QED BY <1>0, <1>1, <2>1, SoonerEntries
<1>3. ASSUME NEW u \in Threads PROVE Kept(u)
  BY <1>1, <1>2 DEF Kept, BecomesReady
<1> QED BY <1>1, <1>3, KeptWakes DEF AllWake

(* Every step keeps a wake-up for everybody who waits for one.             *)
LEMMA StepKeepsWakes ==
  ASSUME DepthLimit = FALSE, TypeOK, SInv, Loops, ~isYielding, ParkMatchesStatus,
         AllWake, [Next]_vars
  PROVE  AllWake'
<1>1. CASE (\E j \in JobIds : JobDone(j)) \/ Terminated \/ UNCHANGED vars
  <2>1. UNCHANGED <<park, sleeping, ready, pollers, waiting>>
    BY <1>1 DEF JobDone, Terminated, vars, coVars, taskVars
  <2> QED BY <2>1, GrowingKeeps, UnparkedKeepsWakes
<1> QED BY <1>1, ScriptStepKeepsWakes, SchedulerStepKeepsWakes, TickKeepsWakes DEF Next

(* While no coroutine has a native body that yields, is_yielding never      *)
(* stays set.                                                              *)
LEMMA StepKeepsNoYield ==
  ASSUME YieldingNatives = {}, ~isYielding, [Next]_vars
  PROVE  ~isYielding'
<1>1. ASSUME NEW t, NEW via, NEW base, NEW deep, NEW fails,
             Resume(t, via, base, deep, fails)
      PROVE  ~isYielding'
  BY <1>1 DEF Resume, ResumeOverflows, DieOfError, ErrorTakenForYield, Switch
<1>2. ASSUME NEW at, Suspend(at) PROVE ~isYielding'
  BY <1>2 DEF Suspend
<1>3. ASSUME isYielding' = isYielding PROVE ~isYielding'
  BY <1>3
<1>4. CASE ScriptStep
  <2>1. ASSUME NEW t \in Threads, Create(t) \/ CoroutineClose(t) \/ TaskDefer(t)
                 \/ TaskCancel(t) \/ \E d \in Delays : TaskDelay(t, d)
        PROVE  ~isYielding'
    BY <1>3, <2>1 DEF Create, CreateCoroutine, CoroutineClose, CloseCoroutine,
       TaskDefer, TaskDelay, TaskCancel, coVars
  <2>2. ASSUME NEW t \in Threads, CoroutineResume(t) \/ TaskSpawn(t) PROVE ~isYielding'
    BY <1>1, <1>3, <2>2 DEF CoroutineResume, TaskSpawn, coVars
  <2>3. ASSUME \/ CoroutineYield \/ \E d \in Delays : TaskWait(d) \/ PollParked(d)
               \/ BackgroundRun
        PROVE  ~isYielding'
    BY <1>2, <2>3 DEF CoroutineYield, TaskWait, PollParked, BackgroundRun
  <2>4. ASSUME \/ CallBack \/ CallReturn \/ Require \/ RequireReturn \/ BodyReturns
               \/ BodyRaises \/ MainReturns \/ MainRaises \/ PollInPlace
               \/ \E d \in Delays : TaskWaitBlocking(d)
        PROVE  ~isYielding'
    BY <1>2, <1>3, <2>4 DEF CallBack, CallReturn, Require, RequireReturn, EnterNative,
       LeaveNative, EnterModule, LeaveModule, BodyReturns, BodyRaises, MainReturns,
       MainRaises, PollInPlace, TaskWaitBlocking
  <2> QED BY <1>4, <2>1, <2>2, <2>3, <2>4 DEF ScriptStep
<1>5. CASE SchedulerStep
  BY <1>1, <1>3, <1>5 DEF SchedulerStep, BeginPass, ResumeNext, WaitForEvents,
     WaitForDeadline, WaitForCompletion, LoopReturns, PassAgain, ProgramEnds, IdleCoVars
<1>6. CASE Tick \/ Terminated \/ (\E j \in JobIds : JobDone(j)) \/ UNCHANGED vars
  BY <1>6 DEF Tick, Terminated, JobDone, vars, coVars
<1> QED BY <1>4, <1>5, <1>6 DEF Next

(* No wake-up is lost: whatever a script cancels, resumes, closes or queues *)
(* (a coroutine that already waits for the scheduler, too), in whatever     *)
(* order passes, blocking waits, events, completions and deadlines come, a  *)
(* coroutine that waits in task.wait, ui.poll or for background work is     *)
(* referred to by an entry or a job for that kind of wait.  Both           *)
(* assumptions are needed: a resumption that fails at the call depth limit *)
(* uses up the entry and leaves the coroutine suspended, and so does the   *)
(* error of a failed job that `resume` takes for a yield, because a native *)
(* body that yields has left is_yielding set.                              *)
THEOREM NoLostWakeHolds ==
  ASSUME DepthLimit = FALSE, YieldingNatives = {}
  PROVE  Spec => []NoLostWake
<1> DEFINE Inv == EndInv /\ ~isYielding /\ ParkMatchesStatus /\ AllWake
<1>1. Init => Inv
  <2>1. Init => EndInv
    BY DEF Init, CoInit, EndInv, Loops, EndsIdle, MainChunk, Quiet
  <2>2. Init => ~isYielding /\ ParkMatchesStatus /\ AllWake
    BY SuspensionKinds DEF Init, CoInit, ParkMatchesStatus, AllWake, Wakes
  <2> QED BY <2>1, <2>2
<1>2. IInv /\ Inv /\ [Next]_vars => Inv'
  BY StepKeepsEndInv, StepKeepsNoYield, StepKeepsPark, StepKeepsWakes DEF IInv, EndInv
<1>3. Inv => NoLostWake
  BY WakesAreHeld DEF AllWake
<1> QED BY <1>1, <1>2, <1>3, Invariance, PTL DEF Spec

-----------------------------------------------------------------------------
(***************************************************************************)
(* Wake-ups answer the suspensions they were made for, while scripts leave *)
(* the coroutines that wait for the scheduler to it.                       *)
(***************************************************************************)

(* The scheduler refers to a coroutine.                                    *)
InQueues(u) ==
  \/ u \in Owners(deferred) \/ u \in Owners(sleeping)
  \/ u \in Owners(ready) \/ u \in Owners(pollers)
Referred(u) == InQueues(u) \/ \E j \in JobIds : waiting[j] = u

(* It does so at most once.                                                *)
Apart ==
  /\ OneEach(deferred) /\ OneEach(sleeping) /\ OneEach(ready) /\ OneEach(pollers)
  /\ Owners(deferred) \cap Owners(sleeping) = {}
  /\ Owners(deferred) \cap Owners(ready) = {}
  /\ Owners(deferred) \cap Owners(pollers) = {}
  /\ Owners(sleeping) \cap Owners(ready) = {}
  /\ Owners(sleeping) \cap Owners(pollers) = {}
  /\ Owners(ready) \cap Owners(pollers) = {}
  /\ \A j, k \in JobIds : waiting[j] # None /\ waiting[j] = waiting[k] => j = k
  /\ \A j \in JobIds : waiting[j] # None => ~InQueues(waiting[j])

(* Whoever it refers to is suspended, or was closed in the meantime.       *)
Idle == \A u \in Threads : Referred(u) => status[u] \in {"suspended", "dead"}

(* An entry stands for the suspension its coroutine is in.                 *)
Matches(e) ==
  status[e.t] = "suspended" =>
    \/ e.at.k = "start" /\ park[e.t].k \in {"fresh", "yield"}
    \/ /\ e.at.k # "start" /\ park[e.t].k = e.at.k /\ park[e.t].id = e.at.id
       /\ e.at.k = "timer" => park[e.t].left = e.at.left
Matching ==
  /\ \A e \in ToSet(deferred) : Matches(e) /\ e.at.k = "start"
  /\ \A e \in ToSet(sleeping) : Matches(e)
  /\ \A e \in ToSet(ready) : Matches(e) /\ (e.at.k = "timer" => e.at.left = 0)
  /\ \A e \in ToSet(pollers) : Matches(e) /\ e.at.k = "poll"
  /\ \A j \in JobIds : waiting[j] # None /\ status[waiting[j]] = "suspended"
       => park[waiting[j]] = At("job", 0, j)

AnswerInv == Apart /\ Idle /\ Matching

(* With nobody resumed by hand, who may be handed over is not referred to. *)
LEMMA HandOverIsFree ==
  ASSUME ManualResume = FALSE, TypeOK, AnswerInv, NEW t \in Threads, MayHandOver(t)
  PROVE  /\ ~Referred(t) /\ Resumable(t)
         /\ park[t].k \in {"awake", "fresh", "yield"}
<1>1. Resumable(t) /\ park[t].k \in {"awake", "fresh", "yield"} /\ ~Queued(t)
  BY DEF MayHandOver
<1>2. ~InQueues(t)
  BY <1>1 DEF Queued, InQueues, Owners
<1>3. ASSUME NEW j \in JobIds, waiting[j] = t PROVE FALSE
  <2>1. status[t] = "suspended"
    BY <1>1, <1>3 DEF AnswerInv, Idle, Referred, Resumable
  <2>2. park[t] = At("job", 0, j)
    BY <1>3, <2>1, NoneAssumption DEF AnswerInv, Matching
  <2> QED BY <1>1, <2>2 DEF At
<1> QED BY <1>1, <1>2, <1>3 DEF Referred

(* Whose the entries of a queue are.                                       *)
LEMMA EntryOwner ==
  ASSUME NEW q \in Seq(Entries), NEW d \in ToSet(q)
  PROVE  d \in Entries /\ d.t \in Threads /\ d.t \in Owners(q)
<1>1. d \in Entries
  BY Positions
<1>2. d.t \in Threads
  BY <1>1 DEF Entries
<1> QED BY <1>1, <1>2, OwnersOfEntries

(* An entry goes on matching while its coroutine is not touched.           *)
LEMMA UntouchedMatches ==
  ASSUME NEW e, Untouched(e.t), Matches(e)
  PROVE  Matches(e)'
BY DEF Untouched, Matches, Onto

(* Nothing refers to `t` once it has been taken off the ready queue, if it *)
(* was there.                                                              *)
Freed(t) ==
  /\ ToSet(ready)' \subseteq ToSet(ready) /\ OneEach(ready)'
  /\ t \notin Owners(ready)'
  /\ t \notin Owners(deferred) /\ t \notin Owners(sleeping) /\ t \notin Owners(pollers)
  /\ \A j \in JobIds : waiting[j] # t

LEMMA FreeIsFreed ==
  ASSUME AnswerInv, NEW t \in Threads, ~Referred(t), ready' = ready
  PROVE  Freed(t)
BY DEF AnswerInv, Apart, Referred, InQueues, Freed

(* What one queue gains.                                                   *)
Gains(q, r, e) ==
  /\ ToSet(r) = ToSet(q) \cup {e} /\ Owners(r) = Owners(q) \cup {e.t} /\ OneEach(r)

(* A coroutine nothing refers to does something, and may file an entry for *)
(* itself.                                                                 *)
LEMMA TurnKeepsAnswers ==
  ASSUME TypeOK, AnswerInv, NEW t \in Threads, Freed(t), \A u \in Threads \ {t} : Untouched(u),
         waiting' = waiting, NEW e, e.t = t, 
         \/ UNCHANGED <<deferred, sleeping, pollers>>
         \/ /\ Matches(e)' /\ status'[t] \in {"suspended", "dead"}
            /\ \/ /\ Gains(sleeping, sleeping', e) /\ UNCHANGED <<deferred, pollers>>
               \/ /\ Gains(deferred, deferred', e) /\ UNCHANGED <<sleeping, pollers>>
                  /\ e.at.k = "start"
               \/ /\ Gains(pollers, pollers', e) /\ UNCHANGED <<sleeping, deferred>>
                  /\ e.at.k = "poll"
  PROVE  AnswerInv'
<1>1. Owners(ready)' \subseteq Owners(ready) \ {t}
  BY OwnersOfEntries DEF Freed
<1>2. /\ Owners(deferred)' = Owners(deferred) \/ Owners(deferred)' = Owners(deferred) \cup {t}
      /\ Owners(sleeping)' = Owners(sleeping) \/ Owners(sleeping)' = Owners(sleeping) \cup {t}
      /\ Owners(pollers)' = Owners(pollers) \/ Owners(pollers)' = Owners(pollers) \cup {t}
      /\ OneEach(deferred)' /\ OneEach(sleeping)' /\ OneEach(pollers)'
      /\ \/ /\ Owners(deferred)' = Owners(deferred) /\ Owners(sleeping)' = Owners(sleeping)
         \/ /\ Owners(deferred)' = Owners(deferred) /\ Owners(pollers)' = Owners(pollers)
         \/ /\ Owners(pollers)' = Owners(pollers) /\ Owners(sleeping)' = Owners(sleeping)
      /\ t \in Owners(deferred)' \cup Owners(sleeping)' \cup Owners(pollers)'
           => status'[t] \in {"suspended", "dead"}
  BY DEF Gains, AnswerInv, Apart, Freed
<1>3. Apart'
  BY <1>1, <1>2 DEF AnswerInv, Apart, Freed, InQueues
<1>4. Idle'
  <2> SUFFICES ASSUME NEW u \in Threads, Referred(u)' PROVE status'[u] \in {"suspended", "dead"}
    BY DEF Idle
  <2>1. CASE u = t
    BY <1>1, <1>2, <2>1 DEF Referred, InQueues, Freed
  <2>2. CASE u # t
    <3>1. Referred(u)
      BY <1>1, <1>2, <2>2 DEF Referred, InQueues
    <3>2. status[u] \in {"suspended", "dead"} /\ Untouched(u)
      BY <2>2, <3>1 DEF AnswerInv, Idle
    <3> QED BY <3>2 DEF Untouched, Onto
  <2> QED BY <2>1, <2>2
<1>5. ASSUME NEW d, d.t \in Threads \ {t}, Matches(d) PROVE Matches(d)'
  BY <1>5, UntouchedMatches
<1>6. ASSUME NEW q \in Seq(Entries), NEW d \in ToSet(q), t \notin Owners(q)
      PROVE  d.t \in Threads \ {t}
  BY <1>6, EntryOwner
<1>7. /\ deferred \in Seq(Entries) /\ sleeping \in Seq(Entries) /\ pollers \in Seq(Entries)
      /\ ready \in Seq(Entries) /\ waiting \in [JobIds -> Threads \cup {None}]
  BY DEF TypeOK
<1>8. /\ \A d \in ToSet(deferred) : d.t \in Threads \ {t}
      /\ \A d \in ToSet(sleeping) : d.t \in Threads \ {t}
      /\ \A d \in ToSet(pollers) : d.t \in Threads \ {t}
      /\ \A d \in ToSet(ready)' : d.t \in Threads \ {t}
  <2>1. \A d \in ToSet(ready)' : d \in ToSet(ready) /\ d.t # t
    BY OwnersOfEntries DEF Freed
  <2>2. \A d \in ToSet(ready) : d.t \in Threads
    BY <1>7, EntryOwner
  <2> QED BY <1>6, <1>7, <2>1, <2>2 DEF Freed
<1>9. ASSUME NEW j \in JobIds, waiting'[j] # None, status'[waiting'[j]] = "suspended"
      PROVE  park'[waiting'[j]] = At("job", 0, j)
  <2>1. PICK u \in Threads \ {t} : u = waiting[j] /\ u = waiting'[j] /\ u # None
    BY <1>7, <1>9 DEF Freed
  <2>2. status[u] = "suspended" /\ park'[u] = park[u]
    BY <1>9, <2>1 DEF Untouched, Onto
  <2> QED BY <2>1, <2>2 DEF AnswerInv, Matching
<1>10. Matching'
  <2>1. \A d \in ToSet(deferred)' : Matches(d)' /\ d.at.k = "start"
    BY <1>5, <1>8 DEF Gains, AnswerInv, Matching
  <2>2. \A d \in ToSet(sleeping)' : Matches(d)'
    BY <1>5, <1>8 DEF Gains, AnswerInv, Matching
  <2>3. \A d \in ToSet(pollers)' : Matches(d)' /\ d.at.k = "poll"
    BY <1>5, <1>8 DEF Gains, AnswerInv, Matching
  <2>4. \A d \in ToSet(ready)' : Matches(d)' /\ (d.at.k = "timer" => d.at.left = 0)
    BY <1>5, <1>8 DEF Freed, AnswerInv, Matching
  <2> QED BY <1>9, <2>1, <2>2, <2>3, <2>4 DEF Matching
<1> QED BY <1>3, <1>4, <1>10 DEF AnswerInv

(* The same without an entry.                                              *)
LEMMA PlainTurnKeepsAnswers ==
  ASSUME TypeOK, AnswerInv, NEW t \in Threads, Freed(t), \A u \in Threads \ {t} : Untouched(u),
         UNCHANGED <<deferred, sleeping, pollers, waiting>>
  PROVE  AnswerInv'
<1>1. PICK e : e = [t |-> t]
  OBVIOUS
<1>2. e.t = t
  BY <1>1
<1> QED BY <1>2, TurnKeepsAnswers

(* Queues that lose entries, while the coroutines still referred to are    *)
(* not touched or closed.                                                  *)
LEMMA ShrinkingKeepsAnswers ==
  ASSUME TypeOK, AnswerInv,
         ToSet(deferred)' \subseteq ToSet(deferred), OneEach(deferred)',
         ToSet(sleeping)' \subseteq ToSet(sleeping), OneEach(sleeping)',
         ToSet(ready)' \subseteq ToSet(ready), OneEach(ready)',
         ToSet(pollers)' \subseteq ToSet(pollers), OneEach(pollers)',
         \A j \in JobIds : waiting'[j] # None => waiting'[j] = waiting[j],
         \A u \in Threads : Referred(u)' => Untouched(u) \/ status'[u] = "dead"
  PROVE  AnswerInv'
<1>1. /\ Owners(deferred)' \subseteq Owners(deferred)
      /\ Owners(sleeping)' \subseteq Owners(sleeping)
      /\ Owners(ready)' \subseteq Owners(ready)
      /\ Owners(pollers)' \subseteq Owners(pollers)
  BY OwnersOfEntries
<1>2. Apart'
  BY <1>1 DEF AnswerInv, Apart, InQueues
<1>3. \A u \in Threads : Referred(u)' => Referred(u)
  BY <1>1, NoneAssumption DEF Referred, InQueues
<1>4. Idle'
  BY <1>3 DEF AnswerInv, Idle, Untouched, Onto
<1>5. ASSUME NEW d, d.t \in Threads, Referred(d.t)', Matches(d)
      PROVE  Matches(d)'
  <2>1. CASE Untouched(d.t)
    BY <1>5, <2>1, UntouchedMatches
  <2>2. CASE status'[d.t] = "dead"
    BY <2>2 DEF Matches
  <2> QED BY <1>5, <2>1, <2>2
<1>6. /\ \A d \in ToSet(deferred)' : d \in ToSet(deferred) /\ d.t \in Threads /\ Referred(d.t)'
      /\ \A d \in ToSet(sleeping)' : d \in ToSet(sleeping) /\ d.t \in Threads /\ Referred(d.t)'
      /\ \A d \in ToSet(ready)' : d \in ToSet(ready) /\ d.t \in Threads /\ Referred(d.t)'
      /\ \A d \in ToSet(pollers)' : d \in ToSet(pollers) /\ d.t \in Threads /\ Referred(d.t)'
  <2>1. /\ deferred \in Seq(Entries) /\ sleeping \in Seq(Entries)
        /\ pollers \in Seq(Entries) /\ ready \in Seq(Entries)
    BY DEF TypeOK
  <2> QED BY <2>1, EntryOwner, OwnersOfEntries DEF Referred, InQueues
<1>7. /\ \A d \in ToSet(deferred)' : Matches(d)' /\ d.at.k = "start"
      /\ \A d \in ToSet(sleeping)' : Matches(d)'
      /\ \A d \in ToSet(ready)' : Matches(d)' /\ (d.at.k = "timer" => d.at.left = 0)
      /\ \A d \in ToSet(pollers)' : Matches(d)' /\ d.at.k = "poll"
  BY <1>5, <1>6 DEF AnswerInv, Matching
<1>8. ASSUME NEW j \in JobIds, waiting'[j] # None, status'[waiting'[j]] = "suspended"
      PROVE  park'[waiting'[j]] = At("job", 0, j)
  <2>1. PICK u \in Threads : u = waiting[j] /\ u = waiting'[j] /\ u # None
    BY <1>8 DEF TypeOK
  <2>2. Untouched(u)
    BY <1>8, <2>1 DEF Referred
  <2>3. status[u] = "suspended" /\ park'[u] = park[u]
    BY <1>8, <2>1, <2>2 DEF Untouched, Onto
  <2> QED BY <2>1, <2>3 DEF AnswerInv, Matching
<1>9. Matching'
  BY <1>7, <1>8 DEF Matching
<1> QED BY <1>2, <1>4, <1>9 DEF AnswerInv

(* The thread of a job that was filed.                                     *)
ByJob(u) == ~InQueues(u) /\ Referred(u) /\ \A j \in JobIds : waiting'[j] # u

(* Entries that become ready, taken out of the other queues, or made for   *)
(* completions.                                                            *)
LEMMA MovingKeepsAnswers ==
  ASSUME TypeOK, AnswerInv, UNCHANGED <<status, park>>,
         ToSet(deferred)' \subseteq ToSet(deferred), OneEach(deferred)',
         ToSet(sleeping)' \subseteq ToSet(sleeping), OneEach(sleeping)',
         ToSet(pollers)' \subseteq ToSet(pollers), OneEach(pollers)',
         OneEach(ready)',
         \A u \in Owners(ready)' :
           \/ ByJob(u)
           \/ /\ InQueues(u)
              /\ u \notin Owners(deferred)' \cup Owners(sleeping)' \cup Owners(pollers)',
         \A e \in ToSet(ready)' : Matches(e) /\ (e.at.k = "timer" => e.at.left = 0),
         \A j \in JobIds : waiting'[j] # None => waiting'[j] = waiting[j]
  PROVE  AnswerInv'
<1>1. /\ Owners(deferred)' \subseteq Owners(deferred)
      /\ Owners(sleeping)' \subseteq Owners(sleeping)
      /\ Owners(pollers)' \subseteq Owners(pollers)
  BY OwnersOfEntries
<1>2. \A j \in JobIds : waiting'[j] # None => waiting'[j] \notin Owners(ready)'
  BY DEF AnswerInv, Apart, ByJob
<1>3. Apart'
  BY <1>1, <1>2 DEF AnswerInv, Apart, InQueues, ByJob
<1>4. \A u \in Threads : Referred(u)' => Referred(u)
  BY <1>1, NoneAssumption DEF Referred, InQueues, ByJob
<1>5. Idle'
  BY <1>4 DEF AnswerInv, Idle
<1>6. \A e : Matches(e) => Matches(e)'
  BY DEF Matches
<1>7. Matching'
  BY <1>6 DEF AnswerInv, Matching
<1> QED BY <1>3, <1>5, <1>7 DEF AnswerInv

(* What filing completions makes ready.                                    *)
LEMMA FilingAnswers ==
  ASSUME TypeOK, AnswerInv, NEW arrived \in Seq(Completion),
         \A i, j \in DOMAIN arrived : arrived[i].id = arrived[j].id => i = j,
         waiting' = StillWaiting(arrived)
  PROVE  /\ Filed(arrived) \in Seq(Entries) /\ OneEach(Filed(arrived))
         /\ \A u \in Owners(Filed(arrived)) : ByJob(u)
         /\ \A e \in ToSet(Filed(arrived)) : Matches(e) /\ e.at.k = "job"
         /\ \A j \in JobIds : waiting'[j] # None => waiting'[j] = waiting[j]
<1>1. Filed(arrived) \in Seq(Entries)
  BY FiledType
<1>2. \A j, k \in JobIds : waiting[j] # None /\ waiting[j] = waiting[k] => j = k
  BY DEF AnswerInv, Apart
<1>3. OneEach(Filed(arrived))
  BY <1>2, FiledEntries
<1>4. \A i \in DOMAIN arrived : arrived[i].id \in JobIds
  <2>1. \A i \in DOMAIN arrived : arrived[i] \in Completion
    OBVIOUS
  <2> QED BY <2>1 DEF Completion
<1>5. \A j \in JobIds : /\ waiting'[j] # None => waiting'[j] = waiting[j]
                        /\ \A i \in DOMAIN arrived : arrived[i].id = j => waiting'[j] = None
  BY DEF StillWaiting
<1>6. ASSUME NEW e \in ToSet(Filed(arrived))
      PROVE  ByJob(e.t) /\ Matches(e) /\ e.at.k = "job"
  <2>1. PICK i \in DOMAIN arrived :
          /\ waiting[arrived[i].id] # None
          /\ e = Entry(waiting[arrived[i].id], At("job", 0, arrived[i].id), arrived[i].fails)
    BY FiledEntries
  <2>2. PICK j \in JobIds : j = arrived[i].id
    BY <1>4
  <2>3. /\ waiting[j] # None /\ e.t = waiting[j] /\ e.at = At("job", 0, j)
    BY <2>1, <2>2 DEF Entry
  <2>4. waiting'[j] = None
    BY <1>5, <2>2
  <2>5. \A k \in JobIds : waiting'[k] # e.t
    BY <1>2, <1>5, <2>3, <2>4
  <2>6. ~InQueues(e.t)
    BY <2>3 DEF AnswerInv, Apart
  <2>7. Referred(e.t)
    BY <2>3 DEF Referred
  <2>8. e.at.k = "job" /\ e.at.id = j
    BY <2>3 DEF At
  <2>9. status[e.t] = "suspended" => park[e.t].k = "job" /\ park[e.t].id = j
    BY <2>3 DEF AnswerInv, Matching, At
  <2> QED BY <2>5, <2>6, <2>7, <2>8, <2>9 DEF ByJob, Matches
<1> QED BY <1>1, <1>3, <1>5, <1>6, OwnersOfEntries

(* What a pump makes ready.                                                *)
LEMMA PumpAnswers ==
  ASSUME TypeOK, AnswerInv, NEW pumped \in Pumped
  PROVE  /\ ToSet(Unserved(pumped)) \subseteq ToSet(pollers)
         /\ Owners(Served(pumped)) \subseteq Owners(pollers)
         /\ OneEach(Served(pumped)) /\ OneEach(Unserved(pumped))
         /\ Owners(Served(pumped)) \cap Owners(Unserved(pumped)) = {}
         /\ \A e \in ToSet(Served(pumped)) : Matches(e) /\ e.at.k = "poll"
<1>1. OneEach(pollers)
  BY DEF AnswerInv, Apart
<1>2. ASSUME NEW e \in ToSet(Served(pumped)) PROVE Matches(e) /\ e.at.k = "poll"
  <2>1. PICK d \in ToSet(pollers) : e.t = d.t /\ e.at = d.at
    BY PumpEntries
  <2>2. Matches(d) /\ d.at.k = "poll"
    BY DEF AnswerInv, Matching
  <2> QED BY <2>1, <2>2 DEF Matches
<1> QED BY <1>1, <1>2, PumpEntries

(* A coroutine that runs is not referred to.                               *)
LEMMA RunningIsFree ==
  ASSUME AnswerInv, NEW t \in Threads, status[t] = "running"
  PROVE  ~Referred(t)
BY DEF AnswerInv, Idle

(* Steps that change none of this.                                         *)
LEMMA OthersKeepAnswers ==
  ASSUME AnswerInv,
         UNCHANGED <<status, park, deferred, sleeping, ready, pollers, waiting>>
  PROVE  AnswerInv'
BY DEF AnswerInv, Apart, Idle, Matching, InQueues, Referred, Matches

(* A resumption of a coroutine that is not referred to any more.           *)
LEMMA ResumeKeepsAnswers ==
  ASSUME TypeOK, SInv, AnswerInv, NEW t \in Threads, NEW via, NEW base,
         NEW deep \in BOOLEAN, NEW fails, Resume(t, via, base, deep, fails),
         Freed(t), UNCHANGED <<deferred, pollers, waiting>>
  PROVE  AnswerInv'
<1>1. \A u \in Threads \ {t} : Untouched(u)
  BY ResumeOutcome
<1>2. CASE sleeping' = sleeping
  BY <1>1, <1>2, PlainTurnKeepsAnswers
<1>3. CASE sleeping' # sleeping
  <2>1. status'[t] = "dead"
        /\ \E d \in Delays : sleeping' = SleepUntil(Entry(t, At("timer", d, 0), FALSE))
    BY <1>3, ResumeOutcome
  <2>2. PICK d \in Delays : sleeping' = SleepUntil(Entry(t, At("timer", d, 0), FALSE))
    BY <2>1
  <2> DEFINE e == Entry(t, At("timer", d, 0), FALSE)
  <2>3. e \in Entries /\ e.t = t
    <3>1. e \in Entries
      BY EntryType, DelaysAssumption DEF ParkKind
    <3> QED BY <3>1 DEF Entry
  <2>4. sleeping' = SleepUntil(e)
    BY <2>2
  <2> HIDE DEF e
  <2>5. OneEach(sleeping) /\ t \notin Owners(sleeping)
    BY DEF AnswerInv, Apart, Freed
  <2>6. Gains(sleeping, sleeping', e)
    BY <2>3, <2>4, <2>5, SleepUntilEntries DEF Gains
  <2>7. Matches(e)'
    BY <2>1, <2>3 DEF Matches
  <2> QED BY <1>1, <2>1, <2>3, <2>6, <2>7, TurnKeepsAnswers
<1> QED BY <1>2, <1>3

(* Steps of scripts.                                                       *)
LEMMA ScriptStepKeepsAnswers ==
  ASSUME ManualResume = FALSE, TypeOK, SInv, JobsOnce, ParkMatchesStatus, AnswerInv,
         ScriptStep
  PROVE  AnswerInv'
<1>0. /\ deferred \in Seq(Entries) /\ sleeping \in Seq(Entries)
      /\ ready \in Seq(Entries) /\ pollers \in Seq(Entries)
      /\ completions \in Seq(Completion) /\ Deep \subseteq BOOLEAN
      /\ OneEach(deferred) /\ OneEach(sleeping) /\ OneEach(ready) /\ OneEach(pollers)
  BY DEF TypeOK, Deep, AnswerInv, Apart
<1>1. ASSUME NEW t \in Threads, CoroutineResume(t) PROVE AnswerInv'
  <2>1. Freed(t)
    BY <1>1, HandOverIsFree, FreeIsFreed DEF CoroutineResume
  <2>2. PICK deep \in BOOLEAN : Resume(t, "resume", stack, deep, FALSE)
    BY <1>0, <1>1 DEF CoroutineResume
  <2> QED BY <1>1, <2>1, <2>2, ResumeKeepsAnswers DEF CoroutineResume
<1>2. ASSUME NEW t \in Threads, TaskSpawn(t) PROVE AnswerInv'
  <2>1. Freed(t) /\ Resumable(t)
    BY <1>2, HandOverIsFree, FreeIsFreed DEF TaskSpawn
  <2>2. PICK deep \in BOOLEAN : Resume(t, "task", stack, deep, FALSE)
    BY <1>0, <1>2, <2>1 DEF TaskSpawn
  <2> QED BY <1>2, <2>1, <2>2, ResumeKeepsAnswers DEF TaskSpawn
<1>3. ASSUME NEW t \in Threads, Create(t) PROVE AnswerInv'
  <2>1. /\ AsThread(t) /\ status[t] = "none"
        /\ UNCHANGED <<deferred, sleeping, ready, pollers, waiting>>
    BY <1>3 DEF Create, CreateCoroutine, taskVars
  <2>2. Freed(t)
    BY <2>1, FreeIsFreed DEF AnswerInv, Idle
  <2> QED BY <2>1, <2>2, AsThreadOutcome, PlainTurnKeepsAnswers
<1>4. ASSUME NEW t \in Threads, MayHandOver(t), AsThread(t), NEW left \in Nat
      PROVE  \E e \in Entries :
               /\ e = Entry(t, Start(left), FALSE) /\ e.t = t /\ e.at.k = "start"
               /\ ~Referred(t) /\ status'[t] = "suspended" /\ Matches(e)'
               /\ \A u \in Threads \ {t} : Untouched(u)
  <2>1. PICK e : e = Entry(t, Start(left), FALSE)
    OBVIOUS
  <2>2. e \in Entries
    BY <2>1, EntryType DEF Start
  <2>3. e.t = t /\ e.at.k = "start"
    BY <2>1 DEF Entry, Start, At
  <2>4. /\ ~Referred(t) /\ status[t] \in {"none", "suspended"}
        /\ park[t].k \in {"awake", "fresh", "yield"}
    BY <1>4, HandOverIsFree DEF Resumable
  <2>5. status'[t] = "suspended" /\ park'[t].k \in {"fresh", "yield"}
        /\ \A u \in Threads \ {t} : Untouched(u)
    BY <1>4, <2>4, AsThreadOutcome, SuspensionKinds DEF ParkMatchesStatus
  <2>6. Matches(e)'
    BY <2>3, <2>5 DEF Matches
  <2> QED BY <2>1, <2>2, <2>3, <2>4, <2>5, <2>6
<1>5. ASSUME NEW t \in Threads, TaskDefer(t) PROVE AnswerInv'
  <2>1. MayHandOver(t) /\ AsThread(t) /\ 0 \in Nat
    BY <1>5 DEF TaskDefer
  <2>2. PICK e \in Entries :
          /\ e = Entry(t, Start(0), FALSE) /\ e.t = t /\ e.at.k = "start"
          /\ ~Referred(t) /\ status'[t] = "suspended" /\ Matches(e)'
          /\ \A u \in Threads \ {t} : Untouched(u)
    BY <1>4, <2>1
  <2>3. /\ deferred' = Append(deferred, e)
        /\ UNCHANGED <<sleeping, ready, pollers, waiting>>
    BY <1>5, <2>2 DEF TaskDefer
  <2>4. Gains(deferred, deferred', e)
    <3>1. t \notin Owners(deferred)
      BY <2>2 DEF Referred, InQueues
    <3>2. deferred \in Seq(Entries) /\ OneEach(deferred) /\ e \in Entries /\ e.t = t
      BY <1>0, <2>2
    <3>3. /\ ToSet(Append(deferred, e)) = ToSet(deferred) \cup {e}
          /\ Owners(Append(deferred, e)) = Owners(deferred) \cup {e.t}
          /\ OneEach(Append(deferred, e))
      BY <3>1, <3>2, AppendEntries
    <3> QED BY <2>3, <3>3 DEF Gains
  <2> QED BY <2>2, <2>3, <2>4, FreeIsFreed, TurnKeepsAnswers
<1>6. ASSUME NEW t \in Threads, NEW d \in Delays, TaskDelay(t, d) PROVE AnswerInv'
  <2>1. MayHandOver(t) /\ AsThread(t) /\ d \in Nat
    BY <1>6, DelaysAssumption DEF TaskDelay
  <2>2. PICK e \in Entries :
          /\ e = Entry(t, Start(d), FALSE) /\ e.t = t /\ e.at.k = "start"
          /\ ~Referred(t) /\ status'[t] = "suspended" /\ Matches(e)'
          /\ \A u \in Threads \ {t} : Untouched(u)
    BY <1>4, <2>1
  <2>3. /\ sleeping' = SleepUntil(e)
        /\ UNCHANGED <<deferred, ready, pollers, waiting>>
    BY <1>6, <2>2 DEF TaskDelay
  <2>4. Gains(sleeping, sleeping', e)
    BY <1>0, <2>2, <2>3, SleepUntilEntries DEF Gains, Referred, InQueues
  <2> QED BY <2>2, <2>3, <2>4, FreeIsFreed, TurnKeepsAnswers
<1>7. ASSUME NEW at, Suspend(at) \/ SwitchBack("dead", at), ScriptRuns,
             Executing.k = "co" \/ Yieldable
      PROVE  \E t \in Threads :
               /\ t = currentCo /\ ~Referred(t) /\ \A u \in Threads \ {t} : Untouched(u)
               /\ Suspend(at) => status'[t] = "suspended" /\ park'[t] = at
  <2>1. /\ currentCo \in Threads /\ status[currentCo] = "running"
        /\ \A u \in Threads \ {currentCo} : Untouched(u)
        /\ Suspend(at) => status'[currentCo] = "suspended" /\ park'[currentCo] = at
    BY <1>7, SuspendOutcome, SwitchBackOutcome DEF ScriptRuns
  <2> QED BY <2>1, RunningIsFree
<1>8. CASE CoroutineYield \/ BodyReturns \/ BodyRaises
  <2>1. UNCHANGED <<deferred, sleeping, ready, pollers, waiting>>
    BY <1>8 DEF CoroutineYield, BodyReturns, BodyRaises, taskVars, queues
  <2>2. PICK at : /\ ScriptRuns
                  /\ Executing.k = "co" \/ Yieldable
                  /\ Suspend(at) \/ SwitchBack("dead", at)
    BY <1>8, Zenon DEF CoroutineYield, BodyReturns, BodyRaises, BodyRuns
  <2>3. PICK t \in Threads : ~Referred(t) /\ \A u \in Threads \ {t} : Untouched(u)
    BY <1>7, <2>2
  <2> QED BY <2>1, <2>3, FreeIsFreed, PlainTurnKeepsAnswers
<1>9. ASSUME NEW d \in Delays, TaskWait(d) PROVE AnswerInv'
  <2>1. /\ ScriptRuns /\ Yieldable /\ Suspend(At("timer", d, 0))
        /\ sleeping' = SleepUntil(Entry(currentCo, At("timer", d, 0), FALSE))
        /\ UNCHANGED <<deferred, ready, pollers, waiting>>
    BY <1>9 DEF TaskWait
  <2>2. PICK t \in Threads :
          /\ t = currentCo /\ ~Referred(t) /\ \A u \in Threads \ {t} : Untouched(u)
          /\ status'[t] = "suspended" /\ park'[t] = At("timer", d, 0)
    BY <1>7, <2>1
  <2>3. PICK e : e = Entry(t, At("timer", d, 0), FALSE)
    OBVIOUS
  <2>4. e \in Entries
    BY <2>3, EntryType, DelaysAssumption DEF ParkKind
  <2>5. e.t = t /\ Matches(e)'
    BY <2>2, <2>3 DEF Entry, At, Matches
  <2>6. Gains(sleeping, sleeping', e)
    BY <1>0, <2>1, <2>2, <2>3, <2>4, <2>5, SleepUntilEntries DEF Gains, Referred, InQueues
  <2> QED BY <2>1, <2>2, <2>5, <2>6, FreeIsFreed, TurnKeepsAnswers
<1>10. ASSUME NEW d \in Delays, PollParked(d) PROVE AnswerInv'
  <2>1. /\ ScriptRuns /\ Yieldable /\ Suspend(At("poll", d, 0))
        /\ pollers' = Append(pollers, Entry(currentCo, At("poll", d, 0), FALSE))
        /\ UNCHANGED <<deferred, sleeping, ready, waiting>>
    BY <1>10 DEF PollParked, InTask
  <2>2. PICK t \in Threads :
          /\ t = currentCo /\ ~Referred(t) /\ \A u \in Threads \ {t} : Untouched(u)
          /\ status'[t] = "suspended" /\ park'[t] = At("poll", d, 0)
    BY <1>7, <2>1
  <2>3. PICK e : e = Entry(t, At("poll", d, 0), FALSE)
    OBVIOUS
  <2>4. e \in Entries
    BY <2>3, EntryType, DelaysAssumption DEF ParkKind
  <2>5. e.t = t /\ Matches(e)' /\ e.at.k = "poll"
    BY <2>2, <2>3 DEF Entry, At, Matches
  <2>6. Gains(pollers, pollers', e)
    <3>1. pollers' = Append(pollers, e) /\ t \notin Owners(pollers)
      BY <2>1, <2>2, <2>3 DEF Referred, InQueues
    <3> QED BY <1>0, <2>4, <2>5, <3>1, AppendEntries DEF Gains
  <2> QED BY <2>1, <2>2, <2>5, <2>6, FreeIsFreed, TurnKeepsAnswers
<1>11. CASE BackgroundRun
  <2> DEFINE job == Min(FreeJobs)
  <2>1. /\ ScriptRuns /\ Yieldable /\ Suspend(At("job", 0, job))
        /\ waiting' = [waiting EXCEPT ![job] = currentCo]
        /\ UNCHANGED <<deferred, sleeping, ready, pollers>>
    BY <1>11 DEF BackgroundRun, InTask
  <2>2. job \in JobIds
    BY <1>11, FreeJob DEF BackgroundRun
  <2> HIDE DEF job
  <2>3. PICK t \in Threads :
          /\ t = currentCo /\ ~Referred(t) /\ \A u \in Threads \ {t} : Untouched(u)
          /\ status'[t] = "suspended" /\ park'[t] = At("job", 0, job)
    BY <1>7, <2>1
  <2>4. /\ waiting'[job] = t
        /\ \A j \in JobIds \ {job} : waiting'[j] = waiting[j] /\ waiting[j] # t
    BY <2>1, <2>2, <2>3 DEF TypeOK, Referred
  <2>5. Apart'
    BY <2>1, <2>3, <2>4 DEF AnswerInv, Apart, InQueues, Referred
  <2>6. \A u \in Threads \ {t} : Referred(u)' => Referred(u)
    BY <2>1, <2>2, <2>4 DEF Referred, InQueues
  <2>7. Idle'
    BY <2>3, <2>6 DEF AnswerInv, Idle, Untouched, Onto
  <2>8. /\ \A e \in ToSet(deferred) : Matches(e)' /\ e.at.k = "start"
        /\ \A e \in ToSet(sleeping) : Matches(e)'
        /\ \A e \in ToSet(ready) : Matches(e)' /\ (e.at.k = "timer" => e.at.left = 0)
        /\ \A e \in ToSet(pollers) : Matches(e)' /\ e.at.k = "poll"
    <3>1. \A q \in {deferred, sleeping, ready, pollers} : \A e \in ToSet(q) :
            e.t \in Threads \ {t}
      BY <1>0, <2>3, EntryOwner DEF Referred, InQueues
    <3> QED BY <2>3, <3>1, UntouchedMatches DEF AnswerInv, Matching
  <2>9. ASSUME NEW j \in JobIds, waiting'[j] # None, status'[waiting'[j]] = "suspended"
        PROVE  park'[waiting'[j]] = At("job", 0, j)
    <3>1. CASE j = job
      BY <2>3, <2>4, <3>1
    <3>2. CASE j # job
      <4>1. PICK u \in Threads \ {t} : u = waiting[j] /\ u = waiting'[j] /\ u # None
        BY <2>4, <2>9, <3>2 DEF TypeOK
      <4>2. status[u] = "suspended" /\ park'[u] = park[u]
        BY <2>3, <2>9, <4>1 DEF Untouched, Onto
      <4> QED BY <4>1, <4>2 DEF AnswerInv, Matching
    <3> QED BY <3>1, <3>2
  <2>10. Matching'
    BY <2>1, <2>8, <2>9 DEF Matching
  <2> QED BY <2>5, <2>7, <2>10 DEF AnswerInv
<1>12. ASSUME NEW t \in Threads, TaskCancel(t) PROVE AnswerInv'
  <2>1. /\ deferred' = Without(deferred, t) /\ sleeping' = Without(sleeping, t)
        /\ ready' = Without(ready, t) /\ pollers' = Without(pollers, t)
        /\ waiting' = [j \in JobIds |-> IF waiting[j] = t THEN None ELSE waiting[j]]
    BY <1>12 DEF TaskCancel, Forget
  <2>2. /\ ToSet(deferred)' \subseteq ToSet(deferred) /\ OneEach(deferred)'
        /\ ToSet(sleeping)' \subseteq ToSet(sleeping) /\ OneEach(sleeping)'
        /\ ToSet(ready)' \subseteq ToSet(ready) /\ OneEach(ready)'
        /\ ToSet(pollers)' \subseteq ToSet(pollers) /\ OneEach(pollers)'
    BY <1>0, <2>1, WithoutEntries
  <2>3. \A j \in JobIds : waiting'[j] # None => waiting'[j] = waiting[j]
    BY <2>1
  <2>4. \A u \in Threads : Untouched(u) \/ status'[u] = "dead"
    <3>1. CASE CloseCoroutine(t)
      BY <3>1, CloseOutcome
    <3>2. CASE UNCHANGED coVars
      BY <3>2 DEF coVars, Untouched
    <3> QED BY <1>12, <3>1, <3>2 DEF TaskCancel
  <2> QED BY <2>2, <2>3, <2>4, ShrinkingKeepsAnswers
<1>13. ASSUME NEW t \in Threads, CoroutineClose(t) PROVE AnswerInv'
  <2>1. UNCHANGED <<deferred, sleeping, ready, pollers, waiting>> /\ CloseCoroutine(t)
    BY <1>13 DEF CoroutineClose, taskVars
  <2>2. \A u \in Threads : Untouched(u) \/ status'[u] = "dead"
    BY <2>1, CloseOutcome
  <2> QED BY <1>0, <2>1, <2>2, ShrinkingKeepsAnswers
<1>14. CASE PollInPlace
  <2>1. /\ ready' = ready \o Filed(completions) /\ waiting' = StillWaiting(completions)
        /\ UNCHANGED <<status, park, deferred, sleeping, pollers>>
    BY <1>14 DEF PollInPlace
  <2>2. /\ Filed(completions) \in Seq(Entries) /\ OneEach(Filed(completions))
        /\ \A u \in Owners(Filed(completions)) : ByJob(u)
        /\ \A e \in ToSet(Filed(completions)) : Matches(e) /\ e.at.k = "job"
        /\ \A j \in JobIds : waiting'[j] # None => waiting'[j] = waiting[j]
    BY <1>0, <2>1, FilingAnswers DEF JobsOnce
  <2>3. Owners(ready) \cap Owners(Filed(completions)) = {}
    BY <2>2 DEF ByJob, InQueues
  <2>4. /\ ToSet(ready)' = ToSet(ready) \cup ToSet(Filed(completions))
        /\ Owners(ready)' = Owners(ready) \cup Owners(Filed(completions))
        /\ OneEach(ready)'
    BY <1>0, <2>1, <2>2, <2>3, ConcatEntries
  <2>5. \A u \in Owners(ready)' :
          \/ ByJob(u)
          \/ /\ InQueues(u)
             /\ u \notin Owners(deferred)' \cup Owners(sleeping)' \cup Owners(pollers)'
    BY <2>1, <2>2, <2>4 DEF InQueues, AnswerInv, Apart
  <2>6. \A e \in ToSet(ready)' : Matches(e) /\ (e.at.k = "timer" => e.at.left = 0)
    BY <2>2, <2>4 DEF AnswerInv, Matching
  <2> QED BY <1>0, <2>1, <2>2, <2>4, <2>5, <2>6, MovingKeepsAnswers
<1>15. ASSUME \/ CallBack \/ CallReturn \/ Require \/ RequireReturn
              \/ MainReturns \/ MainRaises \/ \E d \in Delays : TaskWaitBlocking(d)
       PROVE  AnswerInv'
  BY <1>15, OthersKeepAnswers DEF CallBack, CallReturn, Require, RequireReturn,
     EnterNative, LeaveNative, EnterModule, LeaveModule, MainReturns, MainRaises,
     TaskWaitBlocking, taskVars, queues
<1> QED BY <1>1, <1>2, <1>3, <1>5, <1>6, <1>8, <1>9, <1>10, <1>11, <1>12, <1>13,
           <1>14, <1>15 DEF ScriptStep

(* Steps of scheduler loops.                                               *)
LEMMA SchedulerStepKeepsAnswers ==
  ASSUME TypeOK, SInv, JobsOnce, AnswerInv, SchedulerStep
  PROVE  AnswerInv'
<1>0. /\ deferred \in Seq(Entries) /\ sleeping \in Seq(Entries)
      /\ ready \in Seq(Entries) /\ pollers \in Seq(Entries)
      /\ completions \in Seq(Completion)
      /\ OneEach(deferred) /\ OneEach(sleeping) /\ OneEach(ready) /\ OneEach(pollers)
      /\ Apart /\ Matching
  BY DEF TypeOK, AnswerInv, Apart
<1>1. CASE BeginPass
  <2>1. PICK pumped \in Pumped :
          /\ ready' = ready \o Served(pumped) \o Filed(completions) \o deferred \o Due(sleeping)
          /\ pollers' = Unserved(pumped)
    BY <1>1 DEF BeginPass
  <2>2. /\ sleeping' = NotDue(sleeping) /\ waiting' = StillWaiting(completions)
        /\ deferred' = << >> /\ UNCHANGED <<status, park>>
    BY <1>1 DEF BeginPass, IdleCoVars
  <2>3. /\ OneEach(Filed(completions))
        /\ \A u \in Owners(Filed(completions)) : ByJob(u)
        /\ \A e \in ToSet(Filed(completions)) : Matches(e) /\ e.at.k = "job"
        /\ \A j \in JobIds : waiting'[j] # None => waiting'[j] = waiting[j]
    BY <1>0, <2>2, FilingAnswers DEF JobsOnce
  <2>4. /\ ToSet(Unserved(pumped)) \subseteq ToSet(pollers)
        /\ Owners(Served(pumped)) \subseteq Owners(pollers)
        /\ OneEach(Served(pumped)) /\ OneEach(Unserved(pumped))
        /\ Owners(Served(pumped)) \cap Owners(Unserved(pumped)) = {}
        /\ \A e \in ToSet(Served(pumped)) : Matches(e) /\ e.at.k = "poll"
    BY PumpAnswers
  <2>5. /\ ToSet(Due(sleeping)) = {e \in ToSet(sleeping) : IsDue(e)}
        /\ ToSet(NotDue(sleeping)) = {e \in ToSet(sleeping) : ~IsDue(e)}
        /\ Owners(Due(sleeping)) \subseteq Owners(sleeping)
        /\ Owners(NotDue(sleeping)) \subseteq Owners(sleeping)
        /\ OneEach(Due(sleeping)) /\ OneEach(NotDue(sleeping))
        /\ Owners(Due(sleeping)) \cap Owners(NotDue(sleeping)) = {}
    BY <1>0, DueEntries
  <2>6. \A u : ByJob(u) => /\ u \notin Owners(ready) /\ u \notin Owners(pollers)
                           /\ u \notin Owners(deferred) /\ u \notin Owners(sleeping)
    BY DEF ByJob, InQueues
  <2>7. /\ Owners(ready) \cap Owners(Served(pumped)) = {}
        /\ (Owners(ready) \cup Owners(Served(pumped))) \cap Owners(Filed(completions)) = {}
        /\ (Owners(ready) \cup Owners(Served(pumped)) \cup Owners(Filed(completions)))
             \cap Owners(deferred) = {}
        /\ (Owners(ready) \cup Owners(Served(pumped)) \cup Owners(Filed(completions))
             \cup Owners(deferred)) \cap Owners(Due(sleeping)) = {}
    BY <1>0, <2>3, <2>4, <2>5, <2>6 DEF Apart
  <2>8. /\ ToSet(ready)' = ToSet(ready) \cup ToSet(Served(pumped))
             \cup ToSet(Filed(completions)) \cup ToSet(deferred) \cup ToSet(Due(sleeping))
        /\ Owners(ready)' = Owners(ready) \cup Owners(Served(pumped))
             \cup Owners(Filed(completions)) \cup Owners(deferred) \cup Owners(Due(sleeping))
        /\ OneEach(ready)'
    BY <1>0, <2>1, <2>3, <2>4, <2>5, <2>7, PassEntries
  <2>9. /\ ToSet(deferred)' \subseteq ToSet(deferred) /\ OneEach(deferred)'
        /\ Owners(deferred)' = {}
    BY <2>2, EmptyQueue
  <2>10. /\ ToSet(sleeping)' \subseteq ToSet(sleeping) /\ OneEach(sleeping)'
         /\ Owners(sleeping)' \subseteq Owners(sleeping)
         /\ Owners(Due(sleeping)) \cap Owners(sleeping)' = {}
    BY <2>2, <2>5
  <2>11. /\ ToSet(pollers)' \subseteq ToSet(pollers) /\ OneEach(pollers)'
         /\ Owners(pollers)' \subseteq Owners(pollers)
         /\ Owners(Served(pumped)) \cap Owners(pollers)' = {}
    BY <2>1, <2>4, OwnersOfEntries
  <2>12. ASSUME NEW u \in Owners(ready)'
         PROVE  \/ ByJob(u)
                \/ /\ InQueues(u)
                   /\ u \notin Owners(deferred)' \cup Owners(sleeping)' \cup Owners(pollers)'
    <3>1. CASE u \in Owners(ready) \cup Owners(deferred)
      BY <1>0, <2>9, <2>10, <2>11, <3>1 DEF Apart, InQueues
    <3>2. CASE u \in Owners(Served(pumped))
      BY <1>0, <2>4, <2>9, <2>10, <2>11, <3>2 DEF Apart, InQueues
    <3>3. CASE u \in Owners(Due(sleeping))
      BY <1>0, <2>5, <2>9, <2>10, <2>11, <3>3 DEF Apart, InQueues
    <3> QED BY <2>3, <2>8, <2>12, <3>1, <3>2, <3>3
  <2>13. \A e \in ToSet(ready)' : Matches(e) /\ (e.at.k = "timer" => e.at.left = 0)
    BY <1>0, <2>3, <2>4, <2>5, <2>8 DEF Matching, IsDue
  <2> QED BY <2>2, <2>3, <2>8, <2>9, <2>10, <2>11, <2>12, <2>13, MovingKeepsAnswers
<1>2. CASE ResumeNext
  <2> DEFINE e == Head(ready)
             base == LoopBecomes([Executing EXCEPT !.due = @ - 1, !.ran = TRUE])
  <2>1. /\ ready # << >> /\ ready' = Tail(ready) /\ UNCHANGED <<deferred, pollers, waiting>>
        /\ \/ Resume(e.t, "task", base, Executing.deep, e.fails)
           \/ UNCHANGED <<status, park, sleeping>>
    BY <1>2 DEF ResumeNext, IdleCoVars
  <2>2. /\ e \in Entries /\ ToSet(ready) = {e} \cup ToSet(Tail(ready))
        /\ Owners(ready) = {e.t} \cup Owners(Tail(ready))
        /\ OneEach(Tail(ready)) /\ e.t \notin Owners(Tail(ready))
    BY <1>0, <2>1, TailEntries
  <2>3. PICK t \in Threads : t = e.t
    BY <2>2 DEF Entries
  <2>4. Executing.deep \in BOOLEAN
    BY <1>2, LoopTypes DEF ResumeNext, LoopActivation
  <2> HIDE DEF e, base
  <2>5. t \in Owners(ready) /\ InQueues(t)
    BY <2>2, <2>3 DEF InQueues
  <2>6. Freed(t)
    <3>1. \A j \in JobIds : waiting[j] # t
      BY <1>0, <2>5, NoneAssumption DEF Apart
    <3> QED BY <1>0, <2>1, <2>2, <2>3, <2>5, <3>1 DEF Freed, Apart
  <2>7. CASE Resume(e.t, "task", base, Executing.deep, e.fails)
    <3>1. Resume(t, "task", base, Executing.deep, e.fails)
      BY <2>3, <2>7
    <3> QED BY <2>1, <2>4, <2>6, <3>1, ResumeKeepsAnswers
  <2>8. CASE UNCHANGED <<status, park, sleeping>>
    BY <2>1, <2>6, <2>8, PlainTurnKeepsAnswers DEF Untouched
  <2> QED BY <2>1, <2>7, <2>8
<1>3. CASE WaitForEvents
  <2>1. PICK pumped \in Pumped :
          ready' = ready \o Served(pumped) /\ pollers' = Unserved(pumped)
    BY <1>3 DEF WaitForEvents
  <2>2. UNCHANGED <<status, park, deferred, sleeping, waiting>>
    BY <1>3 DEF WaitForEvents, IdleCoVars
  <2>3. /\ ToSet(Unserved(pumped)) \subseteq ToSet(pollers)
        /\ Owners(Served(pumped)) \subseteq Owners(pollers)
        /\ OneEach(Served(pumped)) /\ OneEach(Unserved(pumped))
        /\ Owners(Served(pumped)) \cap Owners(Unserved(pumped)) = {}
        /\ \A d \in ToSet(Served(pumped)) : Matches(d) /\ d.at.k = "poll"
    BY PumpAnswers
  <2>4. Served(pumped) \in Seq(Entries) /\ Owners(ready) \cap Owners(Served(pumped)) = {}
    BY <1>0, <2>3, PumpTypes DEF Apart
  <2>5. /\ ToSet(ready)' = ToSet(ready) \cup ToSet(Served(pumped))
        /\ Owners(ready)' = Owners(ready) \cup Owners(Served(pumped))
        /\ OneEach(ready)'
    BY <1>0, <2>1, <2>3, <2>4, ConcatEntries
  <2>6. /\ ToSet(pollers)' \subseteq ToSet(pollers) /\ OneEach(pollers)'
        /\ Owners(pollers)' \subseteq Owners(pollers)
        /\ Owners(Served(pumped)) \cap Owners(pollers)' = {}
    BY <2>1, <2>3, OwnersOfEntries
  <2>7. \A u \in Owners(ready)' :
          InQueues(u) /\ u \notin Owners(deferred)' \cup Owners(sleeping)' \cup Owners(pollers)'
    BY <1>0, <2>2, <2>3, <2>5, <2>6 DEF InQueues, Apart
  <2>8. \A d \in ToSet(ready)' : Matches(d) /\ (d.at.k = "timer" => d.at.left = 0)
    BY <1>0, <2>3, <2>5 DEF Matching
  <2> QED BY <1>0, <2>2, <2>5, <2>6, <2>7, <2>8, MovingKeepsAnswers
<1>4. CASE WaitForCompletion
  <2>1. UNCHANGED <<status, park, deferred, sleeping, pollers>>
    BY <1>4 DEF WaitForCompletion, IdleCoVars
  <2>2. CASE UNCHANGED <<ready, waiting>>
    BY <2>1, <2>2, OthersKeepAnswers
  <2>3. CASE /\ completions # << >>
             /\ ready' = ready \o Filed(<<Head(completions)>>)
             /\ waiting' = StillWaiting(<<Head(completions)>>)
    <3> DEFINE arrived == <<Head(completions)>>
    <3>1. /\ arrived \in Seq(Completion)
          /\ \A i, j \in DOMAIN arrived : arrived[i].id = arrived[j].id => i = j
      BY <1>0, <2>3, HeadTailProperties
    <3>2. ready' = ready \o Filed(arrived) /\ waiting' = StillWaiting(arrived)
      BY <2>3
    <3> HIDE DEF arrived
    <3>3. /\ Filed(arrived) \in Seq(Entries) /\ OneEach(Filed(arrived))
          /\ \A u \in Owners(Filed(arrived)) : ByJob(u)
          /\ \A e \in ToSet(Filed(arrived)) : Matches(e) /\ e.at.k = "job"
          /\ \A j \in JobIds : waiting'[j] # None => waiting'[j] = waiting[j]
      BY <3>1, <3>2, FilingAnswers
    <3>4. Owners(ready) \cap Owners(Filed(arrived)) = {}
      BY <3>3 DEF ByJob, InQueues
    <3>5. /\ ToSet(ready)' = ToSet(ready) \cup ToSet(Filed(arrived))
          /\ Owners(ready)' = Owners(ready) \cup Owners(Filed(arrived))
          /\ OneEach(ready)'
      BY <1>0, <3>2, <3>3, <3>4, ConcatEntries
    <3>6. \A u \in Owners(ready)' :
            \/ ByJob(u)
            \/ /\ InQueues(u)
               /\ u \notin Owners(deferred)' \cup Owners(sleeping)' \cup Owners(pollers)'
      BY <1>0, <2>1, <3>3, <3>5 DEF InQueues, Apart
    <3>7. \A e \in ToSet(ready)' : Matches(e) /\ (e.at.k = "timer" => e.at.left = 0)
      BY <1>0, <3>3, <3>5 DEF Matching
    <3> QED BY <1>0, <2>1, <3>3, <3>5, <3>6, <3>7, MovingKeepsAnswers
  <2> QED BY <1>4, <2>2, <2>3 DEF WaitForCompletion
<1>5. CASE LoopReturns \/ PassAgain \/ ProgramEnds \/ WaitForDeadline
  BY <1>5, OthersKeepAnswers DEF LoopReturns, PassAgain, ProgramEnds, WaitForDeadline,
     taskVars, queues, IdleCoVars
<1> QED BY <1>1, <1>2, <1>3, <1>4, <1>5 DEF SchedulerStep

(* Time goes by for the entries and for the suspensions alike.             *)
LEMMA TickKeepsAnswers ==
  ASSUME TypeOK, AnswerInv, Tick
  PROVE  AnswerInv'
<1>0. /\ deferred \in Seq(Entries) /\ sleeping \in Seq(Entries)
      /\ ready \in Seq(Entries) /\ pollers \in Seq(Entries) /\ park \in [Threads -> Suspension]
      /\ OneEach(sleeping) /\ OneEach(pollers) /\ Matching
  BY DEF TypeOK, AnswerInv, Apart
<1>1. /\ sleeping' = Sooner(sleeping) /\ pollers' = Sooner(pollers)
      /\ UNCHANGED <<deferred, ready, waiting, status>>
      /\ \A u \in Threads : /\ park'[u].k = park[u].k /\ park'[u].id = park[u].id
                            /\ park'[u].left = Less(park[u].left)
                            /\ park'[u] = At(park[u].k, Less(park[u].left), park[u].id)
  BY DEF Tick, Later, At
<1>2. /\ Owners(sleeping)' = Owners(sleeping) /\ OneEach(sleeping)'
      /\ Owners(pollers)' = Owners(pollers) /\ OneEach(pollers)'
  BY <1>0, <1>1, SoonerEntries
<1>3. Apart' /\ Idle'
  BY <1>1, <1>2 DEF AnswerInv, Apart, Idle, InQueues, Referred
<1>4. Less(0) = 0
  BY DEF Less
<1>5. ASSUME NEW d \in Entries, Matches(d)
      PROVE  /\ Matches(Entry(d.t, Later(d.at), d.fails))'
             /\ Entry(d.t, Later(d.at), d.fails).at.k = d.at.k
             /\ (d.at.k = "timer" => d.at.left = 0) => Matches(d)'
  <2>1. d.t \in Threads
    BY <1>5 DEF Entries
  <2>2. PICK e : e = Entry(d.t, Later(d.at), d.fails)
    OBVIOUS
  <2>3. e.t = d.t /\ e.at.k = d.at.k /\ e.at.id = d.at.id /\ e.at.left = Less(d.at.left)
    BY <2>2 DEF Entry, Later, At
  <2>4. Matches(e)'
    BY <1>1, <1>5, <2>1, <2>3 DEF Matches
  <2>5. (d.at.k = "timer" => d.at.left = 0) => Matches(d)'
    BY <1>1, <1>4, <1>5, <2>1 DEF Matches
  <2> QED BY <2>2, <2>3, <2>4, <2>5
<1>6. /\ \A d \in ToSet(sleeping) : Matches(d) /\ d \in Entries
      /\ \A d \in ToSet(pollers) : Matches(d) /\ d \in Entries /\ d.at.k = "poll"
      /\ \A d \in ToSet(deferred) : Matches(d) /\ d \in Entries /\ d.at.k = "start"
      /\ \A d \in ToSet(ready) : Matches(d) /\ d \in Entries /\ (d.at.k = "timer" => d.at.left = 0)
  BY <1>0, EntryOwner DEF Matching
<1>7. \A e \in ToSet(sleeping)' : Matches(e)'
  <2> SUFFICES ASSUME NEW e \in ToSet(sleeping)' PROVE Matches(e)'
    OBVIOUS
  <2>1. PICK d \in ToSet(sleeping) : e = Entry(d.t, Later(d.at), d.fails)
    BY <1>0, <1>1, SoonerEntries
  <2> QED BY <1>5, <1>6, <2>1
<1>8. \A e \in ToSet(pollers)' : Matches(e)' /\ e.at.k = "poll"
  <2> SUFFICES ASSUME NEW e \in ToSet(pollers)' PROVE Matches(e)' /\ e.at.k = "poll"
    OBVIOUS
  <2>1. PICK d \in ToSet(pollers) : e = Entry(d.t, Later(d.at), d.fails)
    BY <1>0, <1>1, SoonerEntries
  <2> QED BY <1>5, <1>6, <2>1
<1>9. \A d \in ToSet(deferred)' : Matches(d)' /\ d.at.k = "start"
  BY <1>1, <1>5, <1>6
<1>10. \A d \in ToSet(ready)' : Matches(d)' /\ (d.at.k = "timer" => d.at.left = 0)
  BY <1>1, <1>5, <1>6
<1>11. ASSUME NEW j \in JobIds, waiting'[j] # None, status'[waiting'[j]] = "suspended"
       PROVE  park'[waiting'[j]] = At("job", 0, j)
  <2>1. PICK u \in Threads : u = waiting[j] /\ u = waiting'[j]
    BY <1>1, <1>11 DEF TypeOK
  <2>2. park[u] = At("job", 0, j)
    BY <1>0, <1>1, <1>11, <2>1 DEF Matching
  <2>3. park[u].k = "job" /\ park[u].left = 0 /\ park[u].id = j
    BY <2>2 DEF At
  <2> QED BY <1>1, <1>4, <2>1, <2>3
<1>12. Matching'
  BY <1>7, <1>8, <1>9, <1>10, <1>11 DEF Matching
<1> QED BY <1>3, <1>12 DEF AnswerInv

(* Every step.                                                             *)
LEMMA StepKeepsAnswers ==
  ASSUME ManualResume = FALSE, TypeOK, SInv, JobsOnce, ParkMatchesStatus, AnswerInv,
         [Next]_vars
  PROVE  AnswerInv'
<1>1. CASE (\E j \in JobIds : JobDone(j)) \/ Terminated \/ UNCHANGED vars
  BY <1>1, OthersKeepAnswers DEF JobDone, Terminated, vars, coVars, taskVars
<1> QED BY <1>1, ScriptStepKeepsAnswers, SchedulerStepKeepsAnswers, TickKeepsAnswers
     DEF Next

(* Every entry that is queued for a suspended coroutine answers the very   *)
(* suspension it is in, and a timer's only when its time is over, with any *)
(* number of tasks, jobs and entries, and with stale entries of coroutines *)
(* that were closed still queued.  The assumption is needed: a script that *)
(* resumes a coroutine that waits for the scheduler lets it go on to wait  *)
(* for something else, which the entry left behind then answers.           *)
THEOREM WakesAnswerWaitsHolds ==
  ASSUME ManualResume = FALSE
  PROVE  Spec => []WakesAnswerWaits
<1> DEFINE Inv == JobsInv /\ ParkMatchesStatus /\ AnswerInv
<1>1. Init => Inv
  <2> SUFFICES ASSUME Init PROVE Inv
    OBVIOUS
  <2>1. /\ deferred = << >> /\ sleeping = << >> /\ ready = << >> /\ pollers = << >>
        /\ \A j \in JobIds : waiting[j] = None
        /\ completions = << >> /\ atWork = {}
        /\ \A u \in Threads : status[u] = "none" /\ park[u].k = "awake"
    BY SuspensionKinds DEF Init, CoInit
  <2>2. JobsInv /\ ParkMatchesStatus
    BY <2>1 DEF JobsInv, JobsOnce, WaitedJobsRun, ParkMatchesStatus
  <2>3. Apart /\ Idle /\ Matching
    BY <2>1, EmptyQueue, NoneAssumption DEF Apart, Idle, Matching, Referred, InQueues
  <2> QED BY <2>2, <2>3 DEF AnswerInv
<1>2. IInv /\ Inv /\ [Next]_vars => Inv'
  BY JobStepKeepsJobs, StepKeepsPark, StepKeepsAnswers DEF IInv, JobsInv
<1>3. IInv /\ Inv => WakesAnswerWaits
  <2> SUFFICES ASSUME IInv, Inv PROVE WakesAnswerWaits
    OBVIOUS
  <2>1. ASSUME NEW q \in {deferred, sleeping, ready, pollers}, NEW i \in DOMAIN q
        PROVE  Answers(q[i], q[i].t)
    <3>1. q[i] \in ToSet(q)
      BY OwnersOfEntries
    <3>2. Matches(q[i])
      BY <2>1, <3>1 DEF AnswerInv, Matching
    <3> QED BY <3>2 DEF Matches, Answers
  <2>2. \A j \in JobIds : waiting[j] # None =>
          (status[waiting[j]] = "suspended" => park[waiting[j]] = At("job", 0, j))
    BY DEF AnswerInv, Matching
  <2>3. ASSUME NEW i \in DOMAIN ready, ready[i].at.k = "timer",
               status[ready[i].t] = "suspended"
        PROVE  park[ready[i].t].left = 0
    <3>1. ready[i] \in ToSet(ready)
      BY OwnersOfEntries
    <3>2. Matches(ready[i]) /\ ready[i].at.left = 0
      BY <2>3, <3>1 DEF AnswerInv, Matching
    <3> QED BY <2>3, <3>2 DEF Matches
  <2> QED BY <2>1, <2>2, <2>3 DEF WakesAnswerWaits
<1> QED BY <1>1, <1>2, <1>3, Invariance, PTL DEF Spec
=============================================================================
