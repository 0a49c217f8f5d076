----------------------------- MODULE Coroutines -----------------------------
(***************************************************************************)
(* The coroutines of the virtual machine: vm/libs/coroutine.rs and the     *)
(* fields of VM (vm/machine.rs) that decide who runs.                      *)
(*                                                                         *)
(* The interpreter is one thread.  Whatever it is in the middle of nests   *)
(* on the Rust stack, and `stack` is that nesting: the main chunk, the     *)
(* coroutines that were resumed and have not given control back, functions *)
(* a native called back into, module bodies run by `require`, and          *)
(* scheduler loops.  The last activation is the one executing.             *)
(*                                                                         *)
(* This module holds the state and the steps on it; Tasks adds the         *)
(* scheduler and puts both together in one next-state relation.            *)
(***************************************************************************)
EXTENDS Integers, Sequences, FiniteSets, SequencesExt, Subsequences

CONSTANTS
  Threads,          (* coroutines a script may create, each at most once     *)
  None,             (* stands for Rust's Option::None                        *)
  YieldingNatives,  (* the coroutines whose body is a native that yields     *)
  MaxNested         (* bounds the activations that are not coroutines        *)

ASSUME NoneAssumption    == None \notin Threads
ASSUME NativesAssumption == YieldingNatives \subseteq Threads
ASSUME NestedAssumption  == MaxNested \in Nat

VARIABLES
  stack,        (* nested activations, innermost last                        *)
  status,       (* CoroutineState::status; "none" before it is created       *)
  park,         (* what a suspended coroutine is suspended at                *)
  currentCo,    (* VM::current_co                                            *)
  nativeCalls,  (* VM::native_calls                                          *)
  yieldFloor,   (* VM::yield_floor                                           *)
  isYielding,   (* VM::is_yielding, as it is between two instructions        *)
  resumeError   (* coroutines with a pending CoroutineState::resume_error    *)

coVars == <<stack, status, park, currentCo, nativeCalls, yieldFloor,
            isYielding, resumeError>>

Status == {"none", "suspended", "running", "normal", "dead"}

(* A suspended coroutine has not started yet, called coroutine.yield, or   *)
(* is inside a native that will return once its time, job or events come.  *)
ParkKind == {"awake", "fresh", "yield", "timer", "job", "poll"}
At(kind, left, id) == [k |-> kind, left |-> left, id |-> id]
Suspension == [k : ParkKind, left : Nat, id : Nat]
Awake   == At("awake", 0, 0)
Fresh   == At("fresh", 0, 0)
Yielded == At("yield", 0, 0)

MainChunk   == [k |-> "main"]
NativeCall  == [k |-> "native"]
ModuleBody  == [k |-> "module"]
(* Mutants: the caller, or the floor, saved after it was replaced.         *)
CoBodyOwnCaller(t, via) == [k |-> "co", t |-> t, via |-> via,
                            caller |-> t, floor |-> yieldFloor]
CoBodyOwnFloor(t, via)  == [k |-> "co", t |-> t, via |-> via,
                            caller |-> currentCo, floor |-> nativeCalls]

(* `caller` and `floor` are the locals coroutine_resume and resume keep on *)
(* the Rust stack; `via` is what called them.                              *)
CoBody(t, via) == [k |-> "co", t |-> t, via |-> via,
                   caller |-> currentCo, floor |-> yieldFloor]

Via == {"resume", "task"}
CoActivation ==
  [k : {"co"}, t : Threads, via : Via, caller : Threads \cup {None}, floor : Nat]
PlainActivation == [k : {"main", "native", "module"}]

Executing == stack[Len(stack)]
IsCo(i)   == stack[i].k = "co"

(* Neyuki code is executing, rather than a scheduler loop or nothing.      *)
ScriptRuns == stack # << >> /\ Executing.k # "sched"

(* Room for one more activation that is not a coroutine.                   *)
MayNest == Cardinality({i \in DOMAIN stack : ~IsCo(i)}) <= MaxNested

(* yieldable_handle, and the checks of coroutine_yield: the level of       *)
(* native calls is the one the running coroutine was resumed at.           *)
Yieldable == currentCo # None /\ nativeCalls <= yieldFloor

(* Where the activation of the running coroutine is.                       *)
RunningAt == CHOOSE i \in DOMAIN stack : IsCo(i) /\ stack[i].t = currentCo

CoInit ==
  /\ stack = <<MainChunk>>
  /\ status = [t \in Threads |-> "none"]
  /\ park = [t \in Threads |-> Awake]
  /\ currentCo = None
  /\ nativeCalls = 0
  /\ yieldFloor = 0
  /\ isYielding = FALSE
  /\ resumeError = {}

(***************************************************************************)
(* Switching between coroutines.                                           *)
(***************************************************************************)

(* A function becomes a new coroutine; a thread is used as it is.          *)
AsThread(t) ==
  /\ status' = [status EXCEPT ![t] = IF @ = "none" THEN "suspended" ELSE @]
  /\ park' = [park EXCEPT ![t] = IF status[t] = "none" THEN Fresh ELSE @]

(* Mutant: anything not dead can be resumed.                               *)
NotDead(t) == status[t] # "dead"

(* is_suspended, for the handle of `t` or a function that becomes one.     *)
Resumable(t) == status[t] \in {"none", "suspended"}

(* Mutant: the caller is not marked "normal".                              *)
EnteredAlone(t) == [u \in Threads |-> IF u = t THEN "running" ELSE status[u]]

(* The statuses while `t` runs, and after it gave control back.            *)
Entered(t) ==
  [u \in Threads |-> IF u = t THEN "running"
                     ELSE IF u = currentCo THEN "normal" ELSE status[u]]
Left(t, now, caller) ==
  [u \in Threads |-> IF u = t THEN now
                     ELSE IF u = caller THEN "running" ELSE status[u]]

(* The part of `resume` that puts the caller aside and runs `t`, from an   *)
(* activation at the end of `base`.                                        *)
Switch(t, via, base) ==
  /\ stack' = Append(base, CoBody(t, via))
  /\ status' = Entered(t)
  /\ park' = [park EXCEPT ![t] = Awake]
  /\ currentCo' = t
  /\ yieldFloor' = nativeCalls
  /\ UNCHANGED <<nativeCalls, isYielding, resumeError>>

(* The part of `resume` that gives control back to the caller once the     *)
(* running coroutine yielded (`now` = "suspended") or ended ("dead").      *)
(* Activations above it are unwound with it.                               *)
SwitchBack(now, at) ==
  LET co == stack[RunningAt] IN
  /\ stack' = SubSeq(stack, 1, RunningAt - 1)
  /\ status' = Left(co.t, now, co.caller)
  /\ park' = [park EXCEPT ![co.t] = at]
  /\ currentCo' = co.caller
  /\ yieldFloor' = co.floor
  /\ UNCHANGED <<nativeCalls, resumeError>>

(* A body that is a native function runs inside `resume`, which never      *)
(* looks at is_yielding on that path: the coroutine is dead afterwards and *)
(* the flag stays set.                                                     *)
DieYielding(t, base) ==
  /\ stack' = base
  /\ status' = [status EXCEPT ![t] = "dead"]
  /\ park' = [park EXCEPT ![t] = Awake]
  /\ isYielding' = TRUE
  /\ UNCHANGED <<currentCo, nativeCalls, yieldFloor, resumeError>>

(* A coroutine resumed with a pending error: none of its own frames can    *)
(* catch it, so it ends without executing anything.                        *)
DieOfError(t, base) ==
  /\ ~isYielding
  /\ stack' = base
  /\ status' = [status EXCEPT ![t] = "dead"]
  /\ park' = [park EXCEPT ![t] = Awake]
  /\ resumeError' = resumeError \ {t}
  /\ UNCHANGED <<currentCo, nativeCalls, yieldFloor, isYielding>>

(* With is_yielding left set, `resume` takes the pending error for a yield *)
(* of `t`, which is suspended again in the call it was in, the error gone. *)
ErrorTakenForYield(t, base) ==
  /\ isYielding /\ isYielding' = FALSE
  /\ stack' = base
  /\ resumeError' = resumeError \ {t}
  /\ UNCHANGED <<status, park, currentCo, nativeCalls, yieldFloor>>

(* coroutine_resume returned an error, at the call depth limit: `t` stays  *)
(* suspended, with the error resume_with_error left behind, if any.        *)
ResumeOverflows(t, errors, base) ==
  /\ stack' = base
  /\ AsThread(t)
  /\ resumeError' = resumeError \cup errors
  /\ UNCHANGED <<currentCo, nativeCalls, yieldFloor, isYielding>>

(***************************************************************************)
(* Steps of the executing script that only concern coroutines.             *)
(***************************************************************************)

(* coroutine.create.                                                       *)
CreateCoroutine(t) ==
  /\ status[t] = "none"
  /\ AsThread(t)
  /\ UNCHANGED <<stack, currentCo, nativeCalls, yieldFloor, isYielding,
                 resumeError>>

(* coroutine.close: a suspended coroutine is dead; others are left alone.  *)
CloseCoroutine(t) ==
  /\ status[t] = "suspended"
  /\ status' = [status EXCEPT ![t] = "dead"]
  /\ park' = [park EXCEPT ![t] = Awake]
  /\ resumeError' = resumeError \ {t}
  /\ UNCHANGED <<stack, currentCo, nativeCalls, yieldFloor, isYielding>>

(* Mutant: call_function does not count the call it makes.                 *)
EnterNativeUncounted ==
  /\ ScriptRuns /\ MayNest
  /\ stack' = Append(stack, NativeCall)
  /\ UNCHANGED <<status, park, currentCo, nativeCalls, yieldFloor, isYielding,
                 resumeError>>

(* A native (`try`, `table.sort`, a metamethod) calls a script function    *)
(* through call_function, which counts it while it runs.                   *)
EnterNative ==
  /\ ScriptRuns /\ MayNest
  /\ stack' = Append(stack, NativeCall)
  /\ nativeCalls' = nativeCalls + 1
  /\ UNCHANGED <<status, park, currentCo, yieldFloor, isYielding, resumeError>>

(* The function returned or raised; a native that does not catch the error *)
(* passes it on, which is the next step of the script below it.            *)
LeaveNative ==
  /\ ScriptRuns /\ Executing.k = "native"
  /\ stack' = Front(stack)
  /\ nativeCalls' = nativeCalls - 1
  /\ UNCHANGED <<status, park, currentCo, yieldFloor, isYielding, resumeError>>

(* `require` runs a module body with execute_module: on top of the current *)
(* frames, and without counting a native call.                             *)
EnterModule ==
  /\ ScriptRuns /\ MayNest
  /\ stack' = Append(stack, ModuleBody)
  /\ UNCHANGED <<status, park, currentCo, nativeCalls, yieldFloor, isYielding,
                 resumeError>>

LeaveModule ==
  /\ ScriptRuns /\ Executing.k = "module"
  /\ stack' = Front(stack)
  /\ UNCHANGED <<status, park, currentCo, nativeCalls, yieldFloor, isYielding,
                 resumeError>>

-----------------------------------------------------------------------------
(***************************************************************************)
(* What must be true of the coroutines whatever scripts and the scheduler  *)
(* do with them.                                                           *)
(***************************************************************************)

(* A coroutine is on the stack at most once: it is never entered again     *)
(* while it is running or waiting for a coroutine it resumed.              *)
NeverReentered ==
  \A i, j \in DOMAIN stack :
    IsCo(i) /\ IsCo(j) /\ stack[i].t = stack[j].t => i = j

(* The status a script sees agrees with the stack: "running" for the       *)
(* innermost coroutine on it, "normal" for the ones further out, and       *)
(* anything else only for coroutines that are not on it.                   *)
StatusMatchesStack ==
  \A t \in Threads :
    /\ status[t] = "running" <=> currentCo = t
    /\ status[t] \in {"running", "normal"}
         <=> \E i \in DOMAIN stack : IsCo(i) /\ stack[i].t = t

(* Each coroutine on the stack gives control back to the next one further  *)
(* out, as saved in its activation, and current_co is the innermost.       *)
CallersChain ==
  \A i \in DOMAIN stack :
    IsCo(i) =>
      /\ stack[i].caller # None =>
           \E j \in 1..(i - 1) :
             /\ IsCo(j) /\ stack[j].t = stack[i].caller
             /\ \A m \in (j + 1)..(i - 1) : ~IsCo(m)
      /\ stack[i].caller = None => \A m \in 1..(i - 1) : ~IsCo(m)

(* Where the VM believes a yield is possible, the innermost activation is  *)
(* the running coroutine's own: a yield never unwinds a frame that cannot  *)
(* be saved ("A coroutine can only yield from its own Neyuki frames").     *)
YieldsFromOwnFrames ==
  ScriptRuns /\ Yieldable => Executing.k = "co" /\ Executing.t = currentCo
=============================================================================
