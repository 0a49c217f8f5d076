---------------------------- MODULE HttpStreams ----------------------------
(***************************************************************************)
(* A response body that is streamed (vm/libs/http.rs), read by tasks whose *)
(* requests and reads go through the pool of WorkerPool.tla, next to other *)
(* background work.  The reader of the body is kept in the map STREAMS; it *)
(* moves into the job of a read, and `finish` puts it back.  A task can be *)
(* cancelled while it waits: its job goes on, `finish` never runs.         *)
(*                                                                         *)
(* One stream is modelled: ids are not used again, and streams share only  *)
(* the pool.  Chunks are numbered in the order they come off the           *)
(* connection; a call of http.rs is one step of the interpreter's thread.  *)
(***************************************************************************)
EXTENDS WorkerPool

CONSTANTS
  Scripts,  (* what the tasks of a script use the pool for                   *)
  Chunks    (* bound: the chunks of the body                                 *)

Kinds == {"other", "request", "read"}

ASSUME ScriptsAssumption == Scripts \subseteq [Jobs -> SUBSET Kinds]
ASSUME ChunksAssumption  == Chunks \in Nat

VARIABLES
  script,    (* the script that runs                                         *)
  slot,      (* the stream's entry in STREAMS                                *)
  opened,    (* whether the stream's id was given out                        *)
  kind,      (* what each job at work or not finished yet does               *)
  waits,     (* the jobs whose task waits for the completion                 *)
  outcome,   (* what such a job sent, until the scheduler comes to it        *)
  position,  (* how many chunks came off the connection                      *)
  returned   (* the chunks reads returned, in the order they finished        *)

streamVars == <<script, slot, opened, kind, waits, outcome, position, returned>>
httpVars == <<vars, streamVars>>

NotSent == <<"nothing", 0>>

HttpInit ==
  /\ Init
  /\ script \in Scripts
  /\ slot = "absent"
  /\ opened = FALSE
  /\ kind = [j \in Jobs |-> "other"]
  /\ waits = {}
  /\ outcome = [j \in Jobs |-> NotSent]
  /\ position = 0
  /\ returned = << >>

-----------------------------------------------------------------------------
(* What the interpreter's thread does.                                     *)

(* run, inside a task.                                                     *)
Submitted(j, what) ==
  /\ j \notin waits /\ what \in script[j]
  /\ SubmitToPool(j) \/ SubmitAndStart(j) \/ SubmitRefused(j)
  /\ kind' = [kind EXCEPT ![j] = what]
  /\ UNCHANGED script

OtherWork(j) ==
  /\ Submitted(j, "other")
  /\ UNCHANGED <<slot, opened, waits, outcome, position, returned>>

(* __http_request with `stream`, until one has returned the stream.        *)
Request(j) ==
  /\ ~opened /\ \A i \in waits : kind[i] # "request"
  /\ Submitted(j, "request")
  /\ waits' = waits \cup {j}
  /\ UNCHANGED <<slot, opened, outcome, position, returned>>

(* The task that waited for the job waits no more.                         *)
Released(j) ==
  /\ inline = NoJob
  /\ j \in waits
  /\ waits' = waits \ {j}
  /\ outcome' = [outcome EXCEPT ![j] = NotSent]
  /\ kind' = IF outcome[j] = NotSent THEN kind ELSE [kind EXCEPT ![j] = "other"]

(* Mutant: the reader is back in the map when its task is cancelled.       *)
CancelPutsBack(j) ==
  /\ Released(j)
  /\ slot' = IF slot = "taken" THEN "parked" ELSE slot
  /\ UNCHANGED <<vars, script, opened, position, returned>>

(* __http_read in a task takes the reader; without it the call fails.      *)
Read(j) ==
  /\ slot = "parked"
  /\ Submitted(j, "read")
  /\ slot' = "taken"
  /\ waits' = waits \cup {j}
  /\ UNCHANGED <<opened, outcome, position, returned>>

(* task.cancel: the completion, sent or to come, is dropped.               *)
Cancel(j) ==
  /\ Released(j)
  /\ UNCHANGED <<vars, script, slot, opened, position, returned>>

(* The `finish` of a read: at the end of the body and after an error the   *)
(* stream is gone, after a chunk the reader is put back unless the stream  *)
(* was closed meanwhile.  A job that panicked sent an error instead.       *)
FinishRead(sent) ==
  /\ slot' = CASE sent[1] \in {"end", "error"} -> "absent"
               [] sent[1] = "chunk" -> (IF slot = "absent" THEN "absent" ELSE "parked")
               [] sent[1] = "panic" -> slot
  /\ returned' = IF sent[1] = "chunk" THEN Append(returned, sent[2]) ELSE returned
  /\ UNCHANGED opened

(* finish_request.                                                         *)
FinishRequest(sent) ==
  /\ IF sent[1] = "response" THEN slot' = "parked" /\ opened' = TRUE
                             ELSE UNCHANGED <<slot, opened>>
  /\ UNCHANGED returned

(* file_completion: the scheduler comes to the completion, runs `finish`   *)
(* and makes the task ready with what it returns.  A task that is          *)
(* cancelled after this loses the chunk, and the stream goes on without.   *)
Finish(j) ==
  /\ outcome[j] # NotSent
  /\ Released(j)
  /\ IF kind[j] = "read" THEN FinishRead(outcome[j]) ELSE FinishRequest(outcome[j])
  /\ UNCHANGED <<vars, script, position>>

(* BodyReader::read: a chunk that follows, the end, or an error.           *)
ReadResults ==
  {<<"chunk", position + 1>> : i \in 1..(IF position < Chunks THEN 1 ELSE 0)}
    \cup {<<"end", 0>>, <<"error", 0>>}
PositionAfter(sent) == IF sent[1] = "chunk" THEN sent[2] ELSE position

(* __http_read where it cannot yield blocks, and all of it is one step.    *)
ReadInPlace ==
  /\ inline = NoJob
  /\ slot = "parked"
  /\ \E read \in ReadResults : FinishRead(read) /\ position' = PositionAfter(read)
  /\ UNCHANGED <<vars, script, kind, waits, outcome>>

(* __http_end, at any time.                                                *)
End ==
  /\ inline = NoJob
  /\ opened /\ slot # "absent"
  /\ slot' = "absent"
  /\ UNCHANGED <<vars, script, opened, kind, waits, outcome, position, returned>>

-----------------------------------------------------------------------------
(* What the threads of the pool do.                                        *)

Results(j) ==
  CASE kind[j] = "read"    -> ReadResults \cup {<<"panic", 0>>}
    [] kind[j] = "request" -> {<<"response", 0>>, <<"error", 0>>}
    [] kind[j] = "other"   -> {NotSent}

(* The job sends its completion; nobody takes that of a cancelled task.    *)
Sends(j) ==
  /\ \E sent \in Results(j) :
       /\ position' = PositionAfter(sent)
       /\ outcome' = IF j \in waits THEN [outcome EXCEPT ![j] = sent] ELSE outcome
  /\ kind' = IF j \in waits THEN kind ELSE [kind EXCEPT ![j] = "other"]
  /\ UNCHANGED <<script, slot, opened, waits, returned>>

SendsInline == InlineDone /\ Sends(inline)
SendsFrom(w) == JobEnds(w) /\ Sends(job[w])

HttpWorker(w) ==
  \/ (Take(w) \/ Wait(w) \/ Exit(w)) /\ UNCHANGED streamVars
  \/ SendsFrom(w)

-----------------------------------------------------------------------------
HttpNext ==
  \/ \E j \in Jobs : OtherWork(j) \/ Request(j) \/ Read(j) \/ Cancel(j) \/ Finish(j)
  \/ ReadInPlace \/ End
  \/ SendsInline
  \/ \E w \in Workers : HttpWorker(w) \/ (WakesByItself(w) /\ UNCHANGED streamVars)

(* As in WorkerPool.  A read ends when the server sends or the connection  *)
(* breaks; that it does is assumed of the network.                         *)
HttpSpec ==
  /\ HttpInit /\ [][HttpNext]_httpVars
  /\ WF_httpVars(SendsInline)
  /\ \A w \in Workers : WF_httpVars(HttpWorker(w))

-----------------------------------------------------------------------------
(* "The reader leaves the map while a read is in flight, so a second read  *)
(* of the same stream from another task fails instead of interleaving":    *)
(* the chunks that reads return are the beginning of the body, none        *)
(* missing, none twice and none before an earlier one, whichever tasks     *)
(* read, whatever threads run their reads, and whenever one is cancelled:  *)
(* a read in flight then takes its chunk off the connection for nobody,    *)
(* but no read comes after it.                                             *)
BodyInOrder == returned = [i \in 1..Len(returned) |-> i]
=============================================================================
