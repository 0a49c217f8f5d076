------------------------------ MODULE NetConn ------------------------------
(***************************************************************************)
(* A stream connection of vm/libs/net.rs: what the script asks for, the    *)
(* pool's threads that wait for bytes or write them, and the reader thread *)
(* that fills the buffer they share.                                       *)
(*                                                                         *)
(* A step is what one thread does while it holds the mutex of the state;   *)
(* waiting on the condition variable, reading from the transport and       *)
(* writing to it are between two steps.  The peer and the transport do     *)
(* what they like.  A task may be cancelled while its job runs: the job    *)
(* goes on, and what it read is dropped with its result.                   *)
(***************************************************************************)
EXTENDS Integers, Sequences, FiniteSets

CONSTANTS
  Reads,      (* tasks that read                                             *)
  Writes,     (* tasks that write                                            *)
  MaxBuffer,  (* MAX_BUFFER                                                  *)
  MaxChunk,   (* the size of the reader thread's chunk                       *)
  MaxBytes,   (* bound on the bytes the peer sends                           *)
  Nobody      (* no task                                                     *)

ASSUME SizesAssumption ==
  MaxBuffer \in Nat \ {0} /\ MaxChunk \in Nat \ {0} /\ MaxBytes \in Nat
ASSUME NobodyAssumption == Nobody \notin Reads \cup Writes

VARIABLES
  sent,      (* how many bytes the peer has sent: byte i is the number i     *)
  wire,      (* sent, and not read by the reader thread                      *)
  peer,      (* "open", or how the transport ended: "hungUp" or "failed"     *)
  shut,      (* whether the closer has shut the transport down               *)
  buf,       (* State::buf                                                   *)
  eof,       (* State::eof                                                   *)
  error,     (* whether State::error is set                                  *)
  closed,    (* State::closed                                                *)
  reader,    (* where the reader thread is                                   *)
  chunk,     (* what it has read and not stored                              *)
  closer,    (* whether the connection has a closer                          *)
  blocked,   (* whether the script's thread waits, to close, or in a read    *)
  at,        (* where the work of each read is                               *)
  need,      (* how many bytes it asked for                                  *)
  result,    (* what it returned last                                        *)
  taken,     (* history: the bytes taken out of the buffer                   *)
  writer,    (* whether there is a writer still                              *)
  writing,   (* whose write has the lock of the writer                       *)
  wants      (* the writes that wait for it                                  *)

transport == <<sent, wire, peer>>
state     == <<buf, eof, error, closed>>
thread    == <<reader, chunk>>
reads     == <<at, need, result, taken>>
writes    == <<writer, writing, wants>>
vars == <<transport, shut, state, thread, closer, blocked, reads, writes>>

Init ==
  /\ sent = 0 /\ wire = << >> /\ peer = "open" /\ shut = FALSE
  /\ buf = << >> /\ eof = FALSE /\ error = FALSE /\ closed = FALSE
  /\ reader = "reads" /\ chunk = << >>
  /\ closer \in BOOLEAN
  /\ blocked = "no"
  /\ at = [r \in Reads |-> "none"] /\ need = [r \in Reads |-> 0]
  /\ result = [r \in Reads |-> "none"] /\ taken = << >>
  /\ writer = TRUE /\ writing = Nobody /\ wants = {}

First(n, s) == SubSeq(s, 1, n)
After(n, s) == SubSeq(s, n + 1, Len(s))

-----------------------------------------------------------------------------
(***************************************************************************)
(* The condition variable `wake`, on which reads and the reader thread     *)
(* wait.  A wait also ends by itself, after WAKE.                          *)
(***************************************************************************)

Woken(places) ==
  [r \in Reads |-> IF places[r] = "waits" THEN "woken" ELSE places[r]]
WokenThread(place) == IF place = "waits" THEN "woken" ELSE place

NotifyReads == at' = Woken(at)

ReadWakes(r) ==
  /\ at[r] = "waits"
  /\ at' = [at EXCEPT ![r] = "woken"]
  /\ UNCHANGED <<transport, shut, state, thread, closer, blocked, need, result, taken, writes>>

ThreadWakes ==
  /\ reader = "waits"
  /\ reader' = "woken"
  /\ UNCHANGED <<transport, shut, state, chunk, closer, blocked, reads, writes>>

-----------------------------------------------------------------------------
(***************************************************************************)
(* pump.                                                                   *)
(***************************************************************************)

ReadChunk ==
  /\ reader = "reads"
  /\ \E n \in 1..MaxChunk :
       /\ n <= Len(wire)
       /\ chunk' = First(n, wire)
       /\ wire' = After(n, wire)
  /\ reader' = "stores"
  /\ UNCHANGED <<sent, peer, shut, state, closer, blocked, reads, writes>>

(* Mutant: whoever waits is not told that there is nothing to wait for.    *)
FinishQuietly(failed) ==
  /\ error' = (error \/ (failed /\ ~closed))
  /\ NotifyReads
  /\ reader' = "ended"
  /\ UNCHANGED <<transport, shut, buf, eof, closed, chunk, closer, blocked, need, result, taken, writes>>

(* Shared::finish, for an error or a clean hangup.                         *)
Finish(failed) ==
  /\ eof' = TRUE
  /\ error' = (error \/ (failed /\ ~closed))
  /\ NotifyReads
  /\ reader' = "ended"
  /\ UNCHANGED <<transport, shut, buf, closed, chunk, closer, blocked, need, result, taken, writes>>

ReadEnds ==
  /\ reader = "reads"
  /\ shut \/ (peer = "hungUp" /\ wire = << >>)
  /\ Finish(FALSE)
ReadFails ==
  /\ reader = "reads"
  /\ shut \/ peer = "failed"
  /\ Finish(TRUE)

(* Mutants: the thread waits even if the connection is closed, or never    *)
(* waits.                                                                  *)
FullUntilRead == Len(buf) >= MaxBuffer
NeverFull == FALSE

BufferFull == Len(buf) >= MaxBuffer /\ ~closed

(* With the mutex, and a chunk: the thread waits, ends or stores it.       *)
WaitForRoom ==
  /\ reader \in {"stores", "woken"} /\ BufferFull
  /\ reader' = "waits"
  /\ UNCHANGED <<transport, shut, state, chunk, closer, blocked, reads, writes>>
EndClosed ==
  /\ reader \in {"stores", "woken"} /\ ~BufferFull /\ closed
  /\ reader' = "ended" /\ chunk' = << >>
  /\ UNCHANGED <<transport, shut, state, closer, blocked, reads, writes>>
(* Mutant: what exceeds MAX_BUFFER is dropped.                             *)
StoreFitting ==
  /\ reader \in {"stores", "woken"} /\ ~BufferFull /\ ~closed
  /\ buf' = SubSeq(buf \o chunk, 1, IF Len(buf \o chunk) > MaxBuffer THEN MaxBuffer ELSE Len(buf \o chunk))
  /\ chunk' = << >>
  /\ reader' = "reads"
  /\ NotifyReads
  /\ UNCHANGED <<transport, shut, eof, error, closed, closer, blocked, need, result, taken, writes>>
StoreChunk ==
  /\ reader \in {"stores", "woken"} /\ ~BufferFull /\ ~closed
  /\ buf' = buf \o chunk
  /\ chunk' = << >>
  /\ reader' = "reads"
  /\ NotifyReads
  /\ UNCHANGED <<transport, shut, eof, error, closed, closer, blocked, need, result, taken, writes>>

Pump == ReadChunk \/ ReadEnds \/ ReadFails \/ WaitForRoom \/ EndClosed \/ StoreChunk

-----------------------------------------------------------------------------
(***************************************************************************)
(* conn_read, its work in the background, and conn_read_available.         *)
(***************************************************************************)

(* The script still has the connection in CONNS, and its thread runs.      *)
MayCall == ~closed /\ blocked = "no"

(* Mutants: what is left is not given to a read that asked for more; bytes *)
(* are given after the connection was closed.                              *)
TakeWhole(r, n) ==
  /\ buf' = IF closed \/ Len(buf) < n THEN buf ELSE After(n, buf)
  /\ taken' = IF closed \/ Len(buf) < n THEN taken ELSE taken \o First(n, buf)
  /\ error' = (error /\ (closed \/ Len(buf) >= n))
  /\ result' = [result EXCEPT ![r] = CASE closed        -> "closed"
                                       [] Len(buf) >= n -> "bytes"
                                       [] error         -> "error"
                                       [] OTHER         -> "nil"]
TakeAnyway(r, n) ==
  LET k == IF Len(buf) >= n THEN n ELSE Len(buf) IN
  /\ buf' = After(k, buf)
  /\ taken' = taken \o First(k, buf)
  /\ error' = (error /\ buf # << >>)
  /\ result' = [result EXCEPT ![r] = IF buf # << >> THEN "bytes" ELSE "nil"]

(* take_bytes: n bytes, or those that are left, or else how it ended; an   *)
(* error is told once.                                                     *)
TakeBytes(r, n) ==
  LET k == IF closed THEN 0 ELSE IF Len(buf) >= n THEN n ELSE Len(buf)
      some == n = 0 \/ buf # << >>
  IN
  /\ buf' = After(k, buf)
  /\ taken' = taken \o First(k, buf)
  /\ error' = (error /\ (closed \/ some))
  /\ result' = [result EXCEPT ![r] = CASE closed -> "closed"
                                       [] some   -> "bytes"
                                       [] error  -> "error"
                                       [] OTHER  -> "nil"]

Ready(n) == closed \/ eof \/ Len(buf) >= n

(* Mutant: one more than the buffer is sure to get.                        *)
AskAny == 0..(MaxBuffer + 1)

(* What a read may ask for.                                                *)
Sizes == 0..MaxBuffer

ReadNow(r, n) ==
  /\ MayCall /\ at[r] = "none" /\ Ready(n)
  /\ TakeBytes(r, n)
  /\ UNCHANGED <<transport, shut, eof, closed, thread, closer, blocked, at, need, writes>>

(* Off the interpreter's thread; or on it, if the caller cannot yield.     *)
ReadLater(r, n) ==
  /\ MayCall /\ at[r] = "none" /\ ~Ready(n)
  /\ at' = [at EXCEPT ![r] = "woken"]
  /\ need' = [need EXCEPT ![r] = n]
  /\ blocked' \in {"no", "reads"}
  /\ result' = [result EXCEPT ![r] = IF blocked' = "reads" THEN "inPlace" ELSE "none"]
  /\ UNCHANGED <<transport, shut, state, thread, closer, taken, writes>>

(* wait_for, with the mutex.                                               *)
KeepWaiting(r) ==
  /\ at[r] = "woken" /\ ~Ready(need[r])
  /\ at' = [at EXCEPT ![r] = "waits"]
  /\ UNCHANGED <<transport, shut, state, thread, closer, blocked, need, result, taken, writes>>
EndRead(r) ==
  /\ at[r] = "woken" /\ Ready(need[r])
  /\ TakeBytes(r, need[r])
  /\ at' = [at EXCEPT ![r] = "none"]
  /\ blocked' = IF result[r] = "inPlace" THEN "no" ELSE blocked
  /\ UNCHANGED <<transport, shut, eof, closed, thread, closer, need, writes>>

(* Whoever waits for room is not told.                                     *)
ReadAvailable ==
  /\ MayCall
  /\ buf' = << >> /\ taken' = taken \o buf
  /\ UNCHANGED <<transport, shut, eof, error, closed, thread, closer, blocked, at, need, result, writes>>

-----------------------------------------------------------------------------
(***************************************************************************)
(* write_all, and conn_close with the drop of the connection.              *)
(***************************************************************************)

Write(w) ==
  /\ MayCall /\ w \notin wants \cup {writing}
  /\ wants' = wants \cup {w}
  /\ UNCHANGED <<transport, shut, state, thread, closer, blocked, reads, writer, writing>>

(* A write that gets the lock finds the writer gone, or writes.            *)
LockWriter(w) ==
  /\ w \in wants /\ writing = Nobody
  /\ wants' = wants \ {w}
  /\ writing' = IF writer THEN w ELSE Nobody
  /\ UNCHANGED <<transport, shut, state, thread, closer, blocked, reads, writer>>

(* The peer has taken everything; or nobody is there to take it.           *)
EndsWrite ==
  /\ writing # Nobody
  /\ writing' = Nobody
  /\ UNCHANGED <<transport, shut, state, thread, closer, blocked, reads, writer, wants>>
FailsWrite == (shut \/ peer # "open") /\ EndsWrite

(* Mutant: the transport is only shut down when the writer is gone.        *)
CloseWriterFirst ==
  /\ MayCall
  /\ closed' = TRUE
  /\ NotifyReads /\ reader' = WokenThread(reader)
  /\ blocked' = "closes"
  /\ UNCHANGED <<transport, shut, buf, eof, error, chunk, closer, need, result, taken, writes>>

(* Conn::drop: everybody is told, the transport is shut down ...           *)
Close ==
  /\ MayCall
  /\ closed' = TRUE
  /\ NotifyReads /\ reader' = WokenThread(reader)
  /\ shut' = closer
  /\ blocked' = "closes"
  /\ UNCHANGED <<transport, buf, eof, error, chunk, closer, need, result, taken, writes>>

(* ... and the writer dropped, once nobody writes.                         *)
DropWriter ==
  /\ blocked = "closes" /\ writing = Nobody
  /\ writer' = FALSE
  /\ blocked' = "no"
  /\ UNCHANGED <<transport, shut, state, thread, closer, reads, writing, wants>>

-----------------------------------------------------------------------------
(***************************************************************************)
(* The peer.                                                               *)
(***************************************************************************)

PeerSends ==
  /\ peer = "open" /\ ~shut /\ sent < MaxBytes
  /\ sent' = sent + 1
  /\ wire' = Append(wire, sent + 1)
  /\ UNCHANGED <<peer, shut, state, thread, closer, blocked, reads, writes>>
PeerEnds ==
  /\ peer = "open"
  /\ peer' \in {"hungUp", "failed"}
  /\ UNCHANGED <<sent, wire, shut, state, thread, closer, blocked, reads, writes>>

Script ==
  \/ \E r \in Reads : \E n \in Sizes : ReadNow(r, n) \/ ReadLater(r, n)
  \/ ReadAvailable
  \/ \E w \in Writes : Write(w)
  \/ Close
ReadWork(r) == KeepWaiting(r) \/ EndRead(r)

Next ==
  \/ Script \/ DropWriter
  \/ Pump \/ ThreadWakes
  \/ \E r \in Reads : ReadWork(r) \/ ReadWakes(r)
  \/ \E w \in Writes : LockWriter(w)
  \/ EndsWrite \/ FailsWrite
  \/ PeerSends \/ PeerEnds

(* Threads go on, and waits end after WAKE at the latest.  Nothing is      *)
(* asked of the peer, nor that a write ends by itself.                     *)
Fairness ==
  /\ WF_vars(Pump) /\ WF_vars(ThreadWakes)
  /\ \A r \in Reads : WF_vars(ReadWork(r)) /\ WF_vars(ReadWakes(r))
  /\ \A w \in Writes : WF_vars(LockWriter(w))
  /\ WF_vars(FailsWrite) /\ WF_vars(DropWriter)

Spec == Init /\ [][Next]_vars /\ Fairness

-----------------------------------------------------------------------------
(***************************************************************************)
(* Properties.                                                             *)
(***************************************************************************)

(* The state is well formed: the thread that fills the buffer has ended    *)
(* only if reads know, and its chunk is full while it has to store it.     *)
TypeOK ==
  /\ sent \in Nat /\ wire \in Seq(Nat)
  /\ peer \in {"open", "hungUp", "failed"} /\ shut \in BOOLEAN
  /\ buf \in Seq(Nat) /\ eof \in BOOLEAN /\ error \in BOOLEAN /\ closed \in BOOLEAN
  /\ reader \in {"reads", "stores", "waits", "woken", "ended"} /\ chunk \in Seq(Nat)
  /\ closer \in BOOLEAN /\ blocked \in {"no", "closes", "reads"}
  /\ at \in [Reads -> {"none", "waits", "woken"}] /\ need \in [Reads -> Nat]
  /\ result \in [Reads -> {"none", "inPlace", "bytes", "nil", "error", "closed"}]
  /\ taken \in Seq(Nat)
  /\ writer \in BOOLEAN /\ writing \in Writes \cup {Nobody} /\ wants \subseteq Writes
  /\ reader = "ended" => eof \/ closed
  /\ reader \in {"stores", "waits", "woken"} <=> chunk # << >>

(* As long as the connection is open, every byte sent is in one place, and *)
(* in its order: taken, buffered, in the thread's chunk or on the wire.    *)
Numbered(s, from) == \A i \in 1..Len(s) : s[i] = from + i
NothingLost ==
  /\ Numbered(taken, 0)
  /\ ~closed =>
       /\ Numbered(buf, Len(taken))
       /\ Numbered(chunk, Len(taken) + Len(buf))
       /\ Numbered(wire, Len(taken) + Len(buf) + Len(chunk))
       /\ sent = Len(taken) + Len(buf) + Len(chunk) + Len(wire)

(* The buffer never holds more than MAX_BUFFER and what one chunk adds.    *)
BufferBounded == Len(buf) < MaxBuffer + MaxChunk

(* "nil at end of stream": if the peer hung up without an error, a read    *)
(* only returns nil when all it sent was taken.                            *)
NilOnlyAtEnd ==
  [][\A r \in Reads :
       result'[r] = "nil" /\ result[r] # "nil" /\ peer = "hungUp" => Len(taken) = sent]_vars

(* A read ends, unless there are not enough bytes for it: also if it asks  *)
(* for all the buffer holds while the reader thread waits for room.        *)
Starved(r) ==
  ~closed /\ ~eof /\ Len(buf) + Len(chunk) + Len(wire) < need[r]
ReadsEnd == \A r \in Reads : []<>(at[r] = "none" \/ Starved(r))

(* "Shuts the transport down so the reader thread ends".                   *)
ReaderEnds == (closed /\ closer) ~> (reader = "ended")

(* Closing a connection that has a closer does not block the script for    *)
(* ever, even while a write waits for a peer that does not read.           *)
CloseReturns == (blocked = "closes" /\ closer) ~> (blocked # "closes")

(* To the script the connection is a stream of bytes.                      *)
Promise == INSTANCE ByteStream WITH received <- taken
IsStream == Promise!Spec
=============================================================================
