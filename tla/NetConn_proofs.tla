--------------------------- MODULE NetConn_proofs ---------------------------
(***************************************************************************)
(* Safety of a connection, for any number of tasks, any sizes of buffer    *)
(* and chunk, and any number of bytes.                                     *)
(***************************************************************************)
EXTENDS NetConn, TLAPS

-----------------------------------------------------------------------------
(* The inductive invariant: besides the properties themselves, what the    *)
(* reader thread holds, and when it may end.                               *)
ChunkFits == Len(chunk) <= MaxChunk

(* A stream that is at its end and still open ended at the peer; and then  *)
(* all that the peer sent has been read, if it was the peer that hung up.  *)
EndsAtPeer ==
  /\ shut => closed
  /\ eof => reader = "ended"
  /\ eof /\ ~closed => peer # "open" /\ (peer = "hungUp" => wire = << >>)

IInv == TypeOK /\ ChunkFits /\ EndsAtPeer /\ BufferBounded /\ NothingLost

-----------------------------------------------------------------------------
(* Sequences of numbered bytes.                                            *)
LEMMA FirstProps ==
  ASSUME NEW s \in Seq(Nat), NEW n \in 0..Len(s)
  PROVE  /\ First(n, s) \in Seq(Nat) /\ Len(First(n, s)) = n
         /\ \A i \in 1..n : First(n, s)[i] = s[i]
BY DEF First

LEMMA AfterProps ==
  ASSUME NEW s \in Seq(Nat), NEW n \in 0..Len(s)
  PROVE  /\ After(n, s) \in Seq(Nat) /\ Len(After(n, s)) = Len(s) - n
         /\ \A i \in 1..(Len(s) - n) : After(n, s)[i] = s[n + i]
BY DEF After

LEMMA NumberedFirst ==
  ASSUME NEW s \in Seq(Nat), NEW n \in 0..Len(s), NEW from \in Nat, Numbered(s, from)
  PROVE  Numbered(First(n, s), from)
BY FirstProps DEF Numbered

LEMMA NumberedAfter ==
  ASSUME NEW s \in Seq(Nat), NEW n \in 0..Len(s), NEW from \in Nat, Numbered(s, from)
  PROVE  Numbered(After(n, s), from + n)
<1> SUFFICES ASSUME NEW i \in 1..Len(After(n, s))
             PROVE  After(n, s)[i] = from + n + i
  BY DEF Numbered
<1>1. i \in 1..(Len(s) - n) /\ After(n, s)[i] = s[n + i]
  BY AfterProps
<1>2. n + i \in 1..Len(s)
  BY <1>1
<1> QED BY <1>1, <1>2 DEF Numbered

LEMMA NumberedJoined ==
  ASSUME NEW s \in Seq(Nat), NEW t \in Seq(Nat), NEW from \in Nat,
         Numbered(s, from), Numbered(t, from + Len(s))
  PROVE  Numbered(s \o t, from)
<1> SUFFICES ASSUME NEW i \in 1..Len(s \o t) PROVE (s \o t)[i] = from + i
  BY DEF Numbered
<1>1. CASE i <= Len(s)
  <2>1. i \in 1..Len(s) /\ (s \o t)[i] = s[i]
    BY <1>1
  <2> QED BY <2>1 DEF Numbered
<1>2. CASE i > Len(s)
  <2>1. i - Len(s) \in 1..Len(t) /\ (s \o t)[i] = t[i - Len(s)]
    BY <1>2
  <2> QED BY <2>1 DEF Numbered
<1> QED BY <1>1, <1>2

LEMMA FirstNone == ASSUME NEW s \in Seq(Nat) PROVE First(0, s) = << >>
BY DEF First

LEMMA WholeAtOnce ==
  ASSUME NEW s \in Seq(Nat)
  PROVE  First(Len(s), s) = s /\ After(Len(s), s) = << >>
BY DEF First, After

LEMMA JoinedProps ==
  ASSUME NEW s \in Seq(Nat), NEW t \in Seq(Nat)
  PROVE  s \o t \in Seq(Nat) /\ Len(s \o t) = Len(s) + Len(t)
OBVIOUS

LEMMA AsFunction ==
  ASSUME NEW s \in Seq(Nat), NEW from \in Nat, \A i \in 1..Len(s) : s[i] = from + i
  PROVE  s = [i \in 1..Len(s) |-> from + i]
OBVIOUS

LEMMA NothingJoined == ASSUME NEW s \in Seq(Nat) PROVE s \o << >> = s
OBVIOUS

-----------------------------------------------------------------------------
(* Steps that leave the bytes where they are.                              *)
LEMMA BytesStay ==
  ASSUME IInv, UNCHANGED <<sent, wire, buf, chunk, taken>>, closed => closed'
  PROVE  NothingLost' /\ BufferBounded' /\ ChunkFits'
BY DEF IInv, TypeOK, NothingLost, Numbered, BufferBounded, ChunkFits

(* Steps that take the first k bytes out of the buffer of an open          *)
(* connection.                                                             *)
LEMMA BytesTaken ==
  ASSUME IInv, ~closed, NEW k \in 0..Len(buf),
         buf' = After(k, buf), taken' = taken \o First(k, buf),
         UNCHANGED <<sent, wire, chunk, closed>>
  PROVE  /\ buf' \in Seq(Nat) /\ taken' \in Seq(Nat)
         /\ NothingLost' /\ BufferBounded' /\ ChunkFits'
         /\ Promise!Receive \/ UNCHANGED <<sent, taken, closed>>
<1>1. /\ buf \in Seq(Nat) /\ taken \in Seq(Nat) /\ chunk \in Seq(Nat) /\ wire \in Seq(Nat)
      /\ Len(buf) \in Nat /\ Len(taken) \in Nat /\ Len(chunk) \in Nat /\ Len(wire) \in Nat
  BY DEF IInv, TypeOK
<1>2. /\ Numbered(taken, 0) /\ Numbered(buf, Len(taken))
      /\ Numbered(chunk, Len(taken) + Len(buf))
      /\ Numbered(wire, Len(taken) + Len(buf) + Len(chunk))
      /\ sent = Len(taken) + Len(buf) + Len(chunk) + Len(wire)
  BY DEF IInv, NothingLost
<1>3. /\ First(k, buf) \in Seq(Nat) /\ Len(First(k, buf)) = k
      /\ \A i \in 1..k : First(k, buf)[i] = buf[i]
      /\ buf' \in Seq(Nat) /\ Len(buf') = Len(buf) - k
  BY <1>1, FirstProps, AfterProps
<1>4. taken' \in Seq(Nat) /\ Len(taken') = Len(taken) + k
  <2>1. /\ taken \o First(k, buf) \in Seq(Nat)
        /\ Len(taken \o First(k, buf)) = Len(taken) + Len(First(k, buf))
    BY <1>1, <1>3, JoinedProps
  <2> QED BY <1>3, <2>1
<1>5. Numbered(First(k, buf), 0 + Len(taken)) /\ Numbered(buf', Len(taken) + k)
  BY <1>1, <1>2, NumberedFirst, NumberedAfter
<1>6. Numbered(taken', 0)
  BY <1>1, <1>2, <1>3, <1>5, NumberedJoined
<1>7. /\ Len(taken') + Len(buf') = Len(taken) + Len(buf)
      /\ Len(taken') = Len(taken) + k
  BY <1>1, <1>3, <1>4
<1>8. NothingLost'
  <2>1. /\ Numbered(buf', Len(taken')) /\ Numbered(chunk', Len(taken') + Len(buf'))
        /\ Numbered(wire', Len(taken') + Len(buf') + Len(chunk'))
        /\ sent' = Len(taken') + Len(buf') + Len(chunk') + Len(wire')
    BY <1>2, <1>5, <1>7
  <2> QED BY <1>6, <2>1 DEF NothingLost, Numbered
<1>9. BufferBounded' /\ ChunkFits'
  BY <1>1, <1>3, SizesAssumption DEF IInv, BufferBounded, ChunkFits
<1>10. Promise!Receive \/ UNCHANGED <<sent, taken, closed>>
  <2>1. CASE k = 0
    BY <1>1, <2>1, FirstNone, NothingJoined
  <2>2. CASE k # 0
    <3>1. k \in 1..(sent - Len(taken))
      BY <1>1, <1>2, <2>2
    <3>2. Numbered(First(k, buf), Len(taken))
      BY <1>1, <1>5
    <3>3. First(k, buf) = [i \in 1..k |-> Len(taken) + i]
      BY <1>1, <1>3, <3>2, AsFunction DEF Numbered
    <3> QED BY <3>1, <3>3 DEF Promise!Receive
  <2> QED BY <2>1, <2>2
<1> QED BY <1>3, <1>4, <1>8, <1>9, <1>10

(* take_bytes, whatever state it finds.                                    *)
LEMMA TakingKeeps ==
  ASSUME IInv, NEW r \in Reads, NEW n \in Nat, TakeBytes(r, n),
         UNCHANGED <<sent, wire, chunk, closed>>
  PROVE  /\ buf' \in Seq(Nat) /\ taken' \in Seq(Nat) /\ error' \in BOOLEAN
         /\ result' \in [Reads -> {"none", "inPlace", "bytes", "nil", "error", "closed"}]
         /\ NothingLost' /\ BufferBounded' /\ ChunkFits'
         /\ Promise!Receive \/ UNCHANGED <<sent, taken, closed>>
<1>1. buf \in Seq(Nat) /\ taken \in Seq(Nat) /\ Len(buf) \in Nat
  BY DEF IInv, TypeOK
<1>2. /\ error' \in BOOLEAN
      /\ result' \in [Reads -> {"none", "inPlace", "bytes", "nil", "error", "closed"}]
  BY DEF IInv, TypeOK, TakeBytes
<1>3. CASE closed
  <2>1. buf' = After(0, buf) /\ taken' = taken \o First(0, buf)
    BY <1>3 DEF TakeBytes
  <2>2. taken' = taken
    BY <1>1, <2>1, FirstNone, NothingJoined
  <2>3. buf' \in Seq(Nat) /\ Len(buf') = Len(buf)
    <3>1. 0 \in 0..Len(buf) /\ Len(buf) - 0 = Len(buf)
      BY <1>1
    <3> QED BY <1>1, <2>1, <3>1, AfterProps
  <2>4. NothingLost' /\ BufferBounded' /\ ChunkFits'
    BY <1>3, <2>2, <2>3 DEF IInv, NothingLost, Numbered, BufferBounded, ChunkFits
  <2> QED BY <1>1, <1>2, <2>2, <2>3, <2>4
<1>4. CASE ~closed
  <2>1. \E k \in 0..Len(buf) : buf' = After(k, buf) /\ taken' = taken \o First(k, buf)
    <3> DEFINE k == IF Len(buf) >= n THEN n ELSE Len(buf)
    <3>1. k \in 0..Len(buf)
      BY <1>1
    <3>2. buf' = After(k, buf) /\ taken' = taken \o First(k, buf)
      BY <1>4 DEF TakeBytes
    <3> QED BY <3>1, <3>2
  <2> QED BY <1>2, <1>4, <2>1, BytesTaken
<1> QED BY <1>3, <1>4

-----------------------------------------------------------------------------
(* What a step is to the script: a step of ByteStream, or none.            *)
StreamStep ==
  Promise!Send \/ Promise!Receive \/ Promise!Close \/ UNCHANGED <<sent, taken, closed>>

(* The reader thread.                                                      *)
LEMMA ReadChunkKeeps == ASSUME IInv, ReadChunk PROVE IInv' /\ StreamStep
<1>1. /\ reader = "reads" /\ reader' = "stores"
      /\ UNCHANGED <<sent, peer, shut, buf, eof, error, closed, closer, blocked, at, need, result,
                     taken, writer, writing, wants>>
  BY DEF ReadChunk, state, reads, writes
<1>2. PICK n \in 1..MaxChunk :
        n <= Len(wire) /\ chunk' = First(n, wire) /\ wire' = After(n, wire)
  BY DEF ReadChunk
<1>3. /\ wire \in Seq(Nat) /\ chunk = << >>
      /\ Len(taken) \in Nat /\ Len(buf) \in Nat /\ Len(wire) \in Nat
  BY <1>1 DEF IInv, TypeOK
<1>4. Len(chunk) = 0 /\ n \in Nat /\ n > 0 /\ n <= MaxChunk /\ n \in 0..Len(wire)
  BY <1>2, <1>3, SizesAssumption
<1>5. /\ chunk' \in Seq(Nat) /\ Len(chunk') = n
      /\ wire' \in Seq(Nat) /\ Len(wire') = Len(wire) - n
  BY <1>2, <1>3, <1>4, FirstProps, AfterProps
<1>6. TypeOK'
  <2>1. chunk' # << >>
    BY <1>4, <1>5
  <2> QED BY <1>1, <1>5, <2>1 DEF IInv, TypeOK
<1>7. ChunkFits' /\ BufferBounded'
  BY <1>1, <1>4, <1>5 DEF IInv, ChunkFits, BufferBounded
<1>8. EndsAtPeer'
  BY <1>1 DEF IInv, EndsAtPeer
<1>9. NothingLost'
  <2>1. CASE closed
    BY <1>1, <2>1 DEF IInv, NothingLost, Numbered
  <2>2. CASE ~closed
    <3>1. /\ Numbered(taken, 0) /\ Numbered(buf, Len(taken))
          /\ Numbered(wire, Len(taken) + Len(buf)) /\ sent = Len(taken) + Len(buf) + Len(wire)
      BY <1>3, <1>4, <2>2 DEF IInv, NothingLost
    <3>2. Numbered(chunk', Len(taken) + Len(buf)) /\ Numbered(wire', Len(taken) + Len(buf) + n)
      BY <1>2, <1>3, <1>4, <3>1, NumberedFirst, NumberedAfter
    <3>3. sent = Len(taken) + Len(buf) + Len(chunk') + Len(wire')
      BY <1>3, <1>4, <1>5, <3>1
    <3>4. /\ Numbered(taken', 0) /\ Numbered(buf', Len(taken')) /\ Numbered(chunk', Len(taken') + Len(buf'))
          /\ Numbered(wire', Len(taken') + Len(buf') + Len(chunk'))
          /\ sent' = Len(taken') + Len(buf') + Len(chunk') + Len(wire')
      BY <1>1, <1>5, <3>1, <3>2, <3>3
    <3> QED BY <3>4 DEF NothingLost, Numbered
  <2> QED BY <2>1, <2>2
<1>10. StreamStep
  BY <1>1 DEF StreamStep
<1> QED BY <1>6, <1>7, <1>8, <1>9, <1>10 DEF IInv

LEMMA ReadEndsKeeps == ASSUME IInv, ReadEnds \/ ReadFails PROVE IInv' /\ StreamStep
<1>1. /\ reader = "reads" /\ eof' = TRUE /\ reader' = "ended" /\ error' \in BOOLEAN
      /\ UNCHANGED <<transport, shut, buf, closed, chunk, closer, blocked, need, result, taken, writes>>
      /\ at' = Woken(at)
  BY DEF ReadEnds, ReadFails, Finish, NotifyReads, IInv, TypeOK
<1>2. ~closed => peer # "open" /\ (peer = "hungUp" => wire = << >>)
  BY DEF ReadEnds, ReadFails, IInv, EndsAtPeer
<1>3. TypeOK'
  <2>1. at' \in [Reads -> {"none", "waits", "woken"}]
    BY <1>1 DEF IInv, TypeOK, Woken
  <2> QED BY <1>1, <2>1 DEF IInv, TypeOK, transport, writes
<1>4. EndsAtPeer'
  BY <1>1, <1>2 DEF IInv, EndsAtPeer, transport
<1>5. NothingLost' /\ BufferBounded' /\ ChunkFits'
  BY <1>1, BytesStay DEF transport
<1>6. StreamStep
  BY <1>1 DEF StreamStep, transport
<1> QED BY <1>3, <1>4, <1>5, <1>6 DEF IInv

LEMMA WaitForRoomKeeps ==
  ASSUME IInv, WaitForRoom \/ ThreadWakes PROVE IInv' /\ StreamStep
<1>1. /\ reader \in {"stores", "woken", "waits"} /\ reader' \in {"waits", "woken"}
      /\ UNCHANGED <<transport, shut, state, chunk, closer, blocked, reads, writes>>
  BY DEF WaitForRoom, ThreadWakes
<1>2. TypeOK' /\ EndsAtPeer'
  BY <1>1 DEF IInv, TypeOK, EndsAtPeer, transport, state, reads, writes
<1>3. NothingLost' /\ BufferBounded' /\ ChunkFits'
  BY <1>1, BytesStay DEF transport, state, reads
<1>4. StreamStep
  BY <1>1 DEF StreamStep, transport, state, reads
<1> QED BY <1>2, <1>3, <1>4 DEF IInv

LEMMA EndClosedKeeps == ASSUME IInv, EndClosed PROVE IInv' /\ StreamStep
<1>1. /\ closed /\ reader' = "ended" /\ chunk' = << >> /\ reader \in {"stores", "woken"}
      /\ UNCHANGED <<transport, shut, state, closer, blocked, reads, writes>>
  BY DEF EndClosed
<1>2. TypeOK' /\ EndsAtPeer'
  BY <1>1 DEF IInv, TypeOK, EndsAtPeer, transport, state, reads, writes
<1>3. NothingLost' /\ BufferBounded' /\ ChunkFits'
  BY <1>1, SizesAssumption
     DEF IInv, NothingLost, Numbered, BufferBounded, ChunkFits, transport, state, reads
<1>4. StreamStep
  BY <1>1 DEF StreamStep, transport, state, reads
<1> QED BY <1>2, <1>3, <1>4 DEF IInv

LEMMA StoreChunkKeeps == ASSUME IInv, StoreChunk PROVE IInv' /\ StreamStep
<1>1. /\ Len(buf) < MaxBuffer /\ ~closed /\ reader \in {"stores", "woken"}
      /\ buf' = buf \o chunk /\ chunk' = << >> /\ reader' = "reads" /\ at' = Woken(at)
      /\ UNCHANGED <<transport, shut, eof, error, closed, closer, blocked, need, result, taken, writes>>
  <2>1. Len(buf) \in Nat
    BY DEF IInv, TypeOK
  <2> QED BY <2>1, SizesAssumption DEF StoreChunk, BufferFull, NotifyReads
<1>2. /\ buf \in Seq(Nat) /\ chunk \in Seq(Nat) /\ Len(buf) \in Nat /\ Len(chunk) \in Nat
      /\ Len(taken) \in Nat /\ Len(wire) \in Nat /\ Len(chunk) <= MaxChunk
  BY DEF IInv, TypeOK, ChunkFits
<1>3. buf' \in Seq(Nat) /\ Len(buf') = Len(buf) + Len(chunk) /\ Len(chunk') = 0
  BY <1>1, <1>2, JoinedProps
<1>4. TypeOK'
  <2>1. at' \in [Reads -> {"none", "waits", "woken"}]
    BY <1>1 DEF IInv, TypeOK, Woken
  <2> QED BY <1>1, <1>3, <2>1 DEF IInv, TypeOK, transport, writes
<1>5. EndsAtPeer'
  BY <1>1 DEF IInv, EndsAtPeer, transport
<1>6. BufferBounded' /\ ChunkFits'
  BY <1>1, <1>2, <1>3, SizesAssumption DEF BufferBounded, ChunkFits
<1>7. NothingLost'
  <2>1. /\ Numbered(taken, 0) /\ Numbered(buf, Len(taken)) /\ Numbered(chunk, Len(taken) + Len(buf))
        /\ Numbered(wire, Len(taken) + Len(buf) + Len(chunk))
        /\ sent = Len(taken) + Len(buf) + Len(chunk) + Len(wire)
    BY <1>1 DEF IInv, NothingLost
  <2>2. Numbered(buf', Len(taken))
    BY <1>1, <1>2, <2>1, NumberedJoined
  <2>3. /\ Len(taken) + Len(buf') + Len(chunk') = Len(taken) + Len(buf) + Len(chunk)
        /\ \A m \in Nat : Numbered(chunk', m)
    BY <1>1, <1>2, <1>3 DEF Numbered
  <2>4. UNCHANGED <<sent, wire, taken, closed>>
    BY <1>1 DEF transport
  <2>5. Len(taken) + Len(buf') \in Nat
    BY <1>2, <1>3
  <2>6. /\ Numbered(taken', 0) /\ Numbered(buf', Len(taken')) /\ Numbered(chunk', Len(taken') + Len(buf'))
        /\ Numbered(wire', Len(taken') + Len(buf') + Len(chunk'))
        /\ sent' = Len(taken') + Len(buf') + Len(chunk') + Len(wire')
    BY <1>2, <1>3, <2>1, <2>2, <2>3, <2>4, <2>5
  <2> QED BY <2>6 DEF NothingLost, Numbered
<1>8. StreamStep
  BY <1>1 DEF StreamStep, transport
<1> QED BY <1>4, <1>5, <1>6, <1>7, <1>8 DEF IInv

-----------------------------------------------------------------------------
(* Reads.  No read returns nil before the end of a stream that was not cut *)
(* short.                                                                  *)
NilIsEnd ==
  \A r \in Reads :
    result'[r] = "nil" /\ result[r] # "nil" /\ peer = "hungUp" => Len(taken) = sent

LEMMA TakingTellsTheEnd ==
  ASSUME IInv, NEW r \in Reads, NEW n \in Nat, Ready(n), TakeBytes(r, n)
  PROVE  NilIsEnd
<1> SUFFICES ASSUME NEW q \in Reads, result'[q] = "nil", result[q] # "nil", peer = "hungUp"
             PROVE  Len(taken) = sent
  BY DEF NilIsEnd
<1>1. q = r
  BY DEF TakeBytes, IInv, TypeOK
<1>2. ~closed /\ n # 0 /\ buf = << >>
  BY <1>1 DEF TakeBytes, IInv, TypeOK
<1>3. Len(buf) = 0 /\ eof
  BY <1>2 DEF Ready
<1>4. wire = << >> /\ reader = "ended"
  BY <1>2, <1>3 DEF IInv, EndsAtPeer
<1>5. chunk = << >> /\ Len(chunk) = 0 /\ Len(wire) = 0 /\ Len(taken) \in Nat
  BY <1>4 DEF IInv, TypeOK
<1>6. sent = Len(taken) + Len(buf) + Len(chunk) + Len(wire)
  BY <1>2 DEF IInv, NothingLost
<1> QED BY <1>3, <1>5, <1>6

LEMMA ReadNowKeeps ==
  ASSUME IInv, NEW r \in Reads, NEW n \in Sizes, ReadNow(r, n)
  PROVE  IInv' /\ StreamStep /\ NilIsEnd
<1>1. /\ n \in Nat /\ Ready(n) /\ TakeBytes(r, n)
      /\ UNCHANGED <<sent, wire, peer, shut, eof, closed, reader, chunk, closer, blocked, at, need,
                     writer, writing, wants>>
  BY SizesAssumption DEF ReadNow, Sizes, transport, thread, writes
<1>2. /\ buf' \in Seq(Nat) /\ taken' \in Seq(Nat) /\ error' \in BOOLEAN
      /\ result' \in [Reads -> {"none", "inPlace", "bytes", "nil", "error", "closed"}]
      /\ NothingLost' /\ BufferBounded' /\ ChunkFits'
      /\ Promise!Receive \/ UNCHANGED <<sent, taken, closed>>
  BY <1>1, TakingKeeps
<1>3. TypeOK' /\ EndsAtPeer'
  BY <1>1, <1>2 DEF IInv, TypeOK, EndsAtPeer
<1>4. NilIsEnd
  BY <1>1, TakingTellsTheEnd
<1> QED BY <1>2, <1>3, <1>4 DEF IInv, StreamStep

LEMMA EndReadKeeps ==
  ASSUME IInv, NEW r \in Reads, EndRead(r)
  PROVE  IInv' /\ StreamStep /\ NilIsEnd
<1>1. /\ need[r] \in Nat /\ Ready(need[r]) /\ TakeBytes(r, need[r])
      /\ at' = [at EXCEPT ![r] = "none"] /\ blocked' \in {"no", "closes", "reads"}
      /\ UNCHANGED <<sent, wire, peer, shut, eof, closed, reader, chunk, closer, need,
                     writer, writing, wants>>
  BY DEF EndRead, transport, thread, writes, IInv, TypeOK
<1>2. /\ buf' \in Seq(Nat) /\ taken' \in Seq(Nat) /\ error' \in BOOLEAN
      /\ result' \in [Reads -> {"none", "inPlace", "bytes", "nil", "error", "closed"}]
      /\ NothingLost' /\ BufferBounded' /\ ChunkFits'
      /\ Promise!Receive \/ UNCHANGED <<sent, taken, closed>>
  BY <1>1, TakingKeeps
<1>3. TypeOK' /\ EndsAtPeer'
  BY <1>1, <1>2 DEF IInv, TypeOK, EndsAtPeer
<1>4. NilIsEnd
  BY <1>1, TakingTellsTheEnd
<1> QED BY <1>2, <1>3, <1>4 DEF IInv, StreamStep

LEMMA ReadAvailableKeeps == ASSUME IInv, ReadAvailable PROVE IInv' /\ StreamStep /\ NilIsEnd
<1>1. /\ ~closed /\ buf' = << >> /\ taken' = taken \o buf
      /\ UNCHANGED <<sent, wire, peer, shut, eof, error, closed, reader, chunk, closer, blocked, at,
                     need, result, writer, writing, wants>>
  BY DEF ReadAvailable, MayCall, transport, thread, writes
<1>2. buf \in Seq(Nat) /\ Len(buf) \in 0..Len(buf)
  BY DEF IInv, TypeOK
<1>3. buf' = After(Len(buf), buf) /\ taken' = taken \o First(Len(buf), buf)
  BY <1>1, <1>2, WholeAtOnce
<1>4. /\ buf' \in Seq(Nat) /\ taken' \in Seq(Nat)
      /\ NothingLost' /\ BufferBounded' /\ ChunkFits'
      /\ Promise!Receive \/ UNCHANGED <<sent, taken, closed>>
  BY <1>1, <1>2, <1>3, BytesTaken
<1>5. TypeOK' /\ EndsAtPeer'
  BY <1>1, <1>4, SMTT(30) DEF IInv, TypeOK, EndsAtPeer
<1> QED BY <1>1, <1>4, <1>5 DEF IInv, StreamStep, NilIsEnd

(* What else happens to reads, and writes: the bytes read stay.            *)
LEMMA WaitingKeeps ==
  ASSUME IInv,
         \/ \E r \in Reads : ReadWakes(r) \/ KeepWaiting(r) \/ \E n \in Sizes : ReadLater(r, n)
         \/ \E w \in Writes : Write(w) \/ LockWriter(w)
         \/ EndsWrite \/ FailsWrite \/ DropWriter
  PROVE  IInv' /\ StreamStep /\ NilIsEnd
<1>1. UNCHANGED <<sent, wire, peer, shut, buf, eof, error, closed, reader, chunk, closer, taken>>
  BY DEF ReadWakes, KeepWaiting, ReadLater, Write, LockWriter, EndsWrite, FailsWrite, DropWriter,
         transport, state, thread, reads
<1>2. /\ at' \in [Reads -> {"none", "waits", "woken"}] /\ need' \in [Reads -> Nat]
      /\ result' \in [Reads -> {"none", "inPlace", "bytes", "nil", "error", "closed"}]
      /\ blocked' \in {"no", "closes", "reads"}
      /\ \A r \in Reads : result'[r] # result[r] => result'[r] # "nil"
  <2>1. CASE \E r \in Reads : ReadWakes(r) \/ KeepWaiting(r) \/ \E n \in Sizes : ReadLater(r, n)
    <3>1. PICK r \in Reads : ReadWakes(r) \/ KeepWaiting(r) \/ \E n \in Sizes : ReadLater(r, n)
      BY <2>1
    <3>2. CASE ReadWakes(r) \/ KeepWaiting(r)
      BY <3>2 DEF ReadWakes, KeepWaiting, IInv, TypeOK
    <3>3. CASE \E n \in Sizes : ReadLater(r, n)
      <4>1. PICK n \in Sizes : ReadLater(r, n)
        BY <3>3
      <4>2. n \in Nat /\ blocked' \in {"no", "reads"}
        BY <4>1, SizesAssumption DEF Sizes, ReadLater
      <4> QED BY <4>1, <4>2 DEF ReadLater, IInv, TypeOK
    <3> QED BY <3>1, <3>2, <3>3
  <2>2. CASE \/ \E w \in Writes : Write(w) \/ LockWriter(w)
             \/ EndsWrite \/ FailsWrite \/ DropWriter
    <3>1. blocked' \in {blocked, "no"} /\ UNCHANGED <<at, need, result>>
      BY <2>2 DEF Write, LockWriter, EndsWrite, FailsWrite, DropWriter, reads
    <3> QED BY <3>1 DEF IInv, TypeOK
  <2> QED BY <2>1, <2>2
<1>3. writer' \in BOOLEAN /\ writing' \in Writes \cup {Nobody} /\ wants' \subseteq Writes
  BY DEF ReadWakes, KeepWaiting, ReadLater, Write, LockWriter, EndsWrite, FailsWrite, DropWriter,
         writes, IInv, TypeOK
<1>4. TypeOK' /\ EndsAtPeer'
  BY <1>1, <1>2, <1>3 DEF IInv, TypeOK, EndsAtPeer
<1>5. NothingLost' /\ BufferBounded' /\ ChunkFits'
  BY <1>1, BytesStay
<1>6. StreamStep /\ NilIsEnd
  BY <1>1, <1>2 DEF StreamStep, NilIsEnd
<1> QED BY <1>4, <1>5, <1>6 DEF IInv

-----------------------------------------------------------------------------
(* The end of a connection, and the peer.                                  *)
LEMMA CloseKeeps == ASSUME IInv, Close PROVE IInv' /\ StreamStep /\ NilIsEnd
<1>1. /\ closed' = TRUE /\ at' = Woken(at) /\ reader' = WokenThread(reader)
      /\ shut' = closer /\ blocked' = "closes"
      /\ UNCHANGED <<sent, wire, peer, buf, eof, error, chunk, closer, need, result, taken,
                     writer, writing, wants>>
  BY DEF Close, NotifyReads, transport, writes
<1>2. TypeOK'
  <2>1. at' \in [Reads -> {"none", "waits", "woken"}]
    BY <1>1 DEF IInv, TypeOK, Woken
  <2>2. /\ reader' \in {"reads", "stores", "waits", "woken", "ended"}
        /\ reader' \in {"stores", "waits", "woken"} <=> reader \in {"stores", "waits", "woken"}
    BY <1>1 DEF IInv, TypeOK, WokenThread
  <2> QED BY <1>1, <2>1, <2>2 DEF IInv, TypeOK
<1>3. EndsAtPeer'
  BY <1>1 DEF IInv, EndsAtPeer, WokenThread
<1>4. NothingLost' /\ BufferBounded' /\ ChunkFits'
  BY <1>1, BytesStay
<1>5. StreamStep /\ NilIsEnd
  BY <1>1 DEF StreamStep, Promise!Close, NilIsEnd
<1> QED BY <1>2, <1>3, <1>4, <1>5 DEF IInv

LEMMA PeerSendsKeeps == ASSUME IInv, PeerSends PROVE IInv' /\ StreamStep /\ NilIsEnd
<1>1. /\ peer = "open" /\ ~shut /\ sent' = sent + 1 /\ wire' = Append(wire, sent + 1)
      /\ UNCHANGED <<peer, shut, buf, eof, error, closed, reader, chunk, closer, blocked, at, need,
                     result, taken, writer, writing, wants>>
  BY DEF PeerSends, state, thread, reads, writes
<1>2. /\ sent \in Nat /\ wire \in Seq(Nat) /\ Len(wire) \in Nat
      /\ Len(taken) \in Nat /\ Len(buf) \in Nat /\ Len(chunk) \in Nat
  BY DEF IInv, TypeOK
<1>3. wire' \in Seq(Nat) /\ Len(wire') = Len(wire) + 1
  BY <1>1, <1>2
<1>4. TypeOK' /\ EndsAtPeer'
  BY <1>1, <1>2, <1>3 DEF IInv, TypeOK, EndsAtPeer
<1>5. ChunkFits' /\ BufferBounded'
  BY <1>1 DEF IInv, ChunkFits, BufferBounded
<1>6. NothingLost'
  <2>1. CASE closed
    BY <1>1, <2>1 DEF IInv, NothingLost, Numbered
  <2>2. CASE ~closed
    <3>1. /\ Numbered(taken, 0) /\ Numbered(buf, Len(taken)) /\ Numbered(chunk, Len(taken) + Len(buf))
          /\ Numbered(wire, Len(taken) + Len(buf) + Len(chunk))
          /\ sent = Len(taken) + Len(buf) + Len(chunk) + Len(wire)
      BY <2>2 DEF IInv, NothingLost
    <3>2. Numbered(wire', Len(taken) + Len(buf) + Len(chunk))
      <4> SUFFICES ASSUME NEW i \in 1..Len(wire')
                   PROVE  wire'[i] = Len(taken) + Len(buf) + Len(chunk) + i
        BY DEF Numbered
      <4>1. CASE i = Len(wire) + 1
        <5>1. wire'[i] = sent + 1
          BY <1>1, <1>2, <4>1
        <5> QED BY <1>2, <3>1, <4>1, <5>1
      <4>2. CASE i # Len(wire) + 1
        <5>1. i \in 1..Len(wire) /\ wire'[i] = wire[i]
          BY <1>1, <1>2, <1>3, <4>2
        <5> QED BY <3>1, <5>1 DEF Numbered
      <4> QED BY <4>1, <4>2
    <3>3. sent' = Len(taken) + Len(buf) + Len(chunk) + Len(wire')
      BY <1>1, <1>2, <1>3, <3>1
    <3> QED BY <1>1, <3>1, <3>2, <3>3 DEF NothingLost, Numbered
  <2> QED BY <2>1, <2>2
<1>7. StreamStep /\ NilIsEnd
  BY <1>1 DEF StreamStep, Promise!Send, NilIsEnd
<1> QED BY <1>4, <1>5, <1>6, <1>7 DEF IInv

LEMMA PeerEndsKeeps == ASSUME IInv, PeerEnds PROVE IInv' /\ StreamStep /\ NilIsEnd
<1>1. /\ peer = "open" /\ peer' \in {"hungUp", "failed"}
      /\ UNCHANGED <<sent, wire, shut, buf, eof, error, closed, reader, chunk, closer, blocked, at, need,
                     result, taken, writer, writing, wants>>
  BY DEF PeerEnds, state, thread, reads, writes
<1>2. TypeOK' /\ EndsAtPeer'
  BY <1>1 DEF IInv, TypeOK, EndsAtPeer
<1>3. NothingLost' /\ BufferBounded' /\ ChunkFits'
  BY <1>1, BytesStay
<1>4. StreamStep /\ NilIsEnd
  BY <1>1 DEF StreamStep, NilIsEnd
<1> QED BY <1>2, <1>3, <1>4 DEF IInv

-----------------------------------------------------------------------------
LEMMA ConnStarts == Init => IInv
<1> SUFFICES ASSUME Init PROVE IInv
  OBVIOUS
<1>1. TypeOK
  <2>1. /\ at \in [Reads -> {"none", "waits", "woken"}] /\ need \in [Reads -> Nat]
        /\ result \in [Reads -> {"none", "inPlace", "bytes", "nil", "error", "closed"}]
    BY DEF Init
  <2>2. wire \in Seq(Nat) /\ buf \in Seq(Nat) /\ chunk \in Seq(Nat) /\ taken \in Seq(Nat)
    BY DEF Init
  <2>3. reader \in {"stores", "waits", "woken"} <=> chunk # << >>
    BY DEF Init
  <2> QED BY <2>1, <2>2, <2>3 DEF Init, TypeOK
<1>2. ChunkFits /\ EndsAtPeer /\ BufferBounded
  BY SizesAssumption DEF Init, ChunkFits, EndsAtPeer, BufferBounded
<1>3. NothingLost
  BY DEF Init, NothingLost, Numbered
<1> QED BY <1>1, <1>2, <1>3 DEF IInv

LEMMA ConnSteps == IInv /\ [Next]_vars => IInv' /\ StreamStep /\ NilIsEnd
<1> SUFFICES ASSUME IInv, [Next]_vars PROVE IInv' /\ StreamStep /\ NilIsEnd
  OBVIOUS
<1>1. CASE Script
  <2>1. CASE \E r \in Reads : \E n \in Sizes : ReadNow(r, n)
    BY <2>1, ReadNowKeeps
  <2>2. CASE \E r \in Reads : \E n \in Sizes : ReadLater(r, n)
    BY <2>2, WaitingKeeps
  <2> QED BY <1>1, <2>1, <2>2, ReadAvailableKeeps, WaitingKeeps, CloseKeeps DEF Script
<1>2. CASE Pump \/ ThreadWakes
  <2>1. result' = result
    BY <1>2 DEF Pump, ReadChunk, ReadEnds, ReadFails, Finish, WaitForRoom, EndClosed, StoreChunk,
                ThreadWakes, reads
  <2>2. NilIsEnd
    BY <2>1 DEF NilIsEnd
  <2> QED BY <1>2, <2>2, ReadChunkKeeps, ReadEndsKeeps, WaitForRoomKeeps, EndClosedKeeps,
             StoreChunkKeeps DEF Pump
<1>3. CASE \E r \in Reads : ReadWork(r) \/ ReadWakes(r)
  BY <1>3, WaitingKeeps, EndReadKeeps DEF ReadWork
<1>4. CASE (\E w \in Writes : LockWriter(w)) \/ EndsWrite \/ FailsWrite \/ DropWriter
  BY <1>4, WaitingKeeps
<1>5. CASE PeerSends \/ PeerEnds
  BY <1>5, PeerSendsKeeps, PeerEndsKeeps
<1>6. CASE UNCHANGED vars
  <2>1. UNCHANGED <<sent, wire, peer, shut, buf, eof, error, closed, reader, chunk, closer, blocked,
                    at, need, result, taken, writer, writing, wants>>
    BY <1>6 DEF vars, transport, state, thread, reads, writes
  <2>2. TypeOK' /\ EndsAtPeer'
    BY <2>1 DEF IInv, TypeOK, EndsAtPeer
  <2> QED BY <2>1, <2>2, BytesStay DEF IInv, StreamStep, NilIsEnd
<1> QED BY <1>1, <1>2, <1>3, <1>4, <1>5, <1>6 DEF Next

LEMMA ConnInvariant == Spec => []IInv
BY ConnStarts, ConnSteps, PTL DEF Spec

-----------------------------------------------------------------------------
(* The state is well formed: the reader thread only ends when reads can    *)
(* tell, and has a chunk exactly while it has to store it (pump).          *)
THEOREM ConnTypeHolds == Spec => []TypeOK
BY ConnInvariant, PTL DEF IInv

(* While the connection is open every byte the peer sent is in one place,  *)
(* and in its order (pump, take_bytes).                                    *)
THEOREM NothingLostHolds == Spec => []NothingLost
BY ConnInvariant, PTL DEF IInv

(* The buffer exceeds MAX_BUFFER by less than a chunk (pump).              *)
THEOREM BufferBoundedHolds == Spec => []BufferBounded
BY ConnInvariant, PTL DEF IInv

(* A read returns nil only at the end of what the peer sent, unless the    *)
(* transport failed (conn_read, take_bytes).                               *)
THEOREM NilOnlyAtEndHolds == Spec => NilOnlyAtEnd
<1>1. IInv /\ [Next]_vars =>
        [\A r \in Reads :
           result'[r] = "nil" /\ result[r] # "nil" /\ peer = "hungUp" => Len(taken) = sent]_vars
  BY ConnSteps DEF NilIsEnd
<1> QED BY <1>1, ConnInvariant, PTL DEF Spec, NilOnlyAtEnd

(* To the script the connection is a stream: what it gets are the bytes    *)
(* sent, in their order, each once, and none after it closed it.           *)
THEOREM IsStreamHolds == Spec => IsStream
<1>1. Init => Promise!Init
  BY DEF Init, Promise!Init
<1>2. IInv /\ [Next]_vars =>
        [Promise!Send \/ Promise!Receive \/ Promise!Close]_<<sent, taken, closed>>
  BY ConnSteps DEF StreamStep
<1> QED BY <1>1, <1>2, ConnInvariant, PTL DEF Spec, IsStream, Promise!Spec
=============================================================================
