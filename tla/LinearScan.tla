----------------------------- MODULE LinearScan -----------------------------
(***************************************************************************)
(* The register allocator: a scan over the live intervals in the order     *)
(* they start, one variable after the other (compiler/ir/regalloc.rs).     *)
(* What it is given does not change while it runs: the intervals `span`    *)
(* and the copy partners `hints` of each variable.                         *)
(***************************************************************************)
EXTENDS Integers, Sequences, FiniteSets

CONSTANTS Params,   \* registers 1..Params hold the parameters
          Registers \* registers there are

VARIABLES span,   \* the interval of each variable: [start, end]
          hints,  \* the variables each one is copied from or to
          queue,  \* the variables still to be placed, by their start
          mapping,\* the register of each variable placed
          free,   \* the registers in no one's use
          active, \* the placed variables whose interval is not over
          failed  \* a variable was left without a register

scan == <<span, hints, queue, mapping, free, active, failed>>

(* Expired: those whose interval ended before this one starts.  Retired:   *)
(* copy partners of the variable whose interval ends where it starts.      *)
ExpiredEarly(v) == {w \in active : span[w].end <= span[v].start}
Expired(v) == {w \in active : span[w].end < span[v].start}
Retired(v) == {w \in active : w \in hints[v] /\ span[w].end <= span[v].start}
Over(v) == Expired(v) \cup Retired(v)
Freed(v) == free \cup {mapping[w] : w \in Over(v)}

(* The register of a copy partner if it is free, or else the lowest.       *)
Wanted(v) == {mapping[w] : w \in hints[v] \cap DOMAIN mapping} \cap Freed(v)
Eligible(v) ==
  IF Wanted(v) # {} THEN Wanted(v)
  ELSE {r \in Freed(v) : \A s \in Freed(v) : r <= s}

Place(v, r) ==
  /\ mapping' = [w \in DOMAIN mapping \cup {v} |-> IF w = v THEN r ELSE mapping[w]]
  /\ free' = Freed(v) \ {r}
  /\ active' = (active \ Over(v)) \cup {v}

(* One turn of the loop.                                                   *)
PlaceNext ==
  /\ queue # << >> /\ ~failed
  /\ \E r \in Eligible(Head(queue)) : Place(Head(queue), r)
  /\ queue' = Tail(queue)
  /\ UNCHANGED <<span, hints, failed>>

RunOut ==
  /\ queue # << >> /\ ~failed /\ Freed(Head(queue)) = {}
  /\ failed' = TRUE
  /\ UNCHANGED <<span, hints, queue, mapping, free, active>>

-----------------------------------------------------------------------------
(* The scan begins with the parameters where they are.                     *)
InOrder(q) ==
  \A i, j \in 1..Len(q) : i < j => span[q[i]].start <= span[q[j]].start /\ q[i] # q[j]

Begin ==
  /\ mapping = [p \in 1..Params |-> p]
  /\ free = (Params + 1)..Registers
  /\ active = {} /\ failed = FALSE

(* Of the intervals it is only known that they have a start and an end.    *)
ScanInit ==
  /\ span \in [DOMAIN span -> [start : Nat, end : Nat]]
  /\ hints \in [DOMAIN span -> SUBSET DOMAIN span]
  /\ queue \in Seq(DOMAIN span \ 1..Params) /\ InOrder(queue)
  /\ Begin

ScanNext == PlaceNext \/ RunOut
ScanSpec == ScanInit /\ [][ScanNext]_scan

-----------------------------------------------------------------------------
(* One is over before the other starts, or where it starts, if a copy     *)
(* between the first and some variable ends it there.                      *)
EndsInCopy(v) ==
  \E x \in DOMAIN mapping \ 1..Params : v \in hints[x] /\ span[x].start = span[v].end
Before(v, w) ==
  \/ span[v].end < span[w].start
  \/ span[v].end = span[w].start /\ EndsInCopy(v)

(* The allocator's promise: variables in one register are never needed at  *)
(* once.                                                                   *)
NoClash ==
  \A v, w \in DOMAIN mapping \ 1..Params :
     v # w /\ mapping[v] = mapping[w] => Before(v, w) \/ Before(w, v)

(* Parameters keep their registers to themselves.                          *)
ParamsKept ==
  \A v \in DOMAIN mapping :
     IF v \in 1..Params THEN mapping[v] = v ELSE mapping[v] \in (Params + 1)..Registers
=============================================================================
