-------------------------- MODULE Coroutines_proofs --------------------------
(***************************************************************************)
(* The discipline of the stack of activations.  What the invariants of     *)
(* Coroutines say, and what they need to be inductive, is stated here of   *)
(* any stack `s`, statuses `st`, current coroutine `cur`, floor and count  *)
(* of native calls; one lemma for each thing a step can do to the stack    *)
(* shows that it keeps the discipline.  Tasks_proofs applies them.         *)
(***************************************************************************)
EXTENDS Coroutines, Subsequences_proofs, SequenceTheorems

Co(s, i) == s[i].k = "co"
Onto == {"running", "normal"}

(* Every coroutine is on the stack once, those are running or normal, and  *)
(* the running one is the current and innermost one.                       *)
Once(s) ==
  \A i, j \in DOMAIN s : Co(s, i) /\ Co(s, j) /\ s[i].t = s[j].t => i = j
OnStack(s, t) == \E i \in DOMAIN s : Co(s, i) /\ s[i].t = t
Statuses(s, st, cur) ==
  \A t \in Threads : /\ st[t] = "running" <=> cur = t
                     /\ st[t] \in Onto <=> OnStack(s, t)

(* i is the next coroutine below position n, or there is none.             *)
NextBelow(s, n, t) ==
  IF t = None THEN \A m \in 1..(n - 1) : ~Co(s, m)
  ELSE \E i \in 1..(n - 1) : /\ Co(s, i) /\ s[i].t = t
                             /\ \A m \in (i + 1)..(n - 1) : ~Co(s, m)
Callers(s) == \A i \in DOMAIN s : Co(s, i) => NextBelow(s, i, s[i].caller)
Innermost(s, cur) == NextBelow(s, Len(s) + 1, cur)

(* The main chunk is below everything else.                                *)
MainFirst(s) == \A i \in DOMAIN s : s[i].k = "main" => i = 1

CoTyped(s, cur) ==
  /\ cur \in Threads \cup {None}
  /\ \A i \in DOMAIN s : Co(s, i) =>
       /\ s[i].t \in Threads /\ s[i].caller \in Threads \cup {None}

Disciplined(s, st, cur) ==
  /\ CoTyped(s, cur)
  /\ Once(s) /\ Statuses(s, st, cur) /\ Callers(s) /\ Innermost(s, cur)
  /\ MainFirst(s)

(* s2 differs from s in nothing but the fields of its scheduler loops.     *)
SameButLoops(s, s2) ==
  /\ Len(s2) = Len(s)
  /\ \A i \in DOMAIN s :
       s2[i] = s[i] \/ (s[i].k = "sched" /\ s2[i].k = "sched")

-----------------------------------------------------------------------------
(* Scheduler loops go on, and coroutines that are not on the stack change  *)
(* status among themselves.                                                *)
LEMMA LoopsGoOn ==
  ASSUME NEW A, NEW s \in Seq(A), NEW s2 \in Seq(A), NEW st, NEW st2, NEW cur,
         Disciplined(s, st, cur), SameButLoops(s, s2),
         \A t \in Threads : st2[t] = st[t] \/ (st[t] \notin Onto /\ st2[t] \notin Onto)
  PROVE  Disciplined(s2, st2, cur)
<1>1. DOMAIN s2 = DOMAIN s /\ Len(s2) = Len(s) /\ DOMAIN s = 1..Len(s) /\ Len(s) \in Nat
  BY DEF SameButLoops
<1>2. \A i \in DOMAIN s : /\ Co(s2, i) <=> Co(s, i)
                          /\ Co(s, i) => s2[i] = s[i]
                          /\ s2[i].k = "main" => s[i].k = "main"
  BY <1>1 DEF SameButLoops, Co
<1>3. CoTyped(s2, cur) /\ Once(s2) /\ MainFirst(s2)
  BY <1>1, <1>2 DEF Disciplined, CoTyped, Once, MainFirst
<1>4. \A t : OnStack(s2, t) <=> OnStack(s, t)
  BY <1>1, <1>2 DEF OnStack
<1>5. Statuses(s2, st2, cur)
  BY <1>4 DEF Disciplined, Statuses, Onto
<1>6. \A t : \A n \in 1..(Len(s) + 1) : NextBelow(s, n, t) => NextBelow(s2, n, t)
  <2> SUFFICES ASSUME NEW n \in 1..(Len(s) + 1), NEW t, NextBelow(s, n, t)
               PROVE  NextBelow(s2, n, t)
    OBVIOUS
  <2>1. \A m \in 1..(n - 1) : m \in DOMAIN s
    BY <1>1
  <2>2. \A i \in 1..(n - 1) : \A m \in (i + 1)..(n - 1) : m \in DOMAIN s
    BY <1>1
  <2> QED BY <1>2, <2>1, <2>2 DEF NextBelow
<1>7. Callers(s2) /\ Innermost(s2, cur)
  BY <1>1, <1>2, <1>6 DEF Disciplined, Callers, Innermost
<1> QED BY <1>3, <1>5, <1>7 DEF Disciplined

(* An activation that is no coroutine is put on top.                       *)
LEMMA Pushed ==
  ASSUME NEW A, NEW s \in Seq(A), NEW e \in A, NEW st, NEW cur,
         Disciplined(s, st, cur), e.k # "co", e.k # "main"
  PROVE  Disciplined(Append(s, e), st, cur)
<1> DEFINE s2 == Append(s, e)
<1>1. /\ s2 \in Seq(A) /\ Len(s2) = Len(s) + 1 /\ Len(s) \in Nat
      /\ DOMAIN s = 1..Len(s) /\ DOMAIN s2 = 1..(Len(s) + 1)
      /\ \A i \in 1..Len(s) : s2[i] = s[i]
      /\ s2[Len(s) + 1] = e
  BY AppendProperties
<1> HIDE DEF s2
<1>2. \A i \in DOMAIN s2 : i \in DOMAIN s \/ (i = Len(s) + 1 /\ s2[i] = e)
  BY <1>1
<1>3. \A i \in DOMAIN s2 : Co(s2, i) => i \in DOMAIN s /\ Co(s, i) /\ s2[i] = s[i]
  BY <1>1, <1>2 DEF Co
<1>4. \A i \in DOMAIN s : i \in DOMAIN s2 /\ s2[i] = s[i] /\ (Co(s2, i) <=> Co(s, i))
  BY <1>1 DEF Co
<1>5. CoTyped(s2, cur) /\ Once(s2)
  BY <1>3 DEF Disciplined, CoTyped, Once
<1>6. MainFirst(s2)
  BY <1>1, <1>2 DEF Disciplined, MainFirst
<1>7. \A t : OnStack(s2, t) <=> OnStack(s, t)
  BY <1>3, <1>4 DEF OnStack
<1>8. Statuses(s2, st, cur)
  BY <1>7 DEF Disciplined, Statuses
<1>9. \A t : \A n \in 1..(Len(s) + 1) : NextBelow(s, n, t) => NextBelow(s2, n, t)
  <2> SUFFICES ASSUME NEW n \in 1..(Len(s) + 1), NEW t, NextBelow(s, n, t)
               PROVE  NextBelow(s2, n, t)
    OBVIOUS
  <2>1. \A m \in 1..(n - 1) : m \in DOMAIN s
    BY <1>1
  <2>2. \A i \in 1..(n - 1) : \A m \in (i + 1)..(n - 1) : m \in DOMAIN s
    BY <1>1
  <2> QED BY <1>4, <2>1, <2>2 DEF NextBelow
<1>10. Callers(s2)
  BY <1>1, <1>3, <1>9 DEF Disciplined, Callers
<1>11. NextBelow(s2, Len(s) + 1, cur)
  BY <1>1, <1>9 DEF Disciplined, Innermost
<1>12. ~Co(s2, Len(s) + 1)
  BY <1>1 DEF Co
<1>13. Innermost(s2, cur)
  <2>1. CASE cur = None
    <3>1. \A m \in 1..(Len(s2) + 1 - 1) : m \in 1..(Len(s) + 1 - 1) \/ m = Len(s) + 1
      BY <1>1
    <3> QED BY <1>11, <1>12, <2>1, <3>1 DEF Innermost, NextBelow
  <2>2. CASE cur # None
    <3>1. PICK i \in 1..(Len(s) + 1 - 1) :
            /\ Co(s2, i) /\ s2[i].t = cur
            /\ \A m \in (i + 1)..(Len(s) + 1 - 1) : ~Co(s2, m)
      BY <1>11, <2>2 DEF NextBelow
    <3>2. \A m \in (i + 1)..(Len(s2) + 1 - 1) :
            m \in (i + 1)..(Len(s) + 1 - 1) \/ m = Len(s) + 1
      BY <1>1
    <3>3. i \in 1..(Len(s2) + 1 - 1)
      BY <1>1
    <3> QED BY <1>12, <2>2, <3>1, <3>2, <3>3 DEF Innermost, NextBelow
  <2> QED BY <2>1, <2>2
<1>14. Disciplined(s2, st, cur)
  BY <1>5, <1>6, <1>8, <1>10, <1>13 DEF Disciplined
<1> QED BY <1>14 DEF s2

(* What is below position r, a coroutine (with `caller` as saved in it) or *)
(* the top when it is none.                                                *)
LEMMA Below ==
  ASSUME NEW A, NEW s \in Seq(A), NEW r \in 1..Len(s),
         NEW st, NEW cur, Disciplined(s, st, cur)
  PROVE  LET s2 == SubSeq(s, 1, r - 1) IN
         /\ s2 \in Seq(A) /\ Len(s2) = r - 1 /\ DOMAIN s2 = 1..(r - 1)
         /\ \A i \in DOMAIN s2 : i \in DOMAIN s /\ s2[i] = s[i] /\ (Co(s2, i) <=> Co(s, i))
         /\ Once(s2) /\ Callers(s2) /\ MainFirst(s2)
         /\ \A t : NextBelow(s, r, t) => Innermost(s2, t)
<1> DEFINE s2 == SubSeq(s, 1, r - 1)
<1>1. /\ s2 \in Seq(A) /\ Len(s2) = r - 1 /\ DOMAIN s2 = 1..(r - 1)
      /\ \A i \in 1..(r - 1) : s2[i] = s[i]
      /\ Len(s) \in Nat /\ DOMAIN s = 1..Len(s)
  <2>1. \A i \in 1..(r - 1) : s[i] \in A
    OBVIOUS
  <2> QED BY <2>1, SubSeqProperties
<1> HIDE DEF s2
<1>2. \A i \in DOMAIN s2 : i \in DOMAIN s /\ s2[i] = s[i] /\ (Co(s2, i) <=> Co(s, i))
  BY <1>1 DEF Co
<1>3. Once(s2) /\ MainFirst(s2)
  BY <1>2 DEF Disciplined, Once, MainFirst
<1>4. \A t : \A n \in 1..r : NextBelow(s, n, t) => NextBelow(s2, n, t)
  <2> SUFFICES ASSUME NEW n \in 1..r, NEW t, NextBelow(s, n, t)
               PROVE  NextBelow(s2, n, t)
    OBVIOUS
  <2>1. \A m \in 1..(n - 1) : m \in DOMAIN s2
    BY <1>1
  <2>2. \A i \in 1..(n - 1) : \A m \in (i + 1)..(n - 1) : m \in DOMAIN s2
    BY <1>1
  <2> QED BY <1>2, <2>1, <2>2 DEF NextBelow
<1>5. Callers(s2)
  BY <1>1, <1>2, <1>4 DEF Disciplined, Callers
<1>6. \A t : NextBelow(s, r, t) => Innermost(s2, t)
  BY <1>1, <1>4 DEF Innermost
<1>7. /\ s2 \in Seq(A) /\ Len(s2) = r - 1 /\ DOMAIN s2 = 1..(r - 1)
      /\ \A i \in DOMAIN s2 : i \in DOMAIN s /\ s2[i] = s[i] /\ (Co(s2, i) <=> Co(s, i))
      /\ Once(s2) /\ Callers(s2) /\ MainFirst(s2)
      /\ \A t : NextBelow(s, r, t) => Innermost(s2, t)
  BY <1>1, <1>2, <1>3, <1>5, <1>6
<1> QED BY <1>7 DEF s2

(* The activation on top, no coroutine, is taken off.                      *)
LEMMA Popped ==
  ASSUME NEW A, NEW s \in Seq(A), s # << >>, NEW st, NEW cur,
         Disciplined(s, st, cur), ~Co(s, Len(s))
  PROVE  Disciplined(Front(s), st, cur)
<1> DEFINE r == Len(s)
           s2 == SubSeq(s, 1, r - 1)
<1>0. Front(s) = s2
  BY DEF Front
<1>1. r \in 1..Len(s) /\ Len(s) \in Nat /\ DOMAIN s = 1..Len(s)
  OBVIOUS
<1>2. /\ s2 \in Seq(A) /\ Len(s2) = r - 1 /\ DOMAIN s2 = 1..(r - 1)
      /\ \A i \in DOMAIN s2 : i \in DOMAIN s /\ s2[i] = s[i] /\ (Co(s2, i) <=> Co(s, i))
      /\ Once(s2) /\ Callers(s2) /\ MainFirst(s2)
      /\ \A t : NextBelow(s, r, t) => Innermost(s2, t)
  BY <1>1, Below
<1> HIDE DEF s2
<1>3. \A i \in DOMAIN s : Co(s, i) => i \in DOMAIN s2
  BY <1>1, <1>2
<1>4. \A t : OnStack(s2, t) <=> OnStack(s, t)
  BY <1>2, <1>3 DEF OnStack
<1>5. Statuses(s2, st, cur) /\ CoTyped(s2, cur)
  BY <1>2, <1>4 DEF Disciplined, Statuses, CoTyped
<1>6. NextBelow(s, r, cur)
  <2>1. CASE cur = None
    <3>1. \A m \in 1..(r - 1) : m \in 1..(r + 1 - 1)
      BY <1>1
    <3> QED BY <2>1, <3>1 DEF Disciplined, Innermost, NextBelow
  <2>2. CASE cur # None
    <3>1. PICK i \in 1..(r + 1 - 1) :
            /\ Co(s, i) /\ s[i].t = cur
            /\ \A m \in (i + 1)..(r + 1 - 1) : ~Co(s, m)
      BY <2>2 DEF Disciplined, Innermost, NextBelow
    <3>2. i # r
      BY <3>1
    <3>3. i \in Nat /\ 1 <= i /\ i <= Len(s)
      BY <1>1
    <3>4. i \in 1..(r - 1)
      <4> DEFINE n == Len(s)
      <4>1. n \in Nat /\ i \in Nat /\ 1 <= i /\ i <= n /\ i # n
        BY <1>1, <3>2, <3>3
      <4> HIDE DEF n
      <4>2. i \in 1..(n - 1)
        BY <4>1
      <4> QED BY <4>2 DEF n
    <3>5. \A m \in (i + 1)..(r - 1) : m \in (i + 1)..(r + 1 - 1)
      BY <1>1, <3>3
    <3> QED BY <2>2, <3>1, <3>4, <3>5 DEF NextBelow
  <2> QED BY <2>1, <2>2
<1> QED BY <1>0, <1>2, <1>5, <1>6 DEF Disciplined

(* A coroutine that is not on the stack is entered from the current one.   *)
LEMMA EnteredCo ==
  ASSUME NEW A, NEW s \in Seq(A), NEW e \in A, NEW st, NEW st2, NEW cur,
         Disciplined(s, st, cur), NEW t \in Threads, st[t] \notin Onto,
         e.k = "co", e.t = t, e.caller = cur,
         \A u \in Threads : st2[u] = IF u = t THEN "running"
                                     ELSE IF u = cur THEN "normal" ELSE st[u]
  PROVE  Disciplined(Append(s, e), st2, t)
<1> DEFINE s2 == Append(s, e)
           n  == Len(s) + 1
<1>1. /\ s2 \in Seq(A) /\ Len(s2) = n /\ Len(s) \in Nat
      /\ DOMAIN s = 1..Len(s) /\ DOMAIN s2 = 1..n
      /\ \A i \in 1..Len(s) : s2[i] = s[i]
      /\ s2[n] = e
  BY AppendProperties
<1> HIDE DEF s2
<1>2. \A i \in DOMAIN s2 : i \in DOMAIN s \/ i = n
  BY <1>1
<1>3. \A i \in DOMAIN s : /\ i \in DOMAIN s2 /\ i # n
                          /\ s2[i] = s[i] /\ (Co(s2, i) <=> Co(s, i))
  BY <1>1 DEF Co
<1>4. n \in DOMAIN s2 /\ Co(s2, n) /\ s2[n].t = t /\ s2[n].caller = cur
  BY <1>1 DEF Co
<1>5. ~OnStack(s, t)
  BY DEF Disciplined, Statuses
<1>6. \A u : OnStack(s2, u) <=> OnStack(s, u) \/ u = t
  BY <1>2, <1>3, <1>4 DEF OnStack
<1>7. cur # None => OnStack(s, cur)
  BY <1>1 DEF Disciplined, Innermost, NextBelow, OnStack
<1>8. CoTyped(s2, t)
  BY <1>2, <1>3, <1>4 DEF Disciplined, CoTyped
<1>9. Once(s2)
  BY <1>2, <1>3, <1>4, <1>5 DEF Disciplined, Once, OnStack
<1>10. Statuses(s2, st2, t)
  <2> SUFFICES ASSUME NEW u \in Threads
               PROVE  /\ st2[u] = "running" <=> t = u
                      /\ st2[u] \in Onto <=> OnStack(s2, u)
    BY DEF Statuses
  <2>1. (st[u] = "running" <=> cur = u) /\ (st[u] \in Onto <=> OnStack(s, u))
    BY DEF Disciplined, Statuses
  <2>2. CASE u = t
    BY <1>6, <2>2 DEF Onto
  <2>3. CASE u # t /\ u = cur
    BY <1>6, <1>7, <2>3, NoneAssumption DEF Onto
  <2>4. CASE u # t /\ u # cur
    BY <1>6, <2>1, <2>4
  <2> QED BY <2>2, <2>3, <2>4
<1>11. \A u : \A m \in 1..n : NextBelow(s, m, u) => NextBelow(s2, m, u)
  <2> SUFFICES ASSUME NEW u, NEW m \in 1..n, NextBelow(s, m, u)
               PROVE  NextBelow(s2, m, u)
    OBVIOUS
  <2>1. \A i \in 1..(m - 1) : i \in DOMAIN s
    BY <1>1
  <2>2. \A i \in 1..(m - 1) : \A k \in (i + 1)..(m - 1) : k \in DOMAIN s
    BY <1>1
  <2> QED BY <1>3, <2>1, <2>2 DEF NextBelow
<1>12. Callers(s2)
  <2>1. NextBelow(s2, n, cur)
    BY <1>1, <1>11 DEF Disciplined, Innermost
  <2>2. \A i \in DOMAIN s : Co(s, i) => NextBelow(s2, i, s[i].caller)
    BY <1>1, <1>11 DEF Disciplined, Callers
  <2> QED BY <1>2, <1>3, <1>4, <2>1, <2>2 DEF Callers
<1>13. Innermost(s2, t)
  <2>1. n \in 1..(n + 1 - 1) /\ \A m \in (n + 1)..(n + 1 - 1) : FALSE
    BY <1>1
  <2>2. t # None
    BY NoneAssumption
  <2> QED BY <1>1, <1>4, <2>1, <2>2 DEF Innermost, NextBelow
<1>14. MainFirst(s2)
  BY <1>2, <1>3, <1>4 DEF Disciplined, MainFirst, Co
<1>15. Disciplined(s2, st2, t)
  BY <1>8, <1>9, <1>10, <1>12, <1>13, <1>14 DEF Disciplined
<1> QED BY <1>15 DEF s2

(* The current coroutine is the innermost, wherever it is on the stack.    *)
LEMMA CurrentIsInnermost ==
  ASSUME NEW A, NEW s \in Seq(A), NEW r \in DOMAIN s, NEW st, NEW cur,
         Disciplined(s, st, cur), Co(s, r), s[r].t = cur, cur # None
  PROVE  \A i \in DOMAIN s : Co(s, i) => i <= r
<1>1. Len(s) \in Nat /\ DOMAIN s = 1..Len(s)
  OBVIOUS
<1>2. PICK i \in 1..(Len(s) + 1 - 1) :
        /\ Co(s, i) /\ s[i].t = cur
        /\ \A m \in (i + 1)..(Len(s) + 1 - 1) : ~Co(s, m)
  BY DEF Disciplined, Innermost, NextBelow
<1>3. i \in DOMAIN s
  BY <1>1
<1>4. i = r
  BY <1>2, <1>3 DEF Disciplined, Once
<1>5. \A j \in DOMAIN s : j <= r \/ j \in (r + 1)..(Len(s) + 1 - 1)
  BY <1>1
<1> QED BY <1>2, <1>4, <1>5

(* The current coroutine gives control back to its caller.                 *)
LEMMA LeftCo ==
  ASSUME NEW A, NEW s \in Seq(A), NEW r \in DOMAIN s, NEW st, NEW st2,
         NEW cur, NEW now, now \notin Onto,
         Disciplined(s, st, cur), Co(s, r), s[r].t = cur,
         \A u \in Threads : st2[u] = IF u = cur THEN now
                                     ELSE IF u = s[r].caller THEN "running"
                                     ELSE st[u]
  PROVE  Disciplined(SubSeq(s, 1, r - 1), st2, s[r].caller)
<1> DEFINE s2 == SubSeq(s, 1, r - 1)
           caller == s[r].caller
<1>1. r \in 1..Len(s) /\ Len(s) \in Nat /\ DOMAIN s = 1..Len(s)
  OBVIOUS
<1>2. /\ s2 \in Seq(A) /\ Len(s2) = r - 1 /\ DOMAIN s2 = 1..(r - 1)
      /\ \A i \in DOMAIN s2 : i \in DOMAIN s /\ s2[i] = s[i] /\ (Co(s2, i) <=> Co(s, i))
      /\ Once(s2) /\ Callers(s2) /\ MainFirst(s2)
      /\ \A t : NextBelow(s, r, t) => Innermost(s2, t)
  BY <1>1, Below
<1> HIDE DEF s2
<1>3. cur \in Threads /\ cur # None /\ caller \in Threads \cup {None}
  BY NoneAssumption DEF Disciplined, CoTyped
<1>4. \A i \in DOMAIN s : Co(s, i) => i <= r
  BY <1>3, CurrentIsInnermost
<1>5. NextBelow(s, r, caller)
  BY DEF Disciplined, Callers
<1>6. r \notin DOMAIN s2 /\ \A i \in DOMAIN s : Co(s, i) => i = r \/ i \in DOMAIN s2
  BY <1>1, <1>2, <1>4
<1>7. ~OnStack(s2, cur)
  BY <1>2, <1>6 DEF OnStack, Disciplined, Once
<1>8. \A u : u # cur => (OnStack(s2, u) <=> OnStack(s, u))
  BY <1>2, <1>6 DEF OnStack
<1>9. caller # None => OnStack(s2, caller)
  BY <1>2, <1>5 DEF NextBelow, OnStack
<1>10. Statuses(s2, st2, caller)
  <2> SUFFICES ASSUME NEW u \in Threads
               PROVE  /\ st2[u] = "running" <=> caller = u
                      /\ st2[u] \in Onto <=> OnStack(s2, u)
    BY DEF Statuses
  <2>1. (st[u] = "running" <=> cur = u) /\ (st[u] \in Onto <=> OnStack(s, u))
    BY DEF Disciplined, Statuses
  <2>2. u # None
    BY NoneAssumption
  <2>3. CASE u = cur
    BY <1>7, <1>9, <2>2, <2>3 DEF Onto
  <2>4. CASE u # cur /\ u = caller
    BY <1>9, <2>2, <2>4 DEF Onto
  <2>5. CASE u # cur /\ u # caller
    BY <1>8, <2>1, <2>5
  <2> QED BY <2>3, <2>4, <2>5
<1>11. CoTyped(s2, caller)
  BY <1>2, <1>3 DEF Disciplined, CoTyped
<1>12. Disciplined(s2, st2, caller)
  BY <1>2, <1>5, <1>10, <1>11 DEF Disciplined
<1> QED BY <1>12 DEF s2
-----------------------------------------------------------------------------
(***************************************************************************)
(* Native calls are counted exactly, and the floors of yields are counts   *)
(* of the native calls below a coroutine.                                  *)
(***************************************************************************)
NativesBelow(s, n) == {i \in DOMAIN s : i < n /\ s[i].k = "native"}
CountBelow(s, n) == Cardinality(NativesBelow(s, n))

(* What the yield floor is while the coroutine `t` (or none) is current.   *)
FloorFor(s, t, floor) ==
  IF t = None THEN floor = 0
  ELSE \A i \in DOMAIN s : Co(s, i) /\ s[i].t = t => floor = CountBelow(s, i)

Counted(s, cur, floor, calls) ==
  /\ calls = CountBelow(s, Len(s) + 1)
  /\ FloorFor(s, cur, floor)
  /\ \A i \in DOMAIN s : Co(s, i) => FloorFor(s, s[i].caller, s[i].floor)

(* The natives below a position are a finite set, so they can be counted.  *)
LEMMA CountType ==
  ASSUME NEW A, NEW s \in Seq(A)
  PROVE  \A n : IsFiniteSet(NativesBelow(s, n)) /\ CountBelow(s, n) \in Nat
<1>1. IsFiniteSet(1..Len(s)) /\ DOMAIN s = 1..Len(s)
  BY FS_Interval
<1>2. \A n : NativesBelow(s, n) \in SUBSET (1..Len(s))
  BY <1>1 DEF NativesBelow
<1> QED BY <1>1, <1>2, FS_Subset, FS_CardinalityType DEF CountBelow

(* Fewer natives are below a lower position.                               *)
LEMMA CountMonotonic ==
  ASSUME NEW A, NEW s \in Seq(A), NEW m \in Nat, NEW n \in Nat, m <= n
  PROVE  /\ CountBelow(s, m) <= CountBelow(s, n)
         /\ CountBelow(s, m) = CountBelow(s, n)
              => \A i \in DOMAIN s : m <= i /\ i < n => s[i].k # "native"
<1>1. NativesBelow(s, m) \in SUBSET NativesBelow(s, n)
  BY DEF NativesBelow
<1>2. /\ CountBelow(s, m) <= CountBelow(s, n)
      /\ CountBelow(s, m) = CountBelow(s, n) => NativesBelow(s, m) = NativesBelow(s, n)
  BY <1>1, CountType, FS_Subset DEF CountBelow
<1>3. ASSUME NativesBelow(s, m) = NativesBelow(s, n),
             NEW i \in DOMAIN s, m <= i, i < n
      PROVE  s[i].k # "native"
  <2>1. i \notin NativesBelow(s, m)
    BY <1>3 DEF NativesBelow
  <2> QED BY <1>3, <2>1 DEF NativesBelow
<1> QED BY <1>2, <1>3

(* Stacks that agree below a position have as many natives there.          *)
LEMMA CountAgrees ==
  ASSUME NEW A, NEW s \in Seq(A), NEW s2 \in Seq(A), NEW n \in Nat,
         \A i \in 1..(n - 1) :
           /\ i \in DOMAIN s /\ i \in DOMAIN s2
           /\ s[i].k = "native" <=> s2[i].k = "native"
  PROVE  \A m \in 0..n : CountBelow(s2, m) = CountBelow(s, m)
<1> SUFFICES ASSUME NEW m \in 0..n
             PROVE  NativesBelow(s2, m) = NativesBelow(s, m)
  BY DEF CountBelow
<1>1. \A i \in DOMAIN s \cup DOMAIN s2 : i < m => i \in 1..(n - 1)
  OBVIOUS
<1> QED BY <1>1 DEF NativesBelow

(* The coroutines of a stack keep their floors where what is below them    *)
(* stays as it is.                                                         *)
LEMMA FloorsKept ==
  ASSUME NEW A, NEW s \in Seq(A), NEW s2 \in Seq(A), NEW t, NEW floor,
         FloorFor(s, t, floor),
         \A i \in DOMAIN s2 : Co(s2, i) /\ s2[i].t = t =>
            i \in DOMAIN s /\ Co(s, i) /\ s[i].t = t /\ CountBelow(s2, i) = CountBelow(s, i)
  PROVE  FloorFor(s2, t, floor)
BY DEF FloorFor

(* A change of scheduler loops alone leaves the counts of natives right.   *)
LEMMA CountedLoopsGoOn ==
  ASSUME NEW A, NEW s \in Seq(A), NEW s2 \in Seq(A), NEW cur, NEW floor,
         NEW calls, Counted(s, cur, floor, calls), SameButLoops(s, s2)
  PROVE  Counted(s2, cur, floor, calls)
<1>1. DOMAIN s2 = DOMAIN s /\ Len(s2) = Len(s) /\ DOMAIN s = 1..Len(s) /\ Len(s) \in Nat
  BY DEF SameButLoops
<1>2. \A i \in DOMAIN s : /\ Co(s2, i) <=> Co(s, i)
                          /\ Co(s, i) => s2[i] = s[i]
                          /\ s[i].k = "native" <=> s2[i].k = "native"
  BY <1>1 DEF SameButLoops, Co
<1>3. \A m \in 0..(Len(s) + 1) : CountBelow(s2, m) = CountBelow(s, m)
  <2> DEFINE n == Len(s) + 1
  <2>1. n \in Nat /\ \A i \in 1..(n - 1) :
          /\ i \in DOMAIN s /\ i \in DOMAIN s2
          /\ s[i].k = "native" <=> s2[i].k = "native"
    BY <1>1, <1>2
  <2> HIDE DEF n
  <2>2. \A m \in 0..n : CountBelow(s2, m) = CountBelow(s, m)
    BY <2>1, CountAgrees
  <2> QED BY <2>2 DEF n
<1>4. \A t : \A f : FloorFor(s, t, f) => FloorFor(s2, t, f)
  BY <1>1, <1>2, <1>3, FloorsKept
<1>5. calls = CountBelow(s2, Len(s2) + 1)
  BY <1>1, <1>3 DEF Counted
<1> QED BY <1>1, <1>2, <1>4, <1>5 DEF Counted

(* Facts about a stack with an activation more.                            *)
LEMMA CountedAppend ==
  ASSUME NEW A, NEW s \in Seq(A), NEW e \in A
  PROVE  LET s2 == Append(s, e) IN
         /\ s2 \in Seq(A) /\ Len(s2) = Len(s) + 1 /\ Len(s) \in Nat
         /\ DOMAIN s = 1..Len(s) /\ DOMAIN s2 = 1..(Len(s) + 1)
         /\ \A i \in 1..Len(s) : s2[i] = s[i] /\ (Co(s2, i) <=> Co(s, i))
         /\ s2[Len(s) + 1] = e
         /\ \A m \in 0..(Len(s) + 1) : CountBelow(s2, m) = CountBelow(s, m)
         /\ CountBelow(s2, Len(s2) + 1) =
              CountBelow(s, Len(s) + 1) + (IF e.k = "native" THEN 1 ELSE 0)
<1> DEFINE s2 == Append(s, e)
           n  == Len(s) + 1
<1>1. /\ s2 \in Seq(A) /\ Len(s2) = n /\ Len(s) \in Nat
      /\ DOMAIN s = 1..Len(s) /\ DOMAIN s2 = 1..n
      /\ \A i \in 1..Len(s) : s2[i] = s[i]
      /\ s2[n] = e
  BY AppendProperties
<1> HIDE DEF s2
<1>2. \A i \in 1..Len(s) : s2[i] = s[i] /\ (Co(s2, i) <=> Co(s, i))
  BY <1>1 DEF Co
<1>3. \A m \in 0..n : CountBelow(s2, m) = CountBelow(s, m)
  <2>1. n \in Nat /\ \A i \in 1..(n - 1) : i \in DOMAIN s /\ i \in DOMAIN s2 /\ s2[i] = s[i]
    BY <1>1
  <2> QED BY <1>1, <2>1, CountAgrees
<1>4. CASE e.k = "native"
  <2>1. NativesBelow(s2, n + 1) = NativesBelow(s2, n) \cup {n}
    BY <1>1, <1>4 DEF NativesBelow
  <2>2. n \notin NativesBelow(s2, n)
    BY DEF NativesBelow
  <2>3. CountBelow(s2, n + 1) = CountBelow(s2, n) + 1
    BY <1>1, <2>1, <2>2, CountType, FS_AddElement DEF CountBelow
  <2> QED BY <1>1, <1>2, <1>3, <1>4, <2>3 DEF s2
<1>5. CASE e.k # "native"
  <2>1. NativesBelow(s2, n + 1) = NativesBelow(s2, n)
    BY <1>1, <1>5 DEF NativesBelow
  <2>2. CountBelow(s2, n + 1) = CountBelow(s2, n) /\ CountBelow(s, n) \in Nat
    BY <2>1, CountType DEF CountBelow
  <2> QED BY <1>1, <1>2, <1>3, <1>5, <2>2 DEF s2
<1> QED BY <1>4, <1>5

(* Pushing what is not a coroutine counts it if it is a native.            *)
LEMMA CountedPushed ==
  ASSUME NEW A, NEW s \in Seq(A), NEW e \in A, e.k # "co",
         NEW cur, NEW floor, NEW calls, Counted(s, cur, floor, calls)
  PROVE  Counted(Append(s, e), cur, floor,
                 calls + (IF e.k = "native" THEN 1 ELSE 0))
<1> DEFINE s2 == Append(s, e)
<1>1. /\ s2 \in Seq(A) /\ Len(s2) = Len(s) + 1 /\ Len(s) \in Nat
      /\ DOMAIN s = 1..Len(s) /\ DOMAIN s2 = 1..(Len(s) + 1)
      /\ \A i \in 1..Len(s) : s2[i] = s[i] /\ (Co(s2, i) <=> Co(s, i))
      /\ s2[Len(s) + 1] = e
      /\ \A m \in 0..(Len(s) + 1) : CountBelow(s2, m) = CountBelow(s, m)
      /\ CountBelow(s2, Len(s2) + 1) =
           CountBelow(s, Len(s) + 1) + (IF e.k = "native" THEN 1 ELSE 0)
  BY CountedAppend
<1> HIDE DEF s2
<1>2. \A i \in DOMAIN s2 : Co(s2, i) =>
        /\ i \in DOMAIN s /\ Co(s, i) /\ s2[i] = s[i]
        /\ CountBelow(s2, i) = CountBelow(s, i)
  BY <1>1 DEF Co
<1>3. \A t : \A f : FloorFor(s, t, f) => FloorFor(s2, t, f)
  BY <1>1, <1>2, FloorsKept
<1>4. Counted(s2, cur, floor, calls + (IF e.k = "native" THEN 1 ELSE 0))
  BY <1>1, <1>2, <1>3 DEF Counted
<1> QED BY <1>4 DEF s2

(* A coroutine that is entered has the natives below it as its floor.      *)
LEMMA CountedEntered ==
  ASSUME NEW A, NEW s \in Seq(A), NEW e \in A, e.k = "co",
         NEW st, NEW cur, NEW floor, NEW calls, NEW t \in Threads,
         Disciplined(s, st, cur), Counted(s, cur, floor, calls),
         st[t] \notin Onto, e.t = t, e.caller = cur, e.floor = floor
  PROVE  Counted(Append(s, e), t, calls, calls)
<1> DEFINE s2 == Append(s, e)
           n  == Len(s) + 1
<1>1. /\ s2 \in Seq(A) /\ Len(s2) = n /\ Len(s) \in Nat
      /\ DOMAIN s = 1..Len(s) /\ DOMAIN s2 = 1..n
      /\ \A i \in 1..Len(s) : s2[i] = s[i] /\ (Co(s2, i) <=> Co(s, i))
      /\ s2[n] = e
      /\ \A m \in 0..n : CountBelow(s2, m) = CountBelow(s, m)
      /\ CountBelow(s2, Len(s2) + 1) =
           CountBelow(s, Len(s) + 1) + (IF e.k = "native" THEN 1 ELSE 0)
  BY CountedAppend
<1> HIDE DEF s2
<1>2. ~OnStack(s, t) /\ t # None
  BY NoneAssumption DEF Disciplined, Statuses
<1>3. \A i \in DOMAIN s2 : Co(s2, i) /\ s2[i].t # t =>
        /\ i \in DOMAIN s /\ Co(s, i) /\ s2[i] = s[i]
        /\ CountBelow(s2, i) = CountBelow(s, i)
  BY <1>1 DEF Co
<1>4. \A u : \A f : u # t /\ FloorFor(s, u, f) => FloorFor(s2, u, f)
  BY <1>1, <1>3, FloorsKept
<1>5. calls = CountBelow(s, n) /\ calls \in Nat
  BY CountType DEF Counted
<1>6. calls = CountBelow(s2, Len(s2) + 1)
  BY <1>1, <1>5
<1>7. FloorFor(s2, t, calls)
  <2>1. \A i \in DOMAIN s2 : Co(s2, i) /\ s2[i].t = t => i = n
    BY <1>1, <1>2 DEF OnStack
  <2>2. CountBelow(s2, n) = calls
    BY <1>1, <1>5
  <2> QED BY <1>2, <2>1, <2>2 DEF FloorFor
<1>8. ASSUME NEW i \in DOMAIN s2, Co(s2, i)
      PROVE  FloorFor(s2, s2[i].caller, s2[i].floor)
  <2>1. CASE i = n
    <3>1. cur # t
      BY <1>1, <1>2 DEF Disciplined, Innermost, NextBelow, OnStack
    <3> QED BY <1>1, <1>4, <2>1, <3>1 DEF Counted
  <2>2. CASE i # n
    <3>1. i \in DOMAIN s /\ Co(s, i) /\ s2[i] = s[i]
      BY <1>1, <1>8, <2>2
    <3>2. FloorFor(s, s[i].caller, s[i].floor) /\ NextBelow(s, i, s[i].caller)
      BY <3>1 DEF Counted, Disciplined, Callers
    <3>3. \A j \in 1..(i - 1) : j \in DOMAIN s
      BY <1>1, <3>1
    <3>4. s[i].caller # t
      BY <1>2, <3>2, <3>3 DEF NextBelow, OnStack
    <3> QED BY <1>4, <3>1, <3>2, <3>4
  <2> QED BY <2>1, <2>2
<1>9. Counted(s2, t, calls, calls)
  BY <1>6, <1>7, <1>8 DEF Counted
<1> QED BY <1>9 DEF s2

(* What is below position r has the natives it had, and floors for those.  *)
LEMMA CountedBelow ==
  ASSUME NEW A, NEW s \in Seq(A), NEW r \in 1..Len(s),
         NEW cur, NEW floor, NEW calls, Counted(s, cur, floor, calls),
         NEW t, NEW f, FloorFor(s, t, f)
  PROVE  Counted(SubSeq(s, 1, r - 1), t, f, CountBelow(s, r))
<1> DEFINE s2 == SubSeq(s, 1, r - 1)
<1>1. /\ s2 \in Seq(A) /\ Len(s2) = r - 1 /\ DOMAIN s2 = 1..(r - 1)
      /\ \A i \in 1..(r - 1) : s2[i] = s[i]
      /\ Len(s) \in Nat /\ DOMAIN s = 1..Len(s) /\ r \in Nat
  <2>1. \A i \in 1..(r - 1) : s[i] \in A
    OBVIOUS
  <2> QED BY <2>1, SubSeqProperties
<1> HIDE DEF s2
<1>2. \A i \in DOMAIN s2 : i \in DOMAIN s /\ s2[i] = s[i] /\ (Co(s2, i) <=> Co(s, i))
  BY <1>1 DEF Co
<1>3. \A m \in 0..r : CountBelow(s2, m) = CountBelow(s, m)
  <2>1. \A i \in 1..(r - 1) : /\ i \in DOMAIN s /\ i \in DOMAIN s2
                              /\ s[i].k = "native" <=> s2[i].k = "native"
    BY <1>1, <1>2
  <2> QED BY <1>1, <2>1, CountAgrees
<1>4. \A u : \A g : FloorFor(s, u, g) => FloorFor(s2, u, g)
  <2>1. \A i \in DOMAIN s2 : i \in 0..r
    BY <1>1
  <2> QED BY <1>1, <1>2, <1>3, <2>1, FloorsKept
<1>5. CountBelow(s, r) = CountBelow(s2, Len(s2) + 1)
  BY <1>1, <1>3
<1>6. Counted(s2, t, f, CountBelow(s, r))
  BY <1>2, <1>4, <1>5 DEF Counted
<1> QED BY <1>6 DEF s2

(* Popping an activation takes a native off the count.                     *)
LEMMA CountedPopped ==
  ASSUME NEW A, NEW s \in Seq(A), s # << >>,
         NEW cur, NEW floor, NEW calls, Counted(s, cur, floor, calls)
  PROVE  /\ s[Len(s)].k = "native" =>
              calls - 1 \in Nat /\ Counted(Front(s), cur, floor, calls - 1)
         /\ s[Len(s)].k # "native" => Counted(Front(s), cur, floor, calls)
<1> DEFINE r == Len(s)
<1>1. r \in 1..Len(s) /\ r \in Nat /\ DOMAIN s = 1..r
  OBVIOUS
<1>2. Front(s) = SubSeq(s, 1, r - 1)
  BY DEF Front
<1> HIDE DEF r
<1>3. Counted(Front(s), cur, floor, CountBelow(s, r))
  BY <1>1, <1>2, CountedBelow DEF Counted
<1>4. calls = CountBelow(s, r + 1) /\ CountBelow(s, r) \in Nat
  BY CountType DEF Counted, r
<1>5. CASE s[r].k = "native"
  <2>1. NativesBelow(s, r + 1) = NativesBelow(s, r) \cup {r} /\ r \notin NativesBelow(s, r)
    BY <1>1, <1>5 DEF NativesBelow
  <2>2. calls = CountBelow(s, r) + 1
    BY <1>4, <2>1, CountType, FS_AddElement DEF CountBelow
  <2>3. calls - 1 = CountBelow(s, r)
    BY <1>4, <2>2
  <2> QED BY <1>3, <1>4, <1>5, <2>3 DEF r
<1>6. CASE s[r].k # "native"
  <2>1. NativesBelow(s, r + 1) = NativesBelow(s, r)
    BY <1>1, <1>6 DEF NativesBelow
  <2>2. calls = CountBelow(s, r)
    BY <1>4, <2>1 DEF CountBelow
  <2> QED BY <1>3, <1>6, <2>2 DEF r
<1> QED BY <1>5, <1>6

(* Where a yield is possible no native is above the current coroutine.     *)
LEMMA YieldableMeansNoNatives ==
  ASSUME NEW A, NEW s \in Seq(A), NEW r \in DOMAIN s, NEW cur, NEW floor,
         NEW calls, Counted(s, cur, floor, calls), cur # None,
         Co(s, r), s[r].t = cur, calls <= floor
  PROVE  /\ calls = CountBelow(s, r)
         /\ \A i \in DOMAIN s : r <= i => s[i].k # "native"
<1>1. Len(s) \in Nat /\ DOMAIN s = 1..Len(s) /\ r \in Nat /\ r <= Len(s) + 1
  OBVIOUS
<1>2. floor = CountBelow(s, r) /\ calls = CountBelow(s, Len(s) + 1)
  BY DEF Counted, FloorFor
<1>3. CountBelow(s, r) \in Nat /\ CountBelow(s, Len(s) + 1) \in Nat
  BY CountType
<1>4. /\ CountBelow(s, r) <= CountBelow(s, Len(s) + 1)
      /\ CountBelow(s, r) = CountBelow(s, Len(s) + 1) =>
           \A i \in DOMAIN s : r <= i /\ i < Len(s) + 1 => s[i].k # "native"
  BY <1>1, CountMonotonic
<1>5. \A i \in DOMAIN s : i < Len(s) + 1
  BY <1>1
<1> QED BY <1>2, <1>3, <1>4, <1>5
=============================================================================
