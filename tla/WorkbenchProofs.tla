--------------------------- MODULE WorkbenchProofs ---------------------------
(***************************************************************************)
(* Proofs about Workbench, for any machines, tickets, names, databases and *)
(* calls.                                                                  *)
(*                                                                         *)
(* Argument.  DuckDB runs and answers in the order it is asked, so the     *)
(* calls stand in one queue: those whose answer is on its way, then those  *)
(* whose query is.  The worker's step moves a border in that queue and     *)
(* nothing else; a call whose answer is handled leaves it at the front and *)
(* joins it again at the back (Queue).  Everything the page and the        *)
(* worker owe each other is then said by where a call stands:              *)
(*   - DialsApart: attaches that cross no other call share nothing;        *)
(*   - SessionsInOrder: rebuilds end in the order of their databases;      *)
(*   - HeldIsListed, GoneIsNoticed: no answer on its way takes away a      *)
(*     remote that is there, and one takes away what is not;               *)
(*   - RoutesAccounted, RoutesLit: who each route that is up belongs to;   *)
(*   - PeersKnown, SecretsAccounted: whose each secret is, and when it     *)
(*     has to be there.                                                    *)
(***************************************************************************)
EXTENDS Workbench, SequenceTheorems, TLAPS

-----------------------------------------------------------------------------
(* The queue of the calls.                                                 *)

Out == Len(replies) + Len(posted)

\* The call at place i of the queue.
CallAt(i) == IF i <= Len(replies) THEN replies[i].call ELSE posted[i - Len(replies)].call

\* t's query was posted before u's.
Before(t, u) == \E i, j \in 1 .. Out : i < j /\ CallAt(i) = t /\ CallAt(j) = u

\* The worker has call t's query before it.
Pending(t) == \E i \in 1 .. Len(posted) : posted[i].call = t

\* The answers that have not been handled.
Told == {replies[i] : i \in 1 .. Len(replies)}

\* The query a call waits for in each phase.
OpIn(phase) ==
  CASE phase = "creating"    -> "create secret"
    [] phase = "attaching"   -> "attach"
    [] phase = "undoing"     -> "drop secret"
    [] phase = "detaching"   -> "detach"
    [] phase = "dropping"    -> "drop secret"
    [] phase = "reconciling" -> "databases"
    [] phase = "databases"   -> "databases"
    [] phase = "listing"     -> "listing"
    [] phase = "typed"       -> "typed"
    [] phase = "opening"     -> "open"
    [] phase = "preparing"   -> "prepare"

\* A call that is out stands in the queue once, with the query of its phase.
Queue ==
  /\ \A i, j \in 1 .. Out : CallAt(i) = CallAt(j) => i = j
  /\ \A i \in 1 .. Out : at[CallAt(i)] # "idle"
  /\ \A t \in Calls : at[t] # "idle" => \E i \in 1 .. Out : CallAt(i) = t
  /\ \A i \in 1 .. Len(posted) : posted[i].op = OpIn(at[posted[i].call])

QueueTyped ==
  /\ posted \in Seq([op : Queries, call : Calls])
  /\ replies \in Seq([call : Calls, ok : BOOLEAN, live : SUBSET Names])
  /\ at \in [Calls -> Phases]

LEMMA HeadTail ==
  ASSUME NEW S, NEW s \in Seq(S), s # <<>>
  PROVE  /\ Len(s) \in Nat \ {0} /\ Head(s) = s[1] /\ Head(s) \in S
         /\ Tail(s) \in Seq(S) /\ Len(Tail(s)) = Len(s) - 1
         /\ \A i \in 1 .. Len(s) - 1 : Tail(s)[i] = s[i + 1]
BY HeadTailProperties, LenProperties, ElementOfSeq

LEMMA Appended ==
  ASSUME NEW S, NEW s \in Seq(S), NEW e \in S
  PROVE  /\ Append(s, e) \in Seq(S) /\ s \o <<e>> = Append(s, e)
         /\ Len(s) \in Nat /\ Len(Append(s, e)) = Len(s) + 1
         /\ \A i \in 1 .. Len(s) : Append(s, e)[i] = s[i]
         /\ Append(s, e)[Len(s) + 1] = e
<1>1. <<e>> \in Seq(S) /\ Len(<<e>>) = 1 /\ <<e>>[1] = e
  OBVIOUS
<1>2. s \o <<e>> = Append(s, e)
  OBVIOUS
<1> QED BY <1>1, <1>2, AppendProperties, LenProperties

LEMMA Lengths ==
  ASSUME QueueTyped
  PROVE  /\ Len(posted) \in Nat /\ Len(replies) \in Nat /\ Out \in Nat
         /\ \A i \in 1 .. Out : CallAt(i) \in Calls
         /\ \A i \in 1 .. Len(posted) : posted[i].call \in Calls /\ CallAt(Len(replies) + i) = posted[i].call
         /\ \A i \in 1 .. Len(replies) : replies[i].call \in Calls /\ CallAt(i) = replies[i].call
<1>1. Len(posted) \in Nat /\ Len(replies) \in Nat
  BY LenProperties DEF QueueTyped
<1>2. \A i \in 1 .. Len(posted) : posted[i].call \in Calls
  <2>1. \A i \in 1 .. Len(posted) : posted[i] \in [op : Queries, call : Calls]
    BY ElementOfSeq DEF QueueTyped
  <2> QED BY <2>1
<1>3. \A i \in 1 .. Len(replies) : replies[i].call \in Calls
  <2>1. \A i \in 1 .. Len(replies) : replies[i] \in [call : Calls, ok : BOOLEAN, live : SUBSET Names]
    BY ElementOfSeq DEF QueueTyped
  <2> QED BY <2>1
<1> QED BY <1>1, <1>2, <1>3 DEF Out, CallAt

Reply == [call : Calls, ok : BOOLEAN, live : SUBSET Names]

\* What the worker's step does to the queue: r answers the query before it.
Ran(r) ==
  /\ r.call \in Calls /\ at[r.call] # "idle" /\ Pending(r.call)
  /\ \A q \in Told : q.call # r.call
  /\ Told' = Told \cup {r}
  /\ \A t \in Calls : Pending(t)' <=> Pending(t) /\ t # r.call
  /\ \A t, u \in Calls : Before(t, u)' <=> Before(t, u)

LEMMA QueueRuns ==
  ASSUME QueueTyped, Queue, NEW r \in Reply, posted # <<>>, r.call = Running,
         posted' = Tail(posted), replies' = Append(replies, r), at' = at
  PROVE  /\ QueueTyped' /\ Queue' /\ Ran(r)
         /\ Head(posted).op = OpIn(at[r.call])
<1> DEFINE n == Len(posted)
           m == Len(replies)
<1>1. /\ n \in Nat \ {0} /\ Head(posted) = posted[1]
      /\ posted' \in Seq([op : Queries, call : Calls]) /\ Len(posted') = n - 1
      /\ \A i \in 1 .. n - 1 : posted'[i] = posted[i + 1]
  BY HeadTail DEF QueueTyped
<1>2. /\ replies' \in Seq(Reply) /\ m \in Nat /\ Len(replies') = m + 1 /\ replies'[m + 1] = r
      /\ \A i \in 1 .. m : replies'[i] = replies[i]
  <2>1. replies \in Seq(Reply)
    BY DEF QueueTyped, Reply
  <2> QED BY <2>1, Appended
<1>3. /\ Out = m + n /\ Out' = m + n /\ Out \in Nat
      /\ \A i \in 1 .. Out : CallAt(i) \in Calls
      /\ \A i \in 1 .. n : posted[i].call \in Calls /\ CallAt(m + i) = posted[i].call
      /\ \A i \in 1 .. m : replies[i].call \in Calls /\ CallAt(i) = replies[i].call
  BY <1>1, <1>2, Lengths DEF Out
<1>4. QueueTyped'
  BY <1>1, <1>2 DEF QueueTyped, Reply
<1> HIDE DEF n, m
<1>5. \A i \in 1 .. Out : CallAt(i)' = CallAt(i)
  <2> SUFFICES ASSUME NEW i \in 1 .. Out PROVE CallAt(i)' = CallAt(i)
    OBVIOUS
  <2>1. CASE i <= m
    BY <1>1, <1>2, <1>3, <2>1 DEF CallAt, n, m
  <2>2. CASE i = m + 1
    <3>1. CallAt(i)' = r.call
      BY <1>1, <1>2, <1>3, <2>2 DEF CallAt, n, m
    <3>2. CallAt(i) = posted[1].call
      BY <1>1, <1>3, <2>2
    <3> QED BY <1>1, <3>1, <3>2 DEF Running
  <2>3. CASE i > m + 1
    <3>1. i - (m + 1) \in 1 .. n - 1 /\ (i - (m + 1)) + 1 = i - m /\ i - m \in 1 .. n /\ m + (i - m) = i
      BY <1>1, <1>2, <1>3, <2>3
    <3>2. CallAt(i)' = posted'[i - (m + 1)].call
      BY <1>2, <1>3, <2>3, <3>1 DEF CallAt, n, m
    <3>3. CallAt(i) = posted[i - m].call
      BY <1>3, <3>1
    <3> QED BY <1>1, <3>1, <3>2, <3>3
  <2> QED BY <1>1, <1>2, <1>3, <2>1, <2>2, <2>3
<1>6. \A t, u : Before(t, u)' <=> Before(t, u)
  BY <1>3, <1>5 DEF Before
<1>7. r.call \in Calls /\ r.call = posted[1].call /\ r.call = CallAt(m + 1) /\ m + 1 \in 1 .. Out
  BY <1>1, <1>2, <1>3 DEF Running
<1>8. \A i \in 1 .. n - 1 : posted'[i] = posted[i + 1] /\ i + 1 \in 1 .. n
  BY <1>1
<1>9. Queue'
  <2>1. (\A i, j \in 1 .. Out : CallAt(i) = CallAt(j) => i = j)'
    BY <1>3, <1>5 DEF Queue
  <2>2. (\A i \in 1 .. Out : at[CallAt(i)] # "idle")'
    BY <1>3, <1>5 DEF Queue
  <2>3. (\A t \in Calls : at[t] # "idle" => \E i \in 1 .. Out : CallAt(i) = t)'
    BY <1>3, <1>5 DEF Queue
  <2>4. (\A i \in 1 .. Len(posted) : posted[i].op = OpIn(at[posted[i].call]))'
    <3>1. \A i \in 1 .. n - 1 : posted'[i].op = OpIn(at[posted'[i].call])
      BY <1>8 DEF Queue, n
    <3>2. Len(posted') = n - 1 /\ \A p : OpIn(p)' = OpIn(p)
      BY <1>1 DEF OpIn
    <3> QED BY <3>1, <3>2
  <2> QED BY <2>1, <2>2, <2>3, <2>4 DEF Queue
<1>10. Pending(r.call) /\ at[r.call] # "idle"
  <2>1. 1 \in 1 .. n
    BY <1>1
  <2> QED BY <1>7, <2>1 DEF Pending, Queue, n
<1>11. \A i \in 2 .. n : posted[i].call # r.call
  <2> SUFFICES ASSUME NEW i \in 2 .. n PROVE posted[i].call # r.call
    OBVIOUS
  <2>1. i \in 1 .. n /\ m + i \in 1 .. Out /\ m + i # m + 1 /\ CallAt(m + i) = posted[i].call
    BY <1>1, <1>2, <1>3
  <2> QED BY <1>7, <2>1 DEF Queue
<1>12. \A q \in Told : q.call # r.call
  <2> SUFFICES ASSUME NEW i \in 1 .. m PROVE replies[i].call # r.call
    BY DEF Told, m
  <2>1. i \in 1 .. Out /\ i # m + 1 /\ CallAt(i) = replies[i].call
    BY <1>1, <1>2, <1>3
  <2> QED BY <1>7, <2>1 DEF Queue
<1>13. Told' = Told \cup {r}
  <2>1. Told' = {replies'[i] : i \in 1 .. m + 1}
    BY <1>2 DEF Told
  <2>2. Told = {replies'[i] : i \in 1 .. m}
    BY <1>2 DEF Told, m
  <2>3. 1 .. m + 1 = (1 .. m) \cup {m + 1}
    BY <1>2
  <2> QED BY <1>2, <2>1, <2>2, <2>3
<1>14. \A t \in Calls : Pending(t)' <=> Pending(t) /\ t # r.call
  <2> SUFFICES ASSUME NEW t \in Calls PROVE Pending(t)' <=> Pending(t) /\ t # r.call
    OBVIOUS
  <2>1. ASSUME NEW i \in 1 .. n, posted[i].call = t, t # r.call PROVE Pending(t)'
    <3>1. i - 1 \in 1 .. n - 1 /\ (i - 1) + 1 = i
      <4>1. i # 1
        BY <1>7, <2>1
      <4> QED BY <1>1, <4>1
    <3>2. posted'[i - 1].call = t
      BY <1>1, <2>1, <3>1
    <3> QED BY <1>1, <3>1, <3>2 DEF Pending
  <2>2. ASSUME NEW i \in 1 .. n - 1, posted'[i].call = t PROVE Pending(t) /\ t # r.call
    <3>1. i + 1 \in 2 .. n /\ i + 1 \in 1 .. n /\ posted[i + 1].call = t
      BY <1>1, <2>2
    <3> QED BY <1>11, <3>1 DEF Pending, n
  <2> QED BY <1>1, <2>1, <2>2 DEF Pending, n
<1>15. Head(posted).op = OpIn(at[r.call])
  <2>1. 1 \in 1 .. n
    BY <1>1
  <2> QED BY <1>1, <1>7, <2>1 DEF Queue, n
<1> QED BY <1>4, <1>6, <1>7, <1>9, <1>10, <1>12, <1>13, <1>14, <1>15 DEF Ran

\* What handling t's answer does to the queue, whether or not t goes on.
Served(t) ==
  /\ Head(replies) \in Told /\ Head(replies) \in Reply /\ Head(replies).call = t
  /\ \A q \in Told : q.call = t => q = Head(replies)
  /\ ~Pending(t)
  /\ Told' = Told \ {Head(replies)}
  /\ \A u \in Calls : ~Before(u, t) /\ (~Before(t, u))'
  /\ \A u \in Calls : u # t /\ at[u] # "idle" => Before(t, u)
  /\ \A u, v \in Calls \ {t} : Before(u, v)' <=> Before(u, v)

\* t joins the queue, which it is not in.
Joined(t) ==
  /\ ~Pending(t)
  /\ \A q \in Told : q.call # t
  /\ Told' = Told
  /\ \A u \in Calls : ~Before(u, t) /\ ~Before(t, u) /\ (~Before(t, u))'
  /\ \A u, v \in Calls \ {t} : Before(u, v)' <=> Before(u, v)

\* t stands at the back, its query before the worker.
AtTheBack(t) ==
  /\ \A u \in Calls : Pending(u)' <=> Pending(u) \/ u = t
  /\ \A u \in Calls : u # t /\ at[u] # "idle" => Before(u, t)'

\* t is out of the queue.
GoneFrom(t) == \A u \in Calls : Pending(u)' <=> Pending(u)

Moves(t, phase) == at' = [at EXCEPT ![t] = phase]

\* The front of the queue leaves it, the others move up.
Shifts(t) ==
  /\ Out \in Nat \ {0} /\ Out' \in Nat /\ Out - 1 <= Out'
  /\ t = CallAt(1)
  /\ \A i \in 1 .. Out : CallAt(i) \in Calls
  /\ \A i \in 1 .. Out - 1 : CallAt(i)' = CallAt(i + 1)
  /\ \A i \in 1 .. Out' : i > Out - 1 => i = Out /\ CallAt(i)' = t

LEMMA ShiftServes ==
  ASSUME QueueTyped, Queue, NEW t \in Calls, Shifts(t), replies # <<>>,
         Head(replies).call = t, replies' = Tail(replies)
  PROVE  Served(t)
<1> DEFINE m == Len(replies)
<1>1. /\ m \in Nat \ {0} /\ Head(replies) = replies[1] /\ Head(replies) \in Reply
      /\ Len(replies') = m - 1 /\ \A i \in 1 .. m - 1 : replies'[i] = replies[i + 1]
  BY HeadTail DEF QueueTyped, Reply
<1>2. /\ Len(posted) \in Nat /\ Out = m + Len(posted)
      /\ \A i \in 1 .. m : CallAt(i) = replies[i].call
      /\ \A i \in 1 .. Len(posted) : CallAt(m + i) = posted[i].call
  BY Lengths DEF Out
<1> HIDE DEF m
<1>3. \A i \in 2 .. Out : CallAt(i) # t
  <2> SUFFICES ASSUME NEW i \in 2 .. Out PROVE CallAt(i) # t
    OBVIOUS
  <2>1. 1 \in 1 .. Out /\ i \in 1 .. Out /\ i # 1
    BY DEF Shifts
  <2> QED BY <2>1 DEF Queue, Shifts
<1>4. ~Pending(t)
  <2> SUFFICES ASSUME NEW i \in 1 .. Len(posted) PROVE posted[i].call # t
    BY DEF Pending
  <2>1. m + i \in 2 .. Out
    BY <1>1, <1>2
  <2> QED BY <1>2, <1>3, <2>1
<1>5. \A i \in 2 .. m : replies[i].call # t
  <2> SUFFICES ASSUME NEW i \in 2 .. m PROVE replies[i].call # t
    OBVIOUS
  <2>1. i \in 2 .. Out /\ i \in 1 .. m
    BY <1>1, <1>2
  <2> QED BY <1>2, <1>3, <2>1
<1>6. Head(replies) \in Told
  <2>1. 1 \in 1 .. m
    BY <1>1
  <2> QED BY <1>1, <2>1 DEF Told, m
<1>7. \A q \in Told : q.call = t => q = Head(replies)
  <2> SUFFICES ASSUME NEW i \in 1 .. m, replies[i].call = t PROVE i = 1
    BY <1>1 DEF Told, m
  <2> QED BY <1>1, <1>5
<1>8. Told' = Told \ {Head(replies)}
  <2>1. Told' = {replies'[i] : i \in 1 .. m - 1}
    BY <1>1 DEF Told
  <2>2. ASSUME NEW i \in 1 .. m - 1 PROVE replies'[i] \in Told \ {Head(replies)}
    <3>1. i + 1 \in 2 .. m /\ i + 1 \in 1 .. m /\ replies'[i] = replies[i + 1]
      BY <1>1
    <3>2. replies'[i].call # t
      BY <1>5, <3>1
    <3> QED BY <3>1, <3>2 DEF Told, m
  <2>3. ASSUME NEW i \in 1 .. m, replies[i] # Head(replies) PROVE \E j \in 1 .. m - 1 : replies'[j] = replies[i]
    <3>1. i # 1
      BY <1>1, <2>3
    <3>2. i - 1 \in 1 .. m - 1 /\ (i - 1) + 1 = i
      BY <1>1, <3>1
    <3> QED BY <1>1, <3>2
  <2>4. Told = {replies[i] : i \in 1 .. m}
    BY DEF Told, m
  <2> HIDE DEF m
  <2>5. Told \ {Head(replies)} \subseteq Told'
    BY <2>1, <2>3, <2>4
  <2>6. Told' \subseteq Told \ {Head(replies)}
    BY <2>1, <2>2
  <2> QED BY <2>5, <2>6
<1>9. \A u \in Calls : ~Before(u, t)
  BY <1>3 DEF Before, Shifts
<1>10. \A u \in Calls : (~Before(t, u))'
  <2> SUFFICES ASSUME NEW i \in 1 .. Out', NEW j \in 1 .. Out', i < j, CallAt(i)' = t PROVE FALSE
    BY DEF Before
  <2>1. i \in 1 .. Out - 1
    BY DEF Shifts
  <2>2. i + 1 \in 2 .. Out /\ CallAt(i + 1) = t
    BY <2>1 DEF Shifts
  <2> QED BY <1>3, <2>2
<1>11. \A u \in Calls : u # t /\ at[u] # "idle" => Before(t, u)
  <2> SUFFICES ASSUME NEW u \in Calls, u # t, at[u] # "idle" PROVE Before(t, u)
    OBVIOUS
  <2>1. PICK i \in 1 .. Out : CallAt(i) = u
    BY DEF Queue
  <2>2. 1 \in 1 .. Out /\ 1 < i
    BY <2>1 DEF Shifts
  <2> QED BY <2>1, <2>2 DEF Before, Shifts
<1>12. \A u, v \in Calls \ {t} : Before(u, v)' <=> Before(u, v)
  <2> SUFFICES ASSUME NEW u \in Calls \ {t}, NEW v \in Calls \ {t} PROVE Before(u, v)' <=> Before(u, v)
    OBVIOUS
  <2>1. ASSUME NEW i \in 1 .. Out, NEW j \in 1 .. Out, i < j, CallAt(i) = u, CallAt(j) = v PROVE Before(u, v)'
    <3>1. i # 1
      BY <2>1 DEF Shifts
    <3>2. i - 1 \in 1 .. Out - 1 /\ j - 1 \in 1 .. Out - 1 /\ (i - 1) + 1 = i /\ (j - 1) + 1 = j
          /\ i - 1 \in 1 .. Out' /\ j - 1 \in 1 .. Out' /\ i - 1 < j - 1
      BY <2>1, <3>1 DEF Shifts
    <3>3. CallAt(i - 1)' = u /\ CallAt(j - 1)' = v
      BY <2>1, <3>2 DEF Shifts
    <3> QED BY <3>2, <3>3 DEF Before
  <2>2. ASSUME NEW i \in 1 .. Out', NEW j \in 1 .. Out', i < j, CallAt(i)' = u, CallAt(j)' = v PROVE Before(u, v)
    <3>1. i \in 1 .. Out - 1 /\ j \in 1 .. Out - 1
      BY <2>2 DEF Shifts
    <3>2. i + 1 \in 1 .. Out /\ j + 1 \in 1 .. Out /\ i + 1 < j + 1 /\ CallAt(i + 1) = u /\ CallAt(j + 1) = v
      BY <2>2, <3>1 DEF Shifts
    <3> QED BY <3>2 DEF Before
  <2> QED BY <2>1, <2>2 DEF Before
<1> QED BY <1>1, <1>4, <1>6, <1>7, <1>8, <1>9, <1>10, <1>11, <1>12 DEF Served

LEMMA OpsAreQueries == \A phase \in Phases \ {"idle"} : OpIn(phase) \in Queries
BY DEF Phases, OpIn, Queries

\* A query posted, and its call moved to a phase.
LEMMA Posts ==
  ASSUME QueueTyped, NEW t \in Calls, NEW phase \in Phases \ {"idle"},
         Moves(t, phase), posted' = posted \o <<Query(OpIn(phase), t)>>
  PROVE  /\ posted' \in Seq([op : Queries, call : Calls]) /\ at' \in [Calls -> Phases]
         /\ at'[t] = phase /\ \A u \in Calls \ {t} : at'[u] = at[u]
         /\ Len(posted) \in Nat /\ Len(posted') = Len(posted) + 1
         /\ \A i \in 1 .. Len(posted) : posted'[i] = posted[i]
         /\ posted'[Len(posted) + 1].call = t /\ posted'[Len(posted) + 1].op = OpIn(phase)
<1> DEFINE q == Query(OpIn(phase), t)
<1>1. q \in [op : Queries, call : Calls] /\ q.call = t /\ q.op = OpIn(phase)
  BY OpsAreQueries DEF Query
<1> HIDE DEF q
<1>2. /\ posted' \in Seq([op : Queries, call : Calls])
      /\ Len(posted) \in Nat /\ Len(posted') = Len(posted) + 1
      /\ \A i \in 1 .. Len(posted) : posted'[i] = posted[i]
      /\ posted'[Len(posted) + 1] = q
  <2>1. posted' = posted \o <<q>>
    BY DEF q
  <2> QED BY <1>1, <2>1, Appended DEF QueueTyped
<1>3. at' \in [Calls -> Phases] /\ at'[t] = phase /\ \A u \in Calls \ {t} : at'[u] = at[u]
  BY DEF QueueTyped, Moves
<1> QED BY <1>1, <1>2, <1>3

\* t's query at the back of the worker's messages, the others where they were.
LEMMA PostsQueries ==
  ASSUME QueueTyped, Queue, NEW t \in Calls, NEW phase \in Phases \ {"idle"},
         Moves(t, phase), posted' = posted \o <<Query(OpIn(phase), t)>>, ~Pending(t)
  PROVE  /\ (\A i \in 1 .. Len(posted) : posted[i].op = OpIn(at[posted[i].call]))'
         /\ \A u \in Calls : Pending(u)' <=> Pending(u) \/ u = t
<1> DEFINE n == Len(posted)
<1>1. /\ at'[t] = phase /\ \A u \in Calls \ {t} : at'[u] = at[u]
      /\ n \in Nat /\ Len(posted') = n + 1
      /\ \A i \in 1 .. n : posted'[i] = posted[i]
      /\ posted'[n + 1].call = t /\ posted'[n + 1].op = OpIn(phase)
  BY Posts
<1>2. \A i \in 1 .. n : posted[i].call \in Calls \ {t} /\ posted[i].op = OpIn(at[posted[i].call])
  BY Lengths DEF Queue, Pending
<1>3. (\A i \in 1 .. Len(posted) : posted[i].op = OpIn(at[posted[i].call]))'
  <2> SUFFICES ASSUME NEW i \in 1 .. n + 1 PROVE posted'[i].op = OpIn(at'[posted'[i].call])
    BY <1>1 DEF OpIn
  <2> HIDE DEF n
  <2>1. CASE i = n + 1
    BY <1>1, <2>1
  <2>2. CASE i # n + 1
    <3>1. i \in 1 .. n
      BY <1>1, <2>2
    <3> QED BY <1>1, <1>2, <3>1
  <2> QED BY <2>1, <2>2
<1>4. \A u \in Calls : Pending(u)' <=> Pending(u) \/ u = t
  <2> SUFFICES ASSUME NEW u \in Calls PROVE Pending(u)' <=> Pending(u) \/ u = t
    OBVIOUS
  <2>1. Pending(u)' <=> \E i \in 1 .. n + 1 : posted'[i].call = u
    BY <1>1 DEF Pending
  <2>2. Pending(u) <=> \E i \in 1 .. n : posted[i].call = u
    BY DEF Pending
  <2> HIDE DEF n
  <2>3. n + 1 \in 1 .. n + 1 /\ \A i \in 1 .. n : i \in 1 .. n + 1
    BY <1>1
  <2>4. \A i \in 1 .. n + 1 : i = n + 1 \/ i \in 1 .. n
    BY <1>1
  <2> QED BY <1>1, <2>1, <2>2, <2>3, <2>4
<1> QED BY <1>3, <1>4

\* A call whose answer is handled and that goes on is served and queues again.
LEMMA QueueGoesOn ==
  ASSUME QueueTyped, Queue, NEW t \in Calls, NEW before, NEW phase \in Phases \ {"idle"},
         Answered(t, before), Moves(t, phase), posted' = posted \o <<Query(OpIn(phase), t)>>
  PROVE  QueueTyped' /\ Queue' /\ Served(t) /\ AtTheBack(t)
<1> DEFINE n == Len(posted)
           m == Len(replies)
<1>1. /\ m \in Nat \ {0} /\ Head(replies) = replies[1] /\ replies[1].call = t
      /\ replies' \in Seq(Reply) /\ Len(replies') = m - 1
      /\ \A i \in 1 .. m - 1 : replies'[i] = replies[i + 1]
  BY HeadTail DEF QueueTyped, Reply, Answered
<1>2. /\ posted' \in Seq([op : Queries, call : Calls]) /\ at' \in [Calls -> Phases]
      /\ at'[t] = phase /\ \A u \in Calls \ {t} : at'[u] = at[u]
      /\ n \in Nat /\ Len(posted') = n + 1
      /\ \A i \in 1 .. n : posted'[i] = posted[i]
      /\ posted'[n + 1].call = t /\ posted'[n + 1].op = OpIn(phase)
  BY Posts
<1>3. QueueTyped'
  BY <1>1, <1>2 DEF QueueTyped, Reply
<1>4. /\ Out = m + n /\ Out' = m + n
      /\ \A i \in 1 .. Out : CallAt(i) \in Calls
      /\ \A i \in 1 .. m : CallAt(i) = replies[i].call
      /\ \A i \in 1 .. n : CallAt(m + i) = posted[i].call
  BY <1>1, <1>2, Lengths DEF Out
<1>5. \A i \in 1 .. Out - 1 : CallAt(i)' = CallAt(i + 1)
  <2> SUFFICES ASSUME NEW i \in 1 .. Out - 1 PROVE CallAt(i)' = CallAt(i + 1)
    OBVIOUS
  <2>1. CallAt(i)' = IF i <= Len(replies') THEN replies'[i].call ELSE posted'[i - Len(replies')].call
    BY DEF CallAt
  <2> HIDE DEF n, m
  <2>2. CASE i <= m - 1
    <3>1. i \in 1 .. m - 1 /\ i + 1 \in 1 .. m
      BY <1>1, <1>2, <1>4, <2>2
    <3> QED BY <1>1, <1>4, <2>1, <2>2, <3>1
  <2>3. CASE ~(i <= m - 1)
    <3>1. i - (m - 1) \in 1 .. n /\ m + (i - (m - 1)) = i + 1
      BY <1>1, <1>2, <1>4, <2>3
    <3> QED BY <1>1, <1>2, <1>4, <2>1, <2>3, <3>1
  <2> QED BY <2>2, <2>3
<1>6. \A i : i = Out => CallAt(i)' = t
  <2> SUFFICES ASSUME NEW i, i = Out PROVE CallAt(i)' = t
    OBVIOUS
  <2>1. CallAt(i)' = IF i <= Len(replies') THEN replies'[i].call ELSE posted'[i - Len(replies')].call
    BY DEF CallAt
  <2> HIDE DEF n, m
  <2>2. i - (m - 1) = n + 1 /\ ~(i <= m - 1)
    BY <1>1, <1>2, <1>4
  <2> QED BY <1>1, <1>2, <2>1, <2>2, SMTT(30)
<1>7. Shifts(t)
  <2> HIDE DEF n, m
  <2>1. 1 \in 1 .. m /\ Out \in Nat \ {0} /\ Out' = Out
    BY <1>1, <1>2, <1>4
  <2>2. t = CallAt(1)
    BY <1>1, <1>4, <2>1
  <2>3. \A i \in 1 .. Out' : i > Out - 1 => i = Out /\ CallAt(i)' = t
    BY <1>6, <2>1
  <2> QED BY <1>4, <1>5, <2>1, <2>2, <2>3 DEF Shifts
<1>8. Served(t)
  BY <1>7, ShiftServes DEF Answered
<1>9. (\A i \in 1 .. Len(posted) : posted[i].op = OpIn(at[posted[i].call]))'
      /\ \A u \in Calls : Pending(u)' <=> Pending(u) \/ u = t
  BY <1>8, PostsQueries DEF Served
<1> HIDE DEF n, m
<1>10. /\ Out \in Nat \ {0} /\ Out' = Out
       /\ \A i \in 1 .. Out : i = Out \/ (i \in 1 .. Out - 1 /\ i + 1 \in 1 .. Out /\ i + 1 # 1)
  BY <1>1, <1>2, <1>4
<1>11. \A i \in 1 .. Out - 1 : CallAt(i)' \in Calls \ {t}
  <2> SUFFICES ASSUME NEW i \in 1 .. Out - 1 PROVE CallAt(i + 1) \in Calls \ {t}
    BY <1>5
  <2>1. 1 \in 1 .. Out /\ i + 1 \in 1 .. Out /\ i + 1 # 1
    BY <1>10
  <2> QED BY <1>4, <1>7, <2>1 DEF Queue, Shifts
<1>12. Queue'
  <2>1. (\A i, j \in 1 .. Out : CallAt(i) = CallAt(j) => i = j)'
    <3> SUFFICES ASSUME NEW i \in 1 .. Out, NEW j \in 1 .. Out, CallAt(i)' = CallAt(j)' PROVE i = j
      BY <1>10
    <3>1. CASE i = Out /\ j = Out
      BY <3>1
    <3>2. CASE i \in 1 .. Out - 1 /\ j \in 1 .. Out - 1
      <4>1. CallAt(i + 1) = CallAt(j + 1) /\ i + 1 \in 1 .. Out /\ j + 1 \in 1 .. Out
        BY <1>5, <1>10, <3>2
      <4>2. i + 1 = j + 1
        BY <4>1 DEF Queue
      <4> QED BY <1>10, <3>2, <4>2
    <3>3. CASE (i = Out /\ j \in 1 .. Out - 1) \/ (j = Out /\ i \in 1 .. Out - 1)
      BY <1>6, <1>11, <3>3
    <3> QED BY <1>10, <3>1, <3>2, <3>3
  <2>2. (\A i \in 1 .. Out : at[CallAt(i)] # "idle")'
    <3> SUFFICES ASSUME NEW i \in 1 .. Out PROVE at'[CallAt(i)'] # "idle"
      BY <1>10
    <3>1. CASE i = Out
      BY <1>2, <1>6, <3>1
    <3>2. CASE i \in 1 .. Out - 1
      BY <1>2, <1>5, <1>10, <1>11, <3>2 DEF Queue
    <3> QED BY <1>10, <3>1, <3>2
  <2>3. (\A u \in Calls : at[u] # "idle" => \E i \in 1 .. Out : CallAt(i) = u)'
    <3> SUFFICES ASSUME NEW u \in Calls, at'[u] # "idle" PROVE \E i \in 1 .. Out' : CallAt(i)' = u
      OBVIOUS
    <3>1. CASE u = t
      BY <1>6, <1>10, <3>1
    <3>2. CASE u # t
      <4>1. PICK i \in 1 .. Out : CallAt(i) = u
        BY <1>2, <3>2 DEF Queue
      <4>2. i # 1
        BY <1>7, <3>2, <4>1 DEF Shifts
      <4>3. i - 1 \in 1 .. Out - 1 /\ (i - 1) + 1 = i /\ i - 1 \in 1 .. Out'
        BY <1>10, <4>2
      <4> QED BY <1>5, <4>1, <4>3
    <3> QED BY <3>1, <3>2
  <2> QED BY <1>9, <2>1, <2>2, <2>3 DEF Queue
<1>13. \A u \in Calls : u # t /\ at[u] # "idle" => Before(u, t)'
  <2> SUFFICES ASSUME NEW u \in Calls, u # t, at[u] # "idle" PROVE Before(u, t)'
    OBVIOUS
  <2>1. PICK i \in 1 .. Out' : CallAt(i)' = u
    BY <1>2, <1>12 DEF Queue
  <2>2. PICK j \in 1 .. Out' : j = Out
    BY <1>10
  <2>3. i < j /\ CallAt(j)' = t
    BY <1>6, <1>10, <2>1, <2>2
  <2> QED BY <2>1, <2>2, <2>3 DEF Before
<1> QED BY <1>3, <1>8, <1>9, <1>12, <1>13 DEF AtTheBack

\* A call whose answer is handled and that is over is served and gone.
LEMMA QueueLeaves ==
  ASSUME QueueTyped, Queue, NEW t \in Calls, NEW before,
         Answered(t, before), Moves(t, "idle"), posted' = posted
  PROVE  QueueTyped' /\ Queue' /\ Served(t) /\ GoneFrom(t)
<1> DEFINE n == Len(posted)
           m == Len(replies)
<1>1. /\ m \in Nat \ {0} /\ Head(replies) = replies[1] /\ replies[1].call = t
      /\ replies' \in Seq(Reply) /\ Len(replies') = m - 1
      /\ \A i \in 1 .. m - 1 : replies'[i] = replies[i + 1]
  BY HeadTail DEF QueueTyped, Reply, Answered
<1>2. at' \in [Calls -> Phases] /\ at'[t] = "idle" /\ \A u \in Calls \ {t} : at'[u] = at[u]
  BY DEF QueueTyped, Moves, Phases
<1>3. QueueTyped'
  BY <1>1, <1>2 DEF QueueTyped, Reply
<1>4. /\ n \in Nat /\ Out = m + n /\ Out' = m + n - 1
      /\ \A i \in 1 .. Out : CallAt(i) \in Calls
      /\ \A i \in 1 .. m : CallAt(i) = replies[i].call
      /\ \A i \in 1 .. n : CallAt(m + i) = posted[i].call
  BY <1>1, <1>2, Lengths DEF Out
<1>5. \A i \in 1 .. Out - 1 : CallAt(i)' = CallAt(i + 1)
  <2> SUFFICES ASSUME NEW i \in 1 .. Out - 1 PROVE CallAt(i)' = CallAt(i + 1)
    OBVIOUS
  <2>1. CallAt(i)' = IF i <= Len(replies') THEN replies'[i].call ELSE posted[i - Len(replies')].call
    BY DEF CallAt
  <2> HIDE DEF n, m
  <2>2. CASE i <= m - 1
    <3>1. i \in 1 .. m - 1 /\ i + 1 \in 1 .. m
      BY <1>1, <1>4, <2>2
    <3> QED BY <1>1, <1>4, <2>1, <2>2, <3>1
  <2>3. CASE ~(i <= m - 1)
    <3>1. i - (m - 1) \in 1 .. n /\ m + (i - (m - 1)) = i + 1
      BY <1>1, <1>4, <2>3
    <3> QED BY <1>1, <1>4, <2>1, <2>3, <3>1
  <2> QED BY <2>2, <2>3
<1> HIDE DEF n, m
<1>6. /\ Out \in Nat \ {0} /\ Out' = Out - 1
      /\ \A i \in 1 .. Out' : i \in 1 .. Out - 1 /\ i + 1 \in 1 .. Out /\ i + 1 # 1
  BY <1>1, <1>4
<1>7. Shifts(t)
  <2>1. 1 \in 1 .. m /\ Out' \in Nat /\ \A i \in 1 .. Out' : ~(i > Out - 1)
    BY <1>1, <1>6
  <2>2. t = CallAt(1)
    BY <1>1, <1>4, <2>1
  <2> QED BY <1>4, <1>5, <1>6, <2>1, <2>2 DEF Shifts
<1>8. Served(t)
  BY <1>7, ShiftServes DEF Answered
<1>9. GoneFrom(t)
  BY DEF GoneFrom, Pending
<1>10. \A i \in 1 .. Out' : CallAt(i)' \in Calls \ {t} /\ CallAt(i)' = CallAt(i + 1)
  <2> SUFFICES ASSUME NEW i \in 1 .. Out' PROVE CallAt(i + 1) \in Calls \ {t} /\ CallAt(i)' = CallAt(i + 1)
    OBVIOUS
  <2>1. 1 \in 1 .. Out /\ i + 1 \in 1 .. Out /\ i + 1 # 1
    BY <1>6
  <2> QED BY <1>4, <1>5, <1>6, <1>7, <2>1 DEF Queue, Shifts
<1>11. Queue'
  <2>1. (\A i, j \in 1 .. Out : CallAt(i) = CallAt(j) => i = j)'
    <3> SUFFICES ASSUME NEW i \in 1 .. Out', NEW j \in 1 .. Out', CallAt(i)' = CallAt(j)' PROVE i = j
      OBVIOUS
    <3>1. CallAt(i + 1) = CallAt(j + 1) /\ i + 1 \in 1 .. Out /\ j + 1 \in 1 .. Out
      BY <1>6, <1>10
    <3>2. i + 1 = j + 1
      BY <3>1 DEF Queue
    <3> QED BY <1>6, <3>2
  <2>2. (\A i \in 1 .. Out : at[CallAt(i)] # "idle")'
    BY <1>2, <1>6, <1>10 DEF Queue
  <2>3. (\A u \in Calls : at[u] # "idle" => \E i \in 1 .. Out : CallAt(i) = u)'
    <3> SUFFICES ASSUME NEW u \in Calls, at'[u] # "idle" PROVE \E i \in 1 .. Out' : CallAt(i)' = u
      OBVIOUS
    <3>1. u # t
      BY <1>2
    <3>2. PICK i \in 1 .. Out : CallAt(i) = u
      BY <1>2, <3>1 DEF Queue
    <3>3. i # 1
      BY <1>7, <3>1, <3>2 DEF Shifts
    <3>4. i - 1 \in 1 .. Out' /\ (i - 1) + 1 = i
      BY <1>6, <3>3
    <3> QED BY <1>10, <3>2, <3>4
  <2>4. (\A i \in 1 .. Len(posted) : posted[i].op = OpIn(at[posted[i].call]))'
    <3> SUFFICES ASSUME NEW i \in 1 .. Len(posted) PROVE posted[i].op = OpIn(at'[posted[i].call])
      BY DEF OpIn
    <3>1. posted[i].call # t /\ posted[i].call \in Calls
      BY <1>8, Lengths DEF Served, Pending
    <3> QED BY <1>2, <3>1 DEF Queue
  <2> QED BY <2>1, <2>2, <2>3, <2>4 DEF Queue
<1> QED BY <1>3, <1>8, <1>9, <1>11

\* A call that begins joins the queue at the back.
LEMMA QueueJoins ==
  ASSUME QueueTyped, Queue, NEW t \in Calls, NEW phase \in Phases \ {"idle"},
         at[t] = "idle", Moves(t, phase), posted' = posted \o <<Query(OpIn(phase), t)>>,
         replies' = replies
  PROVE  QueueTyped' /\ Queue' /\ Joined(t) /\ AtTheBack(t)
<1> DEFINE n == Len(posted)
           m == Len(replies)
<1>1. /\ posted' \in Seq([op : Queries, call : Calls]) /\ at' \in [Calls -> Phases]
      /\ at'[t] = phase /\ \A u \in Calls \ {t} : at'[u] = at[u]
      /\ n \in Nat /\ Len(posted') = n + 1
      /\ \A i \in 1 .. n : posted'[i] = posted[i]
      /\ posted'[n + 1].call = t /\ posted'[n + 1].op = OpIn(phase)
  BY Posts
<1>2. QueueTyped'
  BY <1>1 DEF QueueTyped
<1>3. /\ m \in Nat /\ Out = m + n /\ Out' = m + n + 1 /\ Out \in Nat /\ Out' = Out + 1
      /\ \A i \in 1 .. Out : CallAt(i) \in Calls
      /\ \A i \in 1 .. m : CallAt(i) = replies[i].call
      /\ \A i \in 1 .. n : CallAt(m + i) = posted[i].call
  BY <1>1, Lengths DEF Out
<1>4. \A i \in 1 .. Out : CallAt(i)' = CallAt(i)
  <2> SUFFICES ASSUME NEW i \in 1 .. Out PROVE CallAt(i)' = CallAt(i)
    OBVIOUS
  <2>1. CallAt(i)' = IF i <= m THEN replies[i].call ELSE posted'[i - m].call
    BY DEF CallAt
  <2>2. CallAt(i) = IF i <= m THEN replies[i].call ELSE posted[i - m].call
    BY DEF CallAt
  <2> HIDE DEF n, m
  <2>3. CASE i <= m
    BY <2>1, <2>2, <2>3
  <2>4. CASE ~(i <= m)
    <3>1. i - m \in 1 .. n
      BY <1>1, <1>3, <2>4
    <3> QED BY <1>1, <2>1, <2>2, <2>4, <3>1
  <2> QED BY <2>3, <2>4
<1>5. \A i : i = Out + 1 => CallAt(i)' = t
  <2> SUFFICES ASSUME NEW i, i = Out + 1 PROVE CallAt(i)' = t
    OBVIOUS
  <2>1. CallAt(i)' = IF i <= m THEN replies[i].call ELSE posted'[i - m].call
    BY DEF CallAt
  <2> HIDE DEF n, m
  <2>2. ~(i <= m) /\ i - m = n + 1
    BY <1>1, <1>3
  <2> QED BY <1>1, <2>1, <2>2
<1>6. \A i \in 1 .. Out : CallAt(i) \in Calls \ {t}
  BY <1>3 DEF Queue
<1>7. ~Pending(t) /\ \A q \in Told : q.call # t
  <2>1. \A i \in 1 .. n : m + i \in 1 .. Out
    <3> HIDE DEF n, m
    <3> QED BY <1>1, <1>3
  <2>2. \A i \in 1 .. m : i \in 1 .. Out
    <3> HIDE DEF n, m
    <3> QED BY <1>1, <1>3
  <2>3. \A i \in 1 .. n : posted[i].call # t
    BY <1>3, <1>6, <2>1
  <2>4. \A i \in 1 .. m : replies[i].call # t
    BY <1>3, <1>6, <2>2
  <2> QED BY <2>3, <2>4 DEF Pending, Told
<1>8. (\A i \in 1 .. Len(posted) : posted[i].op = OpIn(at[posted[i].call]))'
      /\ \A u \in Calls : Pending(u)' <=> Pending(u) \/ u = t
  BY <1>7, PostsQueries
<1> HIDE DEF n, m
<1>9. /\ Out \in Nat /\ Out' = Out + 1
      /\ \A i \in 1 .. Out' : i = Out + 1 \/ i \in 1 .. Out
      /\ \A i \in 1 .. Out : i \in 1 .. Out' /\ i < Out + 1
      /\ Out + 1 \in 1 .. Out'
  BY <1>3
<1>10. Queue'
  <2>1. (\A i, j \in 1 .. Out : CallAt(i) = CallAt(j) => i = j)'
    <3> SUFFICES ASSUME NEW i \in 1 .. Out', NEW j \in 1 .. Out', CallAt(i)' = CallAt(j)' PROVE i = j
      OBVIOUS
    <3>1. CASE i \in 1 .. Out /\ j \in 1 .. Out
      BY <1>4, <3>1 DEF Queue
    <3>2. CASE i = Out + 1 \/ j = Out + 1
      BY <1>4, <1>5, <1>6, <1>9, <3>2
    <3> QED BY <1>9, <3>1, <3>2
  <2>2. (\A i \in 1 .. Out : at[CallAt(i)] # "idle")'
    <3> SUFFICES ASSUME NEW i \in 1 .. Out' PROVE at'[CallAt(i)'] # "idle"
      OBVIOUS
    <3>1. CASE i = Out + 1
      BY <1>1, <1>5, <3>1
    <3>2. CASE i \in 1 .. Out
      BY <1>1, <1>4, <1>6, <3>2 DEF Queue
    <3> QED BY <1>9, <3>1, <3>2
  <2>3. (\A u \in Calls : at[u] # "idle" => \E i \in 1 .. Out : CallAt(i) = u)'
    <3> SUFFICES ASSUME NEW u \in Calls, at'[u] # "idle" PROVE \E i \in 1 .. Out' : CallAt(i)' = u
      OBVIOUS
    <3>1. CASE u = t
      BY <1>5, <1>9, <3>1
    <3>2. CASE u # t
      <4>1. PICK i \in 1 .. Out : CallAt(i) = u
        BY <1>1, <3>2 DEF Queue
      <4> QED BY <1>4, <1>9, <4>1
    <3> QED BY <3>1, <3>2
  <2> QED BY <1>8, <2>1, <2>2, <2>3 DEF Queue
<1>11. AtTheBack(t)
  <2> SUFFICES ASSUME NEW u \in Calls, u # t, at[u] # "idle" PROVE Before(u, t)'
    BY <1>8 DEF AtTheBack
  <2>1. PICK i \in 1 .. Out : CallAt(i) = u
    BY DEF Queue
  <2>2. PICK j \in 1 .. Out' : j = Out + 1
    BY <1>9
  <2>3. i \in 1 .. Out' /\ i < j /\ CallAt(j)' = t /\ CallAt(i)' = u
    BY <1>4, <1>5, <1>9, <2>1, <2>2
  <2> QED BY <2>2, <2>3 DEF Before
<1>12. \A u \in Calls : ~Before(u, t) /\ ~Before(t, u)
  BY <1>6 DEF Before
<1>13. \A u \in Calls : (~Before(t, u))'
  <2> SUFFICES ASSUME NEW i \in 1 .. Out', NEW j \in 1 .. Out', i < j, CallAt(i)' = t PROVE FALSE
    BY DEF Before
  <2>1. i \in 1 .. Out
    BY <1>9
  <2> QED BY <1>4, <1>6, <2>1
<1>14. \A u, v \in Calls \ {t} : Before(u, v)' <=> Before(u, v)
  <2> SUFFICES ASSUME NEW u \in Calls \ {t}, NEW v \in Calls \ {t} PROVE Before(u, v)' <=> Before(u, v)
    OBVIOUS
  <2>1. ASSUME Before(u, v) PROVE Before(u, v)'
    BY <1>4, <1>9, <2>1 DEF Before
  <2>2. ASSUME NEW i \in 1 .. Out', NEW j \in 1 .. Out', i < j, CallAt(i)' = u, CallAt(j)' = v PROVE Before(u, v)
    <3>1. i \in 1 .. Out /\ j \in 1 .. Out
      BY <1>5, <1>9, <2>2
    <3> QED BY <1>4, <2>2, <3>1 DEF Before
  <2> QED BY <2>1, <2>2 DEF Before
<1>15. Told' = Told
  BY DEF Told
<1> QED BY <1>2, <1>7, <1>10, <1>11, <1>12, <1>13, <1>14, <1>15 DEF Joined

-----------------------------------------------------------------------------
(* Every step, with what it does to the queue.                             *)

Removing(t) == at[t] \in {"detaching", "dropping", "reconciling"}
Rebuilding(t) == at[t] \in {"opening", "preparing"}
AtThePrompt(t) == at[t] \in {"typed", "opening"}

\* What a call is working on in the phase it is in.
Shape(phase, j) ==
  /\ phase \in {"creating", "attaching", "undoing", "detaching", "dropping", "reconciling"} =>
       [name |-> j.name, peer |-> j.peer] \in Connection
  /\ phase = "creating" => j.peer \in TokenPeers
  /\ phase = "typed" => j.name \in Names

JobShape == \A t \in Calls : Shape(at[t], job[t])

\* The prompt waits for its statement; `.open` makes the next database.
OnePrompt ==
  /\ \A t, u \in Calls : AtThePrompt(t) /\ AtThePrompt(u) => t = u
  /\ \A t \in Calls : at[t] = "opening" /\ Pending(t) => job[t].session = database + 1

Base == TypeOK /\ Queue /\ JobShape /\ OnePrompt

LEMMA BaseTyped ==
  ASSUME Base
  PROVE  /\ QueueTyped /\ Queue
         /\ database \in Sessions /\ session \in Sessions
         /\ job \in [Calls -> Job] /\ connections \in [Sessions -> SUBSET Connection]
         /\ \A t \in Calls : job[t].session \in Sessions
         /\ Sessions \subseteq Nat
<1>1. /\ QueueTyped /\ Queue
      /\ database \in Sessions /\ session \in Sessions
      /\ job \in [Calls -> Job] /\ connections \in [Sessions -> SUBSET Connection]
  BY DEF Base, TypeOK, SessionTypeOK, QueueTyped
<1>2. \A t \in Calls : job[t].session \in Sessions
  BY <1>1 DEF Job
<1>3. Sessions \subseteq Nat
  BY CountsAssumption DEF Sessions
<1> QED BY <1>1, <1>2, <1>3

RanCreate(r) ==
  LET t == r.call IN
  /\ at[t] = "creating"
  /\ r.ok <=> Connected(t) /\ job[t].peer \notin secrets
  /\ secrets' = IF r.ok THEN secrets \cup {job[t].peer} ELSE secrets
  /\ UNCHANGED <<database, catalogs, strayed, unread>>

RanAttach(r) ==
  LET t == r.call IN
  /\ at[t] = "attaching"
  /\ \/ /\ r.ok /\ Connected(t) /\ job[t].name \notin LiveNames
        /\ job[t].peer \in TokenPeers => job[t].peer \in secrets
        /\ catalogs' = catalogs \cup {[name |-> job[t].name, peer |-> job[t].peer, by |-> "session"]}
        /\ strayed' = strayed \ {job[t].peer}
     \/ ~r.ok /\ UNCHANGED <<catalogs, strayed>>
  /\ UNCHANGED <<database, secrets, unread>>

RanDrop(r) ==
  LET t == r.call IN
  /\ at[t] \in {"undoing", "dropping"}
  /\ secrets' = IF Connected(t) THEN secrets \ {job[t].peer} ELSE secrets
  /\ strayed' = IF at[t] = "undoing" THEN strayed \ {job[t].peer} ELSE strayed
  /\ UNCHANGED <<database, catalogs, unread>>

RanDetach(r) ==
  LET t == r.call IN
  /\ at[t] = "detaching"
  /\ \/ /\ Connected(t)
        /\ catalogs' = {k \in catalogs : k.name # job[t].name}
        /\ strayed' = strayed \cup (PeersNamed(catalogs, job[t].name) \ {job[t].peer})
     \/ /\ strayed' = IF Connected(t) THEN strayed \cup (TokenPeers \cap {job[t].peer}) ELSE strayed
        /\ UNCHANGED catalogs
  /\ UNCHANGED <<database, secrets, unread>>

RanNames(r) ==
  /\ at[r.call] \in {"reconciling", "databases"}
  /\ r.ok <=> Connected(r.call)
  /\ r.ok => r.live = LiveNames
  /\ unread' = IF r.ok THEN {} ELSE unread
  /\ UNCHANGED <<database, catalogs, secrets, strayed>>

RanTyped(r) ==
  LET n == job[r.call].name IN
  /\ at[r.call] = "typed"
  /\ \/ /\ catalogs' = {k \in catalogs : k.name # n}
        /\ strayed' = strayed \cup PeersNamed(catalogs, n)
        /\ \/ r.ok /\ job[r.call].doing = "hand detach" /\ unread' = unread
           \/ unread' = unread \cup {n}
     \/ /\ n \notin LiveNames
        /\ \E k \in Catalog : k.name = n /\ k.by = "hand" /\ catalogs' = catalogs \cup {k}
        /\ strayed' = strayed \cup PeersNamed(connections[database], n)
        /\ UNCHANGED unread
     \/ UNCHANGED <<catalogs, strayed, unread>>
  /\ UNCHANGED <<database, secrets>>

RanOpen(r) ==
  /\ at[r.call] = "opening"
  /\ database' = database + 1
  /\ catalogs' = {} /\ secrets' = {} /\ strayed' = {} /\ unread' = {}

RanOther(r) ==
  /\ at[r.call] \in {"listing", "preparing"}
  /\ at[r.call] = "preparing" /\ r.ok => Connected(r.call)
  /\ UNCHANGED workerVars

Does(r) ==
  \/ RanCreate(r) \/ RanAttach(r) \/ RanDrop(r) \/ RanDetach(r) \/ RanNames(r)
  \/ RanTyped(r) \/ RanOpen(r) \/ RanOther(r)

LEMMA AnswersIsRan ==
  ASSUME Base, posted # <<>>, NEW ok \in BOOLEAN, NEW live \in SUBSET Names,
         posted' = Tail(posted), replies' = Append(replies, [call |-> Running, ok |-> ok, live |-> live]),
         UNCHANGED pageVars
  PROVE  \E r \in Reply :
           /\ r.call = Running /\ r.ok = ok /\ r.live = live
           /\ Ran(r) /\ QueueTyped' /\ Queue'
           /\ Head(posted).op = OpIn(at[r.call])
<1> DEFINE r == [call |-> Running, ok |-> ok, live |-> live]
<1>1. Running \in Calls
  <2>1. Head(posted) \in [op : Queries, call : Calls]
    BY BaseTyped, HeadTail DEF QueueTyped
  <2> QED BY <2>1 DEF Running
<1>2. r \in Reply /\ r.call = Running /\ r.ok = ok /\ r.live = live
  BY <1>1 DEF Reply
<1>3. replies' = Append(replies, r) /\ at' = at
  BY DEF pageVars
<1> HIDE DEF r
<1>4. PICK q \in Reply : q = r
  BY <1>2
<1>5. Ran(q) /\ QueueTyped' /\ Queue' /\ Head(posted).op = OpIn(at[q.call])
  BY <1>2, <1>3, <1>4, BaseTyped, QueueRuns
<1> QED BY <1>2, <1>4, <1>5

LEMMA OpTells ==
  \A phase \in Phases \ {"idle"} :
    /\ OpIn(phase) = "create secret" <=> phase = "creating"
    /\ OpIn(phase) = "attach" <=> phase = "attaching"
    /\ OpIn(phase) = "drop secret" <=> phase \in {"undoing", "dropping"}
    /\ OpIn(phase) = "detach" <=> phase = "detaching"
    /\ OpIn(phase) = "databases" <=> phase \in {"reconciling", "databases"}
    /\ OpIn(phase) = "listing" <=> phase = "listing"
    /\ OpIn(phase) = "typed" <=> phase = "typed"
    /\ OpIn(phase) = "open" <=> phase = "opening"
    /\ OpIn(phase) = "prepare" <=> phase = "preparing"
<1>1. /\ OpIn("creating") = "create secret" /\ OpIn("attaching") = "attach"
      /\ OpIn("undoing") = "drop secret" /\ OpIn("dropping") = "drop secret"
      /\ OpIn("detaching") = "detach" /\ OpIn("reconciling") = "databases"
      /\ OpIn("databases") = "databases" /\ OpIn("listing") = "listing"
      /\ OpIn("typed") = "typed" /\ OpIn("opening") = "open" /\ OpIn("preparing") = "prepare"
  BY DEF OpIn
<1> QED BY <1>1 DEF Phases

LEMMA LiveNamesTyped == ASSUME Base PROVE LiveNames \subseteq Names
BY DEF Base, TypeOK, SessionTypeOK, LiveNames, Catalog

LEMMA WorkerMoves ==
  ASSUME Base, Worker
  PROVE  /\ \E r \in Reply : Ran(r) /\ Does(r) /\ QueueTyped' /\ Queue'
         /\ UNCHANGED <<pageVars, pageState, typed>>
<1>1. at \in [Calls -> Phases] /\ LiveNames \in SUBSET Names /\ {} \in SUBSET Names
      /\ \A t \in Calls : Connected(t) \in BOOLEAN
  BY LiveNamesTyped DEF Base, TypeOK, SessionTypeOK, Connected
<1>2. \A r \in Reply : Ran(r) => at[r.call] \in Phases \ {"idle"}
  BY <1>1 DEF Ran
<1>3. UNCHANGED <<pageVars, pageState, typed>>
  BY DEF Worker, WorkerRunsQuery, WorkerCreatesSecret, WorkerAttaches, WorkerDropsSecret,
         WorkerDetaches, WorkerListsDatabases, WorkerListsTables, WorkerRunsTyped, WorkerOpens,
         WorkerPrepares
<1>4. ASSUME NEW ok \in BOOLEAN, Answers(ok), posted # <<>>
      PROVE  \E r \in Reply : /\ r.call = Running /\ r.ok = ok
                              /\ Ran(r) /\ QueueTyped' /\ Queue' /\ Head(posted).op = OpIn(at[r.call])
                              /\ at[r.call] \in Phases \ {"idle"}
  BY <1>1, <1>2, <1>3, <1>4, AnswersIsRan DEF Answers
<1>5. CASE WorkerCreatesSecret
  <2> DEFINE ok == Connected(Running) /\ job[Running].peer \notin secrets
  <2>1. /\ posted # <<>> /\ Head(posted).op = "create secret" /\ Answers(ok) /\ ok \in BOOLEAN
        /\ secrets' = IF ok THEN secrets \cup {job[Running].peer} ELSE secrets
        /\ UNCHANGED <<database, catalogs, strayed, unread>>
    BY <1>5 DEF WorkerCreatesSecret, Runs
  <2>2. PICK r \in Reply : /\ r.call = Running /\ r.ok = ok
                           /\ Ran(r) /\ QueueTyped' /\ Queue' /\ OpIn(at[r.call]) = "create secret"
                           /\ at[r.call] \in Phases \ {"idle"}
    BY <1>4, <2>1
  <2>3. at[r.call] = "creating"
    BY <2>2, OpTells
  <2>4. RanCreate(r)
    BY <2>1, <2>2, <2>3 DEF RanCreate
  <2> QED BY <1>3, <2>2, <2>4 DEF Does
<1>6. CASE WorkerAttaches
  <2>1. PICK ok \in BOOLEAN :
           /\ posted # <<>> /\ Head(posted).op = "attach" /\ Answers(ok)
           /\ \/ /\ ok /\ Connected(Running) /\ job[Running].name \notin LiveNames
                 /\ job[Running].peer \in TokenPeers => job[Running].peer \in secrets
                 /\ catalogs' = catalogs \cup {[name |-> job[Running].name, peer |-> job[Running].peer, by |-> "session"]}
                 /\ strayed' = strayed \ {job[Running].peer}
              \/ ~ok /\ UNCHANGED <<catalogs, strayed>>
           /\ UNCHANGED <<database, secrets, unread>>
    BY <1>6 DEF WorkerAttaches, Runs
  <2>2. PICK r \in Reply : /\ r.call = Running /\ r.ok = ok
                           /\ Ran(r) /\ QueueTyped' /\ Queue' /\ OpIn(at[r.call]) = "attach"
                           /\ at[r.call] \in Phases \ {"idle"}
    BY <1>4, <2>1
  <2>3. at[r.call] = "attaching"
    BY <2>2, OpTells
  <2>4. RanAttach(r)
    BY <2>1, <2>2, <2>3 DEF RanAttach
  <2> QED BY <1>3, <2>2, <2>4 DEF Does
<1>7. CASE WorkerDropsSecret
  <2>1. /\ posted # <<>> /\ Head(posted).op = "drop secret"
        /\ Answers(Connected(Running)) /\ Connected(Running) \in BOOLEAN
        /\ secrets' = IF Connected(Running) THEN secrets \ {job[Running].peer} ELSE secrets
        /\ strayed' = IF at[Running] = "undoing" THEN strayed \ {job[Running].peer} ELSE strayed
        /\ UNCHANGED <<database, catalogs, unread>>
    BY <1>7 DEF WorkerDropsSecret, Runs, Connected
  <2>2. PICK r \in Reply : /\ r.call = Running
                           /\ Ran(r) /\ QueueTyped' /\ Queue' /\ OpIn(at[r.call]) = "drop secret"
                           /\ at[r.call] \in Phases \ {"idle"}
    BY <1>4, <2>1
  <2>3. at[r.call] \in {"undoing", "dropping"}
    BY <2>2, OpTells
  <2>4. RanDrop(r)
    BY <2>1, <2>2, <2>3 DEF RanDrop
  <2> QED BY <1>3, <2>2, <2>4 DEF Does
<1>8. CASE WorkerDetaches
  <2>1. PICK ok \in BOOLEAN :
           /\ posted # <<>> /\ Head(posted).op = "detach" /\ Answers(ok)
           /\ \/ /\ Connected(Running)
                 /\ catalogs' = {k \in catalogs : k.name # job[Running].name}
                 /\ strayed' = strayed \cup (PeersNamed(catalogs, job[Running].name) \ {job[Running].peer})
              \/ /\ strayed' = IF Connected(Running) THEN strayed \cup (TokenPeers \cap {job[Running].peer}) ELSE strayed
                 /\ UNCHANGED catalogs
           /\ UNCHANGED <<database, secrets, unread>>
    BY <1>8 DEF WorkerDetaches, Runs
  <2>2. PICK r \in Reply : /\ r.call = Running
                           /\ Ran(r) /\ QueueTyped' /\ Queue' /\ OpIn(at[r.call]) = "detach"
                           /\ at[r.call] \in Phases \ {"idle"}
    BY <1>4, <2>1
  <2>3. at[r.call] = "detaching"
    BY <2>2, OpTells
  <2>4. RanDetach(r)
    BY <2>1, <2>2, <2>3 DEF RanDetach
  <2> QED BY <1>3, <2>2, <2>4 DEF Does
<1>9. CASE WorkerListsDatabases
  <2>1. /\ posted # <<>> /\ Head(posted).op = "databases" /\ UNCHANGED <<database, catalogs, secrets, strayed>>
        /\ unread' = IF Connected(Running) THEN {} ELSE unread
        /\ posted' = Tail(posted)
        /\ Connected(Running) =>
             replies' = Append(replies, [call |-> Running, ok |-> TRUE, live |-> LiveNames])
        /\ ~Connected(Running) =>
             replies' = Append(replies, [call |-> Running, ok |-> FALSE, live |-> {}])
    <3>1. /\ posted # <<>> /\ Head(posted).op = "databases" /\ UNCHANGED <<database, catalogs, secrets, strayed>>
          /\ unread' = IF Connected(Running) THEN {} ELSE unread
          /\ posted' = Tail(posted)
      BY <1>9 DEF WorkerListsDatabases, Runs, AnswersNames
    <3>2. replies' = Append(replies, [call |-> Running, ok |-> Connected(Running),
                                      live |-> IF Connected(Running) THEN LiveNames ELSE {}])
      BY <1>9 DEF WorkerListsDatabases, AnswersNames
    <3>3. ASSUME Connected(Running)
          PROVE  replies' = Append(replies, [call |-> Running, ok |-> TRUE, live |-> LiveNames])
      <4>1. Connected(Running) = TRUE
        BY <3>3 DEF Connected
      <4> QED BY <3>2, <4>1, Zenon
    <3>4. ASSUME ~Connected(Running)
          PROVE  replies' = Append(replies, [call |-> Running, ok |-> FALSE, live |-> {}])
      <4>1. Connected(Running) = FALSE
        BY <3>4 DEF Connected
      <4> QED BY <3>2, <4>1, Zenon
    <3> QED BY <3>1, <3>3, <3>4
  <2>2. PICK r \in Reply : /\ r.call = Running
                           /\ r.ok <=> Connected(Running)
                           /\ r.ok => r.live = LiveNames
                           /\ Ran(r) /\ QueueTyped' /\ Queue' /\ Head(posted).op = OpIn(at[r.call])
    <3>1. CASE Connected(Running)
      <4>1. \E r \in Reply : /\ r.call = Running /\ r.ok = TRUE /\ r.live = LiveNames
                             /\ Ran(r) /\ QueueTyped' /\ Queue' /\ Head(posted).op = OpIn(at[r.call])
        BY <1>1, <1>3, <2>1, <3>1, AnswersIsRan
      <4> QED BY <3>1, <4>1
    <3>2. CASE ~Connected(Running)
      <4>1. \E r \in Reply : /\ r.call = Running /\ r.ok = FALSE /\ r.live = {}
                             /\ Ran(r) /\ QueueTyped' /\ Queue' /\ Head(posted).op = OpIn(at[r.call])
        BY <1>1, <1>3, <2>1, <3>2, AnswersIsRan
      <4> QED BY <3>2, <4>1
    <3> QED BY <3>1, <3>2
  <2>3. at[r.call] \in {"reconciling", "databases"}
    <3>1. OpIn(at[r.call]) = "databases" /\ at[r.call] \in Phases \ {"idle"}
      BY <1>2, <2>1, <2>2
    <3> QED BY <3>1, OpTells
  <2>4. RanNames(r)
    BY <2>1, <2>2, <2>3 DEF RanNames
  <2> QED BY <1>3, <2>2, <2>4 DEF Does
<1>10. CASE WorkerListsTables
  <2>1. /\ posted # <<>> /\ Head(posted).op = "listing" /\ UNCHANGED workerVars
        /\ Answers(Connected(Running)) /\ Connected(Running) \in BOOLEAN
    BY <1>10 DEF WorkerListsTables, Runs, Connected
  <2>2. PICK r \in Reply : /\ r.call = Running
                           /\ Ran(r) /\ QueueTyped' /\ Queue' /\ OpIn(at[r.call]) = "listing"
                           /\ at[r.call] \in Phases \ {"idle"}
    BY <1>4, <2>1
  <2>3. at[r.call] = "listing"
    BY <2>2, OpTells
  <2>4. RanOther(r)
    BY <2>1, <2>2, <2>3 DEF RanOther
  <2> QED BY <1>3, <2>2, <2>4 DEF Does
<1>11. CASE WorkerRunsTyped
  <2> DEFINE Did(ok) ==
        LET j == job[Running] IN
        \/ /\ catalogs' = {c \in catalogs : c.name # j.name}
           /\ strayed' = strayed \cup PeersNamed(catalogs, j.name)
           /\ unread' = IF ok /\ j.doing = "hand detach" THEN unread ELSE unread \cup {j.name}
        \/ /\ j.doing = "hand attach"
           /\ j.name \notin LiveNames
           /\ catalogs' = catalogs \cup {[name |-> j.name, peer |-> NoPeer, by |-> "hand"]}
           /\ strayed' = strayed \cup PeersNamed(connections[database], j.name)
           /\ UNCHANGED unread
        \/ UNCHANGED <<catalogs, strayed, unread>>
  <2>1. PICK ok \in BOOLEAN : /\ posted # <<>> /\ Head(posted).op = "typed" /\ Answers(ok)
                              /\ Did(ok) /\ UNCHANGED <<database, secrets>>
    BY <1>11 DEF WorkerRunsTyped, Runs
  <2>2. PICK r \in Reply : /\ r.call = Running /\ r.ok = ok
                           /\ Ran(r) /\ QueueTyped' /\ Queue' /\ OpIn(at[r.call]) = "typed"
                           /\ at[r.call] \in Phases \ {"idle"}
    BY <1>4, <2>1
  <2>3. at[r.call] = "typed"
    BY <2>2, OpTells
  <2> DEFINE n == job[r.call].name
             k == [name |-> n, peer |-> NoPeer, by |-> "hand"]
  <2>4. /\ \/ /\ catalogs' = {c \in catalogs : c.name # n}
              /\ strayed' = strayed \cup PeersNamed(catalogs, n)
              /\ \/ r.ok /\ job[r.call].doing = "hand detach" /\ unread' = unread
                 \/ unread' = unread \cup {n}
           \/ /\ job[r.call].doing = "hand attach" /\ n \notin LiveNames
              /\ catalogs' = catalogs \cup {k}
              /\ strayed' = strayed \cup PeersNamed(connections[database], n)
              /\ UNCHANGED unread
           \/ UNCHANGED <<catalogs, strayed, unread>>
        /\ UNCHANGED <<database, secrets>>
    BY <2>1, <2>2
  <2>5. job[r.call].doing = "hand attach" => n \in Names
    BY <2>2, <2>3 DEF Base, JobShape, Shape, Ran
  <2>6. job[r.call].doing = "hand attach" => k \in Catalog /\ k.name = n /\ k.by = "hand"
    BY <2>5 DEF Catalog
  <2> HIDE DEF k, n
  <2>7. RanTyped(r)
    BY <2>3, <2>4, <2>6 DEF RanTyped, n
  <2> QED BY <1>3, <2>2, <2>7 DEF Does
<1>12. CASE WorkerOpens
  <2>1. /\ posted # <<>> /\ Head(posted).op = "open" /\ Answers(TRUE)
        /\ database' = database + 1 /\ catalogs' = {} /\ secrets' = {} /\ strayed' = {} /\ unread' = {}
    BY <1>12 DEF WorkerOpens, Runs
  <2>2. PICK r \in Reply : /\ r.call = Running
                           /\ Ran(r) /\ QueueTyped' /\ Queue' /\ OpIn(at[r.call]) = "open"
                           /\ at[r.call] \in Phases \ {"idle"}
    BY <1>4, <2>1
  <2>3. at[r.call] = "opening"
    BY <2>2, OpTells
  <2>4. RanOpen(r)
    BY <2>1, <2>2, <2>3 DEF RanOpen
  <2> QED BY <1>3, <2>2, <2>4 DEF Does
<1>13. CASE WorkerPrepares
  <2>1. PICK ok \in BOOLEAN : /\ posted # <<>> /\ Head(posted).op = "prepare" /\ Answers(ok)
                              /\ ok => Connected(Running)
                              /\ UNCHANGED workerVars
    BY <1>13 DEF WorkerPrepares, Runs
  <2>2. PICK r \in Reply : /\ r.call = Running /\ r.ok = ok
                           /\ Ran(r) /\ QueueTyped' /\ Queue' /\ OpIn(at[r.call]) = "prepare"
                           /\ at[r.call] \in Phases \ {"idle"}
    BY <1>4, <2>1
  <2>3. at[r.call] = "preparing"
    BY <2>2, OpTells
  <2>4. RanOther(r)
    BY <2>1, <2>2, <2>3 DEF RanOther
  <2> QED BY <1>3, <2>2, <2>4 DEF Does
<1> QED BY <1>5, <1>6, <1>7, <1>8, <1>9, <1>10, <1>11, <1>12, <1>13 DEF Worker, WorkerRunsQuery

\* Call t is in phase `to` from now on, working on j; the others are where they were.
Turns(t, to, j) ==
  /\ job' = [job EXCEPT ![t] = j]
  /\ at'[t] = to /\ job'[t] = j
  /\ \A u \in Calls \ {t} : at'[u] = at[u] /\ job'[u] = job[u]

Goes(t, from, to, j) == at[t] = from /\ Served(t) /\ AtTheBack(t) /\ Turns(t, to, j)
Ends(t, from) == at[t] = from /\ Served(t) /\ GoneFrom(t) /\ Turns(t, "idle", NoJob)
Starts(t, to, j) == at[t] = "idle" /\ Joined(t) /\ AtTheBack(t) /\ Turns(t, to, j)

LEMMA BecomesTurns ==
  ASSUME Base, NEW t \in Calls, NEW STATE j, NEW to \in Phases, NEW queries, Becomes(t, j, to, queries)
  PROVE  Turns(t, to, j) /\ Moves(t, to) /\ posted' = posted \o queries
<1>1. job \in [Calls -> Job] /\ at \in [Calls -> Phases]
  BY BaseTyped DEF QueueTyped
<1> QED BY <1>1 DEF Becomes, Turns, Moves

LEMMA GoesOn ==
  ASSUME Base, NEW t \in Calls, NEW STATE j, NEW from, NEW to \in Phases \ {"idle"},
         Answered(t, from), Becomes(t, j, to, <<Query(OpIn(to), t)>>)
  PROVE  Goes(t, from, to, j) /\ QueueTyped' /\ Queue'
<1>1. Turns(t, to, j) /\ Moves(t, to) /\ posted' = posted \o <<Query(OpIn(to), t)>>
  BY BecomesTurns
<1>2. QueueTyped' /\ Queue' /\ Served(t) /\ AtTheBack(t)
  BY <1>1, BaseTyped, QueueGoesOn
<1> QED BY <1>1, <1>2 DEF Goes, Answered

LEMMA EndsThere ==
  ASSUME Base, NEW t \in Calls, NEW from, Answered(t, from), Returns(t)
  PROVE  Ends(t, from) /\ QueueTyped' /\ Queue'
<1>1. posted \o <<>> = posted
  BY BaseTyped DEF QueueTyped
<1>2. Becomes(t, NoJob, "idle", <<>>) /\ "idle" \in Phases
  BY DEF Returns, Phases
<1>3. Turns(t, "idle", NoJob) /\ Moves(t, "idle") /\ posted' = posted
  BY <1>1, <1>2, BecomesTurns
<1>4. QueueTyped' /\ Queue' /\ Served(t) /\ GoneFrom(t)
  BY <1>3, BaseTyped, QueueLeaves
<1> QED BY <1>3, <1>4 DEF Ends, Answered

LEMMA StartsThere ==
  ASSUME Base, NEW t \in Calls, NEW STATE j, NEW to \in Phases \ {"idle"},
         Begins(t, j, to, <<Query(OpIn(to), t)>>), replies' = replies
  PROVE  Starts(t, to, j) /\ QueueTyped' /\ Queue'
<1>1. Turns(t, to, j) /\ Moves(t, to) /\ posted' = posted \o <<Query(OpIn(to), t)>> /\ at[t] = "idle"
  BY BecomesTurns DEF Begins
<1>2. QueueTyped' /\ Queue' /\ Joined(t) /\ AtTheBack(t)
  BY <1>1, BaseTyped, QueueJoins
<1> QED BY <1>1, <1>2 DEF Starts

LEMMA OpTable ==
  /\ OpIn("creating") = "create secret" /\ OpIn("attaching") = "attach"
  /\ OpIn("undoing") = "drop secret" /\ OpIn("dropping") = "drop secret"
  /\ OpIn("detaching") = "detach" /\ OpIn("reconciling") = "databases"
  /\ OpIn("databases") = "databases" /\ OpIn("listing") = "listing"
  /\ OpIn("typed") = "typed" /\ OpIn("opening") = "open" /\ OpIn("preparing") = "prepare"
  /\ {"creating", "attaching", "undoing", "dropping", "detaching", "reconciling", "databases",
      "listing", "typed", "opening", "preparing"} = Phases \ {"idle"}
BY DEF OpIn, Phases

Listing(s, doing) == [NoJob EXCEPT !.session = s, !.doing = doing]
AttachJob(p, n) == [session |-> session, name |-> n, peer |-> p, doing |-> "attach"]
DetachJob(c) == [session |-> session, name |-> c.name, peer |-> c.peer, doing |-> "nothing"]
TypedJob(doing, n) == [NoJob EXCEPT !.doing = doing, !.name = n]
OpenJob == [NoJob EXCEPT !.session = database + 1, !.doing = "open"]

\* What each step of the page does, the queue included.
AttachMove(t) ==
  /\ \E p \in Peers, n \in Names :
       /\ ~Already(session, p) /\ UniqueName(session, n) /\ Crosses(p) /\ addWire(t, n)
       /\ Starts(t, IF p \in TokenPeers THEN "creating" ELSE "attaching", AttachJob(p, n))
  /\ UNCHANGED <<workerVars, connections, session, rail, stale>>

CreatedMove(t) ==
  /\ Goes(t, "creating", "attaching", job[t]) /\ Ok
  /\ UNCHANGED <<workerVars, connections, crossed, pageState>>

FailMove(t) ==
  /\ \E from \in {"creating", "attaching"} : Goes(t, from, "undoing", job[t]) /\ ~Ok
  /\ UNCHANGED <<workerVars, connections, crossed, pageState>>

ReturnMove(t) ==
  /\ Goes(t, "attaching", "databases", Listing(session, "nothing")) /\ Ok
  /\ connections' = [connections EXCEPT ![job[t].session] = @ \cup {Record(t)}]
  /\ views' = [n \in Names |-> IF n = job[t].name /\ views[n] = t THEN "live" ELSE views[n]]
  /\ renderConnections
  /\ UNCHANGED <<workerVars, crossed, session, orphans, stale>>

ThrowMove(t) ==
  /\ Ends(t, "undoing")
  /\ syncWires(session)
  /\ UNCHANGED <<workerVars, connections, crossed, session, rail, orphans, stale>>

DetachMove(t) ==
  /\ \E c \in rail : Starts(t, "detaching", DetachJob(c))
  /\ UNCHANGED <<workerVars, connections, crossed, pageState>>

DropMove(t) ==
  /\ \/ Goes(t, "detaching", "dropping", job[t])
     \/ Goes(t, "dropping", "reconciling", job[t])
  /\ UNCHANGED <<workerVars, connections, crossed, pageState>>

\* A reconcile, at the end of a detach or before a listing.
ReconcileMove(t) ==
  /\ \/ Goes(t, "reconciling", "databases", Listing(session, "nothing"))
     \/ Goes(t, "databases", "listing", job[t])
  /\ Reconciled(job[t].session)
  /\ UNCHANGED <<workerVars, crossed, pageState>>

RedrawMove(t) ==
  /\ Ends(t, "listing")
  /\ syncWires(session)
  /\ renderConnections
  /\ UNCHANGED <<workerVars, connections, crossed, session, orphans, stale>>

ListingMove(t) ==
  /\ Starts(t, "databases", Listing(session, "list"))
  /\ UNCHANGED <<workerVars, connections, crossed, pageState>>

TypeMove(t) ==
  /\ ~ShellBusy
  /\ \E n \in Names, doing \in {"hand detach", "buried detach", "hand attach"} :
       Starts(t, "typed", TypedJob(doing, n))
  /\ UNCHANGED <<workerVars, connections, crossed, pageState>>

\* A line that succeeded and looks like DDL is followed by a redraw; another
\* is over.
AfterMove(t) ==
  /\ \/ Goes(t, "typed", "databases", Listing(session, "nothing"))
     \/ Ends(t, "typed") /\ ~(Ok /\ Redraws(job[t].doing))
  /\ UNCHANGED <<workerVars, connections, crossed, pageState>>

OpenMove(t) ==
  /\ ~ShellBusy /\ database < MaxSessions
  /\ Starts(t, "opening", OpenJob)
  /\ UNCHANGED <<workerVars, connections, crossed, pageState>>

RebuildMove(t) ==
  /\ Goes(t, "opening", "preparing", job[t])
  /\ UNCHANGED <<workerVars, connections, crossed, pageState>>

RebuiltMove(t) ==
  /\ Goes(t, "preparing", "databases", Listing(job[t].session, "nothing"))
  /\ session' = job[t].session
  /\ connections' = [connections EXCEPT ![session] = {}]
  /\ stale' = FALSE
  /\ UNCHANGED <<workerVars, crossed, rail, views, orphans>>

RebuildFailsMove(t) ==
  /\ Ends(t, "preparing")
  /\ stale' = TRUE
  /\ UNCHANGED <<workerVars, connections, crossed, session, rail, views, orphans>>

PageMove(t) ==
  \/ AttachMove(t) \/ CreatedMove(t) \/ FailMove(t) \/ ReturnMove(t) \/ ThrowMove(t)
  \/ DetachMove(t) \/ DropMove(t) \/ ReconcileMove(t)
  \/ RedrawMove(t) \/ ListingMove(t)
  \/ TypeMove(t) \/ AfterMove(t)
  \/ OpenMove(t) \/ RebuildMove(t) \/ RebuiltMove(t) \/ RebuildFailsMove(t)

LEMMA PageMoves ==
  ASSUME Base, NEW t \in Calls, Handles(t) \/ Asks(t)
  PROVE  PageMove(t) /\ QueueTyped' /\ Queue'
<1>1. CASE AddRemote(t)
  <2>1. PICK p \in Peers, n \in Names : Attach(t, session, p, n) /\ addWire(t, n)
    BY <1>1 DEF AddRemote
  <2> DEFINE to == IF p \in TokenPeers THEN "creating" ELSE "attaching"
  <2>2. /\ ~Already(session, p) /\ UniqueName(session, n) /\ Crosses(p) /\ replies' = replies
        /\ Begins(t, AttachJob(p, n), to, FirstQuery(t, p))
    BY <2>1 DEF Attach, AttachJob
  <2>3. to \in Phases \ {"idle"} /\ FirstQuery(t, p) = <<Query(OpIn(to), t)>>
    BY OpTable DEF FirstQuery
  <2>4. Starts(t, to, AttachJob(p, n)) /\ QueueTyped' /\ Queue'
    <3> HIDE DEF to
    <3> QED BY <2>2, <2>3, StartsThere
  <2>5. Starts(t, IF p \in TokenPeers THEN "creating" ELSE "attaching", AttachJob(p, n))
    BY <2>4
  <2>6. UNCHANGED <<workerVars, connections, session, rail, stale>>
    BY <1>1, <2>1 DEF AddRemote, Attach
  <2>7. AttachMove(t)
    BY <2>1, <2>2, <2>5, <2>6 DEF AttachMove
  <2> QED BY <2>4, <2>7 DEF PageMove
<1>2. CASE AddRemoteGoesOn(t) /\ AttachGoesOn(t)
  <2>1. Answered(t, "creating") /\ Becomes(t, job[t], "attaching", <<Query(OpIn("attaching"), t)>>)
        /\ "attaching" \in Phases \ {"idle"}
    BY <1>2, OpTable DEF AttachGoesOn, Continues
  <2>2. Goes(t, "creating", "attaching", job[t]) /\ QueueTyped' /\ Queue'
    BY <2>1, GoesOn
  <2>3. CreatedMove(t)
    BY <1>2, <2>2 DEF CreatedMove, AddRemoteGoesOn, AttachGoesOn
  <2> QED BY <2>2, <2>3 DEF PageMove
<1>3. CASE AddRemoteGoesOn(t) /\ AttachFails(t)
  <2>1. PICK from \in {"creating", "attaching"} : Answered(t, from)
    BY <1>3 DEF AttachFails
  <2>2. Becomes(t, job[t], "undoing", <<Query(OpIn("undoing"), t)>>) /\ "undoing" \in Phases \ {"idle"}
    BY <1>3, OpTable DEF AttachFails, Continues
  <2>3. Goes(t, from, "undoing", job[t]) /\ QueueTyped' /\ Queue'
    BY <2>1, <2>2, GoesOn
  <2>4. FailMove(t)
    BY <1>3, <2>3 DEF FailMove, AddRemoteGoesOn, AttachFails
  <2> QED BY <2>3, <2>4 DEF PageMove
<1>4. CASE AddRemoteReturns(t)
  <2>1. /\ Answered(t, "attaching") /\ "databases" \in Phases \ {"idle"}
        /\ Becomes(t, Listing(session, "nothing"), "databases", <<Query(OpIn("databases"), t)>>)
    BY <1>4, OpTable DEF AddRemoteReturns, AttachReturns, ListTables, Listing
  <2>2. Goes(t, "attaching", "databases", Listing(session, "nothing")) /\ QueueTyped' /\ Queue'
    BY <2>1, GoesOn
  <2>3. ReturnMove(t)
    BY <1>4, <2>2 DEF ReturnMove, AddRemoteReturns, AttachReturns
  <2> QED BY <2>2, <2>3 DEF PageMove
<1>5. CASE AddRemoteThrows(t)
  <2>1. Ends(t, "undoing") /\ QueueTyped' /\ Queue'
    BY <1>5, EndsThere DEF AddRemoteThrows, AttachThrows
  <2>2. ThrowMove(t)
    BY <1>5, <2>1 DEF ThrowMove, AddRemoteThrows, AttachThrows
  <2> QED BY <2>1, <2>2 DEF PageMove
<1>6. CASE DropRemote(t)
  <2>1. PICK c \in rail : Detach(t, session, c)
    BY <1>6 DEF DropRemote
  <2>2. /\ Begins(t, DetachJob(c), "detaching", <<Query(OpIn("detaching"), t)>>)
        /\ "detaching" \in Phases \ {"idle"} /\ replies' = replies
    BY <2>1, OpTable DEF Detach, DetachJob
  <2>3. Starts(t, "detaching", DetachJob(c)) /\ QueueTyped' /\ Queue'
    BY <2>2, StartsThere
  <2>4. DetachMove(t)
    BY <1>6, <2>1, <2>3 DEF DetachMove, DropRemote, Detach
  <2> QED BY <2>3, <2>4 DEF PageMove
<1>7. CASE DropRemoteGoesOn(t) /\ DetachGoesOn(t)
  <2>1. Answered(t, "detaching") /\ Becomes(t, job[t], "dropping", <<Query(OpIn("dropping"), t)>>)
        /\ "dropping" \in Phases \ {"idle"}
    BY <1>7, OpTable DEF DetachGoesOn, Continues
  <2>2. Goes(t, "detaching", "dropping", job[t]) /\ QueueTyped' /\ Queue'
    BY <2>1, GoesOn
  <2>3. DropMove(t)
    BY <1>7, <2>2 DEF DropMove, DropRemoteGoesOn, DetachGoesOn
  <2> QED BY <2>2, <2>3 DEF PageMove
<1>8. CASE DropRemoteGoesOn(t) /\ DetachReconciles(t)
  <2>1. Answered(t, "dropping") /\ Becomes(t, job[t], "reconciling", <<Query(OpIn("reconciling"), t)>>)
        /\ "reconciling" \in Phases \ {"idle"}
    BY <1>8, OpTable DEF DetachReconciles, Continues
  <2>2. Goes(t, "dropping", "reconciling", job[t]) /\ QueueTyped' /\ Queue'
    BY <2>1, GoesOn
  <2>3. DropMove(t)
    BY <1>8, <2>2 DEF DropMove, DropRemoteGoesOn, DetachReconciles
  <2> QED BY <2>2, <2>3 DEF PageMove
<1>9. CASE DropRemoteRefreshes(t)
  <2>1. /\ Answered(t, "reconciling") /\ "databases" \in Phases \ {"idle"}
        /\ Becomes(t, Listing(session, "nothing"), "databases", <<Query(OpIn("databases"), t)>>)
    BY <1>9, OpTable DEF DropRemoteRefreshes, DetachReturns, ListTables, Listing
  <2>2. Goes(t, "reconciling", "databases", Listing(session, "nothing")) /\ QueueTyped' /\ Queue'
    BY <2>1, GoesOn
  <2>3. ReconcileMove(t)
    BY <1>9, <2>2 DEF ReconcileMove, DropRemoteRefreshes, DetachReturns
  <2> QED BY <2>2, <2>3 DEF PageMove
<1>10. CASE RefreshGoesOn(t)
  <2>1. /\ Answered(t, "databases") /\ "listing" \in Phases \ {"idle"}
        /\ Becomes(t, job[t], "listing", <<Query(OpIn("listing"), t)>>)
    BY <1>10, OpTable DEF RefreshGoesOn, TablesLists, Continues
  <2>2. Goes(t, "databases", "listing", job[t]) /\ QueueTyped' /\ Queue'
    BY <2>1, GoesOn
  <2>3. ReconcileMove(t)
    BY <1>10, <2>2 DEF ReconcileMove, RefreshGoesOn, TablesLists
  <2> QED BY <2>2, <2>3 DEF PageMove
<1>11. CASE RefreshRedraws(t)
  <2>1. Ends(t, "listing") /\ QueueTyped' /\ Queue'
    BY <1>11, EndsThere DEF RefreshRedraws, TablesReturns
  <2>2. RedrawMove(t)
    BY <1>11, <2>1 DEF RedrawMove, RefreshRedraws, TablesReturns
  <2> QED BY <2>1, <2>2 DEF PageMove
<1>12. CASE ListConnections(t)
  <2>1. /\ Begins(t, Listing(session, "list"), "databases", <<Query(OpIn("databases"), t)>>)
        /\ "databases" \in Phases \ {"idle"} /\ replies' = replies
    BY <1>12, OpTable DEF ListConnections, Tables, Listing
  <2>2. Starts(t, "databases", Listing(session, "list")) /\ QueueTyped' /\ Queue'
    BY <2>1, StartsThere
  <2>3. ListingMove(t)
    BY <1>12, <2>2 DEF ListingMove, ListConnections, Tables
  <2> QED BY <2>2, <2>3 DEF PageMove
<1>13. CASE ShellTypes(t)
  <2>1. PICK n \in Names, doing \in {"hand detach", "buried detach", "hand attach"} : Types(t, doing, n)
    BY <1>13 DEF ShellTypes
  <2>2. /\ Begins(t, TypedJob(doing, n), "typed", <<Query(OpIn("typed"), t)>>)
        /\ "typed" \in Phases \ {"idle"} /\ replies' = replies
    BY <2>1, OpTable DEF Types, TypedJob
  <2>3. Starts(t, "typed", TypedJob(doing, n)) /\ QueueTyped' /\ Queue'
    BY <2>2, StartsThere
  <2>4. TypeMove(t)
    BY <1>13, <2>1, <2>3 DEF TypeMove, ShellTypes, Types
  <2> QED BY <2>3, <2>4 DEF PageMove
<1>14. CASE AfterQuery(t) \/ QueryThrows(t)
  <2>1. Answered(t, "typed") /\ UNCHANGED <<workerVars, connections, crossed, pageState>>
    BY <1>14 DEF AfterQuery, QueryThrows, TypedReturns
  <2>2. CASE Ok /\ Redraws(job[t].doing)
    <3>1. /\ "databases" \in Phases \ {"idle"}
          /\ Becomes(t, Listing(session, "nothing"), "databases", <<Query(OpIn("databases"), t)>>)
      BY <1>14, <2>2, OpTable DEF AfterQuery, QueryThrows, ListTables, Listing
    <3>2. Goes(t, "typed", "databases", Listing(session, "nothing")) /\ QueueTyped' /\ Queue'
      BY <2>1, <3>1, GoesOn
    <3> QED BY <2>1, <3>2 DEF AfterMove, PageMove
  <2>3. CASE ~(Ok /\ Redraws(job[t].doing))
    <3>1. Returns(t)
      BY <1>14, <2>3 DEF AfterQuery, QueryThrows
    <3>2. Ends(t, "typed") /\ QueueTyped' /\ Queue'
      BY <2>1, <3>1, EndsThere
    <3> QED BY <2>1, <2>3, <3>2 DEF AfterMove, PageMove
  <2> QED BY <2>2, <2>3
<1>15. CASE ShellOpens(t)
  <2>1. /\ Begins(t, OpenJob, "opening", <<Query(OpIn("opening"), t)>>)
        /\ "opening" \in Phases \ {"idle"} /\ replies' = replies
    BY <1>15, OpTable DEF ShellOpens, OpenJob
  <2>2. Starts(t, "opening", OpenJob) /\ QueueTyped' /\ Queue'
    BY <2>1, StartsThere
  <2>3. OpenMove(t)
    BY <1>15, <2>2 DEF OpenMove, ShellOpens
  <2> QED BY <2>2, <2>3 DEF PageMove
<1>16. CASE Rebuild(t)
  <2>1. /\ Answered(t, "opening") /\ "preparing" \in Phases \ {"idle"}
        /\ Becomes(t, job[t], "preparing", <<Query(OpIn("preparing"), t)>>)
    BY <1>16, OpTable DEF Rebuild, Continues
  <2>2. Goes(t, "opening", "preparing", job[t]) /\ QueueTyped' /\ Queue'
    BY <2>1, GoesOn
  <2>3. RebuildMove(t)
    BY <1>16, <2>2 DEF RebuildMove, Rebuild
  <2> QED BY <2>2, <2>3 DEF PageMove
<1>17. CASE Rebuilt(t)
  <2>1. /\ Answered(t, "preparing") /\ "databases" \in Phases \ {"idle"}
        /\ Becomes(t, Listing(job[t].session, "nothing"), "databases", <<Query(OpIn("databases"), t)>>)
    BY <1>17, OpTable DEF Rebuilt, ListTables, Listing
  <2>2. Goes(t, "preparing", "databases", Listing(job[t].session, "nothing")) /\ QueueTyped' /\ Queue'
    BY <2>1, GoesOn
  <2>3. RebuiltMove(t)
    BY <1>17, <2>2 DEF RebuiltMove, Rebuilt
  <2> QED BY <2>2, <2>3 DEF PageMove
<1>18. CASE RebuildFails(t)
  <2>1. Ends(t, "preparing") /\ QueueTyped' /\ Queue'
    BY <1>18, EndsThere DEF RebuildFails
  <2>2. RebuildFailsMove(t)
    BY <1>18, <2>1 DEF RebuildFailsMove, RebuildFails
  <2> QED BY <2>1, <2>2 DEF PageMove
<1>19. \/ (AddRemoteGoesOn(t) /\ AttachGoesOn(t)) \/ (AddRemoteGoesOn(t) /\ AttachFails(t))
       \/ AddRemoteReturns(t) \/ AddRemoteThrows(t)
       \/ (DropRemoteGoesOn(t) /\ DetachGoesOn(t)) \/ (DropRemoteGoesOn(t) /\ DetachReconciles(t))
       \/ DropRemoteRefreshes(t) \/ RefreshGoesOn(t) \/ RefreshRedraws(t) \/ AfterQuery(t) \/ QueryThrows(t)
       \/ Rebuild(t) \/ Rebuilt(t) \/ RebuildFails(t)
       \/ AddRemote(t) \/ DropRemote(t) \/ ListConnections(t) \/ ShellTypes(t) \/ ShellOpens(t)
  BY DEF Handles, Asks, AddRemoteGoesOn, DropRemoteGoesOn
<1> QED BY <1>1, <1>2, <1>3, <1>4, <1>5, <1>6, <1>7, <1>8, <1>9, <1>10, <1>11, <1>12, <1>13,
           <1>14, <1>15, <1>16, <1>17, <1>18, <1>19

-----------------------------------------------------------------------------
(* Types, and what each call works on.                                     *)

LEMMA InitBase == Init => Base
<1> SUFFICES ASSUME Init PROVE Base
  OBVIOUS
<1> USE DEF Init, SessionInit
<1>1. 1 \in Sessions /\ NoJob \in Job
  BY CountsAssumption DEF NoJob, Job, Sessions
<1>2. /\ posted \in Seq([op : Queries, call : Calls])
      /\ replies \in Seq([call : Calls, ok : BOOLEAN, live : SUBSET Names])
      /\ Len(posted) = 0 /\ Len(replies) = 0
  OBVIOUS
<1>3. TypeOK
  <2>1. SessionTypeOK
    BY <1>1, <1>2 DEF SessionTypeOK, Phases
  <2>2. session \in Sessions /\ rail \subseteq Connection /\ orphans \subseteq Names /\ stale \in BOOLEAN
    BY <1>1
  <2>3. views \in [Names -> {"none", "live"} \cup Calls]
    OBVIOUS
  <2>4. typed \in 0 .. MaxTyped
    BY TypedAssumption
  <2> QED BY <2>1, <2>2, <2>3, <2>4 DEF TypeOK
<1>4. Queue
  BY <1>2 DEF Queue, Out
<1>5. JobShape /\ OnePrompt
  BY DEF JobShape, Shape, OnePrompt, AtThePrompt
<1> QED BY <1>3, <1>4, <1>5 DEF Base

\* The prompt counts its statements up to MaxTyped.
LEMMA CountsTyped ==
  ASSUME Base, [Next]_vars
  PROVE  typed' \in 0 .. MaxTyped
<1>1. typed \in 0 .. MaxTyped
  BY DEF Base, TypeOK
<1>2. typed' = typed \/ (typed < MaxTyped /\ typed' = typed + 1)
  <2>1. CASE UNCHANGED vars
    BY <2>1 DEF vars
  <2>2. CASE Worker
    BY <2>2, WorkerMoves
  <2>3. ASSUME NEW t \in Calls, Handles(t) \/ Asks(t)
        PROVE  typed' = typed \/ (typed < MaxTyped /\ typed' = typed + 1)
    <3>1. CASE Handles(t)
      BY <3>1 DEF Handles, AddRemoteGoesOn, AddRemoteReturns, AddRemoteThrows, DropRemoteGoesOn,
             DropRemoteRefreshes, RefreshGoesOn, RefreshRedraws, AfterQuery, QueryThrows,
             Rebuild, Rebuilt, RebuildFails
    <3>2. CASE Asks(t)
      BY <3>2 DEF Asks, AddRemote, DropRemote, ListConnections, ShellTypes, ShellOpens
    <3> QED BY <2>3, <3>1, <3>2
  <2> QED BY <2>1, <2>2, <2>3 DEF Next
<1> QED BY <1>1, <1>2, TypedAssumption

LEMMA WorkerBase ==
  ASSUME Base, Worker
  PROVE  Base'
<1>1. PICK r \in Reply : Ran(r) /\ Does(r) /\ QueueTyped' /\ Queue'
  BY WorkerMoves
<1>2. UNCHANGED <<connections, at, job, crossed, session, rail, views, orphans, stale, typed>>
  BY WorkerMoves DEF pageVars, pageState
<1> DEFINE t == r.call
<1>3. t \in Calls /\ at[t] # "idle" /\ Pending(t) /\ Shape(at[t], job[t])
      /\ \A u \in Calls : Pending(u)' <=> Pending(u) /\ u # t
  BY <1>1 DEF Ran, Base, JobShape
<1>4. /\ database \in Sessions /\ catalogs \subseteq Catalog
      /\ secrets \subseteq TokenPeers /\ strayed \subseteq TokenPeers /\ unread \subseteq Names
  BY DEF Base, TypeOK, SessionTypeOK
<1>5. /\ database' \in Sessions /\ catalogs' \subseteq Catalog
      /\ secrets' \subseteq TokenPeers /\ strayed' \subseteq TokenPeers /\ unread' \subseteq Names
  <2> HIDE DEF t
  <2>1. CASE RanCreate(r)
    BY <1>3, <1>4, <2>1 DEF RanCreate, Shape, t
  <2>2. CASE RanAttach(r)
    <3>1. [name |-> job[t].name, peer |-> job[t].peer] \in Connection
      BY <1>3, <2>2 DEF RanAttach, Shape, t
    <3>2. [name |-> job[t].name, peer |-> job[t].peer, by |-> "session"] \in Catalog
      BY <3>1 DEF Connection, Catalog
    <3> QED BY <1>4, <2>2, <3>2 DEF RanAttach, t
  <2>3. CASE RanDrop(r)
    BY <1>4, <2>3 DEF RanDrop
  <2>4. CASE RanDetach(r)
    BY <1>4, <2>4 DEF RanDetach, PeersNamed
  <2>5. CASE RanNames(r) \/ RanOther(r)
    BY <1>4, <2>5 DEF RanNames, RanOther, workerVars
  <2>6. CASE RanTyped(r)
    <3>1. job[t].name \in Names
      BY <1>3, <2>6 DEF RanTyped, Shape, t
    <3> QED BY <1>4, <2>6, <3>1 DEF RanTyped, PeersNamed, t
  <2>7. CASE RanOpen(r)
    <3>1. job[t].session = database + 1 /\ job[t].session \in Sessions
      BY <1>3, <2>7, BaseTyped DEF RanOpen, Base, OnePrompt, t
    <3> QED BY <2>7, <3>1 DEF RanOpen
  <2> QED BY <1>1, <2>1, <2>2, <2>3, <2>4, <2>5, <2>6, <2>7 DEF Does
<1>6. TypeOK'
  <2>1. SessionTypeOK'
    BY <1>1, <1>2, <1>5 DEF Base, TypeOK, SessionTypeOK, QueueTyped
  <2> QED BY <1>2, <2>1 DEF Base, TypeOK
<1>7. JobShape'
  BY <1>2 DEF Base, JobShape, Shape
<1>8. OnePrompt'
  <2>1. (\A u, v \in Calls : AtThePrompt(u) /\ AtThePrompt(v) => u = v)'
    BY <1>2 DEF Base, OnePrompt, AtThePrompt
  <2>2. ASSUME NEW u \in Calls, at[u] = "opening", Pending(u), u # t PROVE job[u].session = database' + 1
    <3>1. at[t] # "opening"
      BY <1>3, <2>2 DEF Base, OnePrompt, AtThePrompt
    <3>2. database' = database
      BY <1>1, <3>1 DEF Does, RanCreate, RanAttach, RanDrop, RanDetach, RanNames, RanTyped, RanOpen,
                RanOther, workerVars
    <3> QED BY <2>2, <3>2 DEF Base, OnePrompt
  <2> QED BY <1>2, <1>3, <2>1, <2>2 DEF OnePrompt
<1> QED BY <1>1, <1>6, <1>7, <1>8 DEF Base

LEMMA JobsTyped ==
  ASSUME Base
  PROVE  /\ NoJob \in Job /\ OpenJob.session = database + 1 /\ NoJob.session = 1
         /\ \A s \in Sessions, doing \in {"nothing", "list"} :
              Listing(s, doing) \in Job /\ Listing(s, doing).session = s /\ Listing(s, doing).peer = NoPeer
         /\ \A p \in Peers, n \in Names :
              /\ AttachJob(p, n) \in Job
              /\ AttachJob(p, n).session = session /\ AttachJob(p, n).peer = p /\ AttachJob(p, n).name = n
         /\ \A c \in Connection :
              /\ DetachJob(c) \in Job
              /\ DetachJob(c).session = session /\ DetachJob(c).peer = c.peer /\ DetachJob(c).name = c.name
         /\ \A n \in Names, doing \in {"hand detach", "buried detach", "hand attach"} :
              /\ TypedJob(doing, n) \in Job
              /\ TypedJob(doing, n).session = 1 /\ TypedJob(doing, n).name = n
         /\ database < MaxSessions => OpenJob \in Job
<1>1. session \in Sessions /\ 1 \in Sessions
  <2>1. 1 \in Sessions
    BY CountsAssumption DEF Sessions
  <2> QED BY <2>1, BaseTyped
<1>0. database < MaxSessions => database + 1 \in Sessions
  <2>1. database \in Sessions
    BY BaseTyped
  <2> QED BY <2>1, CountsAssumption DEF Sessions
<1> USE DEF NoJob, Job
<1>2. /\ NoJob \in Job /\ OpenJob.session = database + 1 /\ NoJob.session = 1
      /\ \A s \in Sessions, doing \in {"nothing", "list"} :
           Listing(s, doing) \in Job /\ Listing(s, doing).session = s /\ Listing(s, doing).peer = NoPeer
  <2>1. NoJob \in Job /\ OpenJob.session = database + 1 /\ NoJob.session = 1
    BY <1>1 DEF OpenJob
  <2>2. ASSUME NEW s \in Sessions, NEW doing \in {"nothing", "list"}
        PROVE  Listing(s, doing) \in Job /\ Listing(s, doing).session = s /\ Listing(s, doing).peer = NoPeer
    BY DEF Listing
  <2> QED BY <2>1, <2>2
<1>3. \A p \in Peers, n \in Names :
        /\ AttachJob(p, n) \in Job
        /\ AttachJob(p, n).session = session /\ AttachJob(p, n).peer = p /\ AttachJob(p, n).name = n
  BY <1>1 DEF AttachJob
<1>4. \A c \in Connection :
        /\ DetachJob(c) \in Job
        /\ DetachJob(c).session = session /\ DetachJob(c).peer = c.peer /\ DetachJob(c).name = c.name
  BY <1>1 DEF DetachJob, Connection
<1>5. \A n \in Names, doing \in {"hand detach", "buried detach", "hand attach"} :
        /\ TypedJob(doing, n) \in Job
        /\ TypedJob(doing, n).session = 1 /\ TypedJob(doing, n).name = n
  BY <1>1 DEF TypedJob
<1>6. database < MaxSessions => OpenJob \in Job
  <2>1. database < MaxSessions => database + 1 \in Sessions
    BY <1>0
  <2>2. ASSUME database + 1 \in Sessions PROVE OpenJob \in Job
    BY <2>2 DEF OpenJob
  <2> QED BY <2>1, <2>2
<1> QED BY <1>2, <1>3, <1>4, <1>5, <1>6

LEMMA TurnsJobs ==
  ASSUME Base, NEW t \in Calls, NEW STATE j, NEW to, Turns(t, to, j), j \in Job, Shape(to, j)
  PROVE  JobShape' /\ job' \in [Calls -> Job]
<1>1. job' \in [Calls -> Job]
  BY BaseTyped DEF Turns
<1>2. \A u \in Calls : Shape(at'[u], job'[u])
  BY DEF Base, JobShape, Turns
<1>3. JobShape'
  BY <1>2 DEF JobShape, Shape
<1> QED BY <1>1, <1>3

LEMMA PageJobs ==
  ASSUME Base, NEW t \in Calls, PageMove(t)
  PROVE  JobShape' /\ job' \in [Calls -> Job]
<1>1. /\ \A s \in Sessions : Listing(s, "nothing") \in Job /\ Listing(s, "list") \in Job
      /\ NoJob \in Job /\ session \in Sessions /\ job[t] \in Job /\ job[t].session \in Sessions
      /\ Shape(at[t], job[t])
  BY JobsTyped, BaseTyped DEF Base, JobShape
<1>2. /\ \A j : Shape("idle", j) /\ Shape("databases", j) /\ Shape("listing", j) /\ Shape("opening", j) /\ Shape("preparing", j)
      /\ \A j : Shape("creating", j) => Shape("attaching", j) /\ Shape("undoing", j)
      /\ \A j : Shape("attaching", j) => Shape("undoing", j)
      /\ \A j : Shape("detaching", j) => Shape("dropping", j)
      /\ \A j : Shape("dropping", j) => Shape("reconciling", j)
  BY DEF Shape
<1>3. CASE AttachMove(t)
  <2>1. PICK p \in Peers, n \in Names :
          Starts(t, IF p \in TokenPeers THEN "creating" ELSE "attaching", AttachJob(p, n))
    BY <1>3 DEF AttachMove
  <2>2. AttachJob(p, n) \in Job /\ AttachJob(p, n).peer = p /\ AttachJob(p, n).name = n
    BY JobsTyped
  <2> DEFINE to == IF p \in TokenPeers THEN "creating" ELSE "attaching"
  <2>3. Shape(to, AttachJob(p, n))
    BY <2>2 DEF Shape, Connection
  <2> HIDE DEF to
  <2>4. Turns(t, to, AttachJob(p, n))
    BY <2>1 DEF Starts, to
  <2> QED BY <2>2, <2>3, <2>4, TurnsJobs
<1>4. CASE DetachMove(t)
  <2>1. PICK c \in rail : Turns(t, "detaching", DetachJob(c))
    BY <1>4 DEF DetachMove, Starts
  <2>2. c \in Connection
    BY DEF Base, TypeOK
  <2>3. DetachJob(c) \in Job /\ DetachJob(c).peer = c.peer /\ DetachJob(c).name = c.name
    BY <2>2, JobsTyped
  <2>4. Shape("detaching", DetachJob(c))
    BY <2>2, <2>3 DEF Shape, Connection
  <2> QED BY <2>1, <2>3, <2>4, TurnsJobs
<1>5. CASE TypeMove(t)
  <2>1. PICK n \in Names, doing \in {"hand detach", "buried detach", "hand attach"} : Turns(t, "typed", TypedJob(doing, n))
    BY <1>5 DEF TypeMove, Starts
  <2>2. TypedJob(doing, n) \in Job /\ TypedJob(doing, n).name = n
    BY JobsTyped
  <2>3. Shape("typed", TypedJob(doing, n))
    BY <2>2 DEF Shape
  <2> QED BY <2>1, <2>2, <2>3, TurnsJobs
<1>6. CASE OpenMove(t)
  <2>1. Turns(t, "opening", OpenJob) /\ OpenJob \in Job
    BY <1>6, JobsTyped DEF OpenMove, Starts
  <2> QED BY <1>2, <2>1, TurnsJobs
<1>7. CASE CreatedMove(t)
  BY <1>1, <1>2, <1>7, TurnsJobs DEF CreatedMove, Goes
<1>8. CASE FailMove(t)
  BY <1>1, <1>2, <1>8, TurnsJobs DEF FailMove, Goes
<1>9. CASE DropMove(t)
  BY <1>1, <1>2, <1>9, TurnsJobs DEF DropMove, Goes
<1>10. CASE ReconcileMove(t)
  BY <1>1, <1>2, <1>10, TurnsJobs DEF ReconcileMove, Goes
<1>11. CASE RebuildMove(t)
  BY <1>1, <1>2, <1>11, TurnsJobs DEF RebuildMove, Goes
<1>12. CASE ReturnMove(t)
  BY <1>1, <1>2, <1>12, TurnsJobs DEF ReturnMove, Goes
<1>13. CASE AfterMove(t)
  <2>1. CASE Goes(t, "typed", "databases", Listing(session, "nothing"))
    BY <1>1, <1>2, <2>1, TurnsJobs DEF Goes
  <2>2. CASE Ends(t, "typed")
    BY <1>1, <1>2, <2>2, TurnsJobs DEF Ends
  <2> QED BY <1>13, <2>1, <2>2 DEF AfterMove
<1>14. CASE ListingMove(t)
  BY <1>1, <1>2, <1>14, TurnsJobs DEF ListingMove, Starts
<1>15. CASE RebuiltMove(t)
  BY <1>1, <1>2, <1>15, TurnsJobs DEF RebuiltMove, Goes
<1>16. CASE ThrowMove(t) \/ RedrawMove(t) \/ RebuildFailsMove(t)
  BY <1>1, <1>2, <1>16, TurnsJobs DEF ThrowMove, RedrawMove, RebuildFailsMove, Ends
<1> QED BY <1>3, <1>4, <1>5, <1>6, <1>7, <1>8, <1>9, <1>10, <1>11, <1>12, <1>13, <1>14, <1>15, <1>16 DEF PageMove

PageTyped ==
  /\ connections \in [Sessions -> SUBSET Connection] /\ crossed \subseteq Peers
  /\ session \in Sessions /\ rail \subseteq Connection
  /\ views \in [Names -> {"none", "live"} \cup Calls] /\ orphans \subseteq Names
  /\ stale \in BOOLEAN

LEMMA DiallersTyped ==
  ASSUME Base, NEW t \in Calls, Dialling(t) \/ Removing(t)
  PROVE  /\ Record(t) \in Connection /\ job[t].peer \in Peers /\ job[t].name \in Names
         /\ Record(t).name = job[t].name /\ Record(t).peer = job[t].peer
<1>1. [name |-> job[t].name, peer |-> job[t].peer] \in Connection
  BY DEF Base, JobShape, Shape, Dialling, Removing
<1> QED BY <1>1 DEF Connection, Record

LEMMA CrossesTyped ==
  ASSUME Base, NEW p \in Peers, Crosses(p)
  PROVE  /\ crossed' \subseteq Peers /\ crossed \subseteq crossed'
         /\ (\E t \in Calls : Dialling(t) \/ Reading(t)) => p \in crossed'
         /\ \A t \in Calls : Dialling(t) => job[t].peer \in crossed'
<1>1. crossed \subseteq Peers
  BY DEF Base, TypeOK, SessionTypeOK
<1>2. \A t \in Calls : Dialling(t) => job[t].peer \in Peers
  BY DiallersTyped
<1> QED BY <1>1, <1>2 DEF Crosses

LEMMA ReconciledIs ==
  ASSUME Base, NEW s \in Sessions, Reconciled(s)
  PROVE  /\ connections' \in [Sessions -> SUBSET Connection]
         /\ \A u \in Sessions : connections'[u] \subseteq connections[u] /\ (u # s => connections'[u] = connections[u])
         /\ Ok => \A c \in connections[s] : c \in connections'[s] <=> c.name \in Head(replies).live
         /\ ~Ok => connections' = connections
<1>1. connections \in [Sessions -> SUBSET Connection]
  BY BaseTyped
<1> QED BY <1>1 DEF Reconciled

LEMMA PageTypes ==
  ASSUME Base, NEW t \in Calls, PageMove(t)
  PROVE  PageTyped'
<1>1. PageTyped
  BY DEF Base, TypeOK, SessionTypeOK, PageTyped
<1>2. job[t].session \in Sessions
  BY BaseTyped
<1>3. CASE AttachMove(t)
  <2>1. PICK p \in Peers, n \in Names : Crosses(p) /\ addWire(t, n)
    BY <1>3 DEF AttachMove
  <2>2. crossed' \subseteq Peers
    BY <2>1, CrossesTyped
  <2>3. views' \in [Names -> {"none", "live"} \cup Calls] /\ orphans' \subseteq Names
    BY <1>1, <2>1 DEF addWire, PageTyped
  <2> QED BY <1>1, <1>3, <2>2, <2>3 DEF AttachMove, PageTyped
<1>4. CASE ReturnMove(t)
  <2>1. Record(t) \in Connection
    BY <1>4, DiallersTyped DEF ReturnMove, Goes, Dialling
  <2>2. connections' \in [Sessions -> SUBSET Connection]
    BY <1>1, <1>2, <1>4, <2>1 DEF ReturnMove, PageTyped
  <2>3. views' \in [Names -> {"none", "live"} \cup Calls]
    BY <1>1, <1>4 DEF ReturnMove, PageTyped
  <2>4. rail' \subseteq Connection
    BY <1>1, <1>4, <2>2 DEF ReturnMove, renderConnections, PageTyped
  <2> QED BY <1>1, <1>4, <2>2, <2>3, <2>4 DEF ReturnMove, PageTyped
<1>5. CASE ThrowMove(t) \/ RedrawMove(t)
  <2>1. views' \in [Names -> {"none", "live"} \cup Calls]
    BY <1>1, <1>5 DEF ThrowMove, RedrawMove, syncWires, PageTyped
  <2>2. rail' \subseteq Connection
    BY <1>1, <1>5 DEF ThrowMove, RedrawMove, renderConnections, PageTyped
  <2> QED BY <1>1, <1>5, <2>1, <2>2 DEF ThrowMove, RedrawMove, PageTyped
<1>6. CASE ReconcileMove(t)
  <2>1. connections' \in [Sessions -> SUBSET Connection]
    BY <1>2, <1>6, ReconciledIs DEF ReconcileMove
  <2> QED BY <1>1, <1>6, <2>1 DEF ReconcileMove, PageTyped, pageState
<1>7. CASE RebuiltMove(t) \/ RebuildFailsMove(t)
  <2>1. connections' \in [Sessions -> SUBSET Connection]
    BY <1>1, <1>7 DEF RebuiltMove, RebuildFailsMove, PageTyped
  <2> QED BY <1>1, <1>2, <1>7, <2>1 DEF RebuiltMove, RebuildFailsMove, PageTyped
<1>8. CASE CreatedMove(t) \/ FailMove(t) \/ DetachMove(t) \/ DropMove(t) \/ ListingMove(t)
           \/ TypeMove(t) \/ AfterMove(t) \/ OpenMove(t) \/ RebuildMove(t)
  <2>1. UNCHANGED <<connections, crossed, session, rail, views, orphans, stale>>
    BY <1>8 DEF CreatedMove, FailMove, DetachMove, DropMove, ListingMove, TypeMove, AfterMove,
           OpenMove, RebuildMove, pageState
  <2> QED BY <1>1, <2>1 DEF PageTyped
<1> QED BY <1>3, <1>4, <1>5, <1>6, <1>7, <1>8 DEF PageMove

LEMMA PageLeavesWorker ==
  ASSUME NEW t, PageMove(t)
  PROVE  UNCHANGED <<database, catalogs, secrets, strayed, unread>>
BY DEF PageMove, workerVars, AttachMove, CreatedMove, FailMove, ReturnMove, ThrowMove, DetachMove,
       DropMove, ReconcileMove, RedrawMove, ListingMove, TypeMove, AfterMove, OpenMove, RebuildMove,
       RebuiltMove, RebuildFailsMove

\* Only the prompt begins at the prompt, and not while it waits.
LEMMA PagePrompt ==
  ASSUME Base, NEW t \in Calls, PageMove(t)
  PROVE  OnePrompt'
<1>1. database' = database
  BY PageLeavesWorker
<1>2. /\ \A u \in Calls : Pending(u)' => Pending(u) \/ u = t
      /\ \A u \in Calls \ {t} : at'[u] = at[u] /\ job'[u] = job[u]
  BY DEF PageMove, AttachMove, CreatedMove, FailMove, ReturnMove, ThrowMove, DetachMove,
         DropMove, ReconcileMove, RedrawMove, ListingMove, TypeMove, AfterMove, OpenMove, RebuildMove,
         RebuiltMove, RebuildFailsMove, Goes, Starts, Ends, AtTheBack, GoneFrom, Turns
<1>3. CASE at'[t] \in {"typed", "opening"}
  <2>1. (TypeMove(t) \/ OpenMove(t))
    BY <1>3 DEF PageMove, AttachMove, CreatedMove, FailMove, ReturnMove, ThrowMove, DetachMove,
           DropMove, ReconcileMove, RedrawMove, ListingMove, AfterMove, RebuildMove,
           RebuiltMove, RebuildFailsMove, Goes, Starts, Ends, Turns
  <2>2. \A u \in Calls : ~AtThePrompt(u)
    BY <2>1 DEF TypeMove, OpenMove, ShellBusy, AtThePrompt
  <2>3. at'[t] = "opening" => job'[t].session = database + 1
    BY <2>1, JobsTyped DEF TypeMove, OpenMove, Starts, Turns
  <2> QED BY <1>1, <1>2, <2>2, <2>3 DEF OnePrompt, AtThePrompt
<1>4. CASE at'[t] \notin {"typed", "opening"}
  BY <1>1, <1>2, <1>4 DEF Base, OnePrompt, AtThePrompt
<1> QED BY <1>3, <1>4

LEMMA PageBase ==
  ASSUME Base, [Next]_vars, NEW t \in Calls, Handles(t) \/ Asks(t)
  PROVE  Base' /\ PageMove(t)
<1>1. PageMove(t) /\ QueueTyped' /\ Queue'
  BY PageMoves
<1>2. TypeOK'
  <2>1. SessionTypeOK'
    BY <1>1, PageJobs, PageTypes, PageLeavesWorker DEF Base, TypeOK, SessionTypeOK, QueueTyped, PageTyped
  <2> QED BY <1>1, <2>1, PageTypes, CountsTyped DEF TypeOK, PageTyped
<1> QED BY <1>1, <1>2, PageJobs, PagePrompt DEF Base

\* A step is the worker's or the page's; both keep the base.
LEMMA NextBase ==
  ASSUME Base, [Next]_vars
  PROVE  /\ Base'
         /\ \/ Worker
            \/ \E t \in Calls : PageMove(t)
            \/ UNCHANGED vars
<1>1. CASE UNCHANGED vars
  <2>1. Base'
    BY <1>1 DEF vars, sessionVars, workerVars, pageState, Base, TypeOK, SessionTypeOK, Queue, CallAt, Out,
           JobShape, Shape, OnePrompt, AtThePrompt, Pending
  <2> QED BY <1>1, <2>1
<1>2. CASE Worker
  BY <1>2, WorkerBase
<1>3. CASE \E t \in Calls : Handles(t) \/ Asks(t)
  BY <1>3, PageBase
<1> QED BY <1>1, <1>2, <1>3 DEF Next

\* The calls stand in one queue, each once and with the query of its phase,
\* and what a call works on fits the phase it is in.
THEOREM BaseHolds == Spec => []Base
<1>1. Base /\ [Next]_vars => Base'
  BY NextBase
<1> QED BY <1>1, InitBase, PTL DEF Spec

\* Every variable keeps its type: no call ever works on a remote, a database
\* or a session that is not there to work on.
THEOREM TypesHold == Spec => []TypeOK
<1>1. Base => TypeOK
  BY DEF Base
<1> QED BY <1>1, BaseHolds, PTL

-----------------------------------------------------------------------------
(* The list: attaches that crossed none share nothing.                     *)

\* Two calls that dial at once have crossed, and so have a call that dials
\* and a listed remote of its session with its name or its machine.
DialsApart ==
  /\ \A t, u \in Calls : t # u /\ Dialling(t) /\ Dialling(u) => job[t].peer \in crossed
  /\ \A t \in Calls : Dialling(t) =>
       \A c \in connections[job[t].session] :
         ~Distinct(c, Record(t)) => c.peer \in crossed /\ job[t].peer \in crossed
  /\ DistinctUnlessCrossed

LEMMA NoMoreDials ==
  ASSUME NEW t \in Calls, PageMove(t), ~AttachMove(t)
  PROVE  /\ crossed' = crossed
         /\ \A u \in Calls : Dialling(u)' => Dialling(u) /\ job'[u] = job[u]
<1>1. crossed' = crossed
  BY DEF PageMove, CreatedMove, FailMove, ReturnMove, ThrowMove, DetachMove,
         DropMove, ReconcileMove, RedrawMove, ListingMove, TypeMove, AfterMove, OpenMove, RebuildMove,
         RebuiltMove, RebuildFailsMove
<1>2. \A u \in Calls \ {t} : at'[u] = at[u] /\ job'[u] = job[u]
  BY DEF PageMove, CreatedMove, FailMove, ReturnMove, ThrowMove, DetachMove,
         DropMove, ReconcileMove, RedrawMove, ListingMove, TypeMove, AfterMove, OpenMove, RebuildMove,
         RebuiltMove, RebuildFailsMove, Goes, Starts, Ends, Turns
<1>3. at'[t] \in {"creating", "attaching", "undoing"} =>
        at[t] \in {"creating", "attaching", "undoing"} /\ job'[t] = job[t]
  BY DEF PageMove, CreatedMove, FailMove, ReturnMove, ThrowMove, DetachMove,
         DropMove, ReconcileMove, RedrawMove, ListingMove, TypeMove, AfterMove, OpenMove, RebuildMove,
         RebuiltMove, RebuildFailsMove, Goes, Starts, Ends, Turns
<1> QED BY <1>1, <1>2, <1>3 DEF Dialling

LEMMA ListsShrink ==
  ASSUME Base, NEW t \in Calls, PageMove(t), ~ReturnMove(t), NEW s \in Sessions
  PROVE  connections'[s] \subseteq connections[s]
<1>1. CASE ReconcileMove(t)
  BY <1>1, ReconciledIs, BaseTyped DEF ReconcileMove
<1>2. CASE RebuiltMove(t)
  BY <1>2, BaseTyped DEF RebuiltMove
<1>3. CASE ~ReconcileMove(t) /\ ~RebuiltMove(t)
  BY <1>3 DEF PageMove, AttachMove, CreatedMove, FailMove, ThrowMove, DetachMove, DropMove, RedrawMove,
         ListingMove, TypeMove, AfterMove, OpenMove, RebuildMove, RebuildFailsMove
<1> QED BY <1>1, <1>2, <1>3

LEMMA ReturnLists ==
  ASSUME Base, NEW t \in Calls, ReturnMove(t)
  PROVE  /\ \A s \in Sessions : connections'[s] = IF s = job[t].session THEN connections[s] \cup {Record(t)}
                                                 ELSE connections[s]
         /\ Record(t) \in Connection /\ Dialling(t) /\ ~Dialling(t)'
         /\ at[t] = "attaching"
<1>1. Record(t) \in Connection /\ Dialling(t) /\ ~Dialling(t)' /\ at[t] = "attaching"
  BY DiallersTyped DEF ReturnMove, Goes, Turns, Dialling
<1>2. connections \in [Sessions -> SUBSET Connection]
  BY BaseTyped
<1> QED BY <1>1, <1>2 DEF ReturnMove

LEMMA AttachIs ==
  ASSUME Base, NEW t \in Calls, AttachMove(t)
  PROVE  \E p \in Peers, n \in Names :
           /\ ~Already(session, p) /\ UniqueName(session, n) /\ Crosses(p) /\ addWire(t, n)
           /\ at[t] = "idle" /\ Joined(t) /\ AtTheBack(t)
           /\ at'[t] = IF p \in TokenPeers THEN "creating" ELSE "attaching"
           /\ Record(t)' = [name |-> n, peer |-> p] /\ job'[t].peer = p /\ job'[t].name = n
           /\ job'[t].session = session
           /\ \A u \in Calls \ {t} : at'[u] = at[u] /\ job'[u] = job[u]
<1>1. PICK p \in Peers, n \in Names :
           /\ ~Already(session, p) /\ UniqueName(session, n) /\ Crosses(p) /\ addWire(t, n)
           /\ Starts(t, IF p \in TokenPeers THEN "creating" ELSE "attaching", AttachJob(p, n))
  BY DEF AttachMove
<1>2. job'[t] = AttachJob(p, n)
  BY <1>1 DEF Starts, Turns
<1>3. job'[t].session = session /\ job'[t].peer = p /\ job'[t].name = n
  <2>1. AttachJob(p, n).session = session /\ AttachJob(p, n).peer = p /\ AttachJob(p, n).name = n
    BY JobsTyped
  <2> QED BY <1>2, <2>1
<1>4. Record(t)' = [name |-> n, peer |-> p]
  BY <1>3 DEF Record
<1>5. /\ at[t] = "idle" /\ Joined(t) /\ AtTheBack(t)
      /\ at'[t] = IF p \in TokenPeers THEN "creating" ELSE "attaching"
      /\ \A u \in Calls \ {t} : at'[u] = at[u] /\ job'[u] = job[u]
  BY <1>1 DEF Starts, Turns
<1> QED BY <1>1, <1>3, <1>4, <1>5

LEMMA AttachApart ==
  ASSUME Base, DialsApart, NEW t \in Calls, AttachMove(t)
  PROVE  DialsApart'
<1>1. PICK p \in Peers, n \in Names :
           /\ ~Already(session, p) /\ UniqueName(session, n) /\ Crosses(p)
           /\ at'[t] = IF p \in TokenPeers THEN "creating" ELSE "attaching"
           /\ Record(t)' = [name |-> n, peer |-> p] /\ job'[t].peer = p
           /\ job'[t].session = session
           /\ at[t] = "idle"
           /\ \A u \in Calls \ {t} : at'[u] = at[u] /\ job'[u] = job[u]
  BY AttachIs
<1>2. /\ crossed \subseteq crossed'
      /\ (\E u \in Calls : Dialling(u) \/ Reading(u)) => p \in crossed'
      /\ \A u \in Calls : Dialling(u) => job[u].peer \in crossed'
  BY <1>1, CrossesTyped
<1>3. connections' = connections
  BY DEF AttachMove
<1>4. \A u \in Calls \ {t} : Dialling(u)' <=> Dialling(u)
  BY <1>1 DEF Dialling
<1>5. (\A u, v \in Calls : u # v /\ Dialling(u) /\ Dialling(v) => job[u].peer \in crossed)'
  BY <1>1, <1>2, <1>4
<1>6. ASSUME NEW c \in connections[session] PROVE Distinct(c, Record(t)')
  BY <1>1 DEF Distinct, Already, UniqueName, Taken
<1>7. (\A u \in Calls : Dialling(u) =>
         \A c \in connections[job[u].session] :
           ~Distinct(c, Record(u)) => c.peer \in crossed /\ job[u].peer \in crossed)'
  <2> SUFFICES ASSUME NEW u \in Calls, Dialling(u)', NEW c \in connections[job'[u].session],
                      ~Distinct(c, Record(u)')
               PROVE  c.peer \in crossed' /\ job'[u].peer \in crossed'
    BY <1>3 DEF Distinct
  <2>1. u # t
    BY <1>1, <1>6
  <2>2. Record(u)' = Record(u)
    BY <1>1, <2>1 DEF Record
  <2> QED BY <1>1, <1>2, <1>4, <2>1, <2>2 DEF DialsApart
<1>8. DistinctUnlessCrossed'
  BY <1>2, <1>3 DEF DialsApart, DistinctUnlessCrossed, Distinct
<1> QED BY <1>5, <1>7, <1>8 DEF DialsApart

LEMMA ReturnApart ==
  ASSUME Base, DialsApart, NEW t \in Calls, ReturnMove(t)
  PROVE  DialsApart'
<1>1. /\ \A s \in Sessions : connections'[s] = IF s = job[t].session THEN connections[s] \cup {Record(t)}
                                              ELSE connections[s]
      /\ Dialling(t) /\ ~Dialling(t)' /\ Record(t).peer = job[t].peer
  BY ReturnLists DEF Record
<1>2. PageMove(t) /\ ~AttachMove(t)
  BY <1>1 DEF PageMove, AttachMove, Dialling, Starts
<1>3. /\ crossed' = crossed
      /\ \A u \in Calls : Dialling(u)' => u # t /\ Dialling(u) /\ job'[u] = job[u]
  BY <1>1, <1>2, NoMoreDials
<1>4. \A u \in Calls : job[u].session \in Sessions
  BY BaseTyped
<1>5. (\A u, v \in Calls : u # v /\ Dialling(u) /\ Dialling(v) => job[u].peer \in crossed)'
  BY <1>3 DEF DialsApart
<1>6. (\A u \in Calls : Dialling(u) =>
         \A c \in connections[job[u].session] :
           ~Distinct(c, Record(u)) => c.peer \in crossed /\ job[u].peer \in crossed)'
  <2> SUFFICES ASSUME NEW u \in Calls, Dialling(u)', NEW c \in connections'[job'[u].session],
                      ~Distinct(c, Record(u)')
               PROVE  c.peer \in crossed' /\ job'[u].peer \in crossed'
    BY DEF Distinct
  <2>1. u # t /\ Dialling(u) /\ job'[u] = job[u] /\ Record(u)' = Record(u)
    BY <1>3 DEF Record
  <2>2. job[u].peer \in crossed /\ job[t].peer \in crossed
    BY <1>1, <2>1 DEF DialsApart
  <2>3. CASE c = Record(t)
    BY <1>1, <1>3, <2>1, <2>2, <2>3
  <2>4. CASE c # Record(t)
    <3>1. c \in connections[job[u].session]
      BY <1>1, <1>4, <2>1, <2>4
    <3> QED BY <1>3, <2>1, <3>1 DEF DialsApart
  <2> QED BY <2>3, <2>4
<1>7. DistinctUnlessCrossed'
  <2> SUFFICES ASSUME NEW s \in Sessions, NEW c \in connections'[s], NEW d \in connections'[s],
                      c # d, ~Distinct(c, d)
               PROVE  c.peer \in crossed
    BY <1>3 DEF DistinctUnlessCrossed, Distinct
  <2>1. CASE c \in connections[s] /\ d \in connections[s]
    BY <2>1 DEF DialsApart, DistinctUnlessCrossed
  <2>2. CASE c = Record(t) /\ d \in connections[s] /\ s = job[t].session
    <3>1. ~Distinct(d, Record(t))
      BY <2>2 DEF Distinct
    <3> QED BY <1>1, <2>2, <3>1 DEF DialsApart
  <2>3. CASE d = Record(t) /\ c \in connections[s] /\ s = job[t].session
    BY <1>1, <2>3 DEF DialsApart
  <2>4. \A e \in connections'[s] : e \in connections[s] \/ (e = Record(t) /\ s = job[t].session)
    BY <1>1
  <2> QED BY <2>1, <2>2, <2>3, <2>4
<1> QED BY <1>5, <1>6, <1>7 DEF DialsApart

LEMMA NextApart ==
  ASSUME Base, DialsApart, [Next]_vars
  PROVE  DialsApart'
<1>1. CASE UNCHANGED vars
  BY <1>1 DEF vars, sessionVars, DialsApart, Dialling, Record, Distinct, DistinctUnlessCrossed
<1>2. CASE Worker
  <2>1. UNCHANGED <<connections, at, job, crossed>>
    BY <1>2, WorkerMoves DEF pageVars
  <2> QED BY <2>1 DEF DialsApart, Dialling, Record, Distinct, DistinctUnlessCrossed
<1>3. ASSUME NEW t \in Calls, PageMove(t), ~AttachMove(t), ~ReturnMove(t)
      PROVE  DialsApart'
  <2>1. /\ crossed' = crossed
        /\ \A u \in Calls : Dialling(u)' => Dialling(u) /\ job'[u] = job[u]
    BY <1>3, NoMoreDials
  <2>2. /\ \A s \in Sessions : connections'[s] \subseteq connections[s]
        /\ \A u \in Calls : job[u].session \in Sessions
    BY <1>3, ListsShrink, BaseTyped
  <2>3. (\A u, v \in Calls : u # v /\ Dialling(u) /\ Dialling(v) => job[u].peer \in crossed)'
    BY <2>1 DEF DialsApart
  <2>4. (\A u \in Calls : Dialling(u) =>
           \A c \in connections[job[u].session] :
             ~Distinct(c, Record(u)) => c.peer \in crossed /\ job[u].peer \in crossed)'
    <3> SUFFICES ASSUME NEW u \in Calls, Dialling(u)', NEW c \in connections'[job'[u].session],
                        ~Distinct(c, Record(u)')
                 PROVE  c.peer \in crossed' /\ job'[u].peer \in crossed'
      BY DEF Distinct
    <3>1. Dialling(u) /\ job'[u] = job[u] /\ Record(u)' = Record(u)
      BY <2>1 DEF Record
    <3>2. c \in connections[job[u].session]
      BY <2>2, <3>1
    <3> QED BY <2>1, <3>1, <3>2 DEF DialsApart
  <2>5. DistinctUnlessCrossed'
    <3> SUFFICES ASSUME NEW s \in Sessions, NEW c \in connections'[s], NEW d \in connections'[s],
                        c # d, ~Distinct(c, d)
                 PROVE  c.peer \in crossed
      BY <2>1 DEF DistinctUnlessCrossed, Distinct
    <3> QED BY <2>2 DEF DialsApart, DistinctUnlessCrossed
  <2> QED BY <2>3, <2>4, <2>5 DEF DialsApart
<1> QED BY <1>1, <1>2, <1>3, NextBase, AttachApart, ReturnApart

LEMMA ApartHolds == Spec => []DialsApart
<1>1. Init => DialsApart
  BY DEF Init, SessionInit, DialsApart, Dialling, DistinctUnlessCrossed
<1>2. Base /\ DialsApart /\ [Next]_vars => DialsApart'
  BY NextApart
<1> QED BY <1>1, <1>2, BaseHolds, PTL DEF Spec

\* The list tells machines apart: a remote whose attach crossed no other call
\* shares neither its name nor its machine, however many calls are out.
THEOREM DistinctUnlessCrossedHolds == Spec => []DistinctUnlessCrossed
<1>1. DialsApart => DistinctUnlessCrossed
  BY DEF DialsApart
<1> QED BY <1>1, ApartHolds, PTL

-----------------------------------------------------------------------------
(* Sessions and databases.                                                 *)

\* A step of the page moves one call, and the others keep their order.
LEMMA OneMoves ==
  ASSUME Base, NEW t \in Calls, PageMove(t)
  PROVE  /\ \A u \in Calls \ {t} : at'[u] = at[u] /\ job'[u] = job[u] /\ (Pending(u)' <=> Pending(u))
         /\ \A u, v \in Calls \ {t} : Before(u, v)' <=> Before(u, v)
         /\ at[t] # "idle" => Served(t)
         /\ at[t] = "idle" => Joined(t)
         /\ at'[t] # "idle" => AtTheBack(t)
         /\ at'[t] = "idle" => GoneFrom(t)
<1>1. \/ at[t] # "idle" /\ Served(t)
      \/ at[t] = "idle" /\ Joined(t)
  BY DEF PageMove, AttachMove, CreatedMove, FailMove, ReturnMove, ThrowMove, DetachMove,
         DropMove, ReconcileMove, RedrawMove, ListingMove, TypeMove, AfterMove, OpenMove, RebuildMove,
         RebuiltMove, RebuildFailsMove, Goes, Starts, Ends
<1>2. \/ at'[t] # "idle" /\ AtTheBack(t)
      \/ at'[t] = "idle" /\ GoneFrom(t)
  BY DEF PageMove, AttachMove, CreatedMove, FailMove, ReturnMove, ThrowMove, DetachMove,
         DropMove, ReconcileMove, RedrawMove, ListingMove, TypeMove, AfterMove, OpenMove, RebuildMove,
         RebuiltMove, RebuildFailsMove, Goes, Starts, Ends, Turns
<1>3. \A u \in Calls \ {t} : at'[u] = at[u] /\ job'[u] = job[u]
  BY DEF PageMove, AttachMove, CreatedMove, FailMove, ReturnMove, ThrowMove, DetachMove,
         DropMove, ReconcileMove, RedrawMove, ListingMove, TypeMove, AfterMove, OpenMove, RebuildMove,
         RebuiltMove, RebuildFailsMove, Goes, Starts, Ends, Turns
<1>4. \A u \in Calls \ {t} : Pending(u)' <=> Pending(u)
  BY <1>2 DEF AtTheBack, GoneFrom
<1>5. \A u, v \in Calls \ {t} : Before(u, v)' <=> Before(u, v)
  BY <1>1 DEF Served, Joined
<1> QED BY <1>1, <1>2, <1>3, <1>4, <1>5

\* A database has been opened for t to make a session over.
Opened(t) == at[t] = "preparing" \/ (at[t] = "opening" /\ ~Pending(t))

\* No session is newer than the database, no call but a rebuild works over a
\* session newer than the page's, and rebuilds end in the order of the
\* databases they are for.
Newest ==
  /\ session <= database
  /\ \A s \in Sessions : s > session => connections[s] = {}
  /\ \A t \in Calls : ~Rebuilding(t) => job[t].session <= session

Rebuilds ==
  /\ \A t \in Calls : Opened(t) => session < job[t].session /\ job[t].session <= database
  /\ \A t, u \in Calls : t # u /\ at[t] = "preparing" /\ at[u] = "preparing" =>
        \/ job[t].session < job[u].session /\ Before(t, u)
        \/ job[u].session < job[t].session /\ Before(u, t)
  /\ \A t, u \in Calls : at[t] = "preparing" /\ at[u] = "opening" => job[t].session < job[u].session

\* The database there is has its session, unless a rebuild failed or is on.
Latest ==
  /\ \A t \in Calls : Opened(t) => \E u \in Calls : Opened(u) /\ job[u].session = database
  /\ session = database \/ stale \/ \E u \in Calls : Opened(u) /\ job[u].session = database

SessionsInOrder == Newest /\ Rebuilds /\ Latest

LEMMA WorkerInOrder ==
  ASSUME Base, SessionsInOrder, Worker
  PROVE  SessionsInOrder'
<1>1. PICK r \in Reply : Ran(r) /\ Does(r)
  BY WorkerMoves
<1>2. UNCHANGED <<pageVars, pageState>>
  BY WorkerMoves
<1>3. /\ at' = at /\ job' = job /\ connections' = connections /\ session' = session /\ stale' = stale
  BY <1>2 DEF pageVars, pageState
<1>4. /\ database \in Nat /\ session \in Nat /\ \A u \in Calls : job[u].session \in Nat
  BY BaseTyped
<1> DEFINE t == r.call
<1>5. t \in Calls /\ Pending(t) /\ \A u \in Calls : Pending(u)' <=> Pending(u) /\ u # t
  BY <1>1 DEF Ran
<1>6. \A u, v \in Calls : Before(u, v)' <=> Before(u, v)
  BY <1>1 DEF Ran
<1>7. CASE RanOpen(r)
  <2>1. at[t] = "opening" /\ database' = database + 1
    BY <1>7 DEF RanOpen
  <2>2. job[t].session = database + 1
    BY <1>5, <2>1 DEF Base, OnePrompt
  <2>3. \A u \in Calls : at[u] = "opening" => u = t
    BY <1>5, <2>1 DEF Base, OnePrompt, AtThePrompt
  <2> HIDE DEF t
  <2>4. \A u \in Calls : Opened(u)' <=> Opened(u) \/ u = t
    BY <1>3, <1>5, <2>1, <2>3 DEF Opened
  <2>5. Newest'
    BY <1>3, <1>4, <2>1 DEF SessionsInOrder, Newest, Rebuilding
  <2>6. Rebuilds'
    <3>1. (\A u \in Calls : Opened(u) => session < job[u].session /\ job[u].session <= database)'
      BY <1>3, <1>4, <2>1, <2>2, <2>4 DEF SessionsInOrder, Rebuilds, Newest
    <3> QED BY <1>3, <1>6, <3>1 DEF SessionsInOrder, Rebuilds
  <2>7. Opened(t)' /\ job'[t].session = database'
    BY <1>3, <1>5, <2>1, <2>2, <2>4
  <2>8. Latest'
    BY <1>5, <2>7 DEF Latest
  <2> QED BY <2>5, <2>6, <2>8 DEF SessionsInOrder
<1>8. CASE ~RanOpen(r)
  <2>1. database' = database /\ at[t] # "opening"
    BY <1>1, <1>8 DEF Does, RanCreate, RanAttach, RanDrop, RanDetach, RanNames, RanTyped,
           RanOther, workerVars
  <2> HIDE DEF t
  <2>2. \A u \in Calls : Opened(u)' <=> Opened(u)
    BY <1>3, <1>5, <2>1 DEF Opened
  <2>3. Newest'
    BY <1>3, <2>1 DEF SessionsInOrder, Newest, Rebuilding
  <2>4. Rebuilds'
    BY <1>3, <1>6, <2>1, <2>2 DEF SessionsInOrder, Rebuilds
  <2>5. Latest'
    BY <1>3, <2>1, <2>2 DEF SessionsInOrder, Latest
  <2> QED BY <2>3, <2>4, <2>5 DEF SessionsInOrder
<1> QED BY <1>7, <1>8

\* Calls that rebuild nothing work over the page's session or an older one.
LEMMA SessionsKept ==
  ASSUME Base, Newest, NEW t \in Calls, PageMove(t),
         ~OpenMove(t), ~RebuildMove(t), ~RebuiltMove(t), ~RebuildFailsMove(t)
  PROVE  /\ job'[t].session <= session
         /\ ~Rebuilding(t) /\ ~Rebuilding(t)'
         /\ session' = session /\ stale' = stale
<1>1. ~Rebuilding(t) /\ at'[t] \notin {"opening", "preparing"} /\ session' = session /\ stale' = stale
  BY DEF PageMove, AttachMove, CreatedMove, FailMove, ReturnMove, ThrowMove, DetachMove,
         DropMove, ReconcileMove, RedrawMove, ListingMove, TypeMove, AfterMove,
         Goes, Starts, Ends, Turns, Rebuilding, pageState
<1>2. session \in Nat /\ 1 <= session
  BY BaseTyped DEF Sessions
<1>3. \/ job'[t] = job[t]
      \/ job'[t].session = session
      \/ job'[t].session = 1
  <2>1. CASE AttachMove(t)
    BY <2>1, AttachIs
  <2>2. CASE DetachMove(t)
    <3>1. PICK c \in rail : job'[t] = DetachJob(c)
      BY <2>2 DEF DetachMove, Starts, Turns
    <3>2. c \in Connection
      BY DEF Base, TypeOK
    <3>3. DetachJob(c).session = session
      BY <3>2, JobsTyped
    <3> QED BY <3>1, <3>3
  <2>3. CASE TypeMove(t)
    <3>1. PICK n \in Names, doing \in {"hand detach", "buried detach", "hand attach"} : job'[t] = TypedJob(doing, n)
      BY <2>3 DEF TypeMove, Starts, Turns
    <3>2. TypedJob(doing, n).session = 1
      BY JobsTyped
    <3> QED BY <3>1, <3>2
  <2>4. CASE ~AttachMove(t) /\ ~DetachMove(t) /\ ~TypeMove(t)
    <3>1. \/ job'[t] = job[t] \/ job'[t] = NoJob
          \/ job'[t] = Listing(session, "nothing") \/ job'[t] = Listing(session, "list")
      BY <2>4 DEF PageMove, CreatedMove, FailMove, ReturnMove, ThrowMove,
             DropMove, ReconcileMove, RedrawMove, ListingMove, AfterMove, Goes, Starts, Ends, Turns
    <3>2. /\ NoJob.session = 1 /\ Listing(session, "nothing").session = session
          /\ Listing(session, "list").session = session
      BY JobsTyped, BaseTyped
    <3> QED BY <3>1, <3>2
  <2> QED BY <2>1, <2>2, <2>3, <2>4
<1>4. job[t].session <= session
  BY <1>1 DEF Newest
<1> QED BY <1>1, <1>2, <1>3, <1>4 DEF Rebuilding

LEMMA PageInOrder ==
  ASSUME Base, SessionsInOrder, NEW t \in Calls, PageMove(t)
  PROVE  SessionsInOrder'
<1>1. /\ \A u \in Calls \ {t} : at'[u] = at[u] /\ job'[u] = job[u] /\ (Pending(u)' <=> Pending(u))
      /\ \A u, v \in Calls \ {t} : Before(u, v)' <=> Before(u, v)
  BY OneMoves
<1>2. database' = database
  BY PageLeavesWorker
<1>3. /\ database \in Nat /\ session \in Sessions /\ \A u \in Calls : job[u].session \in Sessions
      /\ \A s \in Sessions : s \in Nat
  BY BaseTyped
<1>4. \A u \in Calls \ {t} : Opened(u)' <=> Opened(u)
  BY <1>1 DEF Opened
<1>5. CASE ~OpenMove(t) /\ ~RebuildMove(t) /\ ~RebuiltMove(t) /\ ~RebuildFailsMove(t)
  <2>1. /\ job'[t].session <= session /\ ~Rebuilding(t) /\ ~Rebuilding(t)'
        /\ session' = session /\ stale' = stale
    BY <1>5, SessionsKept DEF SessionsInOrder
  <2>2. ASSUME NEW s \in Sessions, s > session PROVE connections'[s] = {}
    <3>1. connections[s] = {}
      BY <2>2 DEF SessionsInOrder, Newest
    <3>2. CASE ReturnMove(t)
      <4>1. s # job[t].session
        BY <1>3, <2>1, <2>2 DEF SessionsInOrder, Newest
      <4> QED BY <3>1, <3>2, <4>1, ReturnLists
    <3>3. CASE ~ReturnMove(t)
      BY <3>1, <3>3, ListsShrink
    <3> QED BY <3>2, <3>3
  <2>3. Newest'
    BY <1>1, <1>2, <2>1, <2>2 DEF SessionsInOrder, Newest, Rebuilding
  <2>4. ~Opened(t) /\ ~Opened(t)'
    BY <2>1 DEF Opened, Rebuilding
  <2>5. Rebuilds'
    BY <1>1, <1>2, <1>4, <2>1, <2>4 DEF SessionsInOrder, Rebuilds, Rebuilding
  <2>6. Latest'
    BY <1>1, <1>2, <1>4, <2>1, <2>4 DEF SessionsInOrder, Latest
  <2> QED BY <2>3, <2>5, <2>6 DEF SessionsInOrder
<1>6. CASE OpenMove(t)
  <2>1. /\ at[t] = "idle" /\ at'[t] = "opening" /\ job'[t] = OpenJob
        /\ UNCHANGED <<connections, session, stale>>
    BY <1>6 DEF OpenMove, Starts, Turns, pageState
  <2>2. job'[t].session = database + 1
    BY <2>1, JobsTyped
  <2>3. Pending(t)'
    BY <1>6 DEF OpenMove, Starts, AtTheBack
  <2>4. ~Opened(t) /\ ~Opened(t)'
    BY <2>1, <2>3 DEF Opened
  <2>5. \A u \in Calls \ {t} : at'[u] # "opening"
    BY <1>1, <1>6 DEF OpenMove, ShellBusy
  <2>6. Newest'
    BY <1>1, <1>2, <2>1 DEF SessionsInOrder, Newest, Rebuilding
  <2>7. (\A u, v \in Calls : at[u] = "preparing" /\ at[v] = "opening" => job[u].session < job[v].session)'
    <3> SUFFICES ASSUME NEW u \in Calls, at'[u] = "preparing" PROVE job'[u].session < database + 1
      BY <2>2, <2>5
    <3>1. u # t /\ Opened(u)
      BY <1>1, <2>1 DEF Opened
    <3>2. job[u].session <= database
      BY <3>1 DEF SessionsInOrder, Rebuilds
    <3> QED BY <1>1, <1>3, <3>1, <3>2
  <2>8. Rebuilds'
    BY <1>1, <1>2, <1>4, <2>1, <2>4, <2>7 DEF SessionsInOrder, Rebuilds
  <2>9. Latest'
    BY <1>1, <1>2, <1>4, <2>1, <2>4 DEF SessionsInOrder, Latest
  <2> QED BY <2>6, <2>8, <2>9 DEF SessionsInOrder
<1>7. CASE RebuildMove(t)
  <2>1. /\ at[t] = "opening" /\ at'[t] = "preparing" /\ job'[t] = job[t] /\ Served(t) /\ AtTheBack(t)
        /\ UNCHANGED <<connections, session, stale>>
    BY <1>7 DEF RebuildMove, Goes, Turns, pageState
  <2>2. ~Pending(t)
    BY <2>1 DEF Served
  <2>3. Opened(t) /\ Opened(t)'
    BY <2>1, <2>2 DEF Opened
  <2>4. \A u \in Calls : (Opened(u)' <=> Opened(u)) /\ job'[u] = job[u]
    BY <1>1, <1>4, <2>1, <2>3
  <2>5. \A u \in Calls \ {t} : at'[u] # "opening"
    BY <1>1, <2>1 DEF Base, OnePrompt, AtThePrompt
  <2>6. \A u \in Calls \ {t} : at'[u] = "preparing" => job[u].session < job[t].session /\ Before(u, t)'
    BY <1>1, <2>1 DEF SessionsInOrder, Rebuilds, AtTheBack
  <2>7. Newest'
    BY <1>1, <1>2, <2>1, <2>4 DEF SessionsInOrder, Newest, Rebuilding
  <2>8. Rebuilds'
    <3>1. (\A u \in Calls : Opened(u) => session < job[u].session /\ job[u].session <= database)'
      BY <1>2, <2>1, <2>4 DEF SessionsInOrder, Rebuilds
    <3>2. (\A u, v \in Calls : u # v /\ at[u] = "preparing" /\ at[v] = "preparing" =>
             \/ job[u].session < job[v].session /\ Before(u, v)
             \/ job[v].session < job[u].session /\ Before(v, u))'
      <4> SUFFICES ASSUME NEW u \in Calls, NEW v \in Calls, u # v, at'[u] = "preparing", at'[v] = "preparing"
                   PROVE  \/ job[u].session < job[v].session /\ Before(u, v)'
                          \/ job[v].session < job[u].session /\ Before(v, u)'
        BY <2>4
      <4>1. CASE u = t \/ v = t
        BY <2>6, <4>1
      <4>2. CASE u # t /\ v # t
        BY <1>1, <4>2 DEF SessionsInOrder, Rebuilds
      <4> QED BY <4>1, <4>2
    <3> QED BY <2>1, <2>5, <3>1, <3>2 DEF Rebuilds
  <2>9. Latest'
    BY <1>2, <2>1, <2>4 DEF SessionsInOrder, Latest
  <2> QED BY <2>7, <2>8, <2>9 DEF SessionsInOrder
<1>8. CASE RebuiltMove(t) \/ RebuildFailsMove(t)
  <2>1. at[t] = "preparing" /\ at'[t] \in {"databases", "idle"} /\ Served(t)
    BY <1>8 DEF RebuiltMove, RebuildFailsMove, Goes, Ends, Turns
  <2>2. Opened(t) /\ ~Opened(t)' /\ session < job[t].session /\ job[t].session <= database
    BY <2>1 DEF Opened, SessionsInOrder, Rebuilds
  <2>3. \A u \in Calls \ {t} : Opened(u) => job[t].session < job[u].session
    <3> SUFFICES ASSUME NEW u \in Calls, u # t, Opened(u) PROVE job[t].session < job[u].session
      OBVIOUS
    <3>1. ~Before(u, t)
      BY <2>1 DEF Served
    <3> QED BY <2>1, <3>1 DEF SessionsInOrder, Rebuilds, Opened
  <2>4. \/ session' = job[t].session /\ connections' = [connections EXCEPT ![session] = {}]
           /\ job'[t].session = job[t].session
        \/ UNCHANGED <<session, connections>> /\ stale' /\ job'[t].session = 1
    <3>1. CASE RebuiltMove(t)
      <4>1. job'[t] = Listing(job[t].session, "nothing")
        BY <3>1 DEF RebuiltMove, Goes, Turns
      <4>2. Listing(job[t].session, "nothing").session = job[t].session
        BY <1>3, JobsTyped
      <4> QED BY <3>1, <4>1, <4>2 DEF RebuiltMove
    <3>2. CASE RebuildFailsMove(t)
      BY <3>2, JobsTyped DEF RebuildFailsMove, Ends, Turns
    <3> QED BY <1>8, <3>1, <3>2
  <2>5. session' \in Nat /\ session <= session' /\ session' <= job[t].session /\ job'[t].session <= session'
    BY <1>3, <2>2, <2>4 DEF Sessions
  <2>6. \A s \in Sessions : s > session' => connections'[s] = {}
    <3>1. connections \in [Sessions -> SUBSET Connection]
      BY BaseTyped
    <3>2. \A s \in Sessions : s > session' => s > session
      BY <1>3, <2>5
    <3> QED BY <2>4, <3>1, <3>2 DEF SessionsInOrder, Newest
  <2>7. Newest'
    <3>1. session' <= database'
      BY <1>2, <1>3, <2>2, <2>5
    <3>2. ASSUME NEW u \in Calls, ~Rebuilding(u)' PROVE job'[u].session <= session'
      <4>1. CASE u = t
        BY <2>5, <4>1
      <4>2. CASE u # t
        <5>1. job[u].session <= session
          BY <1>1, <3>2, <4>2 DEF SessionsInOrder, Newest, Rebuilding
        <5> QED BY <1>1, <1>3, <2>5, <4>2, <5>1
      <4> QED BY <4>1, <4>2
    <3> QED BY <2>6, <3>1, <3>2 DEF Newest
  <2>8. Rebuilds'
    <3>1. ASSUME NEW u \in Calls, Opened(u)' PROVE session' < job'[u].session /\ job'[u].session <= database'
      <4>1. u # t /\ Opened(u) /\ job'[u] = job[u]
        BY <1>1, <1>4, <2>2, <3>1
      <4>2. job[t].session < job[u].session /\ job[u].session <= database
        BY <2>3, <4>1 DEF SessionsInOrder, Rebuilds
      <4> QED BY <1>2, <1>3, <2>5, <4>1, <4>2
    <3> QED BY <1>1, <2>1, <3>1 DEF SessionsInOrder, Rebuilds
  <2>9. ASSUME NEW u \in Calls, u # t, Opened(u) PROVE \E v \in Calls \ {t} : Opened(v) /\ job[v].session = database
    <3>1. PICK v \in Calls : Opened(v) /\ job[v].session = database
      BY <2>9 DEF SessionsInOrder, Latest
    <3>2. job[t].session < job[u].session /\ job[u].session <= database
      BY <2>3, <2>9 DEF SessionsInOrder, Rebuilds
    <3>3. v # t
      BY <1>3, <3>1, <3>2
    <3> QED BY <3>1, <3>3
  <2>10. Latest'
    <3>1. ASSUME NEW u \in Calls, Opened(u)' PROVE \E v \in Calls : Opened(v)' /\ job'[v].session = database'
      <4>1. u # t /\ Opened(u)
        BY <1>4, <2>2, <3>1
      <4>2. PICK v \in Calls \ {t} : Opened(v) /\ job[v].session = database
        BY <2>9, <4>1
      <4> QED BY <1>1, <1>2, <1>4, <4>2
    <3>2. session' = database' \/ stale' \/ \E u \in Calls : Opened(u)'
      <4>1. CASE session' = job[t].session /\ job[t].session # database
        <5>1. PICK u \in Calls : Opened(u) /\ job[u].session = database
          BY <2>2 DEF SessionsInOrder, Latest
        <5> QED BY <1>4, <4>1, <5>1
      <4> QED BY <1>2, <2>4, <4>1
    <3> QED BY <3>1, <3>2 DEF Latest
  <2> QED BY <2>7, <2>8, <2>10 DEF SessionsInOrder
<1> QED BY <1>5, <1>6, <1>7, <1>8

LEMMA NextInOrder ==
  ASSUME Base, SessionsInOrder, [Next]_vars
  PROVE  SessionsInOrder'
<1>1. CASE UNCHANGED vars
  BY <1>1 DEF vars, sessionVars, workerVars, pageState, SessionsInOrder, Newest, Rebuilds, Latest, Opened,
     Rebuilding, Pending, Before, CallAt, Out
<1> QED BY <1>1, NextBase, WorkerInOrder, PageInOrder

LEMMA InitInOrder == Init => SessionsInOrder
BY DEF Init, SessionInit, SessionsInOrder, Newest, Rebuilds, Latest, Opened, Rebuilding, NoJob

\* The invariants come one after the other: each is kept with those before it.
LEMMA InOrderHolds == Spec => [](Base /\ SessionsInOrder)
<1>1. Base /\ SessionsInOrder /\ [Next]_vars => (Base /\ SessionsInOrder)'
  BY NextBase, NextInOrder
<1> QED BY <1>1, InitBase, InitInOrder, PTL DEF Spec

-----------------------------------------------------------------------------
(* The list: what is attached is on it.                                    *)

LEMMA ToldTyped ==
  ASSUME Base, NEW q \in Told
  PROVE  /\ q \in Reply /\ q.call \in Calls /\ at[q.call] # "idle"
         /\ \A u \in Calls : Pending(u) => u # q.call /\ ~Before(u, q.call) /\ Before(q.call, u)
<1>1. QueueTyped /\ Queue
  BY BaseTyped
<1>2. PICK i \in 1 .. Len(replies) : q = replies[i]
  BY DEF Told
<1>3. /\ Len(posted) \in Nat /\ Len(replies) \in Nat
      /\ \A m \in 1 .. Len(posted) : CallAt(Len(replies) + m) = posted[m].call
      /\ \A m \in 1 .. Len(replies) : replies[m].call \in Calls /\ CallAt(m) = replies[m].call
  BY <1>1, Lengths
<1>4. q \in Reply /\ q.call \in Calls
  <2>1. replies \in Seq(Reply)
    BY <1>1 DEF QueueTyped, Reply
  <2>2. replies[i] \in Reply
    BY <1>2, <2>1, ElementOfSeq
  <2> QED BY <1>2, <1>3, <2>2
<1>5. i \in 1 .. Out /\ CallAt(i) = q.call
  BY <1>2, <1>3 DEF Out
<1>6. at[q.call] # "idle"
  BY <1>1, <1>5 DEF Queue
<1>7. ASSUME NEW u \in Calls, Pending(u) PROVE u # q.call /\ ~Before(u, q.call) /\ Before(q.call, u)
  <2>1. PICK m \in 1 .. Len(posted) : posted[m].call = u
    BY <1>7 DEF Pending
  <2>2. Len(replies) + m \in 1 .. Out /\ CallAt(Len(replies) + m) = u /\ i < Len(replies) + m
    BY <1>2, <1>3, <2>1 DEF Out
  <2>3. u # q.call
    BY <1>1, <1>3, <1>5, <2>2 DEF Queue
  <2>4. ASSUME NEW a \in 1 .. Out, NEW b \in 1 .. Out, CallAt(a) = u, CallAt(b) = q.call PROVE ~(a < b)
    <3>1. a = Len(replies) + m /\ b = i
      BY <1>1, <1>5, <2>2, <2>4 DEF Queue
    <3> QED BY <1>3, <2>2, <3>1
  <2>5. Before(q.call, u)
    BY <1>5, <2>2 DEF Before
  <2> QED BY <2>3, <2>4, <2>5 DEF Before
<1> QED BY <1>4, <1>6, <1>7

\* A step of the page handles the answer to its call, if there is one.
LEMMA MovesTold ==
  ASSUME Base, NEW t \in Calls, PageMove(t)
  PROVE  /\ \A q \in Told' : q \in Told /\ q.call # t
         /\ \A q \in Told : q.call # t => q \in Told'
         /\ \A q \in Told : q.call = t => q = Head(replies) /\ Served(t)
<1>1. Served(t) \/ Joined(t)
  BY OneMoves
<1>2. CASE Served(t)
  BY <1>2 DEF Served
<1>3. CASE Joined(t)
  BY <1>3 DEF Joined
<1> QED BY <1>1, <1>2, <1>3

LEMMA ListsStay ==
  ASSUME Base, NEW t \in Calls, PageMove(t), ~ReconcileMove(t), ~RebuiltMove(t), NEW s \in Sessions
  PROVE  connections[s] \subseteq connections'[s]
<1>1. CASE ReturnMove(t)
  BY <1>1, ReturnLists
<1>2. CASE ~ReturnMove(t)
  BY <1>2 DEF PageMove, AttachMove, CreatedMove, FailMove, ThrowMove, DetachMove, DropMove, RedrawMove,
         ListingMove, TypeMove, AfterMove, OpenMove, RebuildMove, RebuildFailsMove
<1> QED BY <1>1, <1>2

\* The answer to t's ATTACH, a success, is on its way.
Coming(t) ==
  /\ at[t] = "attaching"
  /\ job[t].session = database
  /\ \E r \in Told : r.call = t /\ r.ok

\* An answer the list of the database there is will be reconciled with.
Sweeps(r) == at[r.call] \in {"reconciling", "databases"} /\ job[r.call].session = database /\ r.ok

KeptByAll(n) == \A r \in Told : Sweeps(r) => n \in r.live
KeptAfter(t, n) == \A r \in Told : Sweeps(r) /\ Before(t, r.call) => n \in r.live

Listed(k) == [name |-> k.name, peer |-> k.peer] \in connections[database] /\ KeptByAll(k.name)

Arriving(k) ==
  \E t \in Calls : /\ Coming(t)
                   /\ Record(t) = [name |-> k.name, peer |-> k.peer]
                   /\ KeptAfter(t, k.name)

\* What a session attached is listed, and every answer on its way that the
\* list will be reconciled with knows it; or the answer to its ATTACH is on
\* its way, and every such answer behind it does.
HeldIsListed == \A k \in catalogs : k.by = "session" => Listed(k) \/ Arriving(k)

LEMMA WorkerHeld ==
  ASSUME Base, HeldIsListed, Worker
  PROVE  HeldIsListed'
<1>1. PICK r \in Reply : Ran(r) /\ Does(r)
  BY WorkerMoves
<1>2. /\ at' = at /\ job' = job /\ connections' = connections
  BY WorkerMoves DEF pageVars
<1>3. /\ r.call \in Calls /\ Pending(r.call) /\ Told' = Told \cup {r}
      /\ \A u, v \in Calls : Before(u, v)' <=> Before(u, v)
  BY <1>1 DEF Ran
<1>4. CASE RanOpen(r)
  BY <1>4 DEF RanOpen, HeldIsListed
<1>5. CASE ~RanOpen(r)
  <2>1. database' = database
    BY <1>1, <1>5 DEF Does, RanCreate, RanAttach, RanDrop, RanDetach, RanNames, RanTyped,
           RanOther, workerVars
  <2>2. \A q \in Told : q.call \in Calls /\ ~Before(r.call, q.call)
    BY <1>3, ToldTyped
  <2>3. \A q : Sweeps(q)' <=> Sweeps(q)
    BY <1>2, <2>1 DEF Sweeps
  <2>4. Sweeps(r) => r.live = LiveNames /\ catalogs' = catalogs
    BY <1>1, <1>5 DEF Sweeps, Does, RanCreate, RanAttach, RanDrop, RanDetach, RanNames, RanTyped,
           RanOther, workerVars
  <2>5. ASSUME NEW k \in catalogs, k \in catalogs', k.by = "session" PROVE (Listed(k) \/ Arriving(k))'
    <3>1. Sweeps(r) => k.name \in r.live
      BY <2>4 DEF LiveNames
    <3>2. CASE Listed(k)
      BY <1>2, <1>3, <2>1, <2>3, <3>1, <3>2 DEF Listed, KeptByAll
    <3>3. CASE Arriving(k)
      <4>1. PICK t \in Calls : Coming(t) /\ Record(t) = [name |-> k.name, peer |-> k.peer] /\ KeptAfter(t, k.name)
        BY <3>3 DEF Arriving
      <4>2. Coming(t)' /\ Record(t)' = Record(t)
        BY <1>2, <1>3, <2>1, <4>1 DEF Coming, Record
      <4>3. KeptAfter(t, k.name)'
        BY <1>3, <2>2, <2>3, <3>1, <4>1 DEF KeptAfter
      <4> QED BY <4>1, <4>2, <4>3 DEF Arriving
    <3> QED BY <2>5, <3>2, <3>3 DEF HeldIsListed
  <2>6. ASSUME NEW k \in catalogs', k \notin catalogs, k.by = "session" PROVE Arriving(k)'
    <3>1. RanAttach(r) /\ ~(UNCHANGED catalogs)
      BY <1>1, <1>5, <2>6 DEF Does, RanCreate, RanDrop, RanDetach, RanNames, RanTyped,
             RanOther, workerVars
    <3>2. /\ at[r.call] = "attaching" /\ r.ok /\ Connected(r.call)
          /\ k = [name |-> job[r.call].name, peer |-> job[r.call].peer, by |-> "session"]
      BY <2>6, <3>1 DEF RanAttach
    <3>3. Coming(r.call)' /\ Record(r.call)' = [name |-> k.name, peer |-> k.peer]
      BY <1>2, <1>3, <2>1, <3>2 DEF Coming, Connected, Record
    <3>4. ~Sweeps(r)
      BY <3>2 DEF Sweeps
    <3>5. KeptAfter(r.call, k.name)'
      BY <1>3, <2>2, <2>3, <3>4 DEF KeptAfter
    <3> QED BY <1>3, <3>3, <3>5 DEF Arriving
  <2> QED BY <2>5, <2>6 DEF HeldIsListed
<1> QED BY <1>4, <1>5

LEMMA PageHeld ==
  ASSUME Base, SessionsInOrder, HeldIsListed, NEW t \in Calls, PageMove(t)
  PROVE  HeldIsListed'
<1>1. /\ \A u \in Calls \ {t} : at'[u] = at[u] /\ job'[u] = job[u]
      /\ \A u, v \in Calls \ {t} : Before(u, v)' <=> Before(u, v)
  BY OneMoves
<1>2. database' = database /\ catalogs' = catalogs
  BY PageLeavesWorker
<1>3. /\ \A q \in Told' : q \in Told /\ q.call # t
      /\ \A q \in Told : q.call # t => q \in Told'
      /\ \A q \in Told : q.call = t => q = Head(replies) /\ Served(t)
  BY MovesTold
<1>4. \A q \in Told : q.call \in Calls /\ at[q.call] # "idle"
  BY ToldTyped
<1>5. \A q \in Told' : q.call \in Calls \ {t} /\ (Sweeps(q)' <=> Sweeps(q))
  BY <1>1, <1>2, <1>3, <1>4 DEF Sweeps
<1>6. database \in Sessions /\ session \in Sessions /\ Sessions \subseteq Nat
  BY BaseTyped
<1>7. ASSUME NEW k \in catalogs, Listed(k) PROVE Listed(k)'
  <2>1. KeptByAll(k.name)'
    BY <1>3, <1>5, <1>7 DEF Listed, KeptByAll
  <2> DEFINE c == [name |-> k.name, peer |-> k.peer]
  <2>2. c \in connections[database] /\ c.name = k.name
    BY <1>7 DEF Listed
  <2> HIDE DEF c
  <2>3. c \in connections'[database]
    <3>1. CASE ReconcileMove(t)
      <4>1. at[t] \in {"reconciling", "databases"} /\ Served(t) /\ Reconciled(job[t].session)
        BY <3>1 DEF ReconcileMove, Goes
      <4>2. job[t].session \in Sessions
        BY BaseTyped
      <4>3. CASE job[t].session = database /\ Ok
        <5>1. Head(replies) \in Told /\ Sweeps(Head(replies))
          BY <4>1, <4>3 DEF Served, Sweeps, Ok
        <5>2. c.name \in Head(replies).live
          BY <1>7, <2>2, <5>1 DEF Listed, KeptByAll
        <5> QED BY <2>2, <4>1, <4>2, <4>3, <5>2, ReconciledIs
      <4>4. CASE job[t].session # database \/ ~Ok
        BY <1>6, <2>2, <4>1, <4>2, <4>4, ReconciledIs
      <4> QED BY <4>3, <4>4
    <3>2. CASE RebuiltMove(t)
      <4>1. at[t] = "preparing" /\ connections' = [connections EXCEPT ![session] = {}]
        BY <3>2 DEF RebuiltMove, Goes
      <4>2. session < job[t].session /\ job[t].session <= database /\ job[t].session \in Nat
        BY <4>1, BaseTyped DEF SessionsInOrder, Rebuilds, Opened
      <4>3. session # database
        BY <1>6, <4>2
      <4>4. connections'[database] = connections[database]
        BY <1>6, <4>1, <4>3, BaseTyped
      <4> QED BY <2>2, <4>4
    <3>3. CASE ~ReconcileMove(t) /\ ~RebuiltMove(t)
      BY <1>6, <2>2, <3>3, ListsStay
    <3> QED BY <3>1, <3>2, <3>3
  <2> QED BY <1>2, <2>1, <2>3 DEF Listed, c
<1>8. ASSUME NEW k \in catalogs, Arriving(k) PROVE (Listed(k) \/ Arriving(k))'
  <2>1. PICK u \in Calls : Coming(u) /\ Record(u) = [name |-> k.name, peer |-> k.peer] /\ KeptAfter(u, k.name)
    BY <1>8 DEF Arriving
  <2>2. CASE u # t
    <3>1. Coming(u)' /\ Record(u)' = Record(u)
      BY <1>1, <1>2, <1>3, <2>1, <2>2 DEF Coming, Record
    <3>2. KeptAfter(u, k.name)'
      BY <1>1, <1>3, <1>5, <2>1, <2>2 DEF KeptAfter
    <3> QED BY <2>1, <3>1, <3>2 DEF Arriving
  <2>3. CASE u = t
    <3>1. at[t] = "attaching" /\ job[t].session = database /\ Ok /\ Served(t)
      BY <1>3, <2>1, <2>3 DEF Coming, Ok
    <3>2. ReturnMove(t)
      BY <3>1 DEF PageMove, AttachMove, CreatedMove, FailMove, ThrowMove, DetachMove,
             DropMove, ReconcileMove, RedrawMove, ListingMove, TypeMove, AfterMove, OpenMove, RebuildMove,
             RebuiltMove, RebuildFailsMove, Goes, Starts, Ends
    <3>3. [name |-> k.name, peer |-> k.peer] \in connections'[database]
      BY <1>6, <2>1, <2>3, <3>1, <3>2, ReturnLists
    <3>4. \A q \in Told' : Before(t, q.call)
      BY <1>3, <1>4, <1>5, <3>1 DEF Served
    <3>5. KeptByAll(k.name)'
      BY <1>3, <1>5, <2>1, <2>3, <3>4 DEF KeptAfter, KeptByAll
    <3> QED BY <1>2, <3>3, <3>5 DEF Listed
  <2> QED BY <2>2, <2>3
<1> QED BY <1>2, <1>7, <1>8 DEF HeldIsListed

\* A step that changes nothing leaves the queue as it is.
LEMMA Still ==
  ASSUME UNCHANGED vars
  PROVE  /\ UNCHANGED <<database, catalogs, secrets, strayed, unread, connections, at, job, crossed>>
         /\ UNCHANGED <<session, rail, views, orphans, stale>>
         /\ Told' = Told
         /\ \A u : Pending(u)' <=> Pending(u)
         /\ \A u, v : Before(u, v)' <=> Before(u, v)
<1>1. /\ UNCHANGED <<database, catalogs, secrets, strayed, unread, connections, at, job, crossed>>
      /\ UNCHANGED <<session, rail, views, orphans, stale>>
      /\ posted' = posted /\ replies' = replies
  BY DEF vars, sessionVars, workerVars, pageState
<1>2. Told' = Told
  BY <1>1 DEF Told
<1>3. \A u : Pending(u)' <=> Pending(u)
  BY <1>1 DEF Pending
<1>4. \A u, v : Before(u, v)' <=> Before(u, v)
  BY <1>1 DEF Before, CallAt, Out
<1> QED BY <1>1, <1>2, <1>3, <1>4

LEMMA NextHeld ==
  ASSUME Base, SessionsInOrder, HeldIsListed, [Next]_vars
  PROVE  HeldIsListed'
<1>1. CASE UNCHANGED vars
  <2>1. /\ UNCHANGED <<database, catalogs, connections, at, job>> /\ Told' = Told
        /\ \A u, v : Before(u, v)' <=> Before(u, v)
    BY <1>1, Still
  <2>2. /\ \A u : (Coming(u)' <=> Coming(u)) /\ Record(u)' = Record(u)
        /\ \A q : Sweeps(q)' <=> Sweeps(q)
    BY <2>1 DEF Coming, Sweeps, Record
  <2>3. \A n : (KeptByAll(n)' <=> KeptByAll(n)) /\ \A u : KeptAfter(u, n)' <=> KeptAfter(u, n)
    BY <2>1, <2>2 DEF KeptByAll, KeptAfter
  <2>4. \A k : (Listed(k)' <=> Listed(k)) /\ (Arriving(k)' <=> Arriving(k))
    BY <2>1, <2>2, <2>3 DEF Listed, Arriving
  <2> QED BY <2>1, <2>4 DEF HeldIsListed
<1> QED BY <1>1, NextBase, WorkerHeld, PageHeld

\* Nothing that is attached is missing from the list, however late a
\* reconcile's answer is applied, whatever else is attached, detached or
\* opened meanwhile.
THEOREM AttachedIsListedHolds == Spec => []AttachedIsListed
<1>1. Init => HeldIsListed
  BY DEF Init, SessionInit, HeldIsListed
<1>2. Base /\ SessionsInOrder /\ HeldIsListed /\ [Next]_vars => HeldIsListed'
  BY NextHeld
<1>3. HeldIsListed => AttachedIsListed
  BY DEF HeldIsListed, AttachedIsListed, Listed, Arriving, Coming
<1> QED BY <1>1, <1>2, <1>3, InOrderHolds, PTL DEF Spec

-----------------------------------------------------------------------------
(* The rail: what has gone is taken off it.                                *)

Redrawing == \E t \in Calls : at[t] \in {"databases", "listing"}

\* The rail shows the list, or a call that redraws it is out.
RailFollows == rail = connections[session] \/ Redrawing

LEMMA NextFollows ==
  ASSUME Base, RailFollows, [Next]_vars
  PROVE  RailFollows'
<1>1. CASE UNCHANGED vars
  BY <1>1 DEF vars, sessionVars, pageState, RailFollows, Redrawing
<1>2. CASE Worker
  BY <1>2, WorkerMoves DEF pageVars, pageState, RailFollows, Redrawing
<1>3. ASSUME NEW t \in Calls, PageMove(t) PROVE RailFollows'
  <2>1. \A u \in Calls \ {t} : at'[u] = at[u]
    BY <1>3, OneMoves
  <2>2. CASE at'[t] \in {"databases", "listing"}
    BY <2>2 DEF RailFollows, Redrawing
  <2>3. CASE RedrawMove(t)
    BY <2>3 DEF RedrawMove, renderConnections, RailFollows
  <2>4. CASE at'[t] \notin {"databases", "listing"} /\ ~RedrawMove(t)
    <3>1. UNCHANGED <<rail, connections, session>> /\ at[t] \notin {"databases", "listing"}
      BY <1>3, <2>4 DEF PageMove, AttachMove, CreatedMove, FailMove, ReturnMove, ThrowMove, DetachMove,
             DropMove, ReconcileMove, ListingMove, TypeMove, AfterMove, OpenMove, RebuildMove,
             RebuiltMove, RebuildFailsMove, Goes, Starts, Ends, Turns, pageState
    <3> QED BY <2>1, <3>1 DEF RailFollows, Redrawing
  <2> QED BY <2>2, <2>3, <2>4
<1> QED BY <1>1, <1>2, <1>3, NextBase

\* t will read what is attached, and the list will be reconciled with that.
WillRead(t) ==
  \/ at[t] = "typed" /\ job[t].doing = "hand detach" /\ \E q \in Told : q.call = t /\ q.ok
  \/ at[t] \in {"detaching", "dropping"} /\ job[t].session = database
  \/ at[t] \in {"reconciling", "databases"} /\ job[t].session = database /\ Pending(t)

\* t has read what is attached, and n was not.
HasMissed(t, n) == \E r \in Told : r.call = t /\ Sweeps(r) /\ n \notin r.live

\* A remote that is listed, or is about to be, and is not attached will be
\* missed, or went by hand unread.
GoneIsNoticed ==
  /\ \A c \in connections[database] :
       c.name \in LiveNames \cup unread \/ \E t \in Calls : WillRead(t) \/ HasMissed(t, c.name)
  /\ \A u \in Calls : Coming(u) =>
       \/ job[u].name \in LiveNames \cup unread
       \/ \E t \in Calls : WillRead(t) \/ (HasMissed(t, job[u].name) /\ Before(u, t))

\* A database that has no session yet has nothing listed or about to be.
LEMMA NothingYet ==
  ASSUME Base, SessionsInOrder, session # database
  PROVE  GoneIsNoticed
<1>1. session \in Nat /\ database \in Nat /\ database \in Sessions
  BY BaseTyped
<1>2. session < database
  BY <1>1 DEF SessionsInOrder, Newest
<1>3. connections[database] = {}
  BY <1>1, <1>2 DEF SessionsInOrder, Newest
<1>4. ASSUME NEW u \in Calls, Coming(u) PROVE FALSE
  <2>1. job[u].session <= session /\ job[u].session = database
    BY <1>4 DEF Coming, SessionsInOrder, Newest, Rebuilding
  <2> QED BY <1>1, <1>2, <2>1
<1> QED BY <1>3, <1>4 DEF GoneIsNoticed

LEMMA WorkerNoticed ==
  ASSUME Base, SessionsInOrder, Base', SessionsInOrder', GoneIsNoticed, Worker
  PROVE  GoneIsNoticed'
<1>1. PICK r \in Reply : Ran(r) /\ Does(r)
  BY WorkerMoves
<1>2. /\ at' = at /\ job' = job /\ connections' = connections /\ session' = session
  BY WorkerMoves DEF pageVars, pageState
<1>3. /\ r.call \in Calls /\ Pending(r.call) /\ Told' = Told \cup {r}
      /\ \A u \in Calls : Pending(u)' <=> Pending(u) /\ u # r.call
      /\ \A u, v \in Calls : Before(u, v)' <=> Before(u, v)
  BY <1>1 DEF Ran
<1>4. CASE RanOpen(r)
  <2>1. session' # database'
    BY <1>2, <1>4, BaseTyped DEF RanOpen, SessionsInOrder, Newest
  <2>2. ASSUME NEW u \in Calls, Coming(u)' PROVE FALSE
    <3>1. job[u].session <= session /\ job[u].session = database + 1 /\ session <= database
      BY <1>2, <1>4, <2>2 DEF Coming, RanOpen, SessionsInOrder, Newest, Rebuilding
    <3> QED BY <3>1, BaseTyped
  <2>3. connections'[database'] = {}
    <3>1. database' \in Sessions /\ database' > session
      <4>1. (database \in Sessions)'
        BY BaseTyped DEF Base, TypeOK, SessionTypeOK
      <4>2. database' = database + 1 /\ session <= database /\ database \in Nat /\ session \in Nat
        BY <1>4, BaseTyped DEF RanOpen, SessionsInOrder, Newest
      <4> QED BY <4>1, <4>2
    <3> QED BY <1>2, <3>1 DEF SessionsInOrder, Newest
  <2> QED BY <2>2, <2>3 DEF GoneIsNoticed
<1>5. CASE ~RanOpen(r)
  <2>1. database' = database
    BY <1>1, <1>5 DEF Does, RanCreate, RanAttach, RanDrop, RanDetach, RanNames, RanTyped,
           RanOther, workerVars
  <2>2. \A q : Sweeps(q)' <=> Sweeps(q)
    BY <1>2, <2>1 DEF Sweeps
  <2>3. \A t \in Calls : \A n : HasMissed(t, n) => HasMissed(t, n)'
    BY <1>3, <2>2 DEF HasMissed
  <2>4. \A t \in Calls : WillRead(t) => WillRead(t)' \/ (t = r.call /\ at[t] \in {"reconciling", "databases"}
                                                         /\ job[t].session = database)
    BY <1>2, <1>3, <2>1 DEF WillRead
  <2>5. CASE WillRead(r.call)'
    BY <1>3, <2>5 DEF GoneIsNoticed
  <2>6. CASE ~WillRead(r.call)'
    <3>1. \/ LiveNames \cup unread \subseteq (LiveNames \cup unread)'
          \/ RanNames(r) /\ r.ok
      <4>1. CASE RanTyped(r)
        <5>1. ~(r.ok /\ job[r.call].doing = "hand detach")
          BY <1>2, <1>3, <2>6, <4>1 DEF WillRead, RanTyped
        <5>2. \/ /\ catalogs' = {k \in catalogs : k.name # job[r.call].name}
                 /\ unread' = unread \cup {job[r.call].name}
              \/ catalogs \subseteq catalogs' /\ unread' = unread
          BY <4>1, <5>1 DEF RanTyped
        <5> QED BY <5>2 DEF LiveNames
      <4>2. CASE RanNames(r)
        BY <4>2 DEF RanNames, LiveNames
      <4>3. CASE ~RanTyped(r) /\ ~RanNames(r)
        <5>1. catalogs \subseteq catalogs' /\ unread' = unread
          BY <1>1, <1>2, <1>5, <2>1, <2>6, <4>3 DEF Does, RanCreate, RanAttach, RanDrop, RanDetach,
                 RanOther, workerVars, WillRead, Connected
        <5> QED BY <5>1 DEF LiveNames
      <4> QED BY <4>1, <4>2, <4>3
    <3>2. ASSUME RanNames(r) /\ r.ok, NEW n, n \notin LiveNames'
          PROVE  HasMissed(r.call, n)'
      <4>1. /\ at[r.call] \in {"reconciling", "databases"} /\ job[r.call].session = database
            /\ r.live = LiveNames /\ LiveNames' = LiveNames
        BY <3>2 DEF RanNames, Connected, LiveNames
      <4>2. Sweeps(r)' /\ n \notin r.live
        BY <2>2, <3>2, <4>1 DEF Sweeps
      <4> QED BY <1>3, <4>2 DEF HasMissed
    <3>5. ASSUME at[r.call] \in {"reconciling", "databases"}, job[r.call].session = database
          PROVE  RanNames(r) /\ r.ok
      <4>1. RanNames(r)
        BY <1>1, <1>5, <3>5 DEF Does, RanCreate, RanAttach, RanDrop, RanDetach, RanTyped, RanOther
      <4> QED BY <3>5, <4>1 DEF RanNames, Connected
    <3>3. ASSUME NEW c \in connections[database], c.name \notin (LiveNames \cup unread)'
          PROVE  \E t \in Calls : (WillRead(t) \/ HasMissed(t, c.name))'
      <4>1. CASE c.name \in LiveNames \cup unread
        BY <1>3, <3>1, <3>2, <3>3, <4>1
      <4>2. CASE c.name \notin LiveNames \cup unread
        <5>1. PICK t \in Calls : WillRead(t) \/ HasMissed(t, c.name)
          BY <4>2 DEF GoneIsNoticed
        <5> QED BY <2>3, <2>4, <3>2, <3>3, <3>5, <5>1
      <4> QED BY <4>1, <4>2
    <3>4. ASSUME NEW u \in Calls, Coming(u)', job[u].name \notin (LiveNames \cup unread)'
          PROVE  \E t \in Calls : (WillRead(t) \/ (HasMissed(t, job[u].name) /\ Before(u, t)))'
      <4>1. PICK q \in Told' : q.call = u /\ q.ok
        BY <3>4 DEF Coming
      <4>2. q # r
        <5>1. ASSUME q = r PROVE FALSE
          <6>1. RanAttach(r)
            BY <1>1, <1>2, <1>5, <3>4, <4>1, <5>1 DEF Coming, Does, RanCreate, RanNames, RanDrop, RanDetach,
                   RanTyped, RanOther
          <6>2. \E k \in catalogs' : k.name = job[u].name
            <7>1. r.ok /\ r.call = u
              BY <4>1, <5>1
            <7>2. [name |-> job[u].name, peer |-> job[u].peer, by |-> "session"] \in catalogs'
              BY <6>1, <7>1 DEF RanAttach
            <7> QED BY <7>2
          <6> QED BY <3>4, <6>2 DEF LiveNames
        <5> QED BY <5>1
      <4>3. q \in Told
        BY <1>3, <4>1, <4>2
      <4>4. Coming(u)
        BY <1>2, <2>1, <3>4, <4>1, <4>3 DEF Coming
      <4>6. Before(u, r.call) /\ Before(u, r.call)'
        BY <1>3, <4>1, <4>3, ToldTyped
      <4>5. CASE job[u].name \in LiveNames \cup unread
        <5>1. RanNames(r) /\ r.ok /\ job[u].name \notin LiveNames'
          BY <3>1, <3>4, <4>5
        <5>2. ASSUME NEW n, n = job[u].name PROVE HasMissed(r.call, n)'
          BY <3>2, <5>1, <5>2
        <5>3. (HasMissed(r.call, job[u].name) /\ Before(u, r.call))'
          BY <1>2, <4>6, <5>2
        <5> QED BY <1>3, <5>3
      <4>7. CASE job[u].name \notin LiveNames \cup unread
        <5>1. PICK t \in Calls : WillRead(t) \/ (HasMissed(t, job[u].name) /\ Before(u, t))
          BY <4>4, <4>7 DEF GoneIsNoticed
        <5> QED BY <1>2, <1>3, <2>3, <2>4, <3>2, <3>4, <3>5, <5>1, <4>6
      <4> QED BY <4>5, <4>7
    <3> QED BY <1>2, <2>1, <3>3, <3>4 DEF GoneIsNoticed
  <2> QED BY <2>5, <2>6
<1> QED BY <1>4, <1>5

\* A call that has nothing to tell the list of leaves it as it is noticed.
LEMMA NoticedStill ==
  ASSUME Base, GoneIsNoticed, NEW t \in Calls, PageMove(t),
         connections'[database] \subseteq connections[database], ~WillRead(t),
         \A c \in connections'[database] : ~HasMissed(t, c.name),
         at[t] = "idle" \/ \A u \in Calls : ~Before(u, t)
  PROVE  GoneIsNoticed'
<1>1. /\ \A u \in Calls \ {t} : at'[u] = at[u] /\ job'[u] = job[u] /\ (Pending(u)' <=> Pending(u))
      /\ \A u, v \in Calls \ {t} : Before(u, v)' <=> Before(u, v)
  BY OneMoves
<1>2. database' = database /\ LiveNames' = LiveNames /\ unread' = unread
  BY PageLeavesWorker DEF LiveNames
<1>3. /\ \A q \in Told' : q \in Told /\ q.call # t
      /\ \A q \in Told : q.call # t => q \in Told'
  BY MovesTold
<1>4. \A u \in Calls \ {t} : WillRead(u)' <=> WillRead(u)
  BY <1>1, <1>2, <1>3 DEF WillRead
<1>5. \A u \in Calls \ {t} : \A n : HasMissed(u, n) => HasMissed(u, n)'
  <2> SUFFICES ASSUME NEW u \in Calls, u # t, NEW n, HasMissed(u, n) PROVE HasMissed(u, n)'
    OBVIOUS
  <2>1. PICK q \in Told : q.call = u /\ Sweeps(q) /\ n \notin q.live
    BY DEF HasMissed
  <2>2. Sweeps(q)' /\ q \in Told'
    BY <1>1, <1>2, <1>3, <2>1 DEF Sweeps
  <2> QED BY <2>1, <2>2 DEF HasMissed
<1>6. ASSUME NEW c \in connections'[database]
      PROVE  c.name \in LiveNames \cup unread \/ \E u \in Calls : (WillRead(u) \/ HasMissed(u, c.name))'
  <2>1. \/ c.name \in LiveNames \cup unread
        \/ \E u \in Calls : WillRead(u) \/ HasMissed(u, c.name)
    BY DEF GoneIsNoticed
  <2> QED BY <1>4, <1>5, <2>1
<1>7. ASSUME NEW u \in Calls, Coming(u)', NEW n, n = job'[u].name
      PROVE  \/ n \in LiveNames \cup unread
             \/ \E v \in Calls : (WillRead(v) \/ (HasMissed(v, n) /\ Before(u, v)))'
  <2>1. u # t /\ Coming(u) /\ job'[u] = job[u]
    BY <1>1, <1>2, <1>3, <1>7 DEF Coming
  <2>2. \/ n \in LiveNames \cup unread
        \/ \E v \in Calls : WillRead(v) \/ (HasMissed(v, n) /\ Before(u, v))
    BY <1>7, <2>1 DEF GoneIsNoticed
  <2>3. HasMissed(t, n) => at[t] # "idle"
    BY ToldTyped DEF HasMissed
  <2> QED BY <1>1, <1>4, <1>5, <2>1, <2>2, <2>3
<1> QED BY <1>2, <1>6, <1>7 DEF GoneIsNoticed, HasMissed

LEMMA PageNoticed ==
  ASSUME Base, SessionsInOrder, Base', SessionsInOrder', GoneIsNoticed, NEW t \in Calls, PageMove(t)
  PROVE  GoneIsNoticed'
<1>1. /\ \A u \in Calls \ {t} : at'[u] = at[u] /\ job'[u] = job[u] /\ (Pending(u)' <=> Pending(u))
      /\ at[t] # "idle" => Served(t)
      /\ at'[t] # "idle" => AtTheBack(t)
  BY OneMoves
<1>2. database' = database /\ LiveNames' = LiveNames
  BY PageLeavesWorker DEF LiveNames
<1>3. \A q \in Told : q.call = t => q = Head(replies) /\ Served(t)
  BY MovesTold
<1>4. at[t] # "idle" => (\A u \in Calls : ~Before(u, t)) /\ ~Pending(t)
  BY <1>1 DEF Served
<1>5. CASE WillRead(t)'
  BY <1>5 DEF GoneIsNoticed
<1>6. CASE session' # database
  <2>1. (session # database)'
    BY <1>2, <1>6
  <2>2. (Base /\ SessionsInOrder /\ session # database => GoneIsNoticed)'
    <3>1. Base /\ SessionsInOrder /\ session # database => GoneIsNoticed
      BY NothingYet
    <3> QED BY NothingYet, PTL
  <2> QED BY <2>1, <2>2
<1>7. CASE ~WillRead(t)' /\ session' = database
  <2>1. /\ at'[t] \in {"databases", "detaching"} => job'[t].session # database
        /\ at'[t] \in {"dropping", "reconciling"} => job'[t].session # database
    BY <1>1, <1>2, <1>7 DEF WillRead, AtTheBack
  <2>2. \A s \in Sessions : Listing(s, "nothing").session = s /\ Listing(s, "list").session = s
    BY JobsTyped
  <2>3. session \in Sessions /\ database \in Sessions /\ job[t].session \in Sessions
    BY BaseTyped
  <2>4. ~DetachMove(t)
    <3> SUFFICES ASSUME DetachMove(t) PROVE FALSE
      OBVIOUS
    <3>1. PICK c \in rail : at'[t] = "detaching" /\ job'[t] = DetachJob(c)
      BY DEF DetachMove, Starts, Turns
    <3>2. c \in Connection
      BY DEF Base, TypeOK
    <3>3. DetachJob(c).session = session
      BY <3>2, JobsTyped
    <3>4. session' = session
      BY DEF DetachMove, pageState
    <3> QED BY <1>7, <2>1, <3>1, <3>3, <3>4
  <2>5. /\ ~ReturnMove(t) /\ ~ListingMove(t) /\ ~RebuiltMove(t)
        /\ AfterMove(t) => /\ Ends(t, "typed") /\ ~(Ok /\ Redraws(job[t].doing))
                           /\ connections' = connections
    BY <1>7, <2>1, <2>2, <2>3 DEF ReturnMove, ListingMove, AfterMove, RebuiltMove, Goes, Starts, Turns, pageState
  <2>6. CASE AfterMove(t)
    <3>1. at[t] = "typed" /\ ~(Ok /\ Redraws(job[t].doing)) /\ connections' = connections
      BY <2>5, <2>6 DEF Ends
    <3>2. ~WillRead(t)
      BY <1>3, <3>1 DEF WillRead, Ok, Redraws
    <3>3. \A n : ~HasMissed(t, n)
      BY <3>1 DEF HasMissed, Sweeps
    <3> QED BY <1>4, <3>1, <3>2, <3>3, NoticedStill
  <2>7. CASE ReconcileMove(t)
    <3>1. at[t] = "databases" /\ Served(t) /\ Reconciled(job[t].session)
      BY <1>7, <2>1, <2>2, <2>3, <2>7 DEF ReconcileMove, Goes, Turns, pageState
    <3>2. ~WillRead(t)
      BY <1>4, <3>1 DEF WillRead
    <3>3. connections'[database] \subseteq connections[database]
      BY <2>3, <3>1, ReconciledIs
    <3>4. ASSUME NEW c \in connections'[database], HasMissed(t, c.name) PROVE FALSE
      <4>1. PICK q \in Told : q.call = t /\ Sweeps(q) /\ c.name \notin q.live
        BY <3>4 DEF HasMissed
      <4>2. q = Head(replies)
        BY <1>3, <4>1
      <4>3. job[t].session = database /\ Ok /\ c.name \notin Head(replies).live
        BY <4>1, <4>2 DEF Sweeps, Ok
      <4> QED BY <2>3, <3>1, <3>3, <3>4, <4>3, ReconciledIs
    <3> QED BY <1>4, <2>7, <3>2, <3>3, <3>4, NoticedStill
  <2>8. CASE DropMove(t)
    <3>1. /\ job'[t] = job[t] /\ at[t] \in {"detaching", "dropping"} /\ at'[t] \in {"dropping", "reconciling"}
          /\ connections' = connections
      BY <2>8 DEF DropMove, Goes, Turns
    <3>2. job[t].session # database
      BY <2>1, <3>1
    <3>3. ~WillRead(t) /\ \A n : ~HasMissed(t, n)
      BY <3>1, <3>2 DEF WillRead, HasMissed, Sweeps
    <3> QED BY <1>4, <2>8, <3>1, <3>3, NoticedStill
  <2>9. CASE AttachMove(t) \/ CreatedMove(t) \/ FailMove(t) \/ ThrowMove(t) \/ RedrawMove(t)
             \/ TypeMove(t) \/ OpenMove(t) \/ RebuildMove(t) \/ RebuildFailsMove(t)
    <3>1. /\ at[t] \notin {"typed", "detaching", "dropping", "reconciling", "databases"}
          /\ connections' = connections
      BY <2>9 DEF AttachMove, CreatedMove, FailMove, ThrowMove, RedrawMove, TypeMove, OpenMove, RebuildMove,
             RebuildFailsMove, Goes, Starts, Ends
    <3>2. ~WillRead(t) /\ \A n : ~HasMissed(t, n)
      BY <3>1 DEF WillRead, HasMissed, Sweeps
    <3> QED BY <1>4, <3>1, <3>2, NoticedStill
  <2> QED BY <2>4, <2>5, <2>6, <2>7, <2>8, <2>9 DEF PageMove
<1> QED BY <1>5, <1>6, <1>7

LEMMA NextNoticed ==
  ASSUME Base, SessionsInOrder, GoneIsNoticed, [Next]_vars
  PROVE  GoneIsNoticed'
<1>1. CASE UNCHANGED vars
  <2>1. /\ UNCHANGED <<database, catalogs, unread, connections, at, job>> /\ Told' = Told
        /\ \A u, v : Before(u, v)' <=> Before(u, v)
        /\ \A u : Pending(u)' <=> Pending(u)
    BY <1>1, Still
  <2>2. /\ \A u : (Coming(u)' <=> Coming(u))
        /\ \A q : Sweeps(q)' <=> Sweeps(q)
        /\ \A u : WillRead(u)' <=> WillRead(u)
    BY <2>1 DEF Coming, Sweeps, WillRead
  <2>3. \A u, n : HasMissed(u, n)' <=> HasMissed(u, n)
    BY <2>1, <2>2 DEF HasMissed
  <2>4. LiveNames' = LiveNames /\ unread' = unread
    BY <2>1 DEF LiveNames
  <2> QED BY <2>1, <2>2, <2>3, <2>4 DEF GoneIsNoticed
<1>2. Base' /\ SessionsInOrder'
  BY NextBase, NextInOrder
<1> QED BY <1>1, <1>2, NextBase, WorkerNoticed, PageNoticed

\* Once no call is out, the rail is the session's list, the session is over
\* the database there is and what is listed is attached, but for what a line
\* typed at the prompt detached and the page did not read of: for any number
\* of calls, databases and typed lines, in any order, the lines that fail
\* half-way and those the keyword test passes over included.
THEOREM QuietRailIsTrueHolds == Spec => []QuietRailIsTrue
<1>1. Init => RailFollows /\ GoneIsNoticed
  BY CountsAssumption DEF Init, SessionInit, RailFollows, GoneIsNoticed, Coming, Sessions
<1>2. Base /\ SessionsInOrder /\ RailFollows /\ GoneIsNoticed /\ [Next]_vars => RailFollows' /\ GoneIsNoticed'
  BY NextFollows, NextNoticed
<1>3. Base /\ SessionsInOrder /\ RailFollows /\ GoneIsNoticed => QuietRailIsTrue
  <2> SUFFICES ASSUME Base, SessionsInOrder, RailFollows, GoneIsNoticed, Quiet, ~stale
               PROVE  session = database /\ Taken(session) \ unread \subseteq LiveNames
    <3>1. Quiet /\ RailFollows => rail = connections[session]
      BY DEF Quiet, Idle, RailFollows, Redrawing
    <3> QED BY <3>1 DEF QuietRailIsTrue
  <2>1. \A t \in Calls : at[t] = "idle"
    BY DEF Quiet, Idle
  <2>2. session = database
    BY <2>1 DEF SessionsInOrder, Latest, Opened
  <2>4. \A t \in Calls : ~WillRead(t)
    BY <2>1 DEF WillRead
  <2>5. ASSUME NEW t \in Calls, NEW n, HasMissed(t, n) PROVE FALSE
    BY <2>1, <2>5, ToldTyped DEF HasMissed
  <2>6. Taken(session) \ unread \subseteq LiveNames
    BY <2>2, <2>4, <2>5 DEF GoneIsNoticed, Taken
  <2> QED BY <2>2, <2>6
<1> QED BY <1>1, <1>2, <1>3, InOrderHolds, PTL DEF Spec

-----------------------------------------------------------------------------
(* The routes: none is left behind.                                        *)

\* A route that is up is a listed remote's, a dialling call's, or in the way
\* of a redraw; the panel has lost none unless attaches have crossed.
RoutesAccounted ==
  /\ \A n \in Names : views[n] # "none" =>
       \/ n \in Taken(session)
       \/ \E t \in Calls : Dialling(t) /\ views[n] = t /\ job[t].name = n
       \/ Redrawing
  /\ crossed = {} => orphans = {}

LEMMA AttachAccounted ==
  ASSUME Base, RoutesAccounted, NEW t \in Calls, AttachMove(t)
  PROVE  RoutesAccounted'
<1>1. PICK p \in Peers, n \in Names :
           /\ UniqueName(session, n) /\ Crosses(p) /\ addWire(t, n)
           /\ at[t] = "idle"
           /\ at'[t] = IF p \in TokenPeers THEN "creating" ELSE "attaching"
           /\ job'[t].name = n
           /\ \A u \in Calls \ {t} : at'[u] = at[u] /\ job'[u] = job[u]
  BY AttachIs
<1>2. connections' = connections /\ session' = session
  BY DEF AttachMove
<1>3. Dialling(t)' /\ ~Dialling(t)
  BY <1>1 DEF Dialling
<1>4. views' = [views EXCEPT ![n] = t] /\ views \in [Names -> {"none", "live"} \cup Calls]
  BY <1>1 DEF addWire, Base, TypeOK
<1>5. ASSUME NEW m \in Names, views'[m] # "none"
      PROVE  \/ m \in Taken(session)
             \/ \E u \in Calls : Dialling(u)' /\ views'[m] = u /\ job'[u].name = m
             \/ Redrawing'
  <2>1. CASE m = n
    BY <1>1, <1>3, <1>4, <2>1
  <2>2. CASE m # n
    <3>1. views'[m] = views[m]
      BY <1>4, <2>2
    <3>2. \/ m \in Taken(session)
          \/ \E u \in Calls : Dialling(u) /\ views[m] = u /\ job[u].name = m
          \/ Redrawing
      BY <1>5, <3>1 DEF RoutesAccounted
    <3>3. ASSUME NEW u \in Calls, Dialling(u), views[m] = u, job[u].name = m
          PROVE  Dialling(u)' /\ views'[m] = u /\ job'[u].name = m
      BY <1>1, <1>3, <3>1, <3>3 DEF Dialling
    <3>4. Redrawing => Redrawing'
      BY <1>1 DEF Redrawing
    <3> QED BY <3>2, <3>3, <3>4
  <2> QED BY <2>1, <2>2
<1>6. ASSUME crossed' = {} PROVE orphans' = {}
  <2>1. crossed = {} /\ \A u \in Calls : ~Dialling(u) /\ ~Reading(u)
    BY <1>1, <1>6, CrossesTyped
  <2>2. ~Redrawing
    BY <2>1 DEF Redrawing, Reading
  <2>3. n \notin Taken(session)
    BY <1>1 DEF UniqueName
  <2>4. views[n] = "none"
    BY <2>1, <2>2, <2>3 DEF RoutesAccounted
  <2> QED BY <1>1, <2>1, <2>4 DEF RoutesAccounted, addWire
<1>7. Taken(session)' = Taken(session)
  BY <1>2 DEF Taken
<1> QED BY <1>5, <1>6, <1>7 DEF RoutesAccounted

LEMMA NextAccounted ==
  ASSUME Base, RoutesAccounted, [Next]_vars
  PROVE  RoutesAccounted'
<1>1. CASE UNCHANGED vars \/ Worker
  <2>1. UNCHANGED <<connections, at, job, crossed, session, views, orphans>>
    BY <1>1, WorkerMoves DEF vars, sessionVars, pageVars, pageState
  <2> QED BY <2>1 DEF RoutesAccounted, Taken, Dialling, Redrawing
<1>2. ASSUME NEW t \in Calls, PageMove(t), ~AttachMove(t) PROVE RoutesAccounted'
  <2>1. \A u \in Calls \ {t} : at'[u] = at[u] /\ job'[u] = job[u]
    BY <1>2, OneMoves
  <2>2. orphans' = orphans /\ crossed' = crossed
    BY <1>2 DEF PageMove, CreatedMove, FailMove, ReturnMove, ThrowMove, DetachMove,
           DropMove, ReconcileMove, RedrawMove, ListingMove, TypeMove, AfterMove, OpenMove, RebuildMove,
           RebuiltMove, RebuildFailsMove, pageState
  <2>3. CASE at'[t] \in {"databases", "listing"}
    BY <2>2, <2>3 DEF RoutesAccounted, Redrawing
  <2>4. CASE RedrawMove(t) \/ ThrowMove(t)
    <3>1. \A n \in Names : views'[n] # "none" => n \in Taken(session)'
      BY <2>4 DEF RedrawMove, ThrowMove, syncWires, ShownIn, Taken
    <3> QED BY <2>2, <3>1 DEF RoutesAccounted
  <2>5. CASE at'[t] \notin {"databases", "listing"} /\ ~RedrawMove(t) /\ ~ThrowMove(t)
    <3>1. /\ UNCHANGED <<connections, session, views>>
          /\ at[t] \notin {"databases", "listing"}
      BY <1>2, <2>5 DEF PageMove, CreatedMove, FailMove, ReturnMove, DetachMove,
             DropMove, ReconcileMove, ListingMove, TypeMove, AfterMove, OpenMove, RebuildMove,
             RebuiltMove, RebuildFailsMove, Goes, Starts, Ends, Turns, pageState
    <3>2. Dialling(t) => Dialling(t)' /\ job'[t] = job[t]
      BY <1>2, <2>5 DEF PageMove, CreatedMove, FailMove, ReturnMove, DetachMove,
             DropMove, ReconcileMove, ListingMove, TypeMove, AfterMove, OpenMove, RebuildMove,
             RebuiltMove, RebuildFailsMove, Goes, Starts, Ends, Turns, Dialling
    <3>3. \A u \in Calls : Dialling(u) => Dialling(u)' /\ job'[u] = job[u]
      BY <2>1, <3>2 DEF Dialling
    <3>4. Redrawing => Redrawing'
      BY <2>1, <3>1 DEF Redrawing
    <3>5. Taken(session)' = Taken(session)
      BY <3>1 DEF Taken
    <3> QED BY <2>2, <3>1, <3>3, <3>4, <3>5 DEF RoutesAccounted
  <2> QED BY <2>3, <2>4, <2>5
<1> QED BY <1>1, <1>2, NextBase, AttachAccounted

\* Once no call is out, a route that is up belongs to a remote that is listed,
\* and the panel holds none that nothing will take down, unless attaches have
\* crossed.
THEOREM NoRouteLeftBehindHolds == Spec => []NoRouteLeftBehind
<1>1. Init => RoutesAccounted
  BY DEF Init, SessionInit, RoutesAccounted
<1>2. Base /\ RoutesAccounted /\ [Next]_vars => RoutesAccounted'
  BY NextAccounted
<1>3. RoutesAccounted => NoRouteLeftBehind
  BY DEF RoutesAccounted, NoRouteLeftBehind, Quiet, Idle, Dialling, Redrawing
<1> QED BY <1>1, <1>2, <1>3, BaseHolds, PTL DEF Spec

-----------------------------------------------------------------------------
(* The routes: every remote has its own.                                   *)

\* t dials and has crossed no other call.
Alone(t) == at[t] \in {"creating", "attaching"} /\ job[t].peer \notin crossed

\* Its route is up, and every call that would take it down answers after it:
\* a reconcile or a redraw that was asked for before the dial is over, and
\* one asked for since has its queries behind the dial's.
Undisturbed(t) ==
  /\ job[t].session = session => views[job[t].name] = t
  /\ at[t] = "creating" =>
       \A u \in Calls : /\ at[u] \notin {"listing", "dropping", "reconciling"}
                        /\ at[u] \in {"databases", "detaching"} => Before(t, u)
  /\ at[t] = "attaching" =>
       \A u \in Calls : /\ at[u] # "reconciling"
                        /\ at[u] \in {"listing", "dropping"} => Before(t, u)

RoutesLit == (\A t \in Calls : Alone(t) => Undisturbed(t)) /\ RouteUnlessCrossed

LEMMA AttachLit ==
  ASSUME Base, DialsApart, RoutesLit, NEW t \in Calls, AttachMove(t)
  PROVE  RoutesLit'
<1>1. PICK p \in Peers, n \in Names :
           /\ UniqueName(session, n) /\ Crosses(p) /\ addWire(t, n)
           /\ at[t] = "idle"
           /\ at'[t] = IF p \in TokenPeers THEN "creating" ELSE "attaching"
           /\ job'[t].name = n /\ job'[t].peer = p
           /\ \A u \in Calls \ {t} : at'[u] = at[u] /\ job'[u] = job[u]
  BY AttachIs
<1>2. connections' = connections /\ session' = session
  BY DEF AttachMove
<1>3. /\ crossed \subseteq crossed'
      /\ (\E u \in Calls : Dialling(u) \/ Reading(u)) => p \in crossed'
      /\ \A u \in Calls : Dialling(u) => job[u].peer \in crossed'
  BY <1>1, CrossesTyped
<1>4. views' = [views EXCEPT ![n] = t] /\ views \in [Names -> {"none", "live"} \cup Calls]
  BY <1>1 DEF addWire, Base, TypeOK
<1>5. ASSUME NEW u \in Calls, Alone(u)' PROVE Undisturbed(u)'
  <2>1. u = t
    BY <1>1, <1>3, <1>5 DEF Alone, Dialling
  <2>2. \A v \in Calls : ~Reading(v)
    BY <1>1, <1>3, <1>5, <2>1 DEF Alone
  <2>3. \A v \in Calls : at'[v] \notin {"listing", "dropping", "reconciling", "databases", "detaching"}
    BY <1>1, <2>2 DEF Reading
  <2>4. views'[job'[t].name] = t
    BY <1>1, <1>4
  <2> QED BY <2>1, <2>3, <2>4 DEF Undisturbed
<1>6. RouteUnlessCrossed'
  <2> SUFFICES ASSUME NEW c \in connections[session], c.peer \notin crossed' PROVE views'[c.name] = "live"
    BY <1>2 DEF RouteUnlessCrossed
  <2>1. views[c.name] = "live" /\ c.name # n
    BY <1>1, <1>3 DEF RoutesLit, RouteUnlessCrossed, UniqueName, Taken
  <2>2. c.name \in Names
    BY BaseTyped DEF Connection
  <2> QED BY <1>4, <2>1, <2>2
<1> QED BY <1>5, <1>6 DEF RoutesLit

\* A step of a call that dials finds no other that dials alone.
LEMMA DiallerLit ==
  ASSUME Base, DialsApart, RoutesLit, NEW t \in Calls, PageMove(t), Dialling(t)
  PROVE  RoutesLit'
<1>1. \A u \in Calls \ {t} : at'[u] = at[u] /\ job'[u] = job[u]
  BY OneMoves
<1>2. CreatedMove(t) \/ FailMove(t) \/ ReturnMove(t) \/ ThrowMove(t)
  BY DEF PageMove, AttachMove, DetachMove, DropMove, ReconcileMove, RedrawMove, ListingMove, TypeMove,
         AfterMove, OpenMove, RebuildMove, RebuiltMove, RebuildFailsMove, Goes, Starts, Ends, Dialling
<1>3. crossed' = crossed /\ session' = session
  BY <1>2 DEF CreatedMove, FailMove, ReturnMove, ThrowMove, pageState
<1>4. ASSUME NEW u \in Calls, Alone(u)' PROVE Undisturbed(u)'
  <2>1. u = t
    BY <1>1, <1>3, <1>4 DEF Alone, DialsApart, Dialling
  <2>2. CreatedMove(t)
    BY <1>2, <1>4, <2>1 DEF FailMove, ReturnMove, ThrowMove, Goes, Ends, Turns, Alone
  <2>3. at[t] = "creating" /\ at'[t] = "attaching" /\ job'[t] = job[t] /\ views' = views
    BY <2>2 DEF CreatedMove, Goes, Turns, pageState
  <2>4. Undisturbed(t)
    BY <1>3, <1>4, <2>1, <2>3 DEF RoutesLit, Alone
  <2> QED BY <1>1, <1>3, <2>1, <2>3, <2>4 DEF Undisturbed
<1>5. RouteUnlessCrossed'
  <2> SUFFICES ASSUME NEW c \in connections'[session], c.peer \notin crossed PROVE views'[c.name] = "live"
    BY <1>3 DEF RouteUnlessCrossed
  <2>1. session \in Sessions /\ connections \in [Sessions -> SUBSET Connection]
    BY BaseTyped
  <2>2. c \in connections[session] => views[c.name] = "live" /\ c.name \in Names
    BY <2>1 DEF RoutesLit, RouteUnlessCrossed, Connection
  <2>3. CASE CreatedMove(t) \/ FailMove(t)
    BY <2>2, <2>3 DEF CreatedMove, FailMove, pageState
  <2>4. CASE ThrowMove(t)
    <3>1. connections' = connections /\ c.name \in ShownIn(session) /\ syncWires(session)
      BY <2>4 DEF ThrowMove, ShownIn
    <3> QED BY <2>2, <3>1 DEF syncWires
  <2>5. CASE ReturnMove(t)
    <3>1. views' = [n \in Names |-> IF n = job[t].name /\ views[n] = t THEN "live" ELSE views[n]]
      BY <2>5 DEF ReturnMove
    <3>2. c \in connections[session] \/ (c = Record(t) /\ job[t].session = session)
      <4>1. connections'[session] = IF session = job[t].session THEN connections[session] \cup {Record(t)}
                                    ELSE connections[session]
        BY <2>1, <2>5, ReturnLists
      <4> QED BY <4>1
    <3>3. CASE c \in connections[session]
      BY <2>2, <3>1, <3>3
    <3>4. CASE c = Record(t) /\ job[t].session = session
      <4>1. c.name = job[t].name /\ c.peer = job[t].peer /\ c.name \in Names
        BY <3>4, DiallersTyped
      <4>2. Alone(t)
        BY <2>5, <4>1, ReturnLists DEF Alone
      <4>3. views[c.name] = t
        BY <3>4, <4>1, <4>2 DEF RoutesLit, Undisturbed
      <4> QED BY <3>1, <4>1, <4>3
    <3> QED BY <3>2, <3>3, <3>4
  <2> QED BY <1>2, <2>3, <2>4, <2>5
<1> QED BY <1>4, <1>5 DEF RoutesLit

LEMMA OthersLit ==
  ASSUME Base, SessionsInOrder, RoutesLit, NEW t \in Calls, PageMove(t), ~AttachMove(t), ~Dialling(t)
  PROVE  RoutesLit'
<1>1. /\ \A u \in Calls \ {t} : at'[u] = at[u] /\ job'[u] = job[u]
      /\ \A u, v \in Calls \ {t} : Before(u, v)' <=> Before(u, v)
      /\ at[t] # "idle" => Served(t)
      /\ at'[t] # "idle" => AtTheBack(t)
  BY OneMoves
<1>2. /\ crossed' = crossed /\ ~Dialling(t)'
      /\ ~ReturnMove(t) /\ ~ThrowMove(t) /\ ~CreatedMove(t) /\ ~FailMove(t)
  BY NoMoreDials DEF CreatedMove, FailMove, ReturnMove, ThrowMove, Goes, Ends, Dialling
<1>3. at[t] # "idle" => \A u \in Calls : ~Before(u, t)
  BY <1>1 DEF Served
<1>4. /\ at'[t] = "listing" => at[t] = "databases"
      /\ at'[t] = "dropping" => at[t] = "detaching"
      /\ at'[t] = "reconciling" => at[t] = "dropping"
  BY <1>2 DEF PageMove, DetachMove, DropMove, ReconcileMove, RedrawMove, ListingMove, TypeMove,
         AfterMove, OpenMove, RebuildMove, RebuiltMove, RebuildFailsMove, Goes, Starts, Ends, Turns
<1>5. /\ ~RebuiltMove(t) => session' = session
      /\ ~RedrawMove(t) => views' = views
  BY <1>2 DEF PageMove, DetachMove, DropMove, ReconcileMove, RedrawMove, ListingMove, TypeMove,
         AfterMove, OpenMove, RebuildMove, RebuiltMove, RebuildFailsMove, pageState
<1>6. RebuiltMove(t) => /\ session < session' /\ session \in Sessions /\ session' \in Sessions
                        /\ connections' = [connections EXCEPT ![session] = {}]
  <2>1. job[t].session \in Sessions /\ session \in Sessions
    BY BaseTyped
  <2> QED BY <2>1 DEF RebuiltMove, Goes, SessionsInOrder, Rebuilds, Opened
<1>7. ASSUME NEW u \in Calls, Alone(u)' PROVE Undisturbed(u)'
  <2>1. u # t /\ Alone(u) /\ Undisturbed(u) /\ at'[u] = at[u] /\ job'[u] = job[u]
    BY <1>1, <1>2, <1>7 DEF Alone, Dialling, RoutesLit
  <2>2. at'[t] # "idle" => Before(u, t)'
    BY <1>1, <2>1 DEF AtTheBack, Alone
  <2>3. ASSUME job[u].session = session' PROVE views'[job[u].name] = u
    <3>1. ~RebuiltMove(t)
      <4>1. job[u].session <= session /\ session \in Nat /\ job[u].session \in Nat
        BY <2>1, BaseTyped DEF SessionsInOrder, Newest, Rebuilding, Alone
      <4> QED BY <1>6, <2>3, <4>1
    <3>2. ~RedrawMove(t)
      BY <1>3, <2>1 DEF RedrawMove, Ends, Undisturbed, Alone
    <3> QED BY <1>5, <2>1, <2>3, <3>1, <3>2 DEF Undisturbed
  <2>4. ASSUME at[u] = "creating", NEW v \in Calls
        PROVE  /\ at'[v] \notin {"listing", "dropping", "reconciling"}
               /\ at'[v] \in {"databases", "detaching"} => Before(u, v)'
    <3>1. CASE v = t
      BY <1>3, <1>4, <2>1, <2>2, <2>4, <3>1 DEF Undisturbed
    <3>2. CASE v # t
      BY <1>1, <2>1, <2>4, <3>2 DEF Undisturbed
    <3> QED BY <3>1, <3>2
  <2>5. ASSUME at[u] = "attaching", NEW v \in Calls
        PROVE  /\ at'[v] # "reconciling"
               /\ at'[v] \in {"listing", "dropping"} => Before(u, v)'
    <3>1. CASE v = t
      BY <1>3, <1>4, <2>1, <2>2, <2>5, <3>1 DEF Undisturbed
    <3>2. CASE v # t
      BY <1>1, <2>1, <2>5, <3>2 DEF Undisturbed
    <3> QED BY <3>1, <3>2
  <2> QED BY <2>1, <2>3, <2>4, <2>5 DEF Undisturbed
<1>8. RouteUnlessCrossed'
  <2>0. session \in Sessions /\ connections \in [Sessions -> SUBSET Connection] /\ Sessions \subseteq Nat
    BY BaseTyped
  <2>1. CASE RebuiltMove(t)
    <3>1. connections'[session'] = {}
      BY <1>6, <2>0, <2>1 DEF SessionsInOrder, Newest
    <3> QED BY <3>1 DEF RouteUnlessCrossed
  <2>2. CASE ~RebuiltMove(t)
    <3> SUFFICES ASSUME NEW c \in connections'[session], c.peer \notin crossed PROVE views'[c.name] = "live"
      BY <1>2, <1>5, <2>2 DEF RouteUnlessCrossed
    <3>1. c \in connections[session]
      BY <1>2, <2>0, ListsShrink
    <3>2. views[c.name] = "live" /\ c.name \in Names
      BY <2>0, <3>1 DEF RoutesLit, RouteUnlessCrossed, Connection
    <3>3. CASE RedrawMove(t)
      <4>1. syncWires(session) /\ c.name \in ShownIn(session)
        BY <3>3 DEF RedrawMove, ShownIn
      <4> QED BY <3>2, <4>1 DEF syncWires
    <3>4. CASE ~RedrawMove(t)
      BY <1>5, <3>2, <3>4
    <3> QED BY <3>3, <3>4
  <2> QED BY <2>1, <2>2
<1> QED BY <1>7, <1>8 DEF RoutesLit

LEMMA NextLit ==
  ASSUME Base, SessionsInOrder, DialsApart, RoutesLit, [Next]_vars
  PROVE  RoutesLit'
<1>1. CASE UNCHANGED vars
  <2>1. /\ UNCHANGED <<connections, at, job, crossed, session, views>>
        /\ \A u, v : Before(u, v)' <=> Before(u, v)
    BY <1>1, Still
  <2>2. \A u : (Alone(u)' <=> Alone(u)) /\ (Undisturbed(u) => Undisturbed(u)')
    BY <2>1 DEF Alone, Undisturbed
  <2> QED BY <2>1, <2>2 DEF RoutesLit, RouteUnlessCrossed
<1>2. CASE Worker
  <2>1. UNCHANGED <<connections, at, job, crossed, session, views>>
    BY <1>2, WorkerMoves DEF pageVars, pageState
  <2>2. \A u, v \in Calls : Before(u, v)' <=> Before(u, v)
    <3>1. PICK r \in Reply : Ran(r)
      BY <1>2, WorkerMoves
    <3> QED BY <3>1 DEF Ran
  <2>3. \A u \in Calls : (Alone(u)' <=> Alone(u)) /\ (Undisturbed(u) => Undisturbed(u)')
    BY <2>1, <2>2 DEF Alone, Undisturbed
  <2> QED BY <2>1, <2>3 DEF RoutesLit, RouteUnlessCrossed
<1> QED BY <1>1, <1>2, NextBase, AttachLit, DiallerLit, OthersLit

\* A remote whose attach crossed no other call has its route, live, for as long
\* as it is listed: whatever was asked for before it is over, and whatever is
\* asked for meanwhile is answered after it.
THEOREM RouteUnlessCrossedHolds == Spec => []RouteUnlessCrossed
<1>1. Init => RoutesLit
  BY CountsAssumption DEF Init, SessionInit, RoutesLit, RouteUnlessCrossed, Alone, Sessions
<1>2. Base /\ SessionsInOrder /\ DialsApart /\ RoutesLit /\ [Next]_vars => RoutesLit'
  BY NextLit
<1>3. RoutesLit => RouteUnlessCrossed
  BY DEF RoutesLit
<1> QED BY <1>1, <1>2, <1>3, InOrderHolds, ApartHolds, PTL DEF Spec

-----------------------------------------------------------------------------
(* The secrets: whose they are.                                            *)

PeerIn(S, p) == \E c \in S : c.peer = p
Dials(t, p) == Dialling(t) /\ job[t].peer = p
Removes(t, p) == Removing(t) /\ job[t].peer = p

\* A database without a session holds no secret yet.
Bare == session # database => secrets = {}

\* p is on no list, the rail included, nobody removes it, and a dial of it
\* for a database that has gone finds no secret in its way.
Unheard(t, p) ==
  /\ \A u \in Calls : ~Removes(u, p)
  /\ ~PeerIn(rail, p) /\ ~PeerIn(connections[session], p) /\ ~PeerIn(connections[database], p)
  /\ job[t].session # database => p \notin secrets

DialsAlone == \A t \in Calls : Dialling(t) /\ job[t].peer \notin crossed => Unheard(t, job[t].peer)

\* A remote has one name, on the list, on the rail and for a call that removes it.
OneName ==
  \A c \in connections[session] : c.peer \notin crossed =>
    /\ \A d \in rail : d.peer = c.peer => d.name = c.name
    /\ \A t \in Calls : Removes(t, c.peer) /\ job[t].session = session => job[t].name = c.name

PeersKnown == Bare /\ DialsAlone /\ OneName

LEMMA NextBare ==
  ASSUME Base, SessionsInOrder, Bare, [Next]_vars
  PROVE  Bare'
<1>1. CASE UNCHANGED vars
  BY <1>1, Still DEF Bare
<1>2. ASSUME NEW t \in Calls, PageMove(t) PROVE Bare'
  <2>1. database' = database /\ secrets' = secrets
    BY <1>2, PageLeavesWorker
  <2>2. CASE RebuiltMove(t)
    <3>1. at[t] = "preparing"
      BY <2>2 DEF RebuiltMove, Goes
    <3>2. session < job[t].session /\ job[t].session <= database /\ job[t].session \in Nat
          /\ session \in Nat /\ database \in Nat
      BY <3>1, BaseTyped DEF SessionsInOrder, Rebuilds, Opened
    <3> QED BY <2>1, <3>2 DEF Bare
  <2>3. CASE ~RebuiltMove(t)
    <3>1. session' = session
      BY <1>2, <2>3 DEF PageMove, AttachMove, CreatedMove, FailMove, ReturnMove, ThrowMove, DetachMove,
             DropMove, ReconcileMove, RedrawMove, ListingMove, TypeMove, AfterMove, OpenMove, RebuildMove,
             RebuildFailsMove, pageState
    <3> QED BY <2>1, <3>1 DEF Bare
  <2> QED BY <2>2, <2>3
<1>3. CASE Worker
  <2>1. PICK r \in Reply : Ran(r) /\ Does(r)
    BY <1>3, WorkerMoves
  <2>2. session' = session
    BY <1>3, WorkerMoves DEF pageState
  <2>3. CASE RanOpen(r)
    BY <2>3 DEF RanOpen, Bare
  <2>4. CASE RanCreate(r) /\ secrets' # secrets
    <3>1. at[r.call] = "creating" /\ job[r.call].session = database /\ database' = database
      BY <2>4 DEF RanCreate, Connected
    <3>2. r.call \in Calls
      BY <2>1 DEF Ran
    <3>3. job[r.call].session <= session /\ session <= database
      BY <3>1, <3>2 DEF SessionsInOrder, Newest, Rebuilding
    <3>4. session = database
      BY <3>1, <3>3, BaseTyped
    <3> QED BY <2>2, <3>1, <3>4 DEF Bare
  <2>5. CASE ~RanOpen(r) /\ ~(RanCreate(r) /\ secrets' # secrets)
    <3>1. database' = database /\ secrets' \subseteq secrets
      BY <2>1, <2>5 DEF Does, RanCreate, RanAttach, RanDrop, RanDetach, RanNames, RanTyped,
             RanOther, workerVars
    <3> QED BY <2>2, <3>1 DEF Bare
  <2> QED BY <2>3, <2>4, <2>5
<1> QED BY <1>1, <1>2, <1>3, NextBase

LEMMA WorkerAlone ==
  ASSUME Base, SessionsInOrder, Base', DialsApart, DialsAlone, Worker
  PROVE  DialsAlone'
<1>1. PICK r \in Reply : Ran(r) /\ Does(r)
  BY WorkerMoves
<1>2. UNCHANGED <<connections, at, job, crossed, session, rail>>
  BY WorkerMoves DEF pageVars, pageState
<1>3. r.call \in Calls
  BY <1>1 DEF Ran
<1> SUFFICES ASSUME NEW t \in Calls, Dialling(t), job[t].peer \notin crossed PROVE Unheard(t, job[t].peer)'
  BY <1>2 DEF DialsAlone, Dialling
<1> DEFINE p == job[t].peer
<1>4. Unheard(t, p)
  BY DEF DialsAlone
<1>5. (\A u \in Calls : ~Removes(u, p))'
  BY <1>2, <1>4 DEF Unheard, Removes, Removing
<1>6. CASE RanOpen(r)
  <2>1. database' \in Sessions /\ database' > session
    <3>1. (database \in Sessions)'
      BY BaseTyped DEF Base, TypeOK, SessionTypeOK
    <3>2. database' = database + 1 /\ session <= database /\ database \in Nat /\ session \in Nat
      BY <1>6, BaseTyped DEF RanOpen, SessionsInOrder, Newest
    <3> QED BY <3>1, <3>2
  <2>2. connections[database'] = {}
    BY <2>1 DEF SessionsInOrder, Newest
  <2>3. secrets' = {}
    BY <1>6 DEF RanOpen
  <2> QED BY <1>2, <1>4, <1>5, <2>2, <2>3 DEF Unheard, PeerIn
<1>7. CASE ~RanOpen(r)
  <2>1. database' = database
    BY <1>1, <1>7 DEF Does, RanCreate, RanAttach, RanDrop, RanDetach, RanNames, RanTyped,
           RanOther, workerVars
  <2>2. job[t].session # database => p \notin secrets'
    <3>1. CASE RanCreate(r)
      <4>1. Connected(r.call) /\ r.call # t => job[r.call].peer # p
        BY <1>3, <3>1 DEF RanCreate, DialsApart, Dialling
      <4>2. p \in secrets' /\ p \notin secrets => Connected(r.call) /\ job[r.call].peer = p
        BY <3>1 DEF RanCreate
      <4> QED BY <1>4, <4>1, <4>2 DEF Unheard, Connected
    <3>2. CASE ~RanCreate(r)
      <4>1. secrets' \subseteq secrets
        BY <1>1, <1>7, <3>2 DEF Does, RanAttach, RanDrop, RanDetach, RanNames, RanTyped,
               RanOther, workerVars
      <4> QED BY <1>4, <4>1 DEF Unheard
    <3> QED BY <3>1, <3>2
  <2> QED BY <1>2, <1>4, <1>5, <2>1, <2>2 DEF Unheard, PeerIn
<1> QED BY <1>6, <1>7

LEMMA AttachAlone ==
  ASSUME Base, SessionsInOrder, RailFollows, Bare, DialsAlone, NEW t \in Calls, AttachMove(t)
  PROVE  DialsAlone'
<1>1. PICK p \in Peers, n \in Names :
           /\ ~Already(session, p) /\ Crosses(p)
           /\ at[t] = "idle"
           /\ at'[t] = IF p \in TokenPeers THEN "creating" ELSE "attaching"
           /\ job'[t].peer = p /\ job'[t].session = session
           /\ \A u \in Calls \ {t} : at'[u] = at[u] /\ job'[u] = job[u]
  BY AttachIs
<1>2. connections' = connections /\ session' = session /\ rail' = rail
      /\ database' = database /\ secrets' = secrets
  BY DEF AttachMove, workerVars
<1>3. /\ (\E u \in Calls : Dialling(u) \/ Reading(u)) => p \in crossed'
      /\ \A u \in Calls : Dialling(u) => job[u].peer \in crossed'
  BY <1>1, CrossesTyped
<1> SUFFICES ASSUME NEW u \in Calls, Dialling(u)', job'[u].peer \notin crossed' PROVE Unheard(u, job[u].peer)'
  BY DEF DialsAlone
<1>4. u = t
  BY <1>1, <1>3 DEF Dialling
<1>5. \A v \in Calls : ~Reading(v)
  BY <1>1, <1>3, <1>4
<1>6. \A v \in Calls : ~Removing(v)'
  BY <1>1, <1>5 DEF Reading, Removing
<1>7. ~PeerIn(connections[session], p)
  BY <1>1 DEF Already, PeerIn
<1>8. rail = connections[session]
  BY <1>5 DEF RailFollows, Redrawing, Reading
<1>9. CASE session = database
  BY <1>1, <1>2, <1>4, <1>6, <1>7, <1>8, <1>9 DEF Unheard, PeerIn, Removes
<1>10. CASE session # database
  <2>1. session < database /\ database \in Sessions
    BY <1>10, BaseTyped DEF SessionsInOrder, Newest
  <2>2. connections[database] = {}
    BY <2>1 DEF SessionsInOrder, Newest
  <2>3. secrets = {}
    BY <1>10 DEF Bare
  <2> QED BY <1>1, <1>2, <1>4, <1>6, <1>7, <1>8, <2>2, <2>3 DEF Unheard, PeerIn, Removes
<1> QED BY <1>9, <1>10

LEMMA PageAlone ==
  ASSUME Base, SessionsInOrder, DialsApart, DialsAlone, NEW t \in Calls, PageMove(t), ~AttachMove(t)
  PROVE  DialsAlone'
<1>1. \A u \in Calls \ {t} : at'[u] = at[u] /\ job'[u] = job[u]
  BY OneMoves
<1>2. /\ crossed' = crossed
      /\ \A u \in Calls : Dialling(u)' => Dialling(u) /\ job'[u] = job[u]
  BY NoMoreDials
<1>3. database' = database /\ secrets' = secrets
  BY PageLeavesWorker
<1>0. /\ session \in Sessions /\ database \in Sessions /\ Sessions \subseteq Nat
      /\ connections \in [Sessions -> SUBSET Connection]
  BY BaseTyped
<1> SUFFICES ASSUME NEW u \in Calls, Dialling(u)', job[u].peer \notin crossed PROVE Unheard(u, job[u].peer)'
  BY <1>2 DEF DialsAlone
<1>4. Dialling(u) /\ job'[u] = job[u] /\ Unheard(u, job[u].peer)
  BY <1>2 DEF DialsAlone
<1>5. u # t => ~Dialling(t)
  BY <1>4 DEF DialsApart
<1> DEFINE p == job[u].peer
<1>6. ~ReturnMove(t) /\ ~ThrowMove(t)
  BY <1>1, <1>5 DEF ReturnMove, ThrowMove, Goes, Ends, Turns, Dialling
<1>7. ASSUME NEW v \in Calls, Removes(v, p)' PROVE FALSE
  <2>1. v # t => Removes(v, p)
    BY <1>1, <1>4, <1>7 DEF Removes, Removing
  <2>2. CASE v = t /\ ~Removing(t)
    <3>1. DetachMove(t)
      BY <1>7, <2>2 DEF PageMove, AttachMove, CreatedMove, FailMove, ReturnMove, ThrowMove,
             DropMove, ReconcileMove, RedrawMove, ListingMove, TypeMove, AfterMove, OpenMove, RebuildMove,
             RebuiltMove, RebuildFailsMove, Goes, Starts, Ends, Turns, Removes, Removing
    <3>2. PICK c \in rail : job'[t] = DetachJob(c)
      BY <3>1 DEF DetachMove, Starts, Turns
    <3>3. c \in Connection
      BY DEF Base, TypeOK
    <3>4. DetachJob(c).peer = c.peer
      BY <3>3, JobsTyped
    <3> QED BY <1>4, <1>7, <2>2, <3>2, <3>4 DEF Removes, Unheard, PeerIn
  <2>3. CASE v = t /\ Removing(t)
    <3>1. job'[t] = job[t]
      BY <1>7, <2>3 DEF PageMove, AttachMove, CreatedMove, FailMove, ReturnMove, ThrowMove, DetachMove,
             DropMove, ReconcileMove, RedrawMove, ListingMove, TypeMove, AfterMove, OpenMove, RebuildMove,
             RebuiltMove, RebuildFailsMove, Goes, Starts, Ends, Turns, Removes, Removing
    <3> QED BY <1>4, <1>7, <2>3, <3>1 DEF Removes, Unheard
  <2>4. CASE Removes(v, p)
    BY <1>4, <2>4 DEF Unheard
  <2> QED BY <2>1, <2>2, <2>3, <2>4
<1>8. \A s \in Sessions : ~PeerIn(connections[s], p) => ~PeerIn(connections'[s], p)
  BY <1>6, ListsShrink DEF PeerIn
<1>9. ~PeerIn(connections'[session'], p)
  <2>1. CASE RebuiltMove(t)
    <3>1. at[t] = "preparing" /\ session' = job[t].session /\ connections' = [connections EXCEPT ![session] = {}]
      BY <2>1 DEF RebuiltMove, Goes
    <3>2. session < session' /\ session' \in Sessions
      BY <3>1, BaseTyped DEF SessionsInOrder, Rebuilds, Opened
    <3>3. connections'[session'] = {}
      BY <1>0, <3>1, <3>2 DEF SessionsInOrder, Newest
    <3> QED BY <3>3 DEF PeerIn
  <2>2. CASE ~RebuiltMove(t)
    <3>1. session' = session
      BY <2>2 DEF PageMove, AttachMove, CreatedMove, FailMove, ReturnMove, ThrowMove, DetachMove,
             DropMove, ReconcileMove, RedrawMove, ListingMove, TypeMove, AfterMove, OpenMove, RebuildMove,
             RebuildFailsMove, pageState
    <3> QED BY <1>0, <1>4, <1>8, <3>1 DEF Unheard
  <2> QED BY <2>1, <2>2
<1>10. ~PeerIn(rail', p)
  <2>1. CASE RedrawMove(t)
    BY <1>4, <2>1 DEF RedrawMove, renderConnections, Unheard
  <2>2. CASE ~RedrawMove(t)
    <3>1. rail' = rail
      BY <1>6, <2>2 DEF PageMove, AttachMove, CreatedMove, FailMove, DetachMove,
             DropMove, ReconcileMove, ListingMove, TypeMove, AfterMove, OpenMove, RebuildMove,
             RebuiltMove, RebuildFailsMove, pageState
    <3> QED BY <1>4, <3>1 DEF Unheard
  <2> QED BY <2>1, <2>2
<1>11. ~PeerIn(connections'[database], p)
  BY <1>0, <1>4, <1>8 DEF Unheard
<1> QED BY <1>3, <1>4, <1>7, <1>9, <1>10, <1>11 DEF Unheard, PeerIn, Removes, Removing

LEMMA NextAlone ==
  ASSUME Base, SessionsInOrder, DialsApart, RailFollows, Bare, DialsAlone, [Next]_vars
  PROVE  DialsAlone'
<1>1. CASE UNCHANGED vars
  BY <1>1, Still DEF DialsAlone, Unheard, Dialling, Removes, Removing, PeerIn
<1> QED BY <1>1, NextBase, WorkerAlone, AttachAlone, PageAlone

LEMMA ReturnOneName ==
  ASSUME Base, DialsApart', DialsAlone, OneName, NEW t \in Calls, ReturnMove(t)
  PROVE  OneName'
<1>1. /\ session \in Sessions /\ session' = session /\ crossed' = crossed
      /\ rail' = connections'[session]
  BY BaseTyped DEF ReturnMove, renderConnections
<1>2. connections'[session] = IF session = job[t].session THEN connections[session] \cup {Record(t)}
                              ELSE connections[session]
  BY <1>1, ReturnLists
<1>3. \A u \in Calls : Removing(u)' => Removing(u) /\ job'[u] = job[u]
  <2>1. at'[t] = "databases" /\ \A u \in Calls \ {t} : at'[u] = at[u] /\ job'[u] = job[u]
    BY DEF ReturnMove, Goes, Turns
  <2> QED BY <2>1 DEF Removing
<1> SUFFICES ASSUME NEW c \in connections'[session], c.peer \notin crossed
             PROVE  /\ \A d \in connections'[session] : d.peer = c.peer => d.name = c.name
                    /\ \A u \in Calls : Removes(u, c.peer)' /\ job'[u].session = session => job'[u].name = c.name
  BY <1>1 DEF OneName
<1>4. ASSUME NEW d \in connections'[session], d.peer = c.peer PROVE d.name = c.name
  <2>1. c # d => Distinct(c, d)
    BY <1>1, <1>4 DEF DialsApart, DistinctUnlessCrossed, Distinct
  <2> QED BY <1>4, <2>1 DEF Distinct
<1>5. ASSUME NEW u \in Calls, Removes(u, c.peer)', job'[u].session = session PROVE job'[u].name = c.name
  <2>1. Removes(u, c.peer) /\ job'[u] = job[u]
    BY <1>3, <1>5 DEF Removes
  <2>2. CASE c \in connections[session]
    BY <1>5, <2>1, <2>2 DEF OneName
  <2>3. CASE c = Record(t)
    <3>1. c.peer = job[t].peer /\ Dialling(t)
      BY <2>3, ReturnLists DEF Record
    <3> QED BY <2>1, <3>1 DEF DialsAlone, Unheard
  <2> QED BY <1>2, <2>2, <2>3
<1> QED BY <1>4, <1>5

LEMMA PageOneName ==
  ASSUME Base, SessionsInOrder, DialsApart, OneName, NEW t \in Calls, PageMove(t), ~ReturnMove(t)
  PROVE  OneName'
<1>1. \A u \in Calls \ {t} : at'[u] = at[u] /\ job'[u] = job[u]
  BY OneMoves
<1>2. crossed \subseteq crossed'
  <2>1. CASE AttachMove(t)
    BY <2>1, CrossesTyped DEF AttachMove
  <2>2. CASE ~AttachMove(t)
    BY <2>2, NoMoreDials
  <2> QED BY <2>1, <2>2
<1>0. /\ session \in Sessions /\ Sessions \subseteq Nat /\ connections \in [Sessions -> SUBSET Connection]
  BY BaseTyped
<1>3. CASE RebuiltMove(t)
  <2>1. at[t] = "preparing" /\ session' = job[t].session /\ connections' = [connections EXCEPT ![session] = {}]
    BY <1>3 DEF RebuiltMove, Goes
  <2>2. session < session' /\ session' \in Sessions
    BY <2>1, BaseTyped DEF SessionsInOrder, Rebuilds, Opened
  <2>3. connections'[session'] = {}
    BY <1>0, <2>1, <2>2 DEF SessionsInOrder, Newest
  <2> QED BY <2>3 DEF OneName
<1>4. CASE ~RebuiltMove(t)
  <2>1. session' = session
    BY <1>4 DEF PageMove, AttachMove, CreatedMove, FailMove, ReturnMove, ThrowMove, DetachMove,
           DropMove, ReconcileMove, RedrawMove, ListingMove, TypeMove, AfterMove, OpenMove, RebuildMove,
           RebuildFailsMove, pageState
  <2> SUFFICES ASSUME NEW c \in connections'[session], c.peer \notin crossed'
               PROVE  /\ \A d \in rail' : d.peer = c.peer => d.name = c.name
                      /\ \A u \in Calls : Removes(u, c.peer)' /\ job'[u].session = session => job'[u].name = c.name
    BY <2>1 DEF OneName
  <2>2. c \in connections[session] /\ c.peer \notin crossed
    BY <1>0, <1>2, ListsShrink
  <2>3. ASSUME NEW d \in rail', d.peer = c.peer PROVE d.name = c.name
    <3>1. CASE RedrawMove(t)
      <4>1. d \in connections[session]
        BY <3>1 DEF RedrawMove, renderConnections
      <4>2. c # d => Distinct(c, d)
        BY <1>0, <2>2, <4>1 DEF DialsApart, DistinctUnlessCrossed
      <4> QED BY <2>3, <4>2 DEF Distinct
    <3>2. CASE ~RedrawMove(t)
      <4>1. rail' = rail
        BY <3>2 DEF PageMove, AttachMove, CreatedMove, FailMove, ThrowMove, DetachMove,
               DropMove, ReconcileMove, ListingMove, TypeMove, AfterMove, OpenMove, RebuildMove,
               RebuiltMove, RebuildFailsMove, pageState
      <4> QED BY <2>2, <2>3, <4>1 DEF OneName
    <3> QED BY <3>1, <3>2
  <2>4. ASSUME NEW u \in Calls, Removes(u, c.peer)', job'[u].session = session PROVE job'[u].name = c.name
    <3>1. CASE DetachMove(t) /\ u = t
      <4>1. PICK d \in rail : job'[t] = DetachJob(d)
        BY <3>1 DEF DetachMove, Starts, Turns
      <4>2. d \in Connection
        BY DEF Base, TypeOK
      <4>3. DetachJob(d).peer = d.peer /\ DetachJob(d).name = d.name
        BY <4>2, JobsTyped
      <4> QED BY <2>2, <2>4, <3>1, <4>1, <4>3 DEF Removes, OneName
    <3>2. CASE ~(DetachMove(t) /\ u = t)
      <4>1. Removing(u) /\ job'[u] = job[u]
        <5>1. CASE u = t
          BY <2>4, <3>2, <5>1 DEF PageMove, AttachMove, CreatedMove, FailMove, ReturnMove, ThrowMove,
                 DropMove, ReconcileMove, RedrawMove, ListingMove, TypeMove, AfterMove, OpenMove, RebuildMove,
                 RebuiltMove, RebuildFailsMove, Goes, Starts, Ends, Turns, Removes, Removing
        <5>2. CASE u # t
          BY <1>1, <2>4, <5>2 DEF Removes, Removing
        <5> QED BY <5>1, <5>2
      <4> QED BY <2>2, <2>4, <4>1 DEF Removes, OneName
    <3> QED BY <3>1, <3>2
  <2> QED BY <2>3, <2>4
<1> QED BY <1>3, <1>4

LEMMA NextKnown ==
  ASSUME Base, SessionsInOrder, DialsApart, RailFollows, PeersKnown, [Next]_vars
  PROVE  PeersKnown'
<1>1. OneName'
  <2>1. CASE UNCHANGED vars
    BY <2>1, Still DEF PeersKnown, OneName, Removes, Removing
  <2>2. CASE Worker
    BY <2>2, WorkerMoves DEF pageVars, pageState, PeersKnown, OneName, Removes, Removing
  <2> QED BY <2>1, <2>2, NextBase, NextApart, ReturnOneName, PageOneName DEF PeersKnown
<1> QED BY <1>1, NextBare, NextAlone DEF PeersKnown

LEMMA KnownHolds == Spec => [](RailFollows /\ PeersKnown)
<1>1. Init => RailFollows /\ PeersKnown
  BY CountsAssumption DEF Init, SessionInit, RailFollows, PeersKnown, Bare, DialsAlone, OneName, Dialling, Sessions
<1>2. Base /\ SessionsInOrder /\ DialsApart /\ RailFollows /\ PeersKnown /\ [Next]_vars
        => RailFollows' /\ PeersKnown'
  BY NextFollows, NextKnown
<1> QED BY <1>1, <1>2, InOrderHolds, ApartHolds, PTL DEF Spec

-----------------------------------------------------------------------------
(* The secrets: when there is one.                                         *)

\* t will take p's secret away; t has, and will take n off the list; t has
\* run its DETACH of p.
Leaves(t, p) ==
  /\ job[t].peer = p /\ job[t].session = database
  /\ at[t] = "detaching" \/ (at[t] = "dropping" /\ Pending(t))

HasLeft(t, n, p) ==
  /\ job[t].peer = p /\ job[t].session = database
  /\ \/ at[t] = "dropping" /\ ~Pending(t)
     \/ at[t] = "reconciling" /\ (Pending(t) \/ HasMissed(t, n))

HasDetached(t, p) ==
  /\ job[t].peer = p /\ job[t].session = database
  /\ at[t] = "dropping" \/ (at[t] = "detaching" /\ ~Pending(t))

Held(n, p) == [name |-> n, peer |-> p, by |-> "session"] \in catalogs

\* A secret is there for a remote that is listed, dialled or leaving.
HasReason(p) ==
  p \in secrets /\ p \notin strayed =>
    \/ PeerIn(connections[database], p)
    \/ \E t \in Calls : Dials(t, p) /\ job[t].session = database
    \/ \E t \in Calls : Leaves(t, p)

\* A remote that is listed is attached and has its secret, or is leaving.
ListedRight(p) ==
  p \notin strayed => \A c \in connections[database] : c.peer = p =>
    /\ p \in secrets => (\E t \in Calls : Leaves(t, p)) \/ (Held(c.name, p) /\ KeptByAll(c.name))
    /\ p \notin secrets => c.name \notin LiveNames /\ \E t \in Calls : HasLeft(t, c.name, p)
    /\ \A t \in Calls : HasDetached(t, p) => c.name \notin LiveNames

\* So is one that is about to be listed.
ComingRight(p) ==
  p \notin strayed => \A t \in Calls : Coming(t) /\ job[t].peer = p =>
    p \in secrets /\ Held(job[t].name, p) /\ KeptAfter(t, job[t].name)

\* A dial that failed has taken its secret back.
Undone(p) == p \in secrets => \A t \in Calls : ~(Dials(t, p) /\ at[t] = "undoing" /\ ~Pending(t))

SecretRight(p) == HasReason(p) /\ ListedRight(p) /\ ComingRight(p) /\ Undone(p)

SecretsAccounted == \A p \in TokenPeers : p \notin crossed => SecretRight(p)

\* What an answer adds to what has been told.
LEMMA WorkerTells ==
  ASSUME Base, NEW r \in Reply, Ran(r), UNCHANGED pageVars, database' = database
  PROVE  /\ \A u \in Calls : Coming(u)' <=>
              Coming(u) \/ (u = r.call /\ at[u] = "attaching" /\ job[u].session = database /\ r.ok)
         /\ \A n : KeptByAll(n) /\ (Sweeps(r) => n \in r.live) => KeptByAll(n)'
         /\ \A u \in Calls : \A n : KeptAfter(u, n) /\ (Sweeps(r) => n \in r.live) => KeptAfter(u, n)'
         /\ \A n : ~Sweeps(r) => KeptAfter(r.call, n)'
         /\ \A u \in Calls : \A n : HasMissed(u, n) => HasMissed(u, n)'
         /\ \A n : Sweeps(r) /\ n \notin r.live => HasMissed(r.call, n)'
         /\ \A u \in Calls : Pending(u)' <=> Pending(u) /\ u # r.call
         /\ r.call \in Calls /\ Pending(r.call) /\ \A u \in Calls : Coming(u) => u # r.call
<1>1. at' = at /\ job' = job
  BY DEF pageVars
<1>2. /\ r.call \in Calls /\ Pending(r.call) /\ Told' = Told \cup {r}
      /\ \A q \in Told : q.call # r.call
      /\ \A u \in Calls : Pending(u)' <=> Pending(u) /\ u # r.call
      /\ \A u, v \in Calls : Before(u, v)' <=> Before(u, v)
  BY DEF Ran
<1>3. \A q : Sweeps(q)' <=> Sweeps(q)
  BY <1>1 DEF Sweeps
<1>4. \A q \in Told : q.call \in Calls /\ ~Before(r.call, q.call)
  BY <1>2, ToldTyped
<1>5. \A u \in Calls : Coming(u)' <=>
        Coming(u) \/ (u = r.call /\ at[u] = "attaching" /\ job[u].session = database /\ r.ok)
  BY <1>1, <1>2 DEF Coming
<1>6. \A n : KeptByAll(n) /\ (Sweeps(r) => n \in r.live) => KeptByAll(n)'
  BY <1>2, <1>3 DEF KeptByAll
<1>7. \A u \in Calls : \A n : KeptAfter(u, n) /\ (Sweeps(r) => n \in r.live) => KeptAfter(u, n)'
  BY <1>2, <1>3, <1>4 DEF KeptAfter
<1>8. \A n : ~Sweeps(r) => KeptAfter(r.call, n)'
  BY <1>2, <1>3, <1>4 DEF KeptAfter
<1>9. \A u \in Calls : \A n : HasMissed(u, n) => HasMissed(u, n)'
  BY <1>2, <1>3 DEF HasMissed
<1>10. \A n : Sweeps(r) /\ n \notin r.live => HasMissed(r.call, n)'
  BY <1>2, <1>3 DEF HasMissed
<1>11. \A u \in Calls : Coming(u) => u # r.call
  BY <1>2 DEF Coming
<1> QED BY <1>2, <1>5, <1>6, <1>7, <1>8, <1>9, <1>10, <1>11

\* A query that is nothing to p's secret, or only takes away what is p's in a
\* call that removes p.
LEMMA WorkerSpares ==
  ASSUME Base, DialsAlone, NEW r \in Reply, Ran(r), Does(r), UNCHANGED pageVars, database' = database,
         NEW p, p \notin crossed, SecretRight(p),
         p \in secrets' <=> p \in secrets,
         p \notin strayed' => p \notin strayed,
         \A n : p \notin strayed' /\ Held(n, p) =>
           Held(n, p)' \/ (Leaves(r.call, p) /\ at[r.call] = "detaching"),
         \A c \in connections[database] : c.peer = p /\ p \notin strayed' /\ c.name \notin LiveNames
           => c.name \notin LiveNames',
         job[r.call].peer = p => ~(at[r.call] = "dropping" /\ job[r.call].session = database)
                                 /\ at[r.call] # "undoing"
                                 /\ ~(at[r.call] = "attaching" /\ r.ok),
         at[r.call] = "detaching" /\ Leaves(r.call, p) /\ p \notin strayed' =>
           \A c \in connections[database] : c.peer = p => c.name \notin LiveNames'
  PROVE  SecretRight(p)'
<1>1. at' = at /\ job' = job /\ connections' = connections
  BY DEF pageVars
<1>2. r.call \in Calls /\ Pending(r.call) /\ \A u \in Calls : Pending(u)' <=> Pending(u) /\ u # r.call
  BY WorkerTells
<1>3. /\ Sweeps(r) => r.live = LiveNames
      /\ at[r.call] = "reconciling" /\ job[r.call].session = database => Sweeps(r)
  <2>1. at[r.call] \in {"reconciling", "databases"} => RanNames(r)
    BY DEF Does, RanCreate, RanAttach, RanDrop, RanDetach, RanTyped, RanOpen, RanOther
  <2>2. RanNames(r) => (r.ok <=> Connected(r.call)) /\ (r.ok => r.live = LiveNames)
    BY DEF RanNames
  <2>3. Sweeps(r) => r.live = LiveNames
    BY <2>1, <2>2 DEF Sweeps
  <2>4. at[r.call] = "reconciling" /\ job[r.call].session = database => r.ok
    BY <2>1, <2>2 DEF Connected
  <2> QED BY <2>3, <2>4 DEF Sweeps
<1>4. \A t \in Calls : Leaves(t, p) => Leaves(t, p)'
  BY <1>1, <1>2 DEF Leaves
<1>5. \A n : Held(n, p) => n \in LiveNames
  <2> SUFFICES ASSUME NEW n, Held(n, p) PROVE n \in LiveNames
    OBVIOUS
  <2> DEFINE k == [name |-> n, peer |-> p, by |-> "session"]
  <2>1. k \in catalogs /\ k.name = n
    BY DEF Held
  <2> QED BY <2>1 DEF LiveNames
<1>6. HasReason(p)'
  BY <1>1, <1>4 DEF SecretRight, HasReason, PeerIn, Dials, Dialling
<1>7. ListedRight(p)'
  <2> SUFFICES ASSUME p \notin strayed', NEW c \in connections[database], c.peer = p
               PROVE  /\ p \in secrets => \/ \E t \in Calls : Leaves(t, p)'
                                          \/ Held(c.name, p)' /\ KeptByAll(c.name)'
                      /\ p \notin secrets => c.name \notin LiveNames' /\ \E t \in Calls : HasLeft(t, c.name, p)'
                      /\ \A t \in Calls : HasDetached(t, p)' => c.name \notin LiveNames'
    BY <1>1 DEF ListedRight, Held, KeptByAll, HasLeft, HasMissed
  <2>1. /\ p \in secrets => (\E t \in Calls : Leaves(t, p)) \/ (Held(c.name, p) /\ KeptByAll(c.name))
        /\ p \notin secrets => c.name \notin LiveNames /\ \E t \in Calls : HasLeft(t, c.name, p)
        /\ \A t \in Calls : HasDetached(t, p) => c.name \notin LiveNames
    BY DEF SecretRight, ListedRight
  <2>2. ASSUME Held(c.name, p), KeptByAll(c.name), \A t \in Calls : ~Leaves(t, p)
        PROVE  Held(c.name, p)' /\ KeptByAll(c.name)'
    <3>1. Sweeps(r) => c.name \in r.live
      BY <1>3, <1>5, <2>2
    <3>2. KeptByAll(c.name)'
      BY <2>2, <3>1, WorkerTells
    <3>3. Held(c.name, p)'
      BY <1>2, <2>2
    <3> QED BY <3>2, <3>3
  <2>3. ASSUME NEW t \in Calls, HasLeft(t, c.name, p), c.name \notin LiveNames PROVE HasLeft(t, c.name, p)'
    <3>1. HasMissed(t, c.name) => HasMissed(t, c.name)'
      BY WorkerTells
    <3>2. CASE t = r.call
      <4>1. at[t] = "reconciling" /\ job[t].session = database
        BY <1>2, <2>3, <3>2 DEF HasLeft
      <4>2. HasMissed(t, c.name)'
        BY <1>3, <2>3, <3>2, <4>1, WorkerTells
      <4> QED BY <1>1, <2>3, <4>1, <4>2 DEF HasLeft
    <3>3. CASE t # r.call
      BY <1>1, <1>2, <2>3, <3>1, <3>3 DEF HasLeft
    <3> QED BY <3>2, <3>3
  <2>4. c.name \notin LiveNames => c.name \notin LiveNames'
    OBVIOUS
  <2>5. ASSUME NEW t \in Calls, HasDetached(t, p)' PROVE c.name \notin LiveNames'
    <3>1. CASE HasDetached(t, p)
      BY <2>1, <2>4, <3>1
    <3>2. CASE ~HasDetached(t, p)
      <4>1. t = r.call /\ at[t] = "detaching" /\ Leaves(t, p)
        BY <1>1, <1>2, <2>5, <3>2 DEF HasDetached, Leaves
      <4> QED BY <4>1
    <3> QED BY <3>1, <3>2
  <2> QED BY <1>4, <2>1, <2>2, <2>3, <2>4, <2>5
<1>8. ComingRight(p)'
  <2> SUFFICES ASSUME p \notin strayed', NEW t \in Calls, Coming(t)', job[t].peer = p
               PROVE  p \in secrets /\ Held(job[t].name, p)' /\ KeptAfter(t, job[t].name)'
    BY <1>1 DEF ComingRight
  <2>1. Coming(t)
    BY WorkerTells
  <2>2. p \in secrets /\ Held(job[t].name, p) /\ KeptAfter(t, job[t].name)
    BY <2>1 DEF SecretRight, ComingRight
  <2>3. ~Leaves(r.call, p)
    <3>1. Unheard(t, p)
      BY <2>1 DEF DialsAlone, Coming, Dialling
    <3> QED BY <1>2, <3>1 DEF Unheard, Removes, Removing, Leaves
  <2> DEFINE n == job[t].name
  <2>4. Held(n, p)'
    BY <1>1, <2>2, <2>3 DEF Held
  <2>5. KeptAfter(t, n)'
    <3>1. Sweeps(r) => n \in r.live
      BY <1>3, <1>5, <2>2
    <3> QED BY <1>1, <2>2, <3>1, WorkerTells DEF KeptAfter
  <2> QED BY <2>2, <2>4, <2>5
<1>9. Undone(p)'
  BY <1>1, <1>2 DEF SecretRight, Undone, Dials, Dialling
<1> QED BY <1>6, <1>7, <1>8, <1>9 DEF SecretRight

\* Every query the worker runs, one typed by hand included, keeps the account
\* of each machine's secret.
LEMMA WorkerSecret ==
  ASSUME Base, SessionsInOrder, Base', DialsApart, PeersKnown, SecretsAccounted, Worker
  PROVE  SecretsAccounted'
<1>1. PICK r \in Reply : Ran(r) /\ Does(r)
  BY WorkerMoves
<1>2. UNCHANGED pageVars /\ UNCHANGED <<connections, at, job, crossed, session>>
  BY WorkerMoves DEF pageVars, pageState
<1>3. r.call \in Calls /\ Pending(r.call)
  BY <1>1 DEF Ran
<1>4. DialsAlone /\ OneName
  BY DEF PeersKnown
<1> SUFFICES ASSUME NEW p \in TokenPeers, p \notin crossed PROVE SecretRight(p)'
  BY <1>2 DEF SecretsAccounted
<1>5. SecretRight(p)
  BY DEF SecretsAccounted
<1> DEFINE t == r.call
<1>6. CASE RanOpen(r)
  <2>1. database' = database + 1 /\ secrets' = {} /\ strayed' = {}
    BY <1>6 DEF RanOpen
  <2>2. session <= database /\ session \in Nat /\ database \in Nat
    BY BaseTyped DEF SessionsInOrder, Newest
  <2>3. connections'[database'] = {}
    <3>1. (database \in Sessions)'
      BY BaseTyped DEF Base, TypeOK, SessionTypeOK
    <3> QED BY <1>2, <2>1, <2>2, <3>1 DEF SessionsInOrder, Newest
  <2>4. ASSUME NEW u \in Calls, Coming(u)' PROVE FALSE
    <3>1. job[u].session <= session /\ job[u].session = database + 1
      BY <1>2, <2>1, <2>4 DEF Coming, SessionsInOrder, Newest, Rebuilding
    <3> QED BY <2>2, <3>1
  <2> QED BY <2>1, <2>3, <2>4 DEF SecretRight, HasReason, ListedRight, ComingRight, Undone
<1>7. CASE ~RanOpen(r)
  <2>1. database' = database
    BY <1>1, <1>7 DEF Does, RanCreate, RanAttach, RanDrop, RanDetach, RanNames, RanTyped,
           RanOther, workerVars
  <2>2. ASSUME Dialling(t), job[t].peer = p
        PROVE  /\ \A u \in Calls \ {t} : ~Dialling(u)
               /\ ~PeerIn(connections[database], p)
               /\ job[t].session # database => p \notin secrets
               /\ \A u \in Calls : Coming(u)' => u = t /\ at[t] = "attaching"
    <3>1. \A u \in Calls \ {t} : ~Dialling(u)
      BY <1>3, <2>2 DEF DialsApart
    <3>2. Unheard(t, p)
      BY <1>3, <1>4, <2>2 DEF DialsAlone
    <3>3. \A u \in Calls : Coming(u)' => at[u] = "attaching"
      BY <1>2 DEF Coming
    <3> QED BY <3>1, <3>2, <3>3 DEF Unheard, Dialling
  <2>3. CASE RanCreate(r)
    <3>1. at[t] = "creating" /\ UNCHANGED <<catalogs, strayed>>
      BY <2>3 DEF RanCreate
    <3>2. CASE r.ok /\ job[t].peer = p
      <4>1. Dialling(t) /\ job[t].session = database
        BY <2>3, <3>1, <3>2 DEF RanCreate, Connected, Dialling
      <4>2. HasReason(p)'
        BY <1>2, <1>3, <2>1, <3>2, <4>1 DEF HasReason, Dials, Dialling
      <4>3. ListedRight(p)'
        BY <1>2, <2>1, <2>2, <3>2, <4>1 DEF ListedRight, PeerIn
      <4>4. ComingRight(p)'
        BY <2>2, <3>1, <3>2, <4>1 DEF ComingRight
      <4>5. Undone(p)'
        <5>1. \A u \in Calls : Dialling(u) => at[u] = "creating"
          BY <2>2, <3>1, <3>2, <4>1
        <5> QED BY <1>2, <5>1 DEF Undone, Dials, Dialling
      <4> QED BY <4>2, <4>3, <4>4, <4>5 DEF SecretRight
    <3>3. CASE ~(r.ok /\ job[t].peer = p)
      <4>1. p \in secrets' <=> p \in secrets
        BY <2>3, <3>3 DEF RanCreate
      <4> QED BY <1>1, <1>2, <1>4, <1>5, <2>1, <3>1, <4>1, WorkerSpares DEF Held, LiveNames
    <3> QED BY <3>2, <3>3
  <2>4. CASE RanAttach(r)
    <3>1. at[t] = "attaching" /\ secrets' = secrets
      BY <2>4 DEF RanAttach
    <3>2. CASE ~r.ok
      <4>1. UNCHANGED <<catalogs, strayed>>
        BY <2>4, <3>2 DEF RanAttach
      <4> QED BY <1>1, <1>2, <1>4, <1>5, <2>1, <3>1, <3>2, <4>1, WorkerSpares DEF Held, LiveNames
    <3>3. CASE r.ok
      <4> DEFINE k == [name |-> job[t].name, peer |-> job[t].peer, by |-> "session"]
      <4>1. /\ job[t].session = database
            /\ job[t].peer \in TokenPeers => job[t].peer \in secrets
            /\ catalogs' = catalogs \cup {k}
            /\ strayed' = strayed \ {job[t].peer}
        BY <2>4, <3>3 DEF RanAttach, Connected
      <4>2. Dialling(t)
        BY <3>1 DEF Dialling
      <4>3. CASE job[t].peer = p
        <5>1. p \in secrets'
          BY <3>1, <4>1, <4>3
        <5>2. HasReason(p)'
          BY <1>2, <1>3, <2>1, <4>1, <4>2, <4>3 DEF HasReason, Dials, Dialling
        <5>3. ListedRight(p)'
          BY <1>2, <2>1, <2>2, <4>2, <4>3 DEF ListedRight, PeerIn
        <5>4. Held(job[t].name, p)'
          BY <1>2, <4>1, <4>3 DEF Held
        <5>5. ~Sweeps(r)
          BY <3>1 DEF Sweeps
        <5>6. \A n : KeptAfter(t, n)'
          BY <1>1, <1>2, <2>1, <5>5, WorkerTells
        <5>7. KeptAfter(t, job[t].name)'
          BY <1>2, <5>6 DEF KeptAfter
        <5>8. ComingRight(p)'
          <6>1. \A u \in Calls : Coming(u)' => u = t
            BY <2>2, <4>2, <4>3
          <6> QED BY <1>2, <5>1, <5>4, <5>7, <6>1 DEF ComingRight
        <5>9. Undone(p)'
          <6>1. \A u \in Calls : Dialling(u) => at[u] = "attaching"
            BY <2>2, <3>1, <4>2, <4>3
          <6> QED BY <1>2, <6>1 DEF Undone, Dials, Dialling
        <5> QED BY <5>2, <5>3, <5>8, <5>9 DEF SecretRight
      <4>4. CASE job[t].peer # p
        <5>1. \A n : Held(n, p) => Held(n, p)'
          BY <4>1 DEF Held
        <5>2. ASSUME NEW c \in connections[database], c.peer = p, c.name \notin LiveNames
              PROVE  c.name \notin LiveNames'
          <6>1. Distinct(c, Record(t))
            BY <1>3, <4>1, <4>2, <5>2 DEF DialsApart
          <6>2. c.name # job[t].name
            BY <1>3, <4>2, <6>1, DiallersTyped DEF Distinct
          <6>3. k.name = job[t].name
            OBVIOUS
          <6> QED BY <4>1, <5>2, <6>2, <6>3 DEF LiveNames
        <5>3. p \notin strayed' => p \notin strayed
          BY <4>1, <4>4
        <5> HIDE DEF k
        <5> QED BY <1>1, <1>2, <1>4, <1>5, <2>1, <3>1, <4>4, <5>1, <5>2, <5>3, WorkerSpares
      <4> QED BY <4>3, <4>4
    <3> QED BY <3>2, <3>3
  <2>5. CASE RanDrop(r)
    <3>1. /\ at[t] \in {"undoing", "dropping"} /\ catalogs' = catalogs
          /\ secrets' = IF job[t].session = database THEN secrets \ {job[t].peer} ELSE secrets
          /\ strayed' = IF at[t] = "undoing" THEN strayed \ {job[t].peer} ELSE strayed
      BY <2>5 DEF RanDrop, Connected
    <3>2. CASE at[t] = "undoing" /\ job[t].peer = p
      <4>1. Dialling(t)
        BY <3>2 DEF Dialling
      <4>2. p \notin secrets'
        BY <2>2, <3>1, <3>2, <4>1
      <4>3. ListedRight(p)'
        BY <1>2, <2>1, <2>2, <3>2, <4>1 DEF ListedRight, PeerIn
      <4>4. ComingRight(p)'
        BY <2>2, <3>2, <4>1 DEF ComingRight
      <4> QED BY <4>2, <4>3, <4>4 DEF SecretRight, HasReason, Undone
    <3>3. CASE at[t] = "dropping" /\ job[t].peer = p /\ job[t].session = database
      <4>1. p \notin secrets' /\ strayed' = strayed
        BY <3>1, <3>3
      <4>2. HasDetached(t, p) /\ Removes(t, p)
        BY <3>3 DEF HasDetached, Removes, Removing
      <4>3. (~Pending(t))'
        BY <1>1, <1>2, <1>3 DEF Ran
      <4>4. \A n : HasLeft(t, n, p)'
        BY <1>2, <2>1, <3>3, <4>3 DEF HasLeft
      <4>5. ListedRight(p)'
        <5>1. LiveNames' = LiveNames
          BY <3>1 DEF LiveNames
        <5> SUFFICES ASSUME p \notin strayed, NEW c \in connections[database], c.peer = p
                     PROVE  c.name \notin LiveNames /\ HasLeft(t, c.name, p)'
          BY <1>2, <1>3, <2>1, <4>1, <5>1 DEF ListedRight
        <5> QED BY <1>3, <1>5, <4>2, <4>4 DEF SecretRight, ListedRight
      <4>6. ComingRight(p)'
        <5> SUFFICES ASSUME NEW u \in Calls, Coming(u)', job[u].peer = p PROVE FALSE
          BY <1>2 DEF ComingRight
        <5>1. Dialling(u)
          BY <1>2 DEF Coming, Dialling
        <5>2. Unheard(u, p)
          BY <1>4, <5>1 DEF DialsAlone
        <5> QED BY <1>3, <4>2, <5>2 DEF Unheard
      <4> QED BY <4>1, <4>5, <4>6 DEF SecretRight, HasReason, Undone
    <3>4. CASE ~(at[t] = "undoing" /\ job[t].peer = p)
               /\ ~(at[t] = "dropping" /\ job[t].peer = p /\ job[t].session = database)
      <4>1. (p \in secrets' <=> p \in secrets) /\ (p \notin strayed' => p \notin strayed)
        BY <3>1, <3>4
      <4> QED BY <1>1, <1>2, <1>4, <1>5, <2>1, <3>1, <3>4, <4>1, WorkerSpares DEF Held, LiveNames
    <3> QED BY <3>1, <3>2, <3>3, <3>4
  <2>6. CASE RanDetach(r)
    <3>1. at[t] = "detaching" /\ secrets' = secrets /\ strayed \subseteq strayed'
      BY <2>6 DEF RanDetach
    <3>2. CASE /\ job[t].session = database
               /\ catalogs' = {k \in catalogs : k.name # job[t].name}
               /\ strayed' = strayed \cup (PeersNamed(catalogs, job[t].name) \ {job[t].peer})
      <4>1. \A n \in LiveNames' : n \in LiveNames /\ n # job[t].name
        BY <3>2 DEF LiveNames
      <4>2. ASSUME NEW n, p \notin strayed', Held(n, p) PROVE Held(n, p)' \/ Leaves(t, p)
        <5> DEFINE k == [name |-> n, peer |-> p, by |-> "session"]
        <5>1. k \in catalogs /\ k.name = n /\ k.peer = p
          BY <4>2 DEF Held
        <5> HIDE DEF k
        <5>2. CASE n # job[t].name
          <6>1. k \in catalogs'
            BY <3>2, <5>1, <5>2
          <6> QED BY <6>1 DEF Held, k
        <5>3. CASE n = job[t].name
          <6>1. p \in PeersNamed(catalogs, n)
            BY <5>1 DEF PeersNamed
          <6> QED BY <3>1, <3>2, <4>2, <5>3, <6>1 DEF Leaves
        <5> QED BY <5>2, <5>3
      <4>3. ASSUME Leaves(t, p), NEW c \in connections[database], c.peer = p PROVE c.name \notin LiveNames'
        <5>1. job[t].session <= session /\ session <= database
          BY <1>3, <3>1 DEF SessionsInOrder, Newest, Rebuilding
        <5>2. session = database
          BY <1>3, <3>2, <5>1, BaseTyped
        <5>3. Removes(t, p)
          BY <3>1, <4>3 DEF Leaves, Removes, Removing
        <5>4. job[t].name = c.name
          BY <1>3, <1>4, <3>2, <4>3, <5>2, <5>3 DEF OneName
        <5> QED BY <4>1, <5>4
      <4> QED BY <1>1, <1>2, <1>4, <1>5, <2>1, <3>1, <4>1, <4>2, <4>3, WorkerSpares
    <3>3. CASE ~(job[t].session = database
                 /\ catalogs' = {k \in catalogs : k.name # job[t].name}
                 /\ strayed' = strayed \cup (PeersNamed(catalogs, job[t].name) \ {job[t].peer}))
      <4>1. /\ catalogs' = catalogs
            /\ strayed' = IF job[t].session = database THEN strayed \cup (TokenPeers \cap {job[t].peer}) ELSE strayed
        BY <2>6, <3>3 DEF RanDetach, Connected
      <4>2. p \notin strayed' => ~Leaves(t, p)
        BY <4>1 DEF Leaves
      <4> QED BY <1>1, <1>2, <1>4, <1>5, <2>1, <3>1, <4>1, <4>2, WorkerSpares DEF Held, LiveNames
    <3> QED BY <3>2, <3>3
  <2>7. CASE RanTyped(r)
    <3> DEFINE m == job[t].name
    <3>1. at[t] = "typed" /\ secrets' = secrets /\ strayed \subseteq strayed'
      BY <2>7 DEF RanTyped
    <3>2. CASE /\ catalogs' = {k \in catalogs : k.name # m}
               /\ strayed' = strayed \cup PeersNamed(catalogs, m)
      <4>1. LiveNames' \subseteq LiveNames
        BY <3>2 DEF LiveNames
      <4>2. ASSUME NEW n, p \notin strayed', Held(n, p) PROVE Held(n, p)'
        <5> DEFINE k == [name |-> n, peer |-> p, by |-> "session"]
        <5>1. k \in catalogs /\ k.name = n /\ k.peer = p
          BY <4>2 DEF Held
        <5> HIDE DEF k
        <5>2. n # m
          BY <3>2, <4>2, <5>1 DEF PeersNamed
        <5>3. k \in catalogs'
          BY <3>2, <5>1, <5>2
        <5> QED BY <5>3 DEF Held, k
      <4> QED BY <1>1, <1>2, <1>4, <1>5, <2>1, <3>1, <4>1, <4>2, WorkerSpares
    <3>3. ASSUME NEW k, k.name = m, catalogs' = catalogs \cup {k},
                 strayed' = strayed \cup PeersNamed(connections[database], m)
          PROVE  SecretRight(p)'
      <4>1. \A n : Held(n, p) => Held(n, p)'
        BY <3>3 DEF Held
      <4>2. ASSUME NEW c \in connections[database], c.peer = p, p \notin strayed', c.name \notin LiveNames
            PROVE  c.name \notin LiveNames'
        <5>1. c.name # m
          BY <3>3, <4>2 DEF PeersNamed
        <5> QED BY <3>3, <4>2, <5>1 DEF LiveNames
      <4> QED BY <1>1, <1>2, <1>4, <1>5, <2>1, <3>1, <4>1, <4>2, WorkerSpares
    <3>4. CASE UNCHANGED <<catalogs, strayed>>
      BY <1>1, <1>2, <1>4, <1>5, <2>1, <3>1, <3>4, WorkerSpares DEF Held, LiveNames
    <3> QED BY <2>7, <3>2, <3>3, <3>4 DEF RanTyped
  <2>8. CASE RanNames(r) \/ RanOther(r)
    <3>1. /\ UNCHANGED <<catalogs, secrets, strayed>>
          /\ at[t] \in {"reconciling", "databases", "listing", "preparing"}
      BY <2>8 DEF RanNames, RanOther, workerVars
    <3> QED BY <1>1, <1>2, <1>4, <1>5, <2>1, <3>1, WorkerSpares DEF Held, LiveNames
  <2> QED BY <1>1, <1>7, <2>3, <2>4, <2>5, <2>6, <2>7, <2>8 DEF Does
<1> QED BY <1>6, <1>7

\* What handling an answer leaves of what has been told.
LEMMA PageTells ==
  ASSUME Base, NEW t \in Calls, PageMove(t)
  PROVE  /\ \A u \in Calls : Coming(u)' => u # t /\ Coming(u)
         /\ \A n : KeptByAll(n) => KeptByAll(n)'
         /\ \A u \in Calls \ {t} : \A n : KeptAfter(u, n) => KeptAfter(u, n)'
         /\ \A n : Served(t) /\ KeptAfter(t, n) => KeptByAll(n)'
         /\ \A u \in Calls \ {t} : \A n : HasMissed(u, n) => HasMissed(u, n)'
         /\ at[t] # "idle" => ~Pending(t)
         /\ at'[t] # "idle" => Pending(t)'
<1>1. /\ \A u \in Calls \ {t} : at'[u] = at[u] /\ job'[u] = job[u]
      /\ \A u, v \in Calls \ {t} : Before(u, v)' <=> Before(u, v)
      /\ at[t] # "idle" => Served(t)
      /\ at'[t] # "idle" => AtTheBack(t)
  BY OneMoves
<1>2. database' = database
  BY PageLeavesWorker
<1>3. /\ \A q \in Told' : q \in Told /\ q.call # t
      /\ \A q \in Told : q.call # t => q \in Told'
  BY MovesTold
<1>4. \A q \in Told : q.call \in Calls /\ at[q.call] # "idle"
  BY ToldTyped
<1>5. \A q \in Told : q.call # t => (Sweeps(q)' <=> Sweeps(q))
  BY <1>1, <1>2, <1>4 DEF Sweeps
<1>6. \A u \in Calls : Coming(u)' => u # t /\ Coming(u)
  BY <1>1, <1>2, <1>3 DEF Coming
<1>7. \A n : KeptByAll(n) => KeptByAll(n)'
  BY <1>3, <1>5 DEF KeptByAll
<1>8. \A u \in Calls \ {t} : \A n : KeptAfter(u, n) => KeptAfter(u, n)'
  BY <1>1, <1>3, <1>4, <1>5 DEF KeptAfter
<1>9. \A n : Served(t) /\ KeptAfter(t, n) => KeptByAll(n)'
  BY <1>3, <1>4, <1>5 DEF Served, KeptAfter, KeptByAll
<1>10. \A u \in Calls \ {t} : \A n : HasMissed(u, n) => HasMissed(u, n)'
  BY <1>3, <1>5 DEF HasMissed
<1>11. at[t] # "idle" => ~Pending(t)
  BY <1>1 DEF Served
<1>12. at'[t] # "idle" => Pending(t)'
  BY <1>1 DEF AtTheBack
<1> QED BY <1>6, <1>7, <1>8, <1>9, <1>10, <1>11, <1>12

\* A step of the page that loses nothing p's secret depends on.
LEMMA PageSpares ==
  ASSUME Base, NEW t \in Calls, PageMove(t), NEW p, SecretRight(p),
         \A c \in connections'[database] : c.peer = p => c \in connections[database],
         PeerIn(connections[database], p) /\ p \in secrets /\ p \notin strayed =>
           PeerIn(connections'[database], p) \/ \E u \in Calls : Leaves(u, p),
         Dials(t, p) /\ job[t].session = database /\ p \in secrets => Dials(t, p)' /\ job'[t] = job[t],
         Leaves(t, p) => Leaves(t, p)',
         \A c \in connections'[database] : HasLeft(t, c.name, p) => HasLeft(t, c.name, p)',
         HasDetached(t, p)' => HasDetached(t, p)
  PROVE  SecretRight(p)'
<1>1. \A u \in Calls \ {t} : at'[u] = at[u] /\ job'[u] = job[u] /\ (Pending(u)' <=> Pending(u))
  BY OneMoves
<1>2. UNCHANGED <<database, catalogs, secrets, strayed>> /\ LiveNames' = LiveNames
  BY PageLeavesWorker DEF LiveNames
<1>3. \A n : Held(n, p)' <=> Held(n, p)
  BY <1>2 DEF Held
<1>4. \A u \in Calls : Leaves(u, p) => Leaves(u, p)'
  BY <1>1, <1>2 DEF Leaves
<1>5. \A u \in Calls : HasDetached(u, p)' => HasDetached(u, p)
  BY <1>1, <1>2 DEF HasDetached
<1>6. HasReason(p)'
  <2> SUFFICES ASSUME p \in secrets, p \notin strayed
               PROVE  \/ PeerIn(connections'[database], p)
                      \/ \E u \in Calls : Dials(u, p)' /\ job'[u].session = database
                      \/ \E u \in Calls : Leaves(u, p)'
    BY <1>2 DEF HasReason, PeerIn
  <2>1. \/ PeerIn(connections[database], p)
        \/ \E u \in Calls : Dials(u, p) /\ job[u].session = database
        \/ \E u \in Calls : Leaves(u, p)
    BY DEF SecretRight, HasReason
  <2>2. ASSUME NEW u \in Calls, Dials(u, p), job[u].session = database
        PROVE  Dials(u, p)' /\ job'[u].session = database
    BY <1>1, <2>2 DEF Dials, Dialling
  <2> QED BY <1>4, <2>1, <2>2
<1>7. ListedRight(p)'
  <2> SUFFICES ASSUME p \notin strayed, NEW c \in connections'[database], c.peer = p
               PROVE  /\ p \in secrets => \/ \E u \in Calls : Leaves(u, p)'
                                          \/ Held(c.name, p)' /\ KeptByAll(c.name)'
                      /\ p \notin secrets => c.name \notin LiveNames /\ \E u \in Calls : HasLeft(u, c.name, p)'
                      /\ \A u \in Calls : HasDetached(u, p)' => c.name \notin LiveNames
    BY <1>2 DEF ListedRight, Held, KeptByAll, HasLeft, HasMissed
  <2>1. /\ p \in secrets => (\E u \in Calls : Leaves(u, p)) \/ (Held(c.name, p) /\ KeptByAll(c.name))
        /\ p \notin secrets => c.name \notin LiveNames /\ \E u \in Calls : HasLeft(u, c.name, p)
        /\ \A u \in Calls : HasDetached(u, p) => c.name \notin LiveNames
    BY DEF SecretRight, ListedRight
  <2>2. ASSUME NEW u \in Calls, HasLeft(u, c.name, p) PROVE HasLeft(u, c.name, p)'
    <3>1. u # t /\ HasMissed(u, c.name) => HasMissed(u, c.name)'
      BY PageTells
    <3> QED BY <1>1, <1>2, <2>2, <3>1 DEF HasLeft
  <2>3. KeptByAll(c.name) => KeptByAll(c.name)'
    BY PageTells
  <2> QED BY <1>3, <1>4, <1>5, <2>1, <2>2, <2>3
<1>8. ComingRight(p)'
  <2> SUFFICES ASSUME p \notin strayed, NEW u \in Calls, Coming(u)', job'[u].peer = p,
                      NEW n, n = job'[u].name
               PROVE  p \in secrets /\ Held(n, p)' /\ KeptAfter(u, n)'
    BY <1>2 DEF ComingRight, Held, KeptAfter
  <2>1. u # t /\ Coming(u) /\ job'[u] = job[u]
    BY <1>1, PageTells
  <2>2. p \in secrets /\ Held(n, p) /\ KeptAfter(u, n)
    BY <2>1 DEF SecretRight, ComingRight
  <2>3. KeptAfter(u, n)'
    BY <2>1, <2>2, PageTells
  <2> QED BY <1>3, <2>2, <2>3
<1>9. Undone(p)'
  <2>1. at'[t] # "idle" => Pending(t)'
    BY PageTells
  <2> QED BY <1>1, <1>2, <2>1 DEF SecretRight, Undone, Dials, Dialling
<1> QED BY <1>6, <1>7, <1>8, <1>9 DEF SecretRight

\* The answer to an ATTACH is handled: its remote is listed, and every answer
\* behind it knows the remote.
LEMMA ReturnSecret ==
  ASSUME Base, DialsApart, PeersKnown, SecretsAccounted, NEW t \in Calls, ReturnMove(t)
  PROVE  SecretsAccounted'
<1>1. PageMove(t)
  BY DEF PageMove
<1>2. /\ at[t] = "attaching" /\ at'[t] = "databases" /\ Served(t) /\ Ok /\ crossed' = crossed
      /\ \A u \in Calls \ {t} : at'[u] = at[u] /\ job'[u] = job[u] /\ (Pending(u)' <=> Pending(u))
  BY <1>1, OneMoves DEF ReturnMove, Goes, Turns
<1>3. /\ connections'[database] = IF database = job[t].session THEN connections[database] \cup {Record(t)}
                                 ELSE connections[database]
      /\ Dialling(t) /\ Record(t).peer = job[t].peer /\ Record(t).name = job[t].name
  BY BaseTyped, ReturnLists, DiallersTyped
<1>4. UNCHANGED <<database, catalogs, secrets, strayed>> /\ LiveNames' = LiveNames
  BY <1>1, PageLeavesWorker DEF LiveNames
<1>5. ~Leaves(t, job[t].peer) /\ at[t] \notin {"detaching", "dropping", "reconciling"}
  BY <1>2 DEF Leaves
<1> SUFFICES ASSUME NEW p \in TokenPeers, p \notin crossed PROVE SecretRight(p)'
  BY <1>2 DEF SecretsAccounted
<1>6. SecretRight(p)
  BY DEF SecretsAccounted
<1>7. CASE ~(job[t].peer = p /\ job[t].session = database)
  <2>1. \A c \in connections'[database] : c.peer = p => c \in connections[database]
    BY <1>3, <1>7
  <2>2. PeerIn(connections[database], p) => PeerIn(connections'[database], p)
    BY <1>3 DEF PeerIn
  <2>3. ~Leaves(t, p) /\ (\A n : ~HasLeft(t, n, p)) /\ ~HasDetached(t, p)'
    BY <1>2 DEF Leaves, HasLeft, HasDetached
  <2>4. ~(Dials(t, p) /\ job[t].session = database)
    BY <1>7 DEF Dials
  <2> QED BY <1>1, <1>6, <2>1, <2>2, <2>3, <2>4, PageSpares
<1>8. CASE job[t].peer = p /\ job[t].session = database
  <2>1. Unheard(t, p)
    BY <1>3, <1>8 DEF PeersKnown, DialsAlone
  <2>2. Coming(t)
    BY <1>2, <1>8 DEF Served, Coming, Ok
  <2>0. PICK n : n = job[t].name
    OBVIOUS
  <2>3. p \notin strayed => p \in secrets /\ Held(n, p) /\ KeptAfter(t, n)
    BY <1>6, <1>8, <2>0, <2>2 DEF SecretRight, ComingRight
  <2>4. \A c \in connections'[database] : c.peer = p => c.name = n
    BY <1>3, <1>8, <2>0, <2>1 DEF Unheard, PeerIn
  <2>5. HasReason(p)'
    BY <1>3, <1>4, <1>8 DEF HasReason, PeerIn
  <2>6. ListedRight(p)'
    <3> SUFFICES ASSUME p \notin strayed, NEW c \in connections'[database], c.peer = p
                 PROVE  /\ p \in secrets /\ Held(c.name, p)' /\ KeptByAll(c.name)'
                        /\ \A u \in Calls : ~HasDetached(u, p)'
      BY <1>4 DEF ListedRight, Held, KeptByAll
    <3>1. p \in secrets /\ Held(c.name, p)' /\ KeptByAll(c.name)'
      <4>1. KeptByAll(n)'
        BY <1>1, <1>2, <2>3, PageTells
      <4>2. c.name = n
        BY <2>4
      <4> QED BY <1>4, <2>3, <4>1, <4>2 DEF Held, KeptByAll
    <3>2. ASSUME NEW u \in Calls, HasDetached(u, p)' PROVE FALSE
      <4>1. u # t
        BY <1>2, <3>2 DEF HasDetached
      <4>2. Removes(u, p)
        BY <1>2, <3>2, <4>1 DEF HasDetached, Removes, Removing
      <4> QED BY <2>1, <4>2 DEF Unheard
    <3> QED BY <3>1, <3>2
  <2>7. ASSUME NEW u \in Calls, u # t PROVE ~Dialling(u)
    BY <1>3, <1>8, <2>7 DEF DialsApart
  <2>8. \A u \in Calls : ~Dialling(u)'
    BY <1>2, <2>7 DEF Dialling
  <2>9. ComingRight(p)' /\ Undone(p)'
    <3>1. \A u \in Calls : ~Coming(u)' /\ ~Dials(u, p)'
      BY <2>8 DEF Coming, Dials, Dialling
    <3> QED BY <3>1 DEF ComingRight, Undone
  <2> QED BY <2>5, <2>6, <2>9 DEF SecretRight
<1> QED BY <1>7, <1>8

\* A reconcile keeps what has its secret, and drops what has lost it.
LEMMA ReconcileSecret ==
  ASSUME Base, SecretsAccounted, NEW t \in Calls, ReconcileMove(t),
         NEW p \in TokenPeers, p \notin crossed
  PROVE  SecretRight(p)'
<1>1. PageMove(t)
  BY DEF PageMove
<1>2. /\ at[t] \in {"reconciling", "databases"} /\ at'[t] \in {"databases", "listing"}
      /\ Served(t) /\ Reconciled(job[t].session) /\ ~Pending(t)
  BY DEF ReconcileMove, Goes, Turns, Served
<1>3. SecretRight(p)
  BY DEF SecretsAccounted
<1>4. database \in Sessions /\ job[t].session \in Sessions
  BY BaseTyped
<1>5. connections'[database] \subseteq connections[database]
  BY <1>2, <1>4, ReconciledIs
<1>6. ASSUME NEW c \in connections[database], c \notin connections'[database]
      PROVE  Head(replies) \in Told /\ Sweeps(Head(replies)) /\ c.name \notin Head(replies).live
  <2>1. job[t].session = database /\ Ok
    BY <1>2, <1>4, <1>6, ReconciledIs
  <2>2. c.name \notin Head(replies).live
    BY <1>2, <1>4, <1>6, <2>1, ReconciledIs
  <2> QED BY <1>2, <2>1, <2>2 DEF Served, Sweeps, Ok
<1>7. ASSUME PeerIn(connections[database], p), p \in secrets, p \notin strayed
      PROVE  PeerIn(connections'[database], p) \/ \E u \in Calls : Leaves(u, p)
  <2>1. PICK c \in connections[database] : c.peer = p
    BY <1>7 DEF PeerIn
  <2>2. (\E u \in Calls : Leaves(u, p)) \/ KeptByAll(c.name)
    BY <1>3, <1>7, <2>1 DEF SecretRight, ListedRight
  <2>3. KeptByAll(c.name) => c \in connections'[database]
    BY <1>6, <2>1 DEF KeptByAll
  <2> QED BY <2>1, <2>2, <2>3 DEF PeerIn
<1>8. ASSUME NEW c \in connections'[database], HasLeft(t, c.name, p) PROVE FALSE
  <2>1. HasMissed(t, c.name) /\ job[t].session = database
    BY <1>2, <1>8 DEF HasLeft
  <2>2. PICK q \in Told : q.call = t /\ Sweeps(q) /\ c.name \notin q.live
    BY <2>1 DEF HasMissed
  <2>3. q = Head(replies)
    BY <1>2, <2>2 DEF Served
  <2>4. Ok /\ c.name \notin Head(replies).live
    BY <2>2, <2>3 DEF Sweeps, Ok
  <2> QED BY <1>2, <1>4, <1>5, <1>8, <2>1, <2>4, ReconciledIs
<1>9. ~Dials(t, p) /\ ~Leaves(t, p) /\ ~HasDetached(t, p)'
  BY <1>2 DEF Dials, Dialling, Leaves, HasDetached
<1> QED BY <1>1, <1>3, <1>5, <1>7, <1>8, <1>9, PageSpares

LEMMA PageSecret ==
  ASSUME Base, SessionsInOrder, DialsApart, PeersKnown, SecretsAccounted, NEW t \in Calls, PageMove(t)
  PROVE  SecretsAccounted'
<1>1. crossed \subseteq crossed'
  <2>1. CASE AttachMove(t)
    BY <2>1, CrossesTyped DEF AttachMove
  <2>2. CASE ~AttachMove(t)
    BY <2>2, NoMoreDials
  <2> QED BY <2>1, <2>2
<1>2. CASE ReturnMove(t)
  BY <1>2, ReturnSecret
<1>3. CASE ~ReturnMove(t)
  <2> SUFFICES ASSUME NEW p \in TokenPeers, p \notin crossed PROVE SecretRight(p)'
    BY <1>1 DEF SecretsAccounted
  <2>1. SecretRight(p)
    BY DEF SecretsAccounted
  <2>2. /\ at[t] # "idle" => ~Pending(t)
        /\ at'[t] # "idle" => Pending(t)'
    BY PageTells
  <2>3. CASE ReconcileMove(t)
    BY <2>3, ReconcileSecret
  <2>4. CASE ~ReconcileMove(t)
    <3>1. connections'[database] = connections[database]
      <4>1. CASE RebuiltMove(t)
        <5>1. at[t] = "preparing" /\ connections' = [connections EXCEPT ![session] = {}]
          BY <4>1 DEF RebuiltMove, Goes
        <5>2. session # database /\ database \in Sessions
          BY <5>1, BaseTyped DEF SessionsInOrder, Rebuilds, Opened
        <5> QED BY <5>1, <5>2, BaseTyped
      <4>2. CASE ~RebuiltMove(t)
        BY <1>3, <2>4, <4>2 DEF PageMove, AttachMove, CreatedMove, FailMove, ThrowMove, DetachMove, DropMove,
               RedrawMove, ListingMove, TypeMove, AfterMove, OpenMove, RebuildMove, RebuildFailsMove
      <4> QED BY <4>1, <4>2
    <3>2. CASE DropMove(t)
      <4>1. /\ (at[t] = "detaching" /\ at'[t] = "dropping") \/ (at[t] = "dropping" /\ at'[t] = "reconciling")
            /\ job'[t] = job[t] /\ database' = database
        BY <3>2, PageLeavesWorker DEF DropMove, Goes, Turns
      <4>2. ~Dials(t, p)
        BY <4>1 DEF Dials, Dialling
      <4>3. Leaves(t, p) => Leaves(t, p)'
        BY <2>2, <4>1 DEF Leaves
      <4>4. \A n : HasLeft(t, n, p) => HasLeft(t, n, p)'
        BY <2>2, <4>1 DEF HasLeft
      <4>5. HasDetached(t, p)' => HasDetached(t, p)
        BY <2>2, <4>1 DEF HasDetached
      <4> QED BY <2>1, <3>1, <4>2, <4>3, <4>4, <4>5, PageSpares
    <3>3. CASE ~DropMove(t)
      <4>1. /\ at[t] \notin {"detaching", "dropping", "reconciling"}
            /\ at'[t] \notin {"dropping", "reconciling"}
        BY <1>3, <2>4, <3>3 DEF PageMove, AttachMove, CreatedMove, FailMove, ThrowMove, DetachMove,
               RedrawMove, ListingMove, TypeMove, AfterMove, OpenMove, RebuildMove, RebuiltMove,
               RebuildFailsMove, Goes, Starts, Ends, Turns
      <4>2. ~Leaves(t, p) /\ (\A n : ~HasLeft(t, n, p)) /\ ~HasDetached(t, p)'
        BY <2>2, <4>1 DEF Leaves, HasLeft, HasDetached
      <4>3. Dials(t, p) /\ p \in secrets => Dials(t, p)' /\ job'[t] = job[t]
        <5>1. CASE ThrowMove(t)
          <6>1. at[t] = "undoing" /\ ~Pending(t)
            BY <2>2, <5>1 DEF ThrowMove, Ends
          <6> QED BY <2>1, <6>1 DEF SecretRight, Undone
        <5>2. CASE ~ThrowMove(t)
          <6>1. at[t] \in {"creating", "attaching", "undoing"} =>
                  at'[t] \in {"creating", "attaching", "undoing"} /\ job'[t] = job[t]
            BY <1>3, <2>4, <3>3, <5>2 DEF PageMove, AttachMove, CreatedMove, FailMove, DetachMove,
                   RedrawMove, ListingMove, TypeMove, AfterMove, OpenMove, RebuildMove, RebuiltMove,
                   RebuildFailsMove, Goes, Starts, Ends, Turns
          <6> QED BY <6>1 DEF Dials, Dialling
        <5> QED BY <5>1, <5>2
      <4> QED BY <2>1, <3>1, <4>2, <4>3, PageSpares
    <3> QED BY <3>2, <3>3
  <2> QED BY <2>3, <2>4
<1> QED BY <1>2, <1>3

LEMMA NextSecret ==
  ASSUME Base, SessionsInOrder, DialsApart, PeersKnown, SecretsAccounted, [Next]_vars
  PROVE  SecretsAccounted'
<1>1. CASE UNCHANGED vars
  <2>1. /\ UNCHANGED <<database, catalogs, secrets, strayed, connections, at, job, crossed>> /\ Told' = Told
        /\ \A u : Pending(u)' <=> Pending(u)
        /\ \A u, v : Before(u, v)' <=> Before(u, v)
    BY <1>1, Still
  <2>2. /\ \A u : Coming(u)' <=> Coming(u)
        /\ \A q : Sweeps(q)' <=> Sweeps(q)
        /\ LiveNames' = LiveNames
        /\ \A n, p : Held(n, p)' <=> Held(n, p)
    BY <2>1 DEF Coming, Sweeps, LiveNames, Held
  <2>3. /\ \A n : KeptByAll(n)' <=> KeptByAll(n)
        /\ \A u, n : (KeptAfter(u, n)' <=> KeptAfter(u, n)) /\ (HasMissed(u, n)' <=> HasMissed(u, n))
    BY <2>1, <2>2 DEF KeptByAll, KeptAfter, HasMissed
  <2>4. \A u, p : /\ Leaves(u, p)' <=> Leaves(u, p)
                  /\ HasDetached(u, p)' <=> HasDetached(u, p)
                  /\ \A n : HasLeft(u, n, p)' <=> HasLeft(u, n, p)
    BY <2>1, <2>3 DEF Leaves, HasDetached, HasLeft
  <2>5. ASSUME NEW p PROVE SecretRight(p) => SecretRight(p)'
    <3>1. HasReason(p) => HasReason(p)'
      BY <2>1, <2>4 DEF HasReason, PeerIn, Dials, Dialling
    <3>2. ListedRight(p) => ListedRight(p)'
      BY <2>1, <2>2, <2>3, <2>4 DEF ListedRight
    <3>3. ComingRight(p) => ComingRight(p)'
      BY <2>1, <2>2, <2>3 DEF ComingRight
    <3>4. Undone(p) => Undone(p)'
      BY <2>1 DEF Undone, Dials, Dialling
    <3> QED BY <3>1, <3>2, <3>3, <3>4 DEF SecretRight
  <2> QED BY <2>1, <2>5 DEF SecretsAccounted
<1> QED BY <1>1, NextBase, WorkerSecret, PageSecret

\* Once no call is out, the worker holds a secret for every listed remote with
\* a token and for no other, but for a machine detached behind the session's
\* back, one that could not be detached and one whose attach crossed another
\* call: whatever failed, was taken back, dropped by a reconcile or lost with
\* its database on the way.
THEOREM SecretsFollowTheListHolds == Spec => []SecretsFollowTheList
<1>1. Init => SecretsAccounted
  <2> SUFFICES ASSUME Init PROVE SecretsAccounted
    OBVIOUS
  <2>1. /\ secrets = {} /\ database = 1 /\ 1 \in Sessions /\ connections[database] = {}
        /\ \A t \in Calls : at[t] = "idle"
    BY CountsAssumption DEF Init, SessionInit, Sessions
  <2> QED BY <2>1 DEF SecretsAccounted, SecretRight, HasReason, ListedRight, ComingRight, Coming, Undone
<1>2. Base /\ SessionsInOrder /\ DialsApart /\ PeersKnown /\ SecretsAccounted /\ [Next]_vars
        => SecretsAccounted'
  BY NextSecret
<1>3. SecretsAccounted => SecretsFollowTheList
  <2> SUFFICES ASSUME SecretsAccounted, Quiet, NEW p \in TokenPeers, p \notin strayed, p \notin crossed
               PROVE  p \in secrets <=> Already(database, p)
    BY DEF SecretsFollowTheList
  <2>1. \A t \in Calls : at[t] = "idle"
    BY DEF Quiet, Idle
  <2>2. HasReason(p) /\ ListedRight(p)
    BY DEF SecretsAccounted, SecretRight
  <2>3. \A t \in Calls : ~Dials(t, p) /\ ~Leaves(t, p) /\ \A n : ~HasLeft(t, n, p)
    BY <2>1 DEF Dials, Dialling, Leaves, HasLeft
  <2> QED BY <2>2, <2>3 DEF HasReason, ListedRight, PeerIn, Already
<1> QED BY <1>1, <1>2, <1>3, InOrderHolds, ApartHolds, KnownHolds, PTL DEF Spec
=============================================================================
