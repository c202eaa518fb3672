----------------------------- MODULE Loop_proofs -----------------------------
(***************************************************************************)
(* For every value of the constants: nobody finishes over an open          *)
(* consultation or unread input of the human, no event is lost whose       *)
(* sender was told that it is queued, no wake is sent that was not         *)
(* granted, and a consultation ends with its answer.                       *)
(*                                                                         *)
(* All of it follows from LoopInv, which says the same of two domain       *)
(* states, the live one and the one in the session file: a crash puts the  *)
(* second in the place of the first.  It holds because the events of an    *)
(* inbox are in the order of their IDs (Ordered), and because every rule   *)
(* of the domain but four only adds to the state (Adds): an                *)
(* acknowledgement takes events, a new round and a continuation reset      *)
(* counters, and a crash goes back to the file.                            *)
(***************************************************************************)
EXTENDS Loop, FiniteSetTheorems, TLAPS

USE DEF Agents, Kinds

Inbox == Seq(EventRecord)

\* Events queue in the order of their IDs, and all of them have been issued.
Ordered(s, n) ==
  \A i \in DOMAIN s :
    /\ s[i].id \in 1 .. n
    /\ \A j \in DOMAIN s : i < j => s[i].id < s[j].id

----------------------------------------------------------------------------
\* What an inbox holds, by position.
LEMMA InboxFacts ==
  ASSUME NEW s \in Inbox
  PROVE  /\ DOMAIN s = 1 .. Len(s) /\ Len(s) \in Nat
         /\ \A i \in 1 .. Len(s) : s[i] \in EventRecord /\ s[i].id \in Nat /\ s[i].kind \in Kinds
         /\ \A x : x \in Ids(s) <=> \E i \in 1 .. Len(s) : s[i].id = x
         /\ \A k : HasKind(s, k) <=> \E i \in 1 .. Len(s) : s[i].kind = k
         /\ Ids(s) \subseteq Nat
<1>1. DOMAIN s = 1 .. Len(s) /\ Len(s) \in Nat /\ \A i \in 1 .. Len(s) : s[i] \in EventRecord
  BY DEF Inbox
<1>2. \A i \in 1 .. Len(s) : s[i].id \in Nat /\ s[i].kind \in Kinds
  BY <1>1 DEF EventRecord
<1> QED
  BY <1>1, <1>2 DEF Ids, HasKind, ToSet

\* A new event goes to the end of the queue.
LEMMA AppendFacts ==
  ASSUME NEW s \in Inbox, NEW n \in Nat, NEW kind \in Kinds, Ordered(s, n),
         NEW e, e = [id |-> n + 1, kind |-> kind]
  PROVE  /\ Append(s, e) \in Inbox
         /\ Ordered(Append(s, e), n + 1)
         /\ Ids(Append(s, e)) = Ids(s) \cup {n + 1}
         /\ \A k : HasKind(Append(s, e), k) <=> HasKind(s, k) \/ kind = k
<1> DEFINE t == Append(s, e)
<1>1. e \in EventRecord /\ e.id = n + 1 /\ e.kind = kind
  BY DEF EventRecord
<1>2. t \in Inbox /\ Len(t) = Len(s) + 1 /\ Len(s) \in Nat
      /\ (\A i \in 1 .. Len(s) : t[i] = s[i]) /\ t[Len(s) + 1] = e
  BY <1>1 DEF Inbox
<1> HIDE DEF t
<1>3. Ids(t) = Ids(s) \cup {n + 1}
  <2>1. ASSUME NEW x PROVE x \in Ids(t) <=> x \in Ids(s) \cup {n + 1}
    <3>1. x \in Ids(t) <=> \E i \in 1 .. Len(t) : t[i].id = x
      BY <1>2, InboxFacts
    <3>2. x \in Ids(s) <=> \E i \in 1 .. Len(s) : s[i].id = x
      BY InboxFacts
    <3> QED
      BY <1>1, <1>2, <3>1, <3>2
  <2> QED
    BY <2>1
<1>4. \A k : HasKind(t, k) <=> HasKind(s, k) \/ kind = k
  <2>1. ASSUME NEW k PROVE HasKind(t, k) <=> HasKind(s, k) \/ kind = k
    <3>1. HasKind(t, k) <=> \E i \in 1 .. Len(t) : t[i].kind = k
      BY <1>2, InboxFacts
    <3>2. HasKind(s, k) <=> \E i \in 1 .. Len(s) : s[i].kind = k
      BY InboxFacts
    <3> QED
      BY <1>1, <1>2, <3>1, <3>2
  <2> QED
    BY <2>1
<1>5. Ordered(t, n + 1)
  <2>1. DOMAIN s = 1 .. Len(s) /\ DOMAIN t = 1 .. Len(t)
    BY <1>2, InboxFacts
  <2>2. \A i \in 1 .. Len(s) : s[i].id \in 1 .. n
    BY <2>1 DEF Ordered
  <2>3. \A i, j \in 1 .. Len(s) : i < j => s[i].id < s[j].id
    BY <2>1 DEF Ordered
  <2>4. \A i \in 1 .. Len(t) : t[i].id \in 1 .. n + 1
    BY <1>1, <1>2, <2>2
  <2>5. ASSUME NEW i \in 1 .. Len(t), NEW j \in 1 .. Len(t), i < j
        PROVE  t[i].id < t[j].id
    <3>1. i \in 1 .. Len(s) /\ t[i] = s[i] /\ s[i].id \in 1 .. n
      BY <1>2, <2>2, <2>5
    <3>2. CASE j = Len(s) + 1
      BY <1>1, <1>2, <3>1, <3>2
    <3>3. CASE j \in 1 .. Len(s)
      BY <1>2, <2>3, <2>5, <3>1, <3>3
    <3> QED
      BY <1>2, <3>2, <3>3
  <2> QED
    BY <2>1, <2>4, <2>5 DEF Ordered
<1> QED
  BY <1>2, <1>3, <1>4, <1>5 DEF t

\* The place of an event.
LEMMA PlaceFacts ==
  ASSUME NEW s \in Inbox, NEW id \in Ids(s)
  PROVE  Place(s, id) \in 1 .. Len(s) /\ s[Place(s, id)].id = id
BY InboxFacts DEF Place

\* An inbox of some events of another, in their order.
Part(t, s) ==
  \E at \in [1 .. Len(t) -> 1 .. Len(s)] :
    \A i \in 1 .. Len(t) :
      t[i] = s[at[i]] /\ \A j \in 1 .. Len(t) : i < j => at[i] < at[j]

LEMMA PartFacts ==
  ASSUME NEW s \in Inbox, NEW t \in Inbox, Part(t, s)
  PROVE  /\ Ids(t) \subseteq Ids(s)
         /\ \A k : HasKind(t, k) => HasKind(s, k)
         /\ \A n \in Nat : Ordered(s, n) => Ordered(t, n)
<1>1. PICK at \in [1 .. Len(t) -> 1 .. Len(s)] :
        \A i \in 1 .. Len(t) :
          t[i] = s[at[i]] /\ \A j \in 1 .. Len(t) : i < j => at[i] < at[j]
  BY DEF Part
<1>2. DOMAIN s = 1 .. Len(s) /\ DOMAIN t = 1 .. Len(t)
  BY InboxFacts
<1>3. Ids(t) \subseteq Ids(s)
  BY <1>1, InboxFacts
<1>4. \A k : HasKind(t, k) => HasKind(s, k)
  BY <1>1, InboxFacts
<1>5. ASSUME NEW n \in Nat, Ordered(s, n) PROVE Ordered(t, n)
  BY <1>1, <1>2, <1>5 DEF Ordered
<1> QED
  BY <1>3, <1>4, <1>5

\* A batch: the events behind the acknowledged one stay, with the later IDs.
LEMMA CutFacts ==
  ASSUME NEW s \in Inbox, NEW n \in Nat, Ordered(s, n), NEW i \in 1 .. Len(s)
  PROVE  /\ SubSeq(s, i + 1, Len(s)) \in Inbox /\ Part(SubSeq(s, i + 1, Len(s)), s)
         /\ Ids(SubSeq(s, i + 1, Len(s))) = {x \in Ids(s) : x > s[i].id}
         /\ Ids(SubSeq(s, 1, i)) = {x \in Ids(s) : x <= s[i].id}
<1> DEFINE t == SubSeq(s, i + 1, Len(s))
           u == SubSeq(s, 1, i)
<1>1. DOMAIN s = 1 .. Len(s) /\ Len(s) \in Nat /\ \A j \in 1 .. Len(s) : s[j].id \in Nat
  BY InboxFacts
<1>2. t \in Inbox /\ Len(t) = Len(s) - i /\ \A j \in 1 .. Len(t) : t[j] = s[i + j]
  BY DEF Inbox
<1>3. u \in Inbox /\ Len(u) = i /\ \A j \in 1 .. i : u[j] = s[j]
  BY DEF Inbox
<1>4. \A j, k \in 1 .. Len(s) : j < k => s[j].id < s[k].id
  BY <1>1 DEF Ordered
<1> HIDE DEF t, u
<1>5. Part(t, s)
  <2> DEFINE at == [j \in 1 .. Len(t) |-> i + j]
  <2>1. at \in [1 .. Len(t) -> 1 .. Len(s)]
    BY <1>1, <1>2
  <2>2. \A j \in 1 .. Len(t) :
          t[j] = s[at[j]] /\ \A k \in 1 .. Len(t) : j < k => at[j] < at[k]
    BY <1>1, <1>2
  <2> HIDE DEF at
  <2> QED
    BY <2>1, <2>2 DEF Part
<1>6. ASSUME NEW x PROVE x \in Ids(t) <=> x \in Ids(s) /\ x > s[i].id
  <2>1. ASSUME x \in Ids(t) PROVE x \in Ids(s) /\ x > s[i].id
    <3>1. PICK j \in 1 .. Len(t) : t[j].id = x
      BY <1>2, <2>1, InboxFacts
    <3>2. i + j \in 1 .. Len(s) /\ s[i + j].id = x /\ i < i + j
      BY <1>1, <1>2, <3>1
    <3> QED
      BY <1>1, <1>4, <3>2, InboxFacts
  <2>2. ASSUME x \in Ids(s), x > s[i].id PROVE x \in Ids(t)
    <3>1. PICK j \in 1 .. Len(s) : s[j].id = x
      BY <2>2, InboxFacts
    <3>2. j > i
      BY <1>1, <1>4, <2>2, <3>1
    <3>3. j - i \in 1 .. Len(t) /\ t[j - i] = s[j]
      BY <1>1, <1>2, <3>2
    <3> QED
      BY <1>2, <3>1, <3>3, InboxFacts
  <2> QED
    BY <2>1, <2>2
<1>7. ASSUME NEW x PROVE x \in Ids(u) <=> x \in Ids(s) /\ x <= s[i].id
  <2>1. ASSUME x \in Ids(u) PROVE x \in Ids(s) /\ x <= s[i].id
    <3>1. PICK j \in 1 .. i : s[j].id = x
      BY <1>3, <2>1, InboxFacts
    <3> QED
      BY <1>1, <1>4, <3>1, InboxFacts
  <2>2. ASSUME x \in Ids(s), x <= s[i].id PROVE x \in Ids(u)
    <3>1. PICK j \in 1 .. Len(s) : s[j].id = x
      BY <2>2, InboxFacts
    <3>2. j <= i
      BY <1>1, <1>4, <2>2, <3>1
    <3> QED
      BY <1>3, <3>1, <3>2, InboxFacts
  <2> QED
    BY <2>1, <2>2
<1> QED
  BY <1>2, <1>5, <1>6, <1>7 DEF t, u

\* A single acknowledgement takes its event and no other.
LEMMA RemoveFacts ==
  ASSUME NEW s \in Inbox, NEW n \in Nat, Ordered(s, n), NEW i \in 1 .. Len(s)
  PROVE  /\ RemoveAt(s, i) \in Inbox /\ Part(RemoveAt(s, i), s)
         /\ Ids(RemoveAt(s, i)) = Ids(s) \ {s[i].id}
<1> DEFINE t == RemoveAt(s, i)
           after(j) == IF j < i THEN j ELSE j + 1
<1>1. DOMAIN s = 1 .. Len(s) /\ Len(s) \in Nat /\ \A j \in 1 .. Len(s) : s[j].id \in Nat
  BY InboxFacts
<1>2. t \in Inbox /\ Len(t) = Len(s) - 1 /\ \A j \in 1 .. Len(t) : t[j] = s[after(j)]
  <2> DEFINE f == SubSeq(s, 1, i - 1)
             g == SubSeq(s, i + 1, Len(s))
  <2>1. f \in Inbox /\ Len(f) = i - 1 /\ \A j \in 1 .. i - 1 : f[j] = s[j]
    BY <1>1 DEF Inbox
  <2>2. g \in Inbox /\ Len(g) = Len(s) - i /\ \A j \in 1 .. Len(g) : g[j] = s[i + j]
    <3>1. g \in Inbox
      BY CutFacts
    <3>2. Len(g) = Len(s) - i /\ \A j \in 1 .. Len(g) : g[j] = s[i + j]
      BY <1>1 DEF Inbox
    <3> QED
      BY <3>1, <3>2
  <2>3. t = f \o g
    BY DEF RemoveAt
  <2> HIDE DEF f, g, t
  <2>4. t \in Inbox /\ Len(t) = Len(f) + Len(g)
    <3>1. f \in Seq(EventRecord) /\ g \in Seq(EventRecord)
      BY <2>1, <2>2 DEF Inbox
    <3> QED
      BY <2>3, <3>1 DEF Inbox
  <2>5. \A j \in 1 .. Len(t) : t[j] = IF j <= Len(f) THEN f[j] ELSE g[j - Len(f)]
    BY <2>1, <2>2, <2>3 DEF Inbox
  <2>6. ASSUME NEW j \in 1 .. Len(t) PROVE t[j] = s[after(j)]
    <3>1. CASE j < i
      BY <1>1, <2>1, <2>5, <3>1
    <3>2. CASE ~(j < i)
      <4>1. j - Len(f) \in 1 .. Len(g) /\ i + (j - Len(f)) = j + 1
        BY <1>1, <2>1, <2>2, <2>4, <3>2
      <4> QED
        BY <1>1, <2>1, <2>2, <2>5, <3>2, <4>1
    <3> QED
      BY <3>1, <3>2
  <2> QED
    BY <1>1, <2>1, <2>2, <2>4, <2>6
<1>3. \A j, k \in 1 .. Len(s) : j < k => s[j].id < s[k].id
  BY <1>1 DEF Ordered
<1> HIDE DEF t
<1>4. Part(t, s)
  <2> DEFINE at == [j \in 1 .. Len(t) |-> after(j)]
  <2>1. at \in [1 .. Len(t) -> 1 .. Len(s)]
    BY <1>1, <1>2
  <2>2. \A j \in 1 .. Len(t) :
          t[j] = s[at[j]] /\ \A k \in 1 .. Len(t) : j < k => at[j] < at[k]
    BY <1>1, <1>2
  <2> HIDE DEF at
  <2> QED
    BY <2>1, <2>2 DEF Part
<1>5. ASSUME NEW x PROVE x \in Ids(t) <=> x \in Ids(s) /\ x # s[i].id
  <2>1. ASSUME x \in Ids(t) PROVE x \in Ids(s) /\ x # s[i].id
    <3>1. PICK j \in 1 .. Len(t) : t[j].id = x
      BY <1>2, <2>1, InboxFacts
    <3>2. after(j) \in 1 .. Len(s) /\ after(j) # i /\ s[after(j)].id = x
      BY <1>1, <1>2, <3>1
    <3>3. s[after(j)].id # s[i].id
      <4> HIDE DEF after
      <4> QED
        BY <1>1, <1>3, <3>2
    <3> HIDE DEF after
    <3> QED
      BY <3>2, <3>3, InboxFacts
  <2>2. ASSUME x \in Ids(s), x # s[i].id PROVE x \in Ids(t)
    <3>1. PICK j \in 1 .. Len(s) : s[j].id = x
      BY <2>2, InboxFacts
    <3>2. j # i
      BY <2>2, <3>1
    <3>3. PICK k \in 1 .. Len(t) : after(k) = j
      <4>1. CASE j < i
        <5>1. j \in 1 .. Len(t) /\ after(j) = j
          BY <1>1, <1>2, <4>1
        <5> QED
          BY <5>1
      <4>2. CASE j > i
        <5>1. j - 1 \in 1 .. Len(t) /\ after(j - 1) = j
          BY <1>1, <1>2, <4>2
        <5> QED
          BY <5>1
      <4> QED
        BY <3>2, <4>1, <4>2
    <3> QED
      BY <1>2, <3>1, <3>3, InboxFacts
  <2> QED
    BY <2>1, <2>2
<1> QED
  BY <1>2, <1>4, <1>5 DEF t

----------------------------------------------------------------------------
\* A domain state with its queues in order.
Queued(l) == l \in LoopState /\ \A a \in Agents : Ordered(l.inbox[a], l.next)

Unblocked(l) ==
  l.finishing \/ l.phase = "DONE"
    => ~l.asked.open /\ ~HasKind(l.inbox["Austin"], "human")

GoodLoop(l) == Queued(l) /\ Unblocked(l)

\* m takes nothing back of what l holds: no event, no wake, no open question.
Adds(l, m) ==
  /\ GoodLoop(m)
  /\ \A a \in Agents : Ids(l.inbox[a]) \subseteq Ids(m.inbox[a])
  /\ l.wakes <= m.wakes
  /\ l.asked.open => m.asked.open

LEMMA LoopFields ==
  ASSUME NEW l \in LoopState
  PROVE  /\ l.phase \in {"RUNNING", "INTEGRATE", "DONE"} /\ l.started \in BOOLEAN
         /\ l.next \in Nat /\ l.wakes \in Nat /\ l.finishing \in BOOLEAN
         /\ l.inbox \in [Agents -> Seq(EventRecord)] /\ l.acked \in [Agents -> Nat]
         /\ l.wait \in [Agents -> {"none", "intended", "waiting"}] /\ l.timer \in SUBSET Agents
         /\ l.asked \in [id : Nat, reply : Nat, open : BOOLEAN]
         /\ l.asked.id \in Nat /\ l.asked.reply \in Nat /\ l.asked.open \in BOOLEAN
BY DEF LoopState

\* What a state keeps that differs from l in nothing the promises are about.
LEMMA SameQueues ==
  ASSUME NEW l, GoodLoop(l), NEW m \in LoopState,
         m.inbox = l.inbox, m.next = l.next, l.wakes <= m.wakes, m.asked = l.asked,
         m.finishing \/ m.phase = "DONE" => l.finishing \/ l.phase = "DONE"
  PROVE  Adds(l, m)
BY DEF Adds, GoodLoop, Queued, Unblocked

LEMMA AddsItself ==
  ASSUME NEW l, GoodLoop(l)
  PROVE  Adds(l, l)
<1>1. l \in LoopState
  BY DEF GoodLoop, Queued
<1> QED
  BY <1>1, SameQueues, LoopFields

\* One more event in one inbox.
LEMMA QueueFacts ==
  ASSUME NEW l, Queued(l), NEW to \in Agents, NEW kind \in Kinds
  PROVE  LET q == Queue(l, to, kind) IN
         /\ Queued(q) /\ q.next = l.next + 1
         /\ q.phase = l.phase /\ q.started = l.started /\ q.acked = l.acked /\ q.wait = l.wait
         /\ q.timer = l.timer /\ q.asked = l.asked /\ q.finishing = l.finishing
         /\ q.wakes = l.wakes
         /\ Ids(q.inbox[to]) = Ids(l.inbox[to]) \cup {l.next + 1}
         /\ \A a \in Agents : Ids(l.inbox[a]) \subseteq Ids(q.inbox[a])
         /\ \A k : HasKind(q.inbox["Austin"], k) =>
              HasKind(l.inbox["Austin"], k) \/ (to = "Austin" /\ kind = k)
<1> DEFINE e == [id |-> l.next + 1, kind |-> kind]
           box == [l.inbox EXCEPT ![to] = Append(@, e)]
           q == Queue(l, to, kind)
<1>1. l \in LoopState /\ l.next \in Nat /\ l.inbox \in [Agents -> Seq(EventRecord)]
      /\ \A a \in Agents : l.inbox[a] \in Inbox /\ Ordered(l.inbox[a], l.next)
  BY LoopFields DEF Queued, Inbox
<1>2. q = [l EXCEPT !.next = l.next + 1, !.inbox = box]
  BY DEF Queue, Event, LoopState, Queued
<1>3. /\ Append(l.inbox[to], e) \in Inbox
      /\ Ordered(Append(l.inbox[to], e), l.next + 1)
      /\ Ids(Append(l.inbox[to], e)) = Ids(l.inbox[to]) \cup {l.next + 1}
      /\ \A k : HasKind(Append(l.inbox[to], e), k) <=> HasKind(l.inbox[to], k) \/ kind = k
  BY <1>1, AppendFacts
<1>4. /\ box \in [Agents -> Seq(EventRecord)] /\ box[to] = Append(l.inbox[to], e)
      /\ \A a \in Agents \ {to} : box[a] = l.inbox[a]
  BY <1>1, <1>3 DEF Inbox
<1> HIDE DEF box, e, q
<1>5. q \in LoopState /\ q.inbox = box /\ q.next = l.next + 1
      /\ q.phase = l.phase /\ q.started = l.started /\ q.acked = l.acked /\ q.wait = l.wait
      /\ q.timer = l.timer /\ q.asked = l.asked /\ q.finishing = l.finishing
      /\ q.wakes = l.wakes
  <2>1. q \in LoopState
    <3>1. l \in LoopState /\ l.next + 1 \in Nat
      BY <1>1
    <3>2. box \in [Agents -> Seq(EventRecord)]
      BY <1>4
    <3> QED
      BY <1>2, <3>1, <3>2 DEF LoopState
  <2>2. q.inbox = box /\ q.next = l.next + 1
        /\ q.phase = l.phase /\ q.started = l.started /\ q.acked = l.acked /\ q.wait = l.wait
        /\ q.timer = l.timer /\ q.asked = l.asked /\ q.finishing = l.finishing
        /\ q.wakes = l.wakes
    BY <1>1, <1>2 DEF LoopState
  <2> QED
    BY <2>1, <2>2
<1>6. ASSUME NEW a \in Agents PROVE Ordered(box[a], l.next + 1)
  <2>1. CASE a = to
    BY <1>3, <1>4, <2>1
  <2>2. CASE a # to
    <3>1. Ordered(l.inbox[a], l.next)
      BY <1>1
    <3> QED
      BY <1>1, <1>4, <2>2, <3>1, InboxFacts DEF Ordered
  <2> QED
    BY <2>1, <2>2
<1>7. \A a \in Agents : Ids(l.inbox[a]) \subseteq Ids(box[a])
  BY <1>3, <1>4
<1>8. \A k : HasKind(box["Austin"], k) =>
         HasKind(l.inbox["Austin"], k) \/ (to = "Austin" /\ kind = k)
  BY <1>3, <1>4
<1> QED
  BY <1>3, <1>4, <1>5, <1>6, <1>7, <1>8 DEF Queued, q, e

\* An event that is not the human's takes nothing back and blocks nothing.
LEMMA QueueAdds ==
  ASSUME NEW l, GoodLoop(l), NEW to \in Agents, NEW kind \in Kinds \ {"human"}
  PROVE  Adds(l, Queue(l, to, kind))
<1> DEFINE q == Queue(l, to, kind)
<1>1. l \in LoopState /\ Queued(l) /\ l.wakes \in Nat
  BY LoopFields DEF GoodLoop, Queued
<1>2. kind \in Kinds /\ kind # "human"
  OBVIOUS
<1>3. /\ Queued(q) /\ q.phase = l.phase /\ q.asked = l.asked /\ q.finishing = l.finishing
      /\ q.wakes = l.wakes
      /\ \A a \in Agents : Ids(l.inbox[a]) \subseteq Ids(q.inbox[a])
      /\ HasKind(q.inbox["Austin"], "human") => HasKind(l.inbox["Austin"], "human")
  <2>1. \A k : HasKind(q.inbox["Austin"], k) =>
          HasKind(l.inbox["Austin"], k) \/ (to = "Austin" /\ kind = k)
    BY <1>1, <1>2, QueueFacts
  <2>2. /\ Queued(q) /\ q.phase = l.phase /\ q.asked = l.asked /\ q.finishing = l.finishing
        /\ q.wakes = l.wakes
    BY <1>1, <1>2, QueueFacts
  <2>3. \A a \in Agents : Ids(l.inbox[a]) \subseteq Ids(q.inbox[a])
    <3> HIDE DEF Agents, Kinds, q
    <3> QED
      BY <1>1, <1>2, QueueFacts DEF q
  <2> QED
    BY <1>2, <2>1, <2>2, <2>3
<1> HIDE DEF q
<1>4. Unblocked(q)
  BY <1>3 DEF GoodLoop, Unblocked
<1> QED
  BY <1>1, <1>3, <1>4 DEF Adds, GoodLoop, q

LEMMA AskAdds ==
  ASSUME NEW l, GoodLoop(l), CanAsk(l)
  PROVE  Adds(l, LoopAsk(l))
<1> DEFINE q == Queue(l, "Tony", "question")
           m == [q EXCEPT !.asked = [id |-> l.next + 1, reply |-> 0, open |-> TRUE]]
<1>1. Adds(l, q) /\ q.next = l.next + 1 /\ q.phase = l.phase /\ q.finishing = l.finishing
  BY QueueAdds, QueueFacts DEF GoodLoop
<1>2. LoopAsk(l) = m
  BY DEF LoopAsk
<1> HIDE DEF q
<1>3. q \in LoopState /\ q.next \in Nat /\ l.next \in Nat
  BY <1>1, LoopFields DEF Adds, GoodLoop, Queued
<1>4. m \in LoopState /\ m.inbox = q.inbox /\ m.next = q.next /\ m.wakes = q.wakes
      /\ m.asked.open /\ m.phase = q.phase /\ m.finishing = q.finishing
  <2>1. m \in LoopState
    <3> DEFINE asked == [id |-> l.next + 1, reply |-> 0, open |-> TRUE]
    <3>1. asked \in [id : Nat, reply : Nat, open : BOOLEAN]
      BY <1>3
    <3>2. m = [q EXCEPT !.asked = asked]
      OBVIOUS
    <3> HIDE DEF asked, m
    <3> QED
      BY <1>3, <3>1, <3>2 DEF LoopState
  <2>2. m.inbox = q.inbox /\ m.next = q.next /\ m.wakes = q.wakes
        /\ m.asked.open /\ m.phase = q.phase /\ m.finishing = q.finishing
    BY <1>3 DEF LoopState
  <2> QED
    BY <2>1, <2>2
<1>5. ~m.finishing /\ m.phase # "DONE"
  BY <1>1, <1>4 DEF CanAsk, Working
<1> HIDE DEF m
<1> QED
  BY <1>1, <1>2, <1>4, <1>5 DEF Adds, GoodLoop, Queued, Unblocked

LEMMA ReplyAdds ==
  ASSUME NEW l, GoodLoop(l)
  PROVE  Adds(l, LoopReply(l))
<1> DEFINE q == Queue(l, "Austin", "reply")
           m == [q EXCEPT !.asked.reply = l.next + 1]
<1>1. Adds(l, q)
  BY QueueAdds DEF GoodLoop
<1>2. LoopReply(l) = m
  BY DEF LoopReply
<1> HIDE DEF q
<1>3. q \in LoopState /\ l.next \in Nat /\ q.asked \in [id : Nat, reply : Nat, open : BOOLEAN]
  BY <1>1, LoopFields DEF Adds, GoodLoop, Queued
<1>4. m \in LoopState /\ m.inbox = q.inbox /\ m.next = q.next /\ m.wakes = q.wakes
      /\ m.asked.open = q.asked.open /\ m.phase = q.phase /\ m.finishing = q.finishing
  <2> DEFINE asked == [q.asked EXCEPT !.reply = l.next + 1]
  <2>1. asked \in [id : Nat, reply : Nat, open : BOOLEAN] /\ asked.open = q.asked.open
    BY <1>3
  <2>2. m = [q EXCEPT !.asked = asked]
    BY <1>3 DEF LoopState
  <2> HIDE DEF asked, m
  <2>3. m \in LoopState
    BY <1>3, <2>1, <2>2 DEF LoopState
  <2>4. m.inbox = q.inbox /\ m.next = q.next /\ m.wakes = q.wakes
        /\ m.asked = asked /\ m.phase = q.phase /\ m.finishing = q.finishing
    BY <1>3, <2>2 DEF LoopState
  <2> QED
    BY <2>1, <2>3, <2>4
<1> HIDE DEF m
<1> QED
  BY <1>1, <1>2, <1>4 DEF Adds, GoodLoop, Queued, Unblocked

\* The human's input withdraws a finish.
LEMMA HumanAdds ==
  ASSUME NEW l, Queued(l), Working(l)
  PROVE  Adds(l, LoopHuman(l))
<1> DEFINE p == Queue(l, "Austin", "human")
           q == Queue(p, "Tony", "human")
           m == [q EXCEPT !.finishing = FALSE,
                          !.phase = IF @ = "INTEGRATE" THEN "RUNNING" ELSE @]
<1>1. LoopHuman(l) = m
  BY DEF LoopHuman
<1>2. Queued(p) /\ p.phase = l.phase /\ p.asked = l.asked /\ p.wakes = l.wakes
      /\ \A a \in Agents : Ids(l.inbox[a]) \subseteq Ids(p.inbox[a])
  BY QueueFacts
<1> HIDE DEF p
<1>3. Queued(q) /\ q.phase = p.phase /\ q.asked = p.asked /\ q.wakes = p.wakes
      /\ \A a \in Agents : Ids(p.inbox[a]) \subseteq Ids(q.inbox[a])
  BY <1>2, QueueFacts
<1> HIDE DEF q
<1>4. m \in LoopState /\ m.inbox = q.inbox /\ m.next = q.next /\ m.wakes = q.wakes
      /\ m.asked = q.asked /\ ~m.finishing /\ (m.phase = "DONE" => q.phase = "DONE")
  BY <1>3 DEF LoopState, Queued
<1>5. l.wakes \in Nat /\ l.phase # "DONE"
  BY LoopFields DEF Queued, Working
<1> HIDE DEF m
<1> QED
  BY <1>1, <1>2, <1>3, <1>4, <1>5 DEF Adds, GoodLoop, Queued, Unblocked

\* What an acknowledgement takes.
Acked(id, through) == {x \in Nat : IF through THEN x <= id ELSE x = id}

\* The event goes, with those before it in a batch; and the answer to a
\* consultation, if it is one of them, ends the consultation.
LEMMA EventsFacts ==
  ASSUME NEW l, GoodLoop(l), NEW a \in Agents, NEW id, NEW through \in BOOLEAN,
         CanAck(l, a, id), id # l.acked[a]
  PROVE  LET m == LoopEvents(l, a, id, through) IN
         /\ GoodLoop(m) /\ m.wakes = l.wakes
         /\ Ids(m.inbox[a]) = Ids(l.inbox[a]) \ Acked(id, through)
         /\ \A b \in Agents \ {a} : m.inbox[b] = l.inbox[b]
         /\ m.asked.reply = l.asked.reply
         /\ m.asked.open <=>
              l.asked.open /\ ~(a = "Austin" /\ l.asked.reply \in Ids(l.inbox[a]) \cap Acked(id, through))
<1> DEFINE s == l.inbox[a]
           i == Place(s, id)
           gone == IF through THEN SubSeq(s, 1, i) ELSE <<s[i]>>
           kept == IF through THEN SubSeq(s, i + 1, Len(s)) ELSE RemoveAt(s, i)
           open == l.asked.open /\ ~(a = "Austin" /\ l.asked.reply \in Ids(gone))
           box == [l.inbox EXCEPT ![a] = kept]
           ack == [l.acked EXCEPT ![a] = id]
           asked == [l.asked EXCEPT !.open = open]
           m == LoopEvents(l, a, id, through)
<1>1. l \in LoopState /\ l.next \in Nat /\ l.inbox \in [Agents -> Seq(EventRecord)]
      /\ l.acked \in [Agents -> Nat] /\ l.asked \in [id : Nat, reply : Nat, open : BOOLEAN]
      /\ \A b \in Agents : l.inbox[b] \in Inbox /\ Ordered(l.inbox[b], l.next)
  BY LoopFields DEF GoodLoop, Queued, Inbox
<1>2. s \in Inbox /\ Ordered(s, l.next) /\ id \in Ids(s)
  BY <1>1 DEF CanAck
<1>3. i \in 1 .. Len(s) /\ s[i].id = id /\ id \in Nat
  BY <1>2, PlaceFacts, InboxFacts
<1>4. m = [l EXCEPT !.inbox[a] = kept, !.acked[a] = id,
                    !.asked.open = @ /\ ~(a = "Austin" /\ l.asked.reply \in Ids(gone))]
  BY DEF LoopEvents
<1>5. m = [l EXCEPT !.inbox = box, !.acked = ack, !.asked = asked]
  BY <1>1, <1>4 DEF LoopState
<1> HIDE DEF m, s, i
<1>6. kept \in Inbox /\ Part(kept, s) /\ Ids(kept) = Ids(s) \ Acked(id, through)
  <2>1. CASE through
    <3>1. SubSeq(s, i + 1, Len(s)) \in Inbox /\ Part(SubSeq(s, i + 1, Len(s)), s)
          /\ Ids(SubSeq(s, i + 1, Len(s))) = {x \in Ids(s) : x > id}
      BY <1>1, <1>2, <1>3, CutFacts
    <3>2. Ids(s) \subseteq Nat
      BY <1>2, InboxFacts
    <3> QED
      BY <1>3, <2>1, <3>1, <3>2 DEF Acked
  <2>2. CASE ~through
    <3>1. RemoveAt(s, i) \in Inbox /\ Part(RemoveAt(s, i), s)
          /\ Ids(RemoveAt(s, i)) = Ids(s) \ {id}
      BY <1>1, <1>2, <1>3, RemoveFacts
    <3> QED
      BY <1>3, <2>2, <3>1 DEF Acked
  <2> QED
    BY <2>1, <2>2
<1>7. Ids(gone) = Ids(s) \cap Acked(id, through)
  <2>1. CASE through
    <3>1. Ids(SubSeq(s, 1, i)) = {x \in Ids(s) : x <= id}
      BY <1>1, <1>2, <1>3, CutFacts
    <3>2. Ids(s) \subseteq Nat
      BY <1>2, InboxFacts
    <3> QED
      BY <2>1, <3>1, <3>2 DEF Acked
  <2>2. CASE ~through
    <3>1. s[i] \in EventRecord
      BY <1>2, <1>3, InboxFacts
    <3>2. <<s[i]>> \in Inbox /\ Len(<<s[i]>>) = 1 /\ <<s[i]>>[1] = s[i]
      BY <3>1 DEF Inbox
    <3>3. \A x : x \in Ids(<<s[i]>>) <=> x = id
      BY <1>3, <3>2, InboxFacts
    <3> QED
      BY <1>2, <1>3, <2>2, <3>3 DEF Acked
  <2> QED
    BY <2>1, <2>2
<1> HIDE DEF kept, gone
<1>8. /\ box \in [Agents -> Seq(EventRecord)] /\ box[a] = kept
      /\ \A b \in Agents \ {a} : box[b] = l.inbox[b]
  BY <1>1, <1>6 DEF Inbox
<1>9. ack \in [Agents -> Nat]
  BY <1>1, <1>3
<1>10. asked \in [id : Nat, reply : Nat, open : BOOLEAN] /\ asked.reply = l.asked.reply
       /\ (asked.open <=> open)
  BY <1>1
<1> HIDE DEF box, ack, asked
<1>11. m \in LoopState
  BY <1>1, <1>5, <1>8, <1>9, <1>10 DEF LoopState
<1>12. m.inbox = box /\ m.asked = asked /\ m.next = l.next /\ m.wakes = l.wakes
       /\ m.phase = l.phase /\ m.finishing = l.finishing
  BY <1>1, <1>5 DEF LoopState
<1>13. \A b \in Agents : Ordered(box[b], l.next)
  <2>1. Ordered(kept, l.next)
    BY <1>1, <1>2, <1>6, PartFacts
  <2> QED
    BY <1>1, <1>8, <2>1
<1>14. HasKind(box["Austin"], "human") => HasKind(l.inbox["Austin"], "human")
  <2>1. HasKind(kept, "human") => HasKind(s, "human")
    BY <1>2, <1>6, PartFacts
  <2> QED
    BY <1>8, <2>1 DEF s
<1>15. GoodLoop(m)
  BY <1>10, <1>11, <1>12, <1>13, <1>14 DEF GoodLoop, Queued, Unblocked
<1> QED
  BY <1>6, <1>7, <1>8, <1>10, <1>12, <1>15 DEF s, m

LEMMA FinishAdds ==
  ASSUME NEW l, GoodLoop(l), CanFinish(l)
  PROVE  Adds(l, LoopFinish(l))
<1> DEFINE m == LoopFinish(l)
<1>1. l \in LoopState /\ l.wakes \in Nat
  BY LoopFields DEF GoodLoop, Queued
<1>2. m \in LoopState /\ m.inbox = l.inbox /\ m.next = l.next /\ m.wakes = l.wakes
      /\ m.asked = l.asked
  BY <1>1 DEF LoopFinish, LoopState
<1> HIDE DEF m
<1> QED
  BY <1>1, <1>2 DEF Adds, GoodLoop, Queued, Unblocked, CanFinish, m

LEMMA CompleteAdds ==
  ASSUME NEW l, GoodLoop(l), l.finishing
  PROVE  Adds(l, Complete(l))
<1> DEFINE m == Complete(l)
<1>1. l \in LoopState /\ l.wakes \in Nat
  BY LoopFields DEF GoodLoop, Queued
<1>2. m \in LoopState
  BY <1>1 DEF Complete, LoopState
<1>3. m.inbox = l.inbox /\ m.next = l.next /\ m.wakes = l.wakes /\ m.asked = l.asked
  BY <1>1 DEF Complete, LoopState
<1> HIDE DEF m
<1>4. Adds(l, m)
  BY <1>1, <1>2, <1>3, SameQueues
<1> QED
  BY <1>3, <1>4 DEF m

LEMMA WaitAdds ==
  ASSUME NEW l, GoodLoop(l), NEW a \in Agents, NEW timed \in BOOLEAN
  PROVE  Adds(l, LoopWait(l, a, timed))
<1> DEFINE m == LoopWait(l, a, timed)
           w == [l.wait EXCEPT ![a] = "intended"]
           t == IF timed THEN l.timer \cup {a} ELSE l.timer \ {a}
<1>1. l \in LoopState /\ l.wakes \in Nat
  BY LoopFields DEF GoodLoop, Queued
<1>2. w \in [Agents -> {"none", "intended", "waiting"}] /\ t \in SUBSET Agents
  BY <1>1, LoopFields
<1>3. m = [l EXCEPT !.wait = w, !.timer = t]
  BY <1>1 DEF LoopWait, LoopState
<1> HIDE DEF m, w, t
<1>4. m \in LoopState
  BY <1>1, <1>2, <1>3 DEF LoopState
<1>5. m.inbox = l.inbox /\ m.next = l.next /\ m.wakes = l.wakes /\ m.asked = l.asked
      /\ m.finishing = l.finishing /\ m.phase = l.phase
  BY <1>1, <1>3 DEF LoopState
<1> QED
  BY <1>1, <1>4, <1>5, SameQueues DEF m

\* A settled turn starts the delivery of a registered finish.
LEMMA SettledAdds ==
  ASSUME NEW l, GoodLoop(l), NEW a \in Agents
  PROVE  Adds(l, LoopSettled(l, a))
<1> DEFINE m == LoopSettled(l, a)
           w == [l.wait EXCEPT ![a] = IF @ = "intended" THEN "waiting" ELSE @]
           p == IF l.finishing /\ a = "Austin" THEN "INTEGRATE" ELSE l.phase
<1>1. l \in LoopState /\ l.wakes \in Nat
  BY LoopFields DEF GoodLoop, Queued
<1>2. CASE ~Working(l)
  BY <1>2, AddsItself DEF LoopSettled
<1>3. CASE Working(l)
  <2>1. w \in [Agents -> {"none", "intended", "waiting"}] /\ p \in {"RUNNING", "INTEGRATE"}
    BY <1>1, <1>3, LoopFields DEF Working
  <2>2. m = [l EXCEPT !.phase = p, !.wait = w]
    BY <1>1, <1>3 DEF LoopSettled, LoopState
  <2> HIDE DEF m, w, p
  <2>3. m \in LoopState
    BY <1>1, <2>1, <2>2 DEF LoopState
  <2>4. m.inbox = l.inbox /\ m.next = l.next /\ m.wakes = l.wakes /\ m.asked = l.asked
        /\ m.finishing = l.finishing /\ m.phase = p
    BY <1>1, <2>2 DEF LoopState
  <2> QED
    BY <1>1, <2>1, <2>3, <2>4, SameQueues DEF m
<1> QED
  BY <1>2, <1>3

LEMMA ResumedAdds ==
  ASSUME NEW l, GoodLoop(l), NEW a \in Agents
  PROVE  Adds(l, LoopResumed(l, a))
<1> DEFINE m == LoopResumed(l, a)
           w == [l.wait EXCEPT ![a] = "none"]
           t == l.timer \ {a}
<1>1. l \in LoopState /\ l.wakes \in Nat
  BY LoopFields DEF GoodLoop, Queued
<1>2. CASE ~Working(l)
  BY <1>2, AddsItself DEF LoopResumed
<1>3. CASE Working(l)
  <2>1. w \in [Agents -> {"none", "intended", "waiting"}] /\ t \in SUBSET Agents
    BY <1>1, LoopFields
  <2>2. m = [l EXCEPT !.wait = w, !.timer = t]
    BY <1>1, <1>3 DEF LoopResumed, LoopState
  <2> HIDE DEF m, w, t
  <2>3. m \in LoopState
    BY <1>1, <2>1, <2>2 DEF LoopState
  <2>4. m.inbox = l.inbox /\ m.next = l.next /\ m.wakes = l.wakes /\ m.asked = l.asked
        /\ m.finishing = l.finishing /\ m.phase = l.phase
    BY <1>1, <2>2 DEF LoopState
  <2> QED
    BY <1>1, <2>3, <2>4, SameQueues DEF m
<1> QED
  BY <1>2, <1>3

LEMMA TimersAdds ==
  ASSUME NEW l, GoodLoop(l), NEW a \in Agents
  PROVE  Adds(l, LoopTimers(l, a))
<1> DEFINE q == Queue(l, a, "timer")
           m == LoopTimers(l, a)
           t == q.timer \ {a}
<1>1. Adds(l, q)
  BY QueueAdds
<1> HIDE DEF q
<1>2. q \in LoopState /\ GoodLoop(q) /\ l.wakes \in Nat
  BY <1>1, LoopFields DEF Adds, GoodLoop, Queued
<1>3. t \in SUBSET Agents
  BY <1>2, LoopFields
<1>4. m = [q EXCEPT !.timer = t]
  BY <1>2 DEF LoopTimers, LoopState, q
<1> HIDE DEF m, t
<1>5. m \in LoopState
  BY <1>2, <1>3, <1>4 DEF LoopState
<1>6. m.inbox = q.inbox /\ m.next = q.next /\ m.wakes = q.wakes /\ m.asked = q.asked
      /\ m.finishing = q.finishing /\ m.phase = q.phase
  BY <1>2, <1>4 DEF LoopState
<1>7. Adds(q, m)
  BY <1>2, <1>5, <1>6, SameQueues, LoopFields
<1> QED
  BY <1>1, <1>2, <1>7, LoopFields, SMTT(60) DEF Adds, GoodLoop, Queued, m

----------------------------------------------------------------------------
\* A domain state that keeps what was promised: the events t, unless their
\* receiver has read them (r), and the count of the n wakes that were sent.
Kept(l, t, r, n) ==
  GoodLoop(l) /\ t \subseteq Unread(l) \cup r /\ n <= l.wakes

OtherTypes ==
  /\ delivery \in DeliveryRecord
  /\ disk \in [loop : LoopState, delivery : DeliveryRecord]
  /\ git \in [head : Nat, dirty : BOOLEAN] /\ repo \in [head : Nat, blocked : BOOLEAN]
  /\ agent \in [busy : SUBSET Agents, prompted : SUBSET Agents]
  /\ wake \in [attempts : [Agents -> [key : Key, count : 0 .. MaxAttempts]],
               due : [Agents -> Key], held : BOOLEAN]
  /\ hold \in {"no", "resume", "paused"}
  /\ txn \in [pc : {"idle", "settled", "check", "checkpoint", "land", "record", "complete"},
              head : Nat]
  /\ proc \in {"live", "down", "landing", "recording"}
  /\ told \subseteq Nat /\ read \subseteq Nat /\ sent \in Nat
  /\ budget \in Setup

LoopInv ==
  /\ OtherTypes
  /\ Kept(loop, told, read, sent) /\ Kept(disk.loop, told, read, sent)
  /\ sent <= budget.limit
  /\ proc \in {"landing", "recording"} => CanComplete(loop)

\* What the invariant is for.
LEMMA InvImplies ==
  LoopInv => TypeOK /\ FinishIsUnblocked /\ ToldIsKept
<1> SUFFICES ASSUME LoopInv PROVE TypeOK /\ FinishIsUnblocked /\ ToldIsKept
  OBVIOUS
<1>1. TypeOK
  BY DEF TypeOK, LoopInv, OtherTypes, Kept, GoodLoop, Queued
<1>2. \A l \in {loop, disk.loop} : Unblocked(l)
  BY DEF LoopInv, Kept, GoodLoop
<1>3. FinishIsUnblocked
  BY <1>1, <1>2 DEF FinishIsUnblocked, Unblocked
<1>4. ToldIsKept
  BY DEF ToldIsKept, WakesAreGranted, LoopInv, Kept
<1> QED
  BY <1>1, <1>3, <1>4

----------------------------------------------------------------------------
\* Only bounds go down, and never the granted wakes.
SameLimit == budget' \in Setup /\ budget'.limit = budget.limit

SaveOrNot == disk' = disk \/ disk' = [loop |-> loop', delivery |-> delivery']

LEMMA BudgetFacts ==
  ASSUME budget \in Setup
  PROVE  /\ UNCHANGED budget => SameLimit
         /\ Spend("lost") => SameLimit
         /\ Spend("crashes") => SameLimit
         /\ Spend("pauses") => SameLimit
         /\ \A l, d : HookSave(l, d) =>
              SameLimit /\ (disk' = disk \/ disk' = [loop |-> l, delivery |-> d])
         /\ \A l, d : Saved(l, d) => SameLimit /\ disk' = [loop |-> l, delivery |-> d]
         /\ SaveFails => SameLimit /\ disk' = disk
<1>1. UNCHANGED budget => SameLimit
  BY DEF SameLimit
<1>2. Spend("lost") => SameLimit
  BY DEF Spend, SameLimit, Setup
<1>3. Spend("crashes") => SameLimit
  BY DEF Spend, SameLimit, Setup
<1>4. Spend("pauses") => SameLimit
  BY DEF Spend, SameLimit, Setup
<1> QED
  BY <1>1, <1>2, <1>3, <1>4 DEF HookSave, Saved, SaveFails

LEMMA ReportFacts ==
  ASSUME budget \in Setup, NEW l, Report(l), UNCHANGED delivery
  PROVE  loop' = l /\ SaveOrNot /\ SameLimit
BY BudgetFacts DEF Report, SaveOrNot

----------------------------------------------------------------------------
\* A step that adds to the session and promises no more than it has on disk.
Grows ==
  /\ Adds(loop, loop') /\ read' = read
  /\ told' \subseteq told \cup Unread(loop')
  /\ sent' <= loop'.wakes
  /\ \/ disk' = [loop |-> loop', delivery |-> delivery']
     \/ disk' = disk /\ told' \subseteq told /\ sent' = sent

Holds == Kept(loop, told, read, sent) /\ Kept(disk.loop, told, read, sent)

Released ==
  loop.asked.open /\ proc' = "live" => (~loop'.asked.open <=> Reads(loop.asked.reply))

LEMMA AddsUnread ==
  ASSUME NEW l, NEW m, Adds(l, m)
  PROVE  Unread(l) \subseteq Unread(m)
BY DEF Adds, Unread

LEMMA GrowsKeeps ==
  ASSUME LoopInv, Grows
  PROVE  Holds'
<1>1. Kept(loop, told, read, sent) /\ Kept(disk.loop, told, read, sent)
  BY DEF LoopInv
<1>2. Unread(loop) \subseteq Unread(loop')
  BY AddsUnread DEF Grows
<1>3. Kept(loop', told', read', sent')
  BY <1>1, <1>2 DEF Grows, Kept, Adds
<1>4. CASE disk' = [loop |-> loop', delivery |-> delivery']
  BY <1>3, <1>4 DEF Holds
<1>5. CASE disk' = disk /\ told' \subseteq told /\ sent' = sent
  <2>1. Kept(disk.loop, told', read', sent')
    BY <1>1, <1>5 DEF Kept, Grows
  <2> QED
    BY <1>3, <1>5, <2>1 DEF Holds
<1> QED
  BY <1>4, <1>5 DEF Grows

LEMMA AddsReleases ==
  ASSUME Adds(loop, loop')
  PROVE  Released
BY DEF Adds, Released, Reads

\* What leaves the domain state and its promises alone.
LEMMA AsideGrows ==
  ASSUME LoopInv, loop' = loop, SaveOrNot, UNCHANGED <<told, read, sent>>
  PROVE  Grows
<1>1. Adds(loop, loop')
  BY AddsItself DEF LoopInv, Kept
<1> QED
  BY <1>1 DEF Grows, LoopInv, Kept, SaveOrNot

\* A report of an adapter, or a domain change whose save may fail.
LEMMA ReportGrows ==
  ASSUME LoopInv, Adds(loop, loop'), SaveOrNot, UNCHANGED <<told, read, sent>>
  PROVE  Grows
<1>1. sent <= loop'.wakes
  <2>1. sent \in Nat /\ loop.wakes \in Nat /\ loop'.wakes \in Nat
        /\ sent <= loop.wakes /\ loop.wakes <= loop'.wakes
    BY LoopFields DEF LoopInv, OtherTypes, Kept, GoodLoop, Queued, Adds
  <2> QED
    BY <2>1
<1> QED
  BY <1>1 DEF Grows, SaveOrNot

\* A call: what it announces is with the receiver, and on disk.
LEMMA AnswerGrows ==
  ASSUME LoopInv, NEW l, NEW ids, Answer(l, ids), Adds(loop, l), ids \subseteq Unread(l),
         UNCHANGED <<delivery, read, sent>>
  PROVE  Grows /\ SameLimit /\ told' \subseteq told \cup Unread(l)
<1>1. sent <= l.wakes
  <2>1. sent \in Nat /\ loop.wakes \in Nat /\ l.wakes \in Nat
        /\ sent <= loop.wakes /\ loop.wakes <= l.wakes
    BY LoopFields DEF LoopInv, OtherTypes, Kept, GoodLoop, Queued, Adds
  <2> QED
    BY <2>1
<1>2. budget \in Setup
  BY DEF LoopInv, OtherTypes
<1>3. CASE Saved(l, delivery) /\ told' = told \cup ids
  BY <1>1, <1>2, <1>3, BudgetFacts DEF Grows, Answer
<1>4. CASE SaveFails /\ UNCHANGED told
  BY <1>1, <1>2, <1>4, BudgetFacts DEF Grows, Answer
<1> QED
  BY <1>3, <1>4 DEF Answer

\* The IDs a call issues are those of the events it queues.
LEMMA QueueIssues ==
  ASSUME NEW l, Queued(l), NEW to \in Agents, NEW kind \in Kinds
  PROVE  (l.next + 1) .. Queue(l, to, kind).next \subseteq Unread(Queue(l, to, kind))
<1> DEFINE q == Queue(l, to, kind)
<1>1. q.next = l.next + 1 /\ Ids(q.inbox[to]) = Ids(l.inbox[to]) \cup {l.next + 1}
  <2>1. q.next = l.next + 1
    BY QueueFacts
  <2>2. Ids(q.inbox[to]) = Ids(l.inbox[to]) \cup {l.next + 1}
    <3> HIDE DEF Agents, Kinds, q
    <3> QED
      BY QueueFacts DEF q
  <2> QED
    BY <2>1, <2>2
<1>2. l.next \in Nat
  BY LoopFields DEF Queued
<1> HIDE DEF q
<1>3. l.next + 1 \in Unread(q)
  BY <1>1 DEF Unread
<1>4. (l.next + 1) .. q.next = {l.next + 1}
  BY <1>1, <1>2
<1> QED
  BY <1>3, <1>4 DEF q

LEMMA AskIssues ==
  ASSUME NEW l, Queued(l)
  PROVE  (l.next + 1) .. LoopAsk(l).next \subseteq Unread(LoopAsk(l))
<1> DEFINE q == Queue(l, "Tony", "question")
<1>1. (l.next + 1) .. q.next \subseteq Unread(q) /\ q \in LoopState
  BY QueueIssues, QueueFacts DEF Queued
<1> HIDE DEF q
<1>2. LoopAsk(l).next = q.next /\ LoopAsk(l).inbox = q.inbox
  BY <1>1 DEF LoopAsk, LoopState, q
<1> QED
  BY <1>1, <1>2 DEF Unread

LEMMA ReplyIssues ==
  ASSUME NEW l, Queued(l)
  PROVE  (l.next + 1) .. LoopReply(l).next \subseteq Unread(LoopReply(l))
<1> DEFINE q == Queue(l, "Austin", "reply")
<1>1. (l.next + 1) .. q.next \subseteq Unread(q) /\ q \in LoopState
  BY QueueIssues, QueueFacts DEF Queued
<1> HIDE DEF q
<1>2. LoopReply(l).next = q.next /\ LoopReply(l).inbox = q.inbox
  BY <1>1 DEF LoopReply, LoopState, q
<1> QED
  BY <1>1, <1>2 DEF Unread

LEMMA HumanIssues ==
  ASSUME NEW l, Queued(l)
  PROVE  (l.next + 1) .. LoopHuman(l).next \subseteq Unread(LoopHuman(l))
<1> DEFINE p == Queue(l, "Austin", "human")
           q == Queue(p, "Tony", "human")
<1>1. Queued(p) /\ p.next = l.next + 1
      /\ Ids(p.inbox["Austin"]) = Ids(l.inbox["Austin"]) \cup {l.next + 1}
  BY QueueFacts
<1>2. l.next \in Nat
  BY LoopFields DEF Queued
<1> HIDE DEF p
<1>3. Queued(q) /\ q.next = p.next + 1
      /\ Ids(q.inbox["Tony"]) = Ids(p.inbox["Tony"]) \cup {p.next + 1}
      /\ \A a \in Agents : Ids(p.inbox[a]) \subseteq Ids(q.inbox[a])
  BY <1>1, QueueFacts
<1>4. q \in LoopState
  BY <1>3 DEF Queued
<1> HIDE DEF q
<1>5. LoopHuman(l).next = q.next /\ LoopHuman(l).inbox = q.inbox
  BY <1>4 DEF LoopHuman, LoopState, p, q
<1>6. l.next + 1 \in Unread(q) /\ l.next + 2 \in Unread(q)
  BY <1>1, <1>2, <1>3 DEF Unread
<1>7. (l.next + 1) .. q.next = {l.next + 1, l.next + 2}
  BY <1>1, <1>2, <1>3
<1> QED
  BY <1>5, <1>6, <1>7 DEF Unread

----------------------------------------------------------------------------
LEMMA UnreadNat ==
  ASSUME NEW l, GoodLoop(l)
  PROVE  Unread(l) \subseteq Nat
<1>1. \A a \in Agents : l.inbox[a] \in Inbox
  BY LoopFields DEF GoodLoop, Queued, Inbox
<1> QED
  BY <1>1, InboxFacts DEF Unread

\* The pieces of state that promise nothing.
PlainTypes ==
  /\ git \in [head : Nat, dirty : BOOLEAN] /\ repo \in [head : Nat, blocked : BOOLEAN]
  /\ agent \in [busy : SUBSET Agents, prompted : SUBSET Agents]
  /\ wake \in [attempts : [Agents -> [key : Key, count : 0 .. MaxAttempts]],
               due : [Agents -> Key], held : BOOLEAN]
  /\ hold \in {"no", "resume", "paused"}
  /\ txn \in [pc : {"idle", "settled", "check", "checkpoint", "land", "record", "complete"},
              head : Nat]
  /\ proc \in {"live", "down", "landing", "recording"}

LEMMA PlainNow == LoopInv => PlainTypes
BY DEF LoopInv, OtherTypes, PlainTypes

LEMMA GrowsInv ==
  ASSUME LoopInv, Grows, SameLimit, delivery' \in DeliveryRecord, PlainTypes',
         sent' \in Nat, sent' <= budget.limit,
         proc' \in {"landing", "recording"} => CanComplete(loop')
  PROVE  LoopInv' /\ Released
<1>1. Holds'
  BY GrowsKeeps
<1>2. Kept(loop', told', read', sent') /\ Kept(disk'.loop, told', read', sent')
  BY <1>1 DEF Holds
<1>3. told' \subseteq Nat /\ read' \subseteq Nat
  <2>1. Unread(loop') \subseteq Nat
    BY <1>2, UnreadNat DEF Kept
  <2> QED
    BY <2>1 DEF Grows, LoopInv, OtherTypes
<1>4. disk' \in [loop : LoopState, delivery : DeliveryRecord]
  <2>1. loop' \in LoopState
    BY <1>2 DEF Kept, GoodLoop, Queued
  <2>2. disk \in [loop : LoopState, delivery : DeliveryRecord]
    BY DEF LoopInv, OtherTypes
  <2> QED
    BY <2>1, <2>2 DEF Grows
<1>5. OtherTypes'
  BY <1>3, <1>4 DEF OtherTypes, PlainTypes, SameLimit
<1>6. Released
  BY AddsReleases DEF Grows
<1> QED
  BY <1>2, <1>5, <1>6 DEF LoopInv, SameLimit

\* A step of the live process that sends no wake.
LEMMA LiveInv ==
  ASSUME LoopInv, Live, UNCHANGED proc, Grows, SameLimit, delivery' \in DeliveryRecord,
         PlainTypes', UNCHANGED sent
  PROVE  LoopInv' /\ Released
<1>1. sent \in Nat /\ sent <= budget.limit
  BY DEF LoopInv, OtherTypes
<1>2. proc' = "live"
  BY DEF Live
<1> QED
  BY <1>1, <1>2, GrowsInv

\* A call of an agent that adds to the session.
LEMMA CallInv ==
  ASSUME LoopInv, Live, NEW l, NEW ids, Answer(l, ids), Adds(loop, l), ids \subseteq Unread(l),
         CallOnly, UNCHANGED read
  PROVE  LoopInv' /\ Released
<1>1. Grows /\ SameLimit
  BY AnswerGrows DEF CallOnly
<1>2. delivery' \in DeliveryRecord /\ PlainTypes'
  BY PlainNow DEF LoopInv, OtherTypes, CallOnly, PlainTypes
<1> QED
  BY <1>1, <1>2, LiveInv DEF CallOnly

LEMMA NewIsGood == LoopInv => GoodLoop(loop) /\ Queued(loop)
BY DEF LoopInv, Kept, GoodLoop

LEMMA SendInv ==
  ASSUME LoopInv, NEW a \in Agents, Send(a)
  PROVE  LoopInv' /\ Released
<1> DEFINE l == LoopSend(loop, a)
<1>1. Peer(a) \in Agents
  BY DEF Peer
<1>2. l = Queue(loop, Peer(a), "peer")
  BY DEF LoopSend
<1>3. Adds(loop, l) /\ NewIds(l) \subseteq Unread(l)
  BY <1>1, <1>2, NewIsGood, QueueAdds, QueueIssues DEF NewIds
<1>4. Live /\ Answer(l, NewIds(l)) /\ CallOnly /\ UNCHANGED read
  BY DEF Send, Calls
<1> HIDE DEF l
<1> QED
  BY <1>3, <1>4, CallInv

LEMMA WaitInv ==
  ASSUME LoopInv, NEW a \in Agents, Wait(a)
  PROVE  LoopInv' /\ Released
<1>1. PICK timed \in BOOLEAN : Answer(LoopWait(loop, a, timed), {})
  BY DEF Wait
<1> DEFINE l == LoopWait(loop, a, timed)
<1>2. Adds(loop, l)
  BY NewIsGood, WaitAdds
<1>3. Live /\ CallOnly /\ UNCHANGED read
  BY DEF Wait, Calls
<1>4. Answer(l, {})
  BY <1>1
<1> HIDE DEF l
<1> QED
  BY <1>2, <1>3, <1>4, CallInv

LEMMA AskInv ==
  ASSUME LoopInv, Ask
  PROVE  LoopInv' /\ Released
<1> DEFINE l == LoopAsk(loop)
<1>1. Adds(loop, l) /\ NewIds(l) \subseteq Unread(l)
  BY NewIsGood, AskAdds, AskIssues DEF NewIds, Ask
<1>2. Live /\ Answer(l, NewIds(l)) /\ CallOnly /\ UNCHANGED read
  BY DEF Ask, Calls
<1> HIDE DEF l
<1> QED
  BY <1>1, <1>2, CallInv

LEMMA ReplyInv ==
  ASSUME LoopInv, Reply
  PROVE  LoopInv' /\ Released
<1> DEFINE l == LoopReply(loop)
<1>1. Adds(loop, l) /\ NewIds(l) \subseteq Unread(l)
  BY NewIsGood, ReplyAdds, ReplyIssues DEF NewIds
<1>2. Live /\ Answer(l, NewIds(l)) /\ CallOnly /\ UNCHANGED read
  BY DEF Reply, Calls
<1> HIDE DEF l
<1> QED
  BY <1>1, <1>2, CallInv

LEMMA FinishInv ==
  ASSUME LoopInv, Finish
  PROVE  LoopInv' /\ Released
<1> DEFINE l == LoopFinish(loop)
<1>1. Adds(loop, l)
  BY NewIsGood, FinishAdds DEF Finish
<1>2. Live /\ Answer(l, {}) /\ CallOnly /\ UNCHANGED read
  BY DEF Finish, Calls
<1> HIDE DEF l
<1> QED
  BY <1>1, <1>2, CallInv

\* An acknowledgement takes only what its receiver has read, and ends a
\* consultation exactly when it takes the answer.
LEMMA AcknowledgeInv ==
  ASSUME LoopInv, NEW a \in Agents, Acknowledge(a)
  PROVE  LoopInv' /\ Released
<1>1. PICK id \in (Ids(loop.inbox[a]) \cup {loop.acked[a]}) \ {0}, through \in BOOLEAN :
        /\ CanAck(loop, a, id)
        /\ Answer(LoopEvents(loop, a, id, through), {})
        /\ read' = IF id = loop.acked[a] THEN read
                   ELSE read \cup {i \in Ids(loop.inbox[a]) : IF through THEN i <= id ELSE i = id}
  BY DEF Acknowledge
<1> DEFINE l == LoopEvents(loop, a, id, through)
<1>2. Live /\ CallOnly
  BY DEF Acknowledge, Calls
<1>3. CASE id = loop.acked[a]
  <2>1. l = loop
    BY <1>3 DEF LoopEvents
  <2>2. Adds(loop, l) /\ Answer(l, {}) /\ UNCHANGED read
    BY <1>1, <1>3, <2>1, AddsItself, NewIsGood
  <2> HIDE DEF l
  <2> QED
    BY <1>2, <2>2, CallInv
<1>4. CASE id # loop.acked[a]
  <2> DEFINE gone == Acked(id, through)
             m == loop'
  <2>1. m = l
    BY <1>1 DEF Answer
  <2>2. GoodLoop(l) /\ l.wakes = loop.wakes
        /\ Ids(l.inbox[a]) = Ids(loop.inbox[a]) \ gone
        /\ \A b \in Agents \ {a} : l.inbox[b] = loop.inbox[b]
    BY <1>1, <1>4, NewIsGood, EventsFacts
  <2>3. l.asked.open <=>
          loop.asked.open /\ ~(a = "Austin" /\ loop.asked.reply \in Ids(loop.inbox[a]) \cap gone)
    BY <1>1, <1>4, NewIsGood, EventsFacts
  <2> HIDE DEF l
  <2>4. Ids(loop.inbox[a]) \subseteq Nat
    BY NewIsGood, UnreadNat DEF Unread
  <2>5. read' = read \cup (Ids(loop.inbox[a]) \cap gone)
    BY <1>1, <1>4, <2>4 DEF Acked
  <2>6. Unread(loop) \subseteq Unread(l) \cup read'
    BY <2>2, <2>5 DEF Unread
  <2>7. told' = told /\ (disk' = disk \/ disk' = [loop |-> l, delivery |-> delivery])
        /\ SameLimit
    BY <1>1, BudgetFacts DEF Answer, LoopInv, OtherTypes, l
  <2>8. Kept(l, told', read', sent') /\ Kept(disk'.loop, told', read', sent')
    <3>1. Kept(l, told', read', sent')
      BY <1>2, <2>2, <2>5, <2>6, <2>7 DEF LoopInv, Kept, CallOnly
    <3> QED
      BY <1>2, <2>5, <2>7, <3>1 DEF LoopInv, Kept, CallOnly
  <2>9. OtherTypes'
    <3>1. l \in LoopState
      BY <2>2 DEF GoodLoop, Queued
    <3>2. disk' \in [loop : LoopState, delivery : DeliveryRecord]
      BY <2>7, <3>1 DEF LoopInv, OtherTypes
    <3>3. read' \subseteq Nat
      BY <2>4, <2>5 DEF LoopInv, OtherTypes
    <3> QED
      BY <1>2, <2>7, <3>2, <3>3 DEF LoopInv, OtherTypes, CallOnly, SameLimit
  <2>10. LoopInv'
    BY <1>2, <2>1, <2>7, <2>8, <2>9 DEF LoopInv, CallOnly, Live, SameLimit
  <2>11. Released
    BY <2>1, <2>2, <2>3 DEF Released, Reads
  <2> QED
    BY <2>10, <2>11
<1> QED
  BY <1>3, <1>4

----------------------------------------------------------------------------
\* A step of the live process whose save, if it saves, may fail.
LEMMA SaveInv ==
  ASSUME LoopInv, Live, UNCHANGED <<proc, told, read, sent>>, Adds(loop, loop'), SaveOrNot,
         SameLimit, delivery' \in DeliveryRecord, PlainTypes'
  PROVE  LoopInv' /\ Released
BY ReportGrows, LiveInv

\* The same, of a report.
LEMMA ReportInv ==
  ASSUME LoopInv, Live, NEW l, Report(l), Adds(loop, l),
         UNCHANGED <<delivery, proc, told, read, sent>>, PlainTypes'
  PROVE  LoopInv' /\ Released
<1>1. budget \in Setup /\ delivery \in DeliveryRecord
  BY DEF LoopInv, OtherTypes
<1>2. loop' = l /\ SaveOrNot /\ SameLimit
  BY <1>1, ReportFacts
<1> QED
  BY <1>1, <1>2, SaveInv

LEMMA WakeTypes ==
  ASSUME PlainTypes
  PROVE  /\ wake.attempts \in [Agents -> [key : Key, count : 0 .. MaxAttempts]]
         /\ wake.due \in [Agents -> Key] /\ wake.held \in BOOLEAN
         /\ NoKey \in Key /\ NoAttempts \in [Agents -> [key : Key, count : 0 .. MaxAttempts]]
         /\ NothingDue \in [Agents -> Key]
<1>1. NoKey \in Key
  BY DEF NoKey, Key
<1> QED
  BY <1>1 DEF PlainTypes, NoAttempts, NothingDue, MaxAttempts

LEMMA StartTurnInv ==
  ASSUME LoopInv, NEW a \in Agents, StartTurn(a)
  PROVE  LoopInv' /\ Released
<1>1. budget \in Setup /\ delivery \in DeliveryRecord /\ PlainTypes
  BY PlainNow DEF LoopInv, OtherTypes
<1>2. loop' = LoopResumed(loop, a) /\ Live
      /\ UNCHANGED <<delivery, git, repo, hold, txn, proc, told, read, sent>>
  BY DEF StartTurn
<1>3. Adds(loop, loop')
  BY <1>2, NewIsGood, ResumedAdds
<1>4. SaveOrNot
  BY <1>2 DEF StartTurn, SaveOrNot
<1>5. SameLimit
  <2>1. [budget EXCEPT !.turns = @ - 1] \in Setup /\ budget.turns > 0
        /\ [budget EXCEPT !.turns = @ - 1].limit = budget.limit
        /\ [budget EXCEPT !.turns = @ - 1].lost = budget.lost
    BY <1>1 DEF Setup, StartTurn
  <2> DEFINE b == [budget EXCEPT !.turns = @ - 1]
  <2>2. budget' = b \/ (b.lost > 0 /\ budget' = [b EXCEPT !.lost = @ - 1])
    BY DEF StartTurn
  <2> HIDE DEF b
  <2>3. b \in Setup /\ b.limit = budget.limit
    BY <2>1 DEF b
  <2> QED
    BY <2>2, <2>3 DEF SameLimit, Setup
<1>6. PlainTypes'
  <2>1. agent' \in [busy : SUBSET Agents, prompted : SUBSET Agents]
    BY <1>1 DEF StartTurn, PlainTypes
  <2>2. wake' = [wake EXCEPT !.attempts =
                   [wake.attempts EXCEPT ![a] = IF @.key[1] = "idle"
                                                THEN [key |-> NoKey, count |-> 0] ELSE @]]
    BY <1>1, WakeTypes DEF StartTurn, Stirred
  <2>3. [wake.attempts EXCEPT ![a] = IF @.key[1] = "idle"
                                     THEN [key |-> NoKey, count |-> 0] ELSE @]
          \in [Agents -> [key : Key, count : 0 .. MaxAttempts]]
    BY <1>1, WakeTypes DEF MaxAttempts
  <2> DEFINE at == [wake.attempts EXCEPT ![a] = IF @.key[1] = "idle"
                                     THEN [key |-> NoKey, count |-> 0] ELSE @]
  <2> HIDE DEF at
  <2>4. wake' \in [attempts : [Agents -> [key : Key, count : 0 .. MaxAttempts]],
                   due : [Agents -> Key], held : BOOLEAN]
    <3>1. at \in [Agents -> [key : Key, count : 0 .. MaxAttempts]] /\ wake' = [wake EXCEPT !.attempts = at]
      BY <2>2, <2>3 DEF at
    <3> QED
      BY <1>1, <3>1 DEF PlainTypes
  <2> QED
    BY <1>1, <1>2, <2>1, <2>4 DEF PlainTypes
<1> QED
  BY <1>1, <1>2, <1>3, <1>4, <1>5, <1>6, SaveInv

LEMMA WorkInv ==
  ASSUME LoopInv, Work
  PROVE  LoopInv' /\ Released
<1> DEFINE l == LoopResumed(loop, "Austin")
<1>1. Live /\ UNCHANGED <<delivery, repo, agent, wake, hold, txn, proc, told, read, sent>>
  BY DEF Work, Calls
<1>2. Adds(loop, l)
  BY NewIsGood, ResumedAdds
<1>3. Report(l) \/ Report(LoopObserve(l))
  BY DEF Work
<1> HIDE DEF l
<1>4. Adds(loop, LoopObserve(l))
  <2>1. Adds(l, LoopObserve(l))
    BY <1>2, QueueAdds DEF Adds, LoopObserve
  <2>2. loop.wakes \in Nat /\ l.wakes \in Nat /\ LoopObserve(l).wakes \in Nat
    BY <1>2, <2>1, NewIsGood, LoopFields DEF Adds, GoodLoop, Queued
  <2> QED
    BY <1>2, <2>1, <2>2 DEF Adds
<1>5. git' \in [head : Nat, dirty : BOOLEAN]
  <2>1. git \in [head : Nat, dirty : BOOLEAN]
    BY DEF LoopInv, OtherTypes
  <2>2. git' = [head |-> git.head + 1, dirty |-> FALSE] \/ git' = [git EXCEPT !.dirty = TRUE]
    BY DEF Work
  <2>3. [head |-> git.head + 1, dirty |-> FALSE] \in [head : Nat, dirty : BOOLEAN]
    BY <2>1
  <2>4. [git EXCEPT !.dirty = TRUE] \in [head : Nat, dirty : BOOLEAN]
    BY <2>1
  <2> QED
    BY <2>2, <2>3, <2>4
<1>6. PlainTypes'
  BY <1>1, <1>5, PlainNow DEF PlainTypes
<1> QED
  BY <1>1, <1>2, <1>3, <1>4, <1>6, ReportInv

LEMMA SettleInv ==
  ASSUME LoopInv, NEW a \in Agents, Settle(a)
  PROVE  LoopInv' /\ Released
<1>1. Live /\ Report(LoopSettled(loop, a))
      /\ UNCHANGED <<delivery, git, repo, wake, hold, proc, told, read, sent>>
  BY DEF Settle
<1>2. Adds(loop, LoopSettled(loop, a))
  BY NewIsGood, SettledAdds
<1>3. PlainTypes'
  <2>1. agent' \in [busy : SUBSET Agents, prompted : SUBSET Agents]
    BY PlainNow DEF Settle, PlainTypes
  <2>2. txn' = txn \/ txn' = [pc |-> "settled", head |-> 0]
    BY DEF Settle
  <2> QED
    BY <1>1, <2>1, <2>2, PlainNow DEF PlainTypes
<1> QED
  BY <1>1, <1>2, <1>3, ReportInv

----------------------------------------------------------------------------
LEMMA InterruptInv ==
  ASSUME LoopInv, Interrupt
  PROVE  LoopInv' /\ Released
<1> DEFINE l == LoopHuman(loop)
<1>1. Adds(loop, l) /\ NewIds(l) \subseteq Unread(l)
  BY NewIsGood, HumanAdds, HumanIssues DEF NewIds, Interrupt
<1>2. Live /\ Answer(l, NewIds(l)) /\ hold' = "no"
      /\ UNCHANGED <<delivery, git, repo, agent, wake, txn, proc, read, sent>>
  BY DEF Interrupt
<1> HIDE DEF l
<1>3. Grows /\ SameLimit
  BY <1>1, <1>2, AnswerGrows
<1>4. delivery' \in DeliveryRecord /\ PlainTypes'
  BY <1>2, PlainNow DEF LoopInv, OtherTypes, PlainTypes
<1> QED
  BY <1>2, <1>3, <1>4, LiveInv

LEMMA NewLoopIsGood == GoodLoop(NewLoop) /\ NewLoop.wakes = 0
<1>1. <<>> \in Seq(EventRecord)
  OBVIOUS
<1>2. NewLoop.inbox = [a \in Agents |-> <<>>] /\ NewLoop.phase = "RUNNING"
      /\ ~NewLoop.finishing /\ NewLoop.wakes = 0
  BY DEF NewLoop
<1>3. [a \in Agents |-> <<>>] \in [Agents -> Seq(EventRecord)]
  BY <1>1
<1>4. NewLoop \in LoopState
  BY <1>3 DEF NewLoop, NoQuestion, LoopState
<1>5. \A a \in Agents : Ordered(NewLoop.inbox[a], NewLoop.next)
  BY <1>2 DEF Ordered
<1> QED
  BY <1>2, <1>4, <1>5 DEF GoodLoop, Queued, Unblocked

\* A round begins with empty inboxes.
LEMMA FreshFacts ==
  ASSUME NEW l \in LoopState
  PROVE  LET m == [ReopenLoop(l) EXCEPT !.started = TRUE] IN
         Queued(m) /\ Working(m) /\ m.wakes = 0
<1> DEFINE m == [ReopenLoop(l) EXCEPT !.started = TRUE]
<1>1. l.next \in Nat
  BY LoopFields
<1>2. m \in LoopState /\ m.inbox = [a \in Agents |-> <<>>] /\ m.phase = "RUNNING" /\ m.wakes = 0
  <2>1. m = [NewLoop EXCEPT !.next = l.next, !.started = TRUE]
    BY DEF ReopenLoop
  <2>2. NewLoop \in LoopState
    BY NewLoopIsGood DEF GoodLoop, Queued
  <2>3. m \in LoopState
    BY <1>1, <2>1, <2>2 DEF LoopState
  <2>4. m.inbox = NewLoop.inbox /\ m.phase = NewLoop.phase /\ m.wakes = NewLoop.wakes
    BY <2>1, <2>2 DEF LoopState
  <2> QED
    BY <2>3, <2>4 DEF NewLoop
<1> HIDE DEF m
<1>3. \A a \in Agents : Ordered(m.inbox[a], m.next)
  BY <1>2 DEF Ordered
<1> QED
  BY <1>2, <1>3 DEF Queued, Working, m

LEMMA StartedFacts ==
  ASSUME NEW l, GoodLoop(l)
  PROVE  Adds(l, [l EXCEPT !.started = TRUE]) /\ [l EXCEPT !.started = TRUE].phase = l.phase
<1> DEFINE m == [l EXCEPT !.started = TRUE]
<1>1. l \in LoopState /\ l.wakes \in Nat
  BY LoopFields DEF GoodLoop, Queued
<1>2. m \in LoopState
  BY <1>1 DEF LoopState
<1>3. m.inbox = l.inbox /\ m.next = l.next /\ m.wakes = l.wakes /\ m.asked = l.asked
      /\ m.phase = l.phase /\ m.finishing = l.finishing
  BY <1>1 DEF LoopState
<1> HIDE DEF m
<1>4. Adds(l, m)
  BY <1>1, <1>2, <1>3, SameQueues
<1> QED
  BY <1>3, <1>4 DEF m

LEMMA AddsAgain ==
  ASSUME NEW l, NEW m, NEW k, l \in LoopState, m \in LoopState, Adds(l, m), Adds(m, k)
  PROVE  Adds(l, k)
<1>1. l.wakes \in Nat /\ m.wakes \in Nat /\ k.wakes \in Nat
  BY LoopFields DEF Adds, GoodLoop, Queued
<1> QED
  BY <1>1 DEF Adds

LEMMA NewTaskInv ==
  ASSUME LoopInv, NewTask
  PROVE  LoopInv' /\ Released
<1> DEFINE fresh == IF Working(loop) THEN loop ELSE ReopenLoop(loop)
           s == [fresh EXCEPT !.started = TRUE]
           l == LoopHuman(s)
           d == IF Working(loop) THEN delivery ELSE NoDelivery
<1>1. Live /\ loop' = l /\ delivery' = d /\ hold' = "no" /\ UNCHANGED <<git, repo, wake, txn, proc>>
  BY DEF NewTask
<1>2. IF Working(loop) THEN UNCHANGED <<read, sent>> ELSE read' = {} /\ sent' = 0
  BY DEF NewTask
<1>3. \/ Saved(l, d) /\ Prompt("Austin") /\ told' = (loop.next + 1) .. l.next
      \/ SaveFails /\ UNCHANGED agent /\ told' = {}
  BY DEF NewTask
<1>4. Queued(s) /\ Working(s) /\ s.next = loop.next /\ (Working(loop) => Adds(loop, s))
      /\ s.wakes \in Nat
  <2>1. loop \in LoopState
    BY NewIsGood DEF GoodLoop, Queued
  <2>2. CASE Working(loop)
    <3>1. s = [loop EXCEPT !.started = TRUE]
      BY <2>2
    <3>2. Adds(loop, s) /\ s.phase = loop.phase
      BY <3>1, NewIsGood, StartedFacts
    <3>3. s.next = loop.next
      BY <2>1, <3>1 DEF LoopState
    <3> HIDE DEF s
    <3> QED
      BY <2>2, <3>2, <3>3, LoopFields DEF Adds, GoodLoop, Queued, Working
  <2>3. CASE ~Working(loop)
    <3>1. s = [ReopenLoop(loop) EXCEPT !.started = TRUE]
      BY <2>3
    <3>2. Queued(s) /\ Working(s) /\ s.wakes = 0
      BY <2>1, <3>1, FreshFacts
    <3>3. s.next = loop.next
      BY <2>1, <3>1 DEF ReopenLoop, NewLoop
    <3> QED
      BY <2>3, <3>2, <3>3
  <2> QED
    BY <2>2, <2>3
<1> HIDE DEF s
<1>5. Adds(s, l) /\ (s.next + 1) .. l.next \subseteq Unread(l)
  BY <1>4, HumanAdds, HumanIssues
<1> HIDE DEF l
<1>6. told' \subseteq Unread(l)
  BY <1>3, <1>4, <1>5
<1>7. budget \in Setup /\ delivery' \in DeliveryRecord
  BY <1>1 DEF LoopInv, OtherTypes, NoDelivery, DeliveryRecord
<1>8. /\ SameLimit
      /\ disk' = [loop |-> loop', delivery |-> delivery'] \/ (disk' = disk /\ told' = {})
  BY <1>1, <1>3, <1>7, BudgetFacts
<1>9. PlainTypes'
  <2>1. agent' \in [busy : SUBSET Agents, prompted : SUBSET Agents]
    BY <1>3, PlainNow DEF PlainTypes, Prompt
  <2> QED
    BY <1>1, <2>1, PlainNow DEF PlainTypes
<1>10. CASE Working(loop)
  <2>1. Adds(loop, l)
    BY <1>4, <1>5, <1>10, AddsAgain, NewIsGood DEF GoodLoop, Queued
  <2>2. sent \in Nat /\ loop.wakes \in Nat /\ l.wakes \in Nat
        /\ sent <= loop.wakes /\ loop.wakes <= l.wakes
    BY <2>1, LoopFields DEF LoopInv, OtherTypes, Kept, GoodLoop, Queued, Adds
  <2>3. Grows
    BY <1>1, <1>2, <1>6, <1>8, <1>10, <2>1, <2>2 DEF Grows
  <2> QED
    BY <1>1, <1>2, <1>7, <1>8, <1>9, <1>10, <2>3, LiveInv
<1>11. CASE ~Working(loop)
  <2>1. GoodLoop(l) /\ l.wakes \in Nat
    BY <1>5, LoopFields DEF Adds, GoodLoop, Queued
  <2>2. Kept(l, told', read', sent')
    BY <1>2, <1>6, <1>11, <2>1 DEF Kept
  <2>3. disk.loop \in LoopState /\ GoodLoop(disk.loop) /\ disk.loop.wakes \in Nat
    BY LoopFields DEF LoopInv, Kept, GoodLoop, Queued
  <2>4. Kept(disk'.loop, told', read', sent')
    BY <1>1, <1>2, <1>8, <1>11, <2>2, <2>3 DEF Kept
  <2>5. told' \subseteq Nat
    BY <1>6, <2>1, UnreadNat
  <2>6. disk' \in [loop : LoopState, delivery : DeliveryRecord]
    BY <1>1, <1>7, <1>8, <2>1 DEF LoopInv, OtherTypes, GoodLoop, Queued
  <2>7. OtherTypes'
    BY <1>2, <1>7, <1>8, <1>9, <1>11, <2>5, <2>6 DEF OtherTypes, PlainTypes, SameLimit
  <2>8. sent' <= budget'.limit
    BY <1>2, <1>8, <1>11 DEF SameLimit, Setup
  <2>9. LoopInv'
    BY <1>1, <2>2, <2>4, <2>7, <2>8 DEF LoopInv, Live
  <2>10. ~loop.asked.open
    BY <1>11, NewIsGood DEF GoodLoop, Unblocked, Working
  <2> QED
    BY <2>9, <2>10 DEF Released
<1> QED
  BY <1>10, <1>11

LEMMA PauseInv ==
  ASSUME LoopInv, Pause
  PROVE  LoopInv' /\ Released
<1>1. budget \in Setup
  BY DEF LoopInv, OtherTypes
<1>2. SameLimit /\ SaveOrNot /\ Live /\ UNCHANGED <<loop, delivery, proc, told, read, sent>>
  BY <1>1, BudgetFacts DEF Pause, SaveOrNot
<1>3. delivery' \in DeliveryRecord /\ PlainTypes'
  BY PlainNow DEF Pause, LoopInv, OtherTypes, PlainTypes
<1>4. Grows
  BY <1>2, AsideGrows
<1> QED
  BY <1>2, <1>3, <1>4, LiveInv

\* A continuation grants the wakes anew, live and, if it is saved, on disk.
LEMMA ContinueInv ==
  ASSUME LoopInv, Continue
  PROVE  LoopInv' /\ Released
<1> DEFINE l == [loop EXCEPT !.wakes = 0]
<1>1. Live /\ hold' = "no" /\ sent' = 0 /\ Report(l)
      /\ agent' = [agent EXCEPT !.prompted = @ \cup Resumable]
      /\ UNCHANGED <<delivery, git, repo, wake, txn, proc, told, read>>
  BY DEF Continue
<1>2. loop \in LoopState /\ budget \in Setup /\ delivery \in DeliveryRecord
  BY NewIsGood DEF GoodLoop, Queued, LoopInv, OtherTypes
<1>3. l \in LoopState /\ l.wakes = 0
  BY <1>2 DEF LoopState
<1>4. l.inbox = loop.inbox /\ l.next = loop.next /\ l.asked = loop.asked
      /\ l.phase = loop.phase /\ l.finishing = loop.finishing
  BY <1>2 DEF LoopState
<1> HIDE DEF l
<1>5. GoodLoop(l) /\ Unread(l) = Unread(loop)
  BY <1>3, <1>4, NewIsGood DEF GoodLoop, Queued, Unblocked, Unread
<1>6. loop' = l /\ SaveOrNot /\ SameLimit
  BY <1>1, <1>2, ReportFacts
<1>7. Kept(l, told, read, 0)
  BY <1>3, <1>5 DEF Kept, LoopInv
<1>8. Kept(disk.loop, told, read, 0)
  BY LoopFields DEF Kept, LoopInv, GoodLoop, Queued
<1>9. Kept(disk'.loop, told, read, 0)
  BY <1>6, <1>7, <1>8 DEF SaveOrNot
<1>10. disk' \in [loop : LoopState, delivery : DeliveryRecord]
  BY <1>1, <1>2, <1>3, <1>6 DEF SaveOrNot, LoopInv, OtherTypes
<1>11. agent' \in [busy : SUBSET Agents, prompted : SUBSET Agents]
  BY <1>1, PlainNow DEF PlainTypes, Resumable
<1>12. OtherTypes'
  BY <1>1, <1>2, <1>6, <1>10, <1>11 DEF LoopInv, OtherTypes, SameLimit
<1>13. LoopInv'
  BY <1>1, <1>2, <1>6, <1>7, <1>9, <1>12 DEF LoopInv, SameLimit, Setup, Live
<1>14. Released
  BY <1>4, <1>6 DEF Released, Reads
<1> QED
  BY <1>13, <1>14

LEMMA ResumeWorkInv ==
  ASSUME LoopInv, ResumeWork
  PROVE  LoopInv' /\ Released
<1>1. SameLimit /\ SaveOrNot /\ Live /\ UNCHANGED <<loop, delivery, proc, told, read, sent>>
  BY DEF ResumeWork, SaveOrNot, SameLimit, LoopInv, OtherTypes
<1>2. agent' \in [busy : SUBSET Agents, prompted : SUBSET Agents]
  BY PlainNow DEF ResumeWork, PlainTypes, Resumable
<1>3. delivery' \in DeliveryRecord /\ PlainTypes'
  BY <1>2, PlainNow DEF ResumeWork, LoopInv, OtherTypes, PlainTypes
<1>4. Grows
  BY <1>1, AsideGrows
<1> QED
  BY <1>1, <1>3, <1>4, LiveInv

----------------------------------------------------------------------------
\* A bounded set of naturals has a greatest element.
LEMMA Greatest ==
  ASSUME NEW n \in Nat, NEW T, T \subseteq 0 .. n, T # {}
  PROVE  \E x \in T : \A y \in T : y <= x
<1> DEFINE S == 0 .. n
           above(x) == {y \in T : y > x}
           U == {above(x) : x \in T}
<1>1. IsFiniteSet(S)
  BY FS_Interval
<1>2. IsWellFoundedOn(StrictSubsetOrdering(S), SUBSET S)
  BY <1>1, FS_FiniteSubsetsOfFinite, FS_StrictSubsetOrderingWellFounded
<1>3. U \subseteq SUBSET S /\ U # {}
  OBVIOUS
<1> HIDE DEF U
<1>4. PICK u \in U : \A v \in U : ~(<<v, u>> \in StrictSubsetOrdering(S))
  BY <1>2, <1>3, WFMin
<1>5. PICK x \in T : u = above(x)
  BY DEF U
<1>6. ASSUME NEW y \in T, y > x PROVE FALSE
  <2>1. above(y) \in U
    BY DEF U
  <2>2. above(y) \subseteq u /\ above(y) # u
    <3>1. \A z \in T : z \in Nat
      OBVIOUS
    <3>2. y \in u /\ y \notin above(y)
      BY <1>5, <1>6, <3>1
    <3>3. \A z \in above(y) : z \in u
      BY <1>5, <1>6, <3>1
    <3> QED
      BY <3>2, <3>3
  <2>3. <<above(y), u>> \in StrictSubsetOrdering(S)
    BY <1>3, <2>1, <2>2 DEF StrictSubsetOrdering
  <2> QED
    BY <1>4, <2>1, <2>3
<1> QED
  BY <1>6

\* Every wake has a key, and that of the human's input is the latest one.
LEMMA WakeKey ==
  ASSUME NEW l, GoodLoop(l), NEW a \in Agents
  PROVE  LoopWake(l, a) \in Key
<1> DEFINE box == l.inbox[a]
           humans == {e.id : e \in {x \in ToSet(box) : x.kind = "human"}}
           last == CHOOSE i \in humans : \A j \in humans : j <= i
<1>1. box \in Inbox /\ Ordered(box, l.next) /\ l.next \in Nat
      /\ l.asked.id \in Nat /\ l.asked.reply \in Nat
  BY LoopFields DEF GoodLoop, Queued, Inbox
<1>2. DOMAIN box = 1 .. Len(box) /\ Len(box) \in Nat
      /\ \A i \in 1 .. Len(box) : box[i].id \in 0 .. l.next
  BY <1>1, InboxFacts DEF Ordered
<1>3. humans \subseteq 0 .. l.next
  BY <1>2 DEF ToSet
<1>4. humans # {} => last \in Nat
  <2>1. humans # {} => \E i \in humans : \A j \in humans : j <= i
    BY <1>1, <1>3, Greatest
  <2>2. humans \subseteq Nat
    BY <1>1, <1>3
  <2> HIDE DEF humans
  <2>3. humans # {} => last \in humans
    BY <2>1
  <2> QED
    BY <2>2, <2>3
<1>5. box # <<>> => box[1].id \in Nat
  <2>1. box # <<>> => 1 \in 1 .. Len(box)
    BY <1>1 DEF Inbox
  <2> QED
    BY <1>2, <2>1
<1>6. LoopWake(l, a) =
        CASE l.asked.open /\ a = "Tony" /\ l.asked.reply = 0 -> <<"question", l.asked.id>>
          [] l.asked.open /\ a = "Austin" /\ l.asked.reply # 0 -> <<"reply", l.asked.reply>>
          [] box # <<>> /\ a = "Austin" /\ humans # {} -> <<"human", last>>
          [] box # <<>> -> <<"event", box[1].id>>
          [] a = "Austin" /\ l.wait[a] # "waiting" -> <<"idle", 0>>
          [] OTHER -> NoKey
  BY DEF LoopWake
<1> HIDE DEF box, humans, last
<1>7. /\ <<"question", l.asked.id>> \in Key /\ <<"reply", l.asked.reply>> \in Key
      /\ humans # {} => <<"human", last>> \in Key
      /\ box # <<>> => <<"event", box[1].id>> \in Key
      /\ <<"idle", 0>> \in Key /\ NoKey \in Key
  BY <1>1, <1>4, <1>5 DEF Key, NoKey
<1> QED
  BY <1>6, <1>7

LEMMA DueKey ==
  ASSUME LoopInv, NEW a \in Agents
  PROVE  Due(a) \in Key
BY NewIsGood, WakeKey DEF Due, NoKey, Key

LEMMA TimerFiresInv ==
  ASSUME LoopInv, TimerFires
  PROVE  LoopInv' /\ Released
<1>1. PICK a \in loop.timer : Report(LoopTimers(loop, a))
  BY DEF TimerFires
<1>2. a \in Agents
  BY LoopFields, NewIsGood DEF GoodLoop, Queued
<1>3. Adds(loop, LoopTimers(loop, a))
  BY <1>2, NewIsGood, TimersAdds
<1>4. Live /\ UNCHANGED <<delivery, git, repo, agent, wake, hold, txn, proc, told, read, sent>>
  BY DEF TimerFires
<1>5. PlainTypes'
  BY <1>4, PlainNow DEF PlainTypes
<1> QED
  BY <1>1, <1>3, <1>4, <1>5, ReportInv

\* A step of the scheduler that decides, and announces nothing yet.
LEMMA DecideInv ==
  ASSUME LoopInv, Live, PlainTypes',
         UNCHANGED <<loop, delivery, disk, git, repo, agent, hold, txn, proc, told, read, sent, budget>>
  PROVE  LoopInv' /\ Released
<1>1. SameLimit /\ SaveOrNot
  BY DEF SaveOrNot, SameLimit, LoopInv, OtherTypes
<1>2. Grows /\ delivery' \in DeliveryRecord
  BY <1>1, AsideGrows DEF LoopInv, OtherTypes
<1> QED
  BY <1>1, <1>2, LiveInv

LEMMA HeldTickInv ==
  ASSUME LoopInv, HeldTick
  PROVE  LoopInv' /\ Released
<1>1. PlainTypes'
  BY PlainNow DEF HeldTick, PlainTypes
<1> QED
  BY <1>1, DecideInv DEF HeldTick

LEMMA TickInv ==
  ASSUME LoopInv, Tick
  PROVE  LoopInv' /\ Released
<1> DEFINE w == IF wake.held THEN [wake EXCEPT !.attempts = NoAttempts, !.held = FALSE] ELSE wake
           due == [a \in Agents |-> IF Busy(a) THEN NoKey ELSE Due(a)]
           WakeType == [attempts : [Agents -> [key : Key, count : 0 .. MaxAttempts]],
                        due : [Agents -> Key], held : BOOLEAN]
<1>1. wake \in WakeType /\ NoAttempts \in [Agents -> [key : Key, count : 0 .. MaxAttempts]]
  BY PlainNow, WakeTypes DEF PlainTypes
<1>2. due \in [Agents -> Key]
  BY DueKey DEF NoKey, Key
<1>3. w \in WakeType
  BY <1>1
<1>4. wake' = [w EXCEPT !.due = due]
  BY DEF Tick
<1> HIDE DEF w, due
<1>5. wake' \in WakeType
  BY <1>2, <1>3, <1>4
<1>6. PlainTypes'
  BY <1>5, PlainNow DEF Tick, PlainTypes
<1> QED
  BY <1>6, DecideInv DEF Tick

LEMMA WakeCounted ==
  ASSUME NEW l, GoodLoop(l)
  PROVE  LET m == [l EXCEPT !.wakes = @ + 1] IN Adds(l, m) /\ m.wakes = l.wakes + 1
<1> DEFINE m == [l EXCEPT !.wakes = @ + 1]
           n == l.wakes + 1
<1>1. l \in LoopState /\ l.wakes \in Nat
  BY LoopFields DEF GoodLoop, Queued
<1>2. m \in LoopState
  <2>1. m = [l EXCEPT !.wakes = n] /\ n \in Nat
    BY <1>1 DEF LoopState
  <2> HIDE DEF m, n
  <2> QED
    BY <1>1, <2>1 DEF LoopState
<1>3. m.inbox = l.inbox /\ m.next = l.next /\ m.wakes = l.wakes + 1 /\ m.asked = l.asked
      /\ m.phase = l.phase /\ m.finishing = l.finishing
  BY <1>1 DEF LoopState
<1> HIDE DEF m
<1>4. Adds(l, m)
  BY <1>1, <1>2, <1>3, SameQueues
<1> QED
  BY <1>3, <1>4 DEF m

\* A wake is counted, live and on disk, before it is sent, and the count is
\* held against the limit.
LEMMA DispatchInv ==
  ASSUME LoopInv, NEW a \in Agents, Dispatch(a)
  PROVE  LoopInv' /\ Released
<1> DEFINE key == wake.due[a]
           count == Attempts(a, key)
           counted == [loop EXCEPT !.wakes = @ + 1]
           WakeType == [attempts : [Agents -> [key : Key, count : 0 .. MaxAttempts]],
                        due : [Agents -> Key], held : BOOLEAN]
<1>1. Live /\ UNCHANGED <<delivery, git, repo, txn, proc, told, read>>
  BY DEF Dispatch
<1>2. budget \in Setup /\ delivery \in DeliveryRecord /\ sent \in Nat /\ sent <= budget.limit
      /\ loop.wakes \in Nat /\ sent <= loop.wakes /\ budget.limit \in Nat
  BY NewIsGood, LoopFields DEF LoopInv, OtherTypes, Setup, GoodLoop, Queued, Kept
<1>3. wake \in WakeType /\ key \in Key /\ count \in 0 .. MaxAttempts
  BY PlainNow, WakeTypes DEF PlainTypes, Attempts, MaxAttempts
<1>4. [wake EXCEPT !.due[a] = NoKey] \in WakeType /\ [wake EXCEPT !.due = NothingDue] \in WakeType
  BY <1>3, PlainNow, WakeTypes
<1>5. agent \in [busy : SUBSET Agents, prompted : SUBSET Agents]
      /\ hold \in {"no", "resume", "paused"}
  BY PlainNow DEF PlainTypes
<1>6. Adds(loop, counted) /\ counted.wakes = loop.wakes + 1
  BY NewIsGood, WakeCounted
<1> HIDE DEF counted
<1>7. CASE /\ wake' = [wake EXCEPT !.due[a] = NoKey]
           /\ UNCHANGED <<loop, disk, budget, agent, hold, sent>>
  <2>1. PlainTypes'
    BY <1>1, <1>4, <1>7, PlainNow DEF PlainTypes
  <2> QED
    BY <1>1, <1>7, <2>1, DecideInv
<1>8. CASE /\ hold' = "paused" /\ wake' = [wake EXCEPT !.due = NothingDue]
           /\ UNCHANGED <<loop, disk, budget, agent, sent>>
  <2>1. PlainTypes'
    BY <1>1, <1>4, <1>8, PlainNow DEF PlainTypes
  <2>2. SameLimit /\ SaveOrNot
    BY <1>2, <1>8 DEF SameLimit, SaveOrNot
  <2>3. Grows
    BY <1>1, <1>8, <2>2, AsideGrows
  <2> QED
    BY <1>1, <1>2, <1>8, <2>1, <2>2, <2>3, LiveInv
<1>9. CASE /\ MayTry(count) /\ loop.wakes < budget.limit
           /\ loop' = counted /\ sent' = sent + 1
           /\ \/ Prompt(a) /\ CountWake(counted, budget)
              \/ UNCHANGED agent /\ CountWake(counted, budget)
              \/ /\ budget.drops > 0 /\ UNCHANGED agent
                 /\ CountWake(counted, [budget EXCEPT !.drops = @ - 1])
           /\ Considered(a, [key |-> key, count |-> count + 1])
           /\ UNCHANGED hold
  <2> DEFINE at == [wake.attempts EXCEPT ![a] = [key |-> key, count |-> count + 1]]
             du == [wake.due EXCEPT ![a] = NoKey]
  <2>1. [key |-> key, count |-> count + 1] \in [key : Key, count : 0 .. MaxAttempts]
    BY <1>3, <1>9 DEF MayTry, MaxAttempts
  <2>2. at \in [Agents -> [key : Key, count : 0 .. MaxAttempts]] /\ du \in [Agents -> Key]
    BY <1>3, <2>1, PlainNow, WakeTypes
  <2>3. wake' = [wake EXCEPT !.due = du, !.attempts = at]
    BY <1>3, <1>9 DEF Considered
  <2> HIDE DEF at, du
  <2>4. wake' \in WakeType
    BY <1>3, <2>2, <2>3
  <2>5. agent' \in [busy : SUBSET Agents, prompted : SUBSET Agents]
    BY <1>5, <1>9 DEF Prompt
  <2>6. PlainTypes'
    BY <1>1, <1>9, <2>4, <2>5, PlainNow DEF PlainTypes
  <2>7. disk' = [loop |-> loop', delivery |-> delivery']
    BY <1>1, <1>9 DEF CountWake
  <2>8. SameLimit
    <3>1. budget.drops > 0 => /\ [budget EXCEPT !.drops = @ - 1] \in Setup
                              /\ [budget EXCEPT !.drops = @ - 1].limit = budget.limit
      BY <1>2 DEF Setup
    <3> QED
      BY <1>2, <1>9, <3>1 DEF CountWake, SameLimit
  <2>9. sent' \in Nat /\ sent' <= loop'.wakes /\ sent' <= budget.limit
    BY <1>2, <1>6, <1>9
  <2>10. Grows
    BY <1>1, <1>6, <1>9, <2>7, <2>9 DEF Grows
  <2>11. proc' \notin {"landing", "recording"}
    BY <1>1 DEF Live
  <2> QED
    BY <1>1, <1>2, <2>6, <2>8, <2>9, <2>10, <2>11, GrowsInv
<1>10. CASE /\ loop' = counted /\ SaveFails
            /\ wake' = [wake EXCEPT !.due[a] = NoKey]
            /\ UNCHANGED <<agent, hold, sent>>
  <2>1. PlainTypes'
    BY <1>1, <1>4, <1>10, PlainNow DEF PlainTypes
  <2>2. SameLimit /\ SaveOrNot
    BY <1>2, <1>10, BudgetFacts DEF SaveOrNot
  <2> QED
    BY <1>1, <1>2, <1>6, <1>10, <2>1, <2>2, SaveInv
<1> QED
  BY <1>7, <1>8, <1>9, <1>10 DEF Dispatch, counted

----------------------------------------------------------------------------
(***************************************************************************)
(* The delivery of a finished round, live and offline.                     *)
(***************************************************************************)
LEMMA TxnTypes ==
  ASSUME LoopInv, TxnOnly,
         repo' \in [head : Nat, blocked : BOOLEAN],
         \/ \E pc \in {"check", "land", "record", "complete"} : TxnTo(pc)
         \/ TxnEnd
         \/ txn' = [pc |-> "checkpoint", head |-> git.head]
         \/ UNCHANGED txn
  PROVE  PlainTypes' /\ UNCHANGED <<proc, told, read, sent>>
<1> DEFINE TxnType == [pc : {"idle", "settled", "check", "checkpoint", "land", "record", "complete"},
                       head : Nat]
<1>1. txn \in TxnType /\ git.head \in Nat
  BY PlainNow DEF PlainTypes
<1>2. txn' \in TxnType
  BY <1>1 DEF TxnTo, TxnEnd, TxnIdle
<1> QED
  BY <1>2, PlainNow DEF PlainTypes, TxnOnly

LEMMA DeliverInv ==
  ASSUME LoopInv, Deliver
  PROVE  LoopInv' /\ Released
<1>1. budget \in Setup /\ delivery \in DeliveryRecord /\ txn.head \in Nat /\ git.head \in Nat
      /\ repo \in [head : Nat, blocked : BOOLEAN]
  BY PlainNow DEF LoopInv, OtherTypes, PlainTypes
<1>2. \A h \in Nat : Pending(h) \in DeliveryRecord /\ Applied(h) \in DeliveryRecord
  BY DEF Pending, Applied, DeliveryRecord
<1>3. Adds(loop, loop) /\ (CanComplete(loop) => Adds(loop, Complete(loop)))
  BY NewIsGood, AddsItself, CompleteAdds DEF CanComplete
<1>4. CASE SettledSaved
  <2>1. Live /\ TxnOnly /\ UNCHANGED <<loop, delivery, repo>>
        /\ (TxnTo("check") \/ TxnEnd) /\ (Saved(loop, delivery) \/ SaveFails)
    BY <1>4 DEF SettledSaved, TxnAt
  <2>2. PlainTypes' /\ UNCHANGED <<proc, told, read, sent>>
    BY <1>1, <2>1, TxnTypes
  <2>3. SaveOrNot /\ SameLimit
    BY <1>1, <2>1, BudgetFacts DEF SaveOrNot
  <2> QED
    BY <1>1, <1>3, <2>1, <2>2, <2>3, SaveInv
<1>5. CASE CheckFinish
  <2>1. Live /\ TxnOnly /\ UNCHANGED repo
        /\ (TxnEnd \/ txn' = [pc |-> "checkpoint", head |-> git.head])
    BY <1>5 DEF CheckFinish, TxnAt
  <2>2. PlainTypes' /\ UNCHANGED <<proc, told, read, sent>>
    BY <1>1, <2>1, TxnTypes
  <2>3. delivery' \in DeliveryRecord
    BY <1>1, <1>2, <1>5 DEF CheckFinish, DeliveryRecord
  <2>4. SaveOrNot /\ SameLimit
    BY <1>1, <1>5, BudgetFacts DEF CheckFinish, SaveOrNot
  <2>5. Adds(loop, loop')
    BY <1>3, <1>5 DEF CheckFinish
  <2> QED
    BY <2>1, <2>2, <2>3, <2>4, <2>5, SaveInv
<1>6. CASE Checkpoint
  <2>1. Live /\ TxnOnly /\ UNCHANGED <<loop, repo>> /\ delivery' = Pending(txn.head)
        /\ (TxnTo("land") \/ TxnEnd) /\ (Saved(loop, delivery') \/ SaveFails)
    BY <1>6 DEF Checkpoint, TxnAt
  <2>2. PlainTypes' /\ UNCHANGED <<proc, told, read, sent>>
    BY <1>1, <2>1, TxnTypes
  <2>3. SaveOrNot /\ SameLimit
    BY <1>1, <2>1, BudgetFacts DEF SaveOrNot
  <2> QED
    BY <1>1, <1>2, <1>3, <2>1, <2>2, <2>3, SaveInv
<1>7. CASE Land
  <2>1. Live /\ TxnOnly /\ UNCHANGED <<loop, delivery, disk, budget>>
        /\ (TxnTo("record") \/ TxnEnd)
    BY <1>7 DEF Land, TxnAt
  <2>2. repo' \in [head : Nat, blocked : BOOLEAN]
    <3>1. \A h \in Nat : [repo EXCEPT !.head = h] \in [head : Nat, blocked : BOOLEAN]
      BY <1>1
    <3>2. repo' = repo \/ repo' = [repo EXCEPT !.head = IF txn.head > @ THEN txn.head ELSE @]
      BY <1>7 DEF Land
    <3>3. (IF txn.head > repo.head THEN txn.head ELSE repo.head) \in Nat
      BY <1>1
    <3> QED
      BY <1>1, <3>1, <3>2, <3>3
  <2>3. PlainTypes' /\ UNCHANGED <<proc, told, read, sent>>
    BY <2>1, <2>2, TxnTypes
  <2>4. SaveOrNot /\ SameLimit
    BY <1>1, <2>1 DEF SaveOrNot, SameLimit
  <2> QED
    BY <1>1, <1>3, <2>1, <2>3, <2>4, SaveInv
<1>8. CASE RecordApplied
  <2>1. Live /\ TxnOnly /\ UNCHANGED <<loop, repo>> /\ delivery' = Applied(txn.head)
        /\ (TxnTo("complete") \/ TxnEnd) /\ (Saved(loop, delivery') \/ SaveFails)
    BY <1>8 DEF RecordApplied, TxnAt
  <2>2. PlainTypes' /\ UNCHANGED <<proc, told, read, sent>>
    BY <1>1, <2>1, TxnTypes
  <2>3. SaveOrNot /\ SameLimit
    BY <1>1, <2>1, BudgetFacts DEF SaveOrNot
  <2> QED
    BY <1>1, <1>2, <1>3, <2>1, <2>2, <2>3, SaveInv
<1>9. CASE CompleteRound
  <2>1. Live /\ TxnOnly /\ TxnEnd /\ UNCHANGED <<delivery, repo>>
    BY <1>9 DEF CompleteRound, TxnAt
  <2>2. PlainTypes' /\ UNCHANGED <<proc, told, read, sent>>
    BY <1>1, <2>1, TxnTypes
  <2>3. SaveOrNot /\ SameLimit /\ Adds(loop, loop')
    BY <1>1, <1>3, <1>9, BudgetFacts DEF CompleteRound, SaveOrNot
  <2> QED
    BY <1>1, <2>1, <2>2, <2>3, SaveInv
<1> QED
  BY <1>4, <1>5, <1>6, <1>7, <1>8, <1>9 DEF Deliver

\* A step that leaves the session alone, whatever the process is.
LEMMA OutsideInv ==
  ASSUME LoopInv, UNCHANGED <<loop, delivery, disk, told, read, sent>>, SameLimit, PlainTypes',
         proc' \in {"landing", "recording"} => CanComplete(loop)
  PROVE  LoopInv' /\ Released
<1>1. SaveOrNot /\ delivery \in DeliveryRecord /\ sent \in Nat /\ sent <= budget.limit
  BY DEF SaveOrNot, LoopInv, OtherTypes
<1>2. Grows
  BY <1>1, AsideGrows
<1> QED
  BY <1>1, <1>2, GrowsInv

LEMMA ToggleRepoInv ==
  ASSUME LoopInv, ToggleRepo
  PROVE  LoopInv' /\ Released
<1>1. repo' \in [head : Nat, blocked : BOOLEAN]
  BY PlainNow DEF PlainTypes, ToggleRepo
<1>2. PlainTypes'
  BY <1>1, PlainNow DEF PlainTypes, ToggleRepo
<1>3. SameLimit
  BY DEF ToggleRepo, SameLimit, LoopInv, OtherTypes
<1> QED
  BY <1>2, <1>3, OutsideInv DEF ToggleRepo, LoopInv

\* Restore takes nothing back but an intent to finish.
LEMMA RestoredAdds ==
  ASSUME NEW l, GoodLoop(l)
  PROVE  Adds(l, Restored(l))
<1> DEFINE m == Restored(l)
<1>1. l \in LoopState
  BY DEF GoodLoop, Queued
<1>2. m \in LoopState /\ m.inbox = l.inbox /\ m.next = l.next /\ m.wakes = l.wakes
      /\ m.asked = l.asked /\ m.phase = l.phase /\ (m.finishing => l.finishing)
  BY <1>1 DEF Restored, LoopState
<1> HIDE DEF m
<1>3. l.wakes <= m.wakes
  BY <1>1, <1>2, LoopFields
<1> QED
  BY <1>2, <1>3, SameQueues DEF m

\* After a crash the session is what the file holds of it, restored.
LEMMA CrashInv ==
  ASSUME LoopInv, Crash
  PROVE  LoopInv' /\ Released
<1>1. loop' = Restored(disk.loop) /\ delivery' = disk.delivery /\ proc' = "down"
      /\ Spend("crashes") /\ UNCHANGED <<disk, git, repo, told, read, sent>>
  BY DEF Crash
<1>2. SameLimit
  BY <1>1, BudgetFacts DEF LoopInv, OtherTypes
<1>3. PlainTypes'
  <2>1. agent' \in [busy : SUBSET Agents, prompted : SUBSET Agents]
        /\ hold' \in {"no", "resume", "paused"}
    BY PlainNow DEF Crash, PlainTypes
  <2>2. wake' \in [attempts : [Agents -> [key : Key, count : 0 .. MaxAttempts]],
                   due : [Agents -> Key], held : BOOLEAN]
    BY PlainNow, WakeTypes DEF Crash
  <2> QED
    BY <1>1, <2>1, <2>2, PlainNow DEF PlainTypes, Crash, TxnIdle
<1>4. OtherTypes'
  BY <1>1, <1>2, <1>3 DEF LoopInv, OtherTypes, PlainTypes, SameLimit
<1>5. Kept(loop', told, read, sent)
  <2>1. Kept(disk.loop, told, read, sent) /\ Adds(disk.loop, loop')
    BY <1>1, RestoredAdds DEF LoopInv, Kept
  <2>2. Unread(disk.loop) \subseteq Unread(loop')
    BY <2>1, AddsUnread
  <2>3. disk.loop.wakes \in Nat /\ loop'.wakes \in Nat /\ sent \in Nat
    BY <2>1, LoopFields DEF Kept, Adds, GoodLoop, Queued, LoopInv, OtherTypes
  <2> QED
    BY <2>1, <2>2, <2>3 DEF Kept, Adds
<1>6. LoopInv'
  BY <1>1, <1>2, <1>4, <1>5 DEF LoopInv, SameLimit
<1> QED
  BY <1>1, <1>6 DEF Released

\* What the resume path writes is written before it goes on.
LEMMA PersistInv ==
  ASSUME LoopInv, NEW l, NEW d \in DeliveryRecord, Persist(l, d), Adds(loop, l), ResumeOnly,
         repo' = repo, proc' \in {"down", "landing"}, proc' = "landing" => CanComplete(l)
  PROVE  LoopInv' /\ Released
<1>1. loop' = l /\ delivery' = d /\ disk' = [loop |-> loop', delivery |-> delivery']
      /\ UNCHANGED <<git, agent, wake, hold, txn, told, read, sent, budget>>
  BY DEF Persist, ResumeOnly
<1>2. SameLimit /\ SaveOrNot /\ sent \in Nat /\ sent <= budget.limit
  BY <1>1 DEF SameLimit, SaveOrNot, LoopInv, OtherTypes
<1>3. Grows
  BY <1>1, <1>2, ReportGrows
<1>4. PlainTypes'
  BY <1>1, PlainNow DEF PlainTypes
<1> QED
  BY <1>1, <1>2, <1>3, <1>4, GrowsInv

LEMMA RecoveryInv ==
  ASSUME LoopInv, Recovery
  PROVE  LoopInv' /\ Released
<1>1. delivery.head \in Nat /\ git.head \in Nat /\ repo \in [head : Nat, blocked : BOOLEAN]
      /\ delivery \in DeliveryRecord
  BY PlainNow DEF LoopInv, OtherTypes, PlainTypes, DeliveryRecord
<1>2. \A h \in Nat : Pending(h) \in DeliveryRecord /\ Applied(h) \in DeliveryRecord
  BY DEF Pending, Applied, DeliveryRecord
<1>3. Adds(loop, loop) /\ (CanComplete(loop) => Adds(loop, Complete(loop)))
  BY NewIsGood, AddsItself, CompleteAdds DEF CanComplete
<1>4. CASE Resume
  <2>1. proc = "down" /\ repo' = repo /\ ResumeOnly
    BY <1>4 DEF Resume
  <2>2. CASE IsApplied(delivery) /\ CanComplete(loop)
             /\ Persist(Complete(loop), delivery) /\ UNCHANGED proc
    BY <1>1, <1>3, <2>1, <2>2, PersistInv
  <2>3. CASE Persist(loop, Pending(delivery.head)) /\ UNCHANGED proc
    BY <1>1, <1>2, <1>3, <2>1, <2>3, PersistInv
  <2>4. CASE CanComplete(loop) /\ Persist(loop, Pending(git.head)) /\ proc' = "landing"
    BY <1>1, <1>2, <1>3, <2>1, <2>4, PersistInv
  <2>5. CASE proc' = "live" /\ UNCHANGED <<loop, delivery, disk>>
    <3>1. SameLimit /\ UNCHANGED <<told, read, sent>>
      BY <2>1 DEF ResumeOnly, SameLimit, LoopInv, OtherTypes
    <3>2. PlainTypes'
      BY <2>1, <2>5, PlainNow DEF ResumeOnly, PlainTypes
    <3> QED
      BY <2>5, <3>1, <3>2, OutsideInv
  <2> QED
    BY <1>4, <2>2, <2>3, <2>4, <2>5 DEF Resume, NeedsDelivery
<1>5. CASE OfflineLand
  <2>1. UNCHANGED <<loop, delivery, disk>> /\ ResumeOnly /\ proc' \in {"recording", "down"}
        /\ CanComplete(loop)
    BY <1>5 DEF OfflineLand, LoopInv
  <2>2. repo' \in [head : Nat, blocked : BOOLEAN]
    <3>1. \A h \in Nat : [repo EXCEPT !.head = h] \in [head : Nat, blocked : BOOLEAN]
      BY <1>1
    <3>2. repo' = repo
          \/ repo' = [repo EXCEPT !.head = IF delivery.head > @ THEN delivery.head ELSE @]
      BY <1>5 DEF OfflineLand
    <3>3. (IF delivery.head > repo.head THEN delivery.head ELSE repo.head) \in Nat
      BY <1>1
    <3> QED
      BY <1>1, <3>1, <3>2, <3>3
  <2>3. SameLimit /\ UNCHANGED <<told, read, sent>>
    BY <2>1 DEF ResumeOnly, SameLimit, LoopInv, OtherTypes
  <2>4. PlainTypes'
    BY <2>1, <2>2, PlainNow DEF ResumeOnly, PlainTypes
  <2> QED
    BY <2>1, <2>3, <2>4, OutsideInv
<1>6. CASE OfflineRecord
  <2>1. CanComplete(loop) /\ Persist(Complete(loop), Applied(delivery.head)) /\ proc' = "down"
        /\ repo' = repo /\ ResumeOnly
    BY <1>6 DEF OfflineRecord, LoopInv
  <2> QED
    BY <1>1, <1>2, <1>3, <2>1, PersistInv
<1>7. CASE OfflineCrash
  <2>1. SameLimit
    BY <1>7, BudgetFacts DEF OfflineCrash, LoopInv, OtherTypes
  <2>2. PlainTypes'
    BY <1>7, PlainNow DEF OfflineCrash, PlainTypes
  <2> QED
    BY <1>7, <2>1, <2>2, OutsideInv DEF OfflineCrash
<1> QED
  BY <1>4, <1>5, <1>6, <1>7 DEF Recovery

----------------------------------------------------------------------------
LEMMA InitInv ==
  ASSUME Init
  PROVE  LoopInv
<1>1. GoodLoop(NewLoop) /\ NewLoop.wakes = 0 /\ NewLoop \in LoopState
  BY NewLoopIsGood DEF GoodLoop, Queued
<1>2. budget \in Setup
  BY LoopAssumption DEF Init
<1>3. NoAttempts \in [Agents -> [key : Key, count : 0 .. MaxAttempts]]
      /\ NothingDue \in [Agents -> Key]
  BY DEF NoAttempts, NothingDue, NoKey, Key, MaxAttempts
<1>4. NoDelivery \in DeliveryRecord
  BY DEF NoDelivery, DeliveryRecord
<1>5. PlainTypes
  BY <1>3 DEF Init, PlainTypes, TxnIdle
<1>6. OtherTypes
  BY <1>1, <1>2, <1>4, <1>5 DEF Init, PlainTypes, OtherTypes
<1>7. Kept(NewLoop, {}, {}, 0)
  BY <1>1 DEF Kept
<1>8. 0 <= budget.limit
  BY <1>2 DEF Setup
<1> QED
  BY <1>6, <1>7, <1>8 DEF Init, LoopInv

LEMMA StepInv ==
  ASSUME LoopInv, [Next]_vars
  PROVE  LoopInv' /\ (Released \/ UNCHANGED vars)
<1>1. CASE Calling
  BY <1>1, SendInv, AcknowledgeInv, WaitInv, AskInv, ReplyInv, FinishInv DEF Calling
<1>2. CASE Reporting
  BY <1>2, WorkInv, StartTurnInv, SettleInv DEF Reporting
<1>3. CASE Human
  BY <1>3, InterruptInv, NewTaskInv, PauseInv, ContinueInv, ResumeWorkInv DEF Human
<1>4. CASE Scheduling
  BY <1>4, TimerFiresInv, HeldTickInv, TickInv, DispatchInv DEF Scheduling
<1>5. CASE Deliver \/ ToggleRepo \/ Crash \/ Recovery
  BY <1>5, DeliverInv, ToggleRepoInv, CrashInv, RecoveryInv
<1>6. CASE UNCHANGED vars
  BY <1>6 DEF vars, LoopInv, OtherTypes
<1> QED
  BY <1>1, <1>2, <1>3, <1>4, <1>5, <1>6 DEF Next

\* Every reachable state satisfies the invariant.
THEOREM LoopInvariant == Spec => []LoopInv
<1>1. Init => LoopInv
  BY InitInv
<1>2. LoopInv /\ [Next]_vars => LoopInv'
  BY StepInv
<1> QED
  BY <1>1, <1>2, PTL DEF Spec

\* Nobody finishes over an open consultation or unread input of the human.
THEOREM FinishIsUnblockedHolds == Spec => []FinishIsUnblocked
<1>1. LoopInv => FinishIsUnblocked
  BY InvImplies
<1> QED
  BY <1>1, LoopInvariant, PTL

\* What a sender was told is queued is there until it is read, and no more
\* wakes are sent than the human granted.
THEOREM ToldIsKeptHolds == Spec => []ToldIsKept
<1>1. LoopInv => ToldIsKept
  BY InvImplies
<1> QED
  BY <1>1, LoopInvariant, PTL

\* A consultation ends when Austin takes its answer, and in no other way.
THEOREM ReleasedByReplyHolds == Spec => ReleasedByReply
<1>1. LoopInv /\ [Next]_vars =>
        [loop.asked.open /\ proc' = "live" => (~loop'.asked.open <=> Reads(loop.asked.reply))]_vars
  BY StepInv DEF Released
<1> QED
  BY <1>1, LoopInvariant, PTL DEF Spec, ReleasedByReply
=============================================================================
