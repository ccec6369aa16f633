------------------------- MODULE SchedulerCoreProofs --------------------------
(***************************************************************************)
(* Theorems about SchedulerCore, for every set of tasks and workflows and  *)
(* any number of slots, retries and pending cleanups.                      *)
(***************************************************************************)
EXTENDS SchedulerCore, SequenceTheorems, FiniteSetTheorems, TLAPS

(* The inductive invariant. *)

\* The lock has one holder: the supervisor from SupBegin to SupRelease, the submit
\* thread from SubRouteMiss to SubPark, or the LLM thread from FailLock to FailUnlock.
SupHolds  == sup.phase \in {"drain", "timeouts", "results"}
OneHolder == /\ ~(SupHolds /\ sub.park) /\ ~(SupHolds /\ llm.phase = "fail")
             /\ ~(sub.park /\ llm.phase = "fail")

\* What the Core was told last about a task between two attempts, and about one
\* whose attempt has begun.
Between(o) == \/ attempt[o] = 0 /\ sent[o] = Sent("none", 0, TRUE)
              \/ attempt[o] \in 1..MaxRetries /\ sent[o] = Sent("retry", attempt[o], TRUE)
Begun(o)   == attempt[o] \in 1..MaxRetries + 1 /\ sent[o] = Sent("start", attempt[o], TRUE)

\* Where the threads are.
Threads ==
    /\ llm.phase \in {"idle", "wake"} => llm.todo = {}
    /\ sub.head # NoObj => sub.next = ClassOf[sub.head] /\ sub.head \in Queued
    /\ sub.park => sub.head # NoObj /\ status[sub.head] = "pending"
    /\ sup.phase \notin {"timeouts", "results"} => sup.todo = {}
    /\ sup.cur # NoObj =>
          /\ sup.phase = "results" /\ sup.cur \in Running \ sup.todo
          /\ Begun(sup.cur) /\ attempt[sup.cur] <= MaxRetries

\* The queues hold their own tasks, each once.
QueuesApart ==
    \A c \in Classes : /\ IsInjective(queue[c])
                       /\ \A o \in ToSet(queue[c]) : ClassOf[o] = c

\* What the status of a task and the places where it is say about each other.
Place(o) ==
    /\ status[o] = "none" => Between(o) /\ attempt[o] = 0 /\ o \notin tracked
    /\ o \in Queued => status[o] \in {"ready", "pending", "retrying"} /\ Between(o)
    /\ o \in waiting \cup llm.todo => status[o] = "pending" /\ Between(o) /\ o \notin Queued
    /\ o \notin waiting \cap llm.todo
    /\ o \in Running \cap published => Begun(o)
    /\ o \in sup.todo => status[o] = "running" /\ Begun(o)
    /\ o \in recovering => status[o] = "recovering" /\ Begun(o) /\ attempt[o] <= MaxRetries
    /\ \A k \in 0..MaxRetries + 1 :
          <<o, k>> \in kept => /\ k = attempt[o] /\ status[o] = "recovering"
                               /\ o \notin tracked \cup recovering
Places == \A o \in Objs : Place(o)

\* The leases of a task are those it should have.
Lease(o) ==
    \A k \in 0..MaxRetries + 1 :
       <<o, k>> \in held <=> \/ o \in Running \cup recovering /\ k = attempt[o]
                             \/ <<o, k>> \in kept
Leases == \A o \in Objs : Lease(o)

\* No two tracked tasks have the same id.
NoTwins == \A o, p \in tracked : o # p => TaskOf[o] # TaskOf[p]

\* One event at most is due for a task from each loop.
OneEach(out) == \A i, j \in DOMAIN out : out[i].obj = out[j].obj => i = j

\* The events that are due, and what they are about.
Announced(e) ==
    LET o == e.obj
    IN  \/ /\ e.kind = "start" /\ status[o] = "running" /\ o \notin published
           /\ e.attempt = attempt[o] /\ attempt[o] = sent[o].n + 1
           /\ sent[o].kind \in {"none", "retry"}
        \/ /\ e.kind = "exception" /\ status[o] = "gone"
           /\ e.attempt \in {sent[o].n, sent[o].n + 1} /\ sent[o].kind \in {"none", "retry"}

Reported(e) ==
    LET o == e.obj
    IN  /\ Begun(o) /\ e.attempt = attempt[o] /\ o \notin sup.todo
        /\ \/ e.kind = "retry" /\ status[o] = "retrying" /\ o \notin Queued /\ attempt[o] <= MaxRetries
           \/ e.kind = "finish" /\ status[o] = "finished"
           \/ /\ e.kind = "exception" /\ status[o] \in {"running", "recovering"}
              /\ o \notin tracked \cup recovering

Outboxes ==
    /\ OneEach(sub.out) /\ \A e \in ToSet(sub.out) : Announced(e)
    /\ OneEach(sup.out) /\ \A e \in ToSet(sup.out) : Reported(e)

IInv == /\ TypeOK /\ OneHolder /\ Threads /\ QueuesApart /\ Places /\ Leases /\ NoTwins
        /\ Outboxes /\ ClosedForGood

-------------------------------------------------------------------------------
(* Facts about sequences. *)

\* The elements of a sequence are those at its indexes.
LEMMA Elements ==
    ASSUME NEW S, NEW q \in Seq(S)
    PROVE  /\ ToSet(q) \subseteq S /\ Len(q) \in Nat /\ DOMAIN q = 1..Len(q)
           /\ \A i \in 1..Len(q) : q[i] \in ToSet(q) /\ q[i] \in S
           /\ \A x : x \in ToSet(q) <=> \E i \in 1..Len(q) : q[i] = x
BY DEF ToSet

\* A new element at the end.
LEMMA AtEnd ==
    ASSUME NEW S, NEW q \in Seq(S), NEW x \in S
    PROVE  /\ Append(q, x) \in Seq(S) /\ q \o <<x>> = Append(q, x)
           /\ ToSet(Append(q, x)) = ToSet(q) \cup {x}
           /\ IsInjective(q) /\ x \notin ToSet(q) => IsInjective(Append(q, x))
<1> DEFINE a == Append(q, x)
<1>1. /\ a \in Seq(S) /\ Len(a) = Len(q) + 1 /\ a[Len(q) + 1] = x
      /\ \A i \in 1..Len(q) : a[i] = q[i]
  OBVIOUS
<1>2. q \o <<x>> = a
  OBVIOUS
<1>3. Len(q) \in Nat /\ DOMAIN a = 1..(Len(q) + 1) /\ DOMAIN q = 1..Len(q)
  BY <1>1
<1> HIDE DEF a
<1>4. \A i \in 1..(Len(q) + 1) : i \in 1..Len(q) \/ i = Len(q) + 1
  BY <1>3
<1>5. 1..Len(q) \subseteq 1..(Len(q) + 1) /\ Len(q) + 1 \in 1..(Len(q) + 1)
  BY <1>3
<1>6. ToSet(a) = ToSet(q) \cup {x}
  BY <1>1, <1>3, <1>4, <1>5 DEF ToSet
<1>7. ASSUME IsInjective(q), x \notin ToSet(q) PROVE IsInjective(a)
  BY <1>1, <1>3, <1>4, <1>7 DEF ToSet, IsInjective
<1>8. QED
  BY <1>1, <1>2, <1>6, <1>7 DEF a

\* A sequence without its i-th element.
LEMMA Removing ==
    ASSUME NEW S, NEW q \in Seq(S), NEW i \in 1..Len(q), IsInjective(q)
    PROVE  /\ RemoveAt(q, i) \in Seq(S) /\ IsInjective(RemoveAt(q, i))
           /\ ToSet(RemoveAt(q, i)) = ToSet(q) \ {q[i]}
<1> DEFINE n == Len(q)
           r == RemoveAt(q, i)
<1>1. n \in Nat /\ i \in 1..n /\ DOMAIN q = 1..n /\ \A j \in 1..n : q[j] \in S
  OBVIOUS
<1>2. /\ r \in Seq(S) /\ Len(r) = n - 1
      /\ \A j \in 1..(n - 1) : r[j] = IF j < i THEN q[j] ELSE q[j + 1]
  <2> DEFINE f == SubSeq(q, 1, i - 1)
             g == SubSeq(q, i + 1, n)
  <2>1. f \in Seq(S) /\ Len(f) = i - 1 /\ \A j \in 1..(i - 1) : f[j] = q[j]
    BY <1>1
  <2>2. g \in Seq(S) /\ Len(g) = n - i /\ \A j \in 1..(n - i) : g[j] = q[j + i]
    <3>1. \A j \in (i + 1)..n : q[j] \in S
      BY <1>1
    <3>2. /\ g \in Seq(S) /\ Len(g) = IF i + 1 <= n THEN n - (i + 1) + 1 ELSE 0
          /\ \A j \in 1..(n - (i + 1) + 1) : g[j] = q[(i + 1) + j - 1]
      BY <1>1, <3>1, SubSeqProperties
    <3> HIDE DEF g, n
    <3>3. n - (i + 1) + 1 = n - i /\ (~(i + 1 <= n) => n - i = 0)
      BY <1>1
    <3>4. \A j \in 1..(n - i) : (i + 1) + j - 1 = j + i
      BY <1>1
    <3>5. Len(g) = n - i
      BY <3>2, <3>3
    <3>6. QED
      BY <3>2, <3>3, <3>4, <3>5
  <2>3. r = f \o g
    BY DEF RemoveAt
  <2> HIDE DEF f, g, r, n
  <2>4. /\ r \in Seq(S) /\ Len(r) = Len(f) + Len(g)
        /\ \A j \in 1..(Len(f) + Len(g)) : r[j] = IF j <= Len(f) THEN f[j] ELSE g[j - Len(f)]
    BY <2>1, <2>2, <2>3, ConcatProperties
  <2>5. Len(f) + Len(g) = n - 1
    BY <1>1, <2>1, <2>2
  <2>6. ASSUME NEW j \in 1..(n - 1) PROVE r[j] = IF j < i THEN q[j] ELSE q[j + 1]
    <3>1. CASE j < i
      BY <1>1, <2>1, <2>4, <2>5, <3>1
    <3>2. CASE ~(j < i)
      <4>1. j - (i - 1) \in 1..(n - i) /\ (j - (i - 1)) + i = j + 1 /\ ~(j <= i - 1)
        BY <1>1, <3>2
      <4>2. QED
        BY <2>1, <2>2, <2>4, <2>5, <3>2, <4>1
    <3>3. QED
      BY <3>1, <3>2
  <2>7. QED
    BY <2>4, <2>5, <2>6
<1>3. DOMAIN r = 1..(n - 1)
  BY <1>2
<1> HIDE DEF r, n
<1>4. \A j \in 1..n : j < i \/ j = i \/ (j > i /\ j - 1 \in 1..(n - 1) /\ ~(j - 1 < i) /\ (j - 1) + 1 = j)
  BY <1>1
<1>5. \A j \in 1..n : j < i => j \in 1..(n - 1)
  BY <1>1
<1>6. \A j \in 1..(n - 1) : j \in 1..n /\ j + 1 \in 1..n
  BY <1>1
<1>7. \A j, k \in 1..n : q[j] = q[k] => j = k
  BY <1>1 DEF IsInjective
<1>8. IsInjective(r)
  BY <1>1, <1>2, <1>3, <1>6, <1>7 DEF IsInjective
<1>9. \A j \in 1..n : j # i => \E k \in 1..(n - 1) : r[k] = q[j]
  BY <1>1, <1>2, <1>4, <1>5
<1>10. \A k \in 1..(n - 1) : \E j \in 1..n : j # i /\ r[k] = q[j]
  BY <1>1, <1>2, <1>6
<1>11. ToSet(r) = ToSet(q) \ {q[i]}
  <2>1. \A y : y \in ToSet(r) <=> \E k \in 1..(n - 1) : r[k] = y
    BY <1>3 DEF ToSet
  <2>2. \A y : y \in ToSet(q) <=> \E j \in 1..n : q[j] = y
    BY <1>1 DEF ToSet
  <2>3. \A y : y \in ToSet(r) => y \in ToSet(q) /\ y # q[i]
    BY <1>1, <1>7, <1>10, <2>1, <2>2
  <2>4. \A y : y \in ToSet(q) /\ y # q[i] => y \in ToSet(r)
    BY <1>9, <2>1, <2>2
  <2>5. QED
    BY <2>3, <2>4
<1>12. QED
  BY <1>2, <1>8, <1>11 DEF r

\* A sequence with a new element before its i-th.
LEMMA Inserting ==
    ASSUME NEW S, NEW q \in Seq(S), NEW x \in S, NEW i \in 1..(Len(q) + 1), IsInjective(q),
           x \notin ToSet(q)
    PROVE  /\ InsertAt(q, i, x) \in Seq(S) /\ IsInjective(InsertAt(q, i, x))
           /\ ToSet(InsertAt(q, i, x)) = ToSet(q) \cup {x}
<1> DEFINE n == Len(q)
           r == InsertAt(q, i, x)
<1>1. n \in Nat /\ i \in 1..(n + 1) /\ DOMAIN q = 1..n
  OBVIOUS
<1>2. /\ r \in Seq(S) /\ Len(r) = n + 1
      /\ \A j \in 1..(n + 1) : r[j] = IF j < i THEN q[j] ELSE IF j = i THEN x ELSE q[j - 1]
  <2> DEFINE f == SubSeq(q, 1, i - 1) \o <<x>>
             g == SubSeq(q, i, n)
  <2>1. /\ f \in Seq(S) /\ Len(f) = i /\ f[i] = x
        /\ \A j \in 1..(i - 1) : f[j] = q[j]
    BY <1>1
  <2>2. /\ g \in Seq(S) /\ Len(g) = n + 1 - i
        /\ \A j \in 1..(n + 1 - i) : g[j] = q[j + i - 1]
    BY <1>1
  <2>3. r = f \o g
    BY DEF InsertAt
  <2> HIDE DEF f, g, r, n
  <2>4. /\ r \in Seq(S) /\ Len(r) = Len(f) + Len(g)
        /\ \A j \in 1..(Len(f) + Len(g)) : r[j] = IF j <= Len(f) THEN f[j] ELSE g[j - Len(f)]
    BY <2>1, <2>2, <2>3, ConcatProperties
  <2>5. Len(f) + Len(g) = n + 1
    BY <1>1, <2>1, <2>2
  <2>6. ASSUME NEW j \in 1..(n + 1)
        PROVE  r[j] = IF j < i THEN q[j] ELSE IF j = i THEN x ELSE q[j - 1]
    <3>1. CASE j < i
      <4>1. j <= i /\ j \in 1..(i - 1)
        BY <1>1, <3>1
      <4>2. QED
        BY <2>1, <2>4, <2>5, <3>1, <4>1
    <3>2. CASE j = i
      BY <1>1, <2>1, <2>4, <2>5, <3>2
    <3>3. CASE j > i
      <4>1. j - i \in 1..(n + 1 - i) /\ (j - i) + i - 1 = j - 1 /\ ~(j <= i) /\ ~(j < i) /\ j # i
        BY <1>1, <3>3
      <4>2. QED
        BY <2>1, <2>2, <2>4, <2>5, <3>3, <4>1
    <3>4. QED
      BY <1>1, <3>1, <3>2, <3>3
  <2>7. QED
    BY <2>4, <2>5, <2>6
<1>3. DOMAIN r = 1..(n + 1)
  BY <1>2
<1> HIDE DEF r, n
<1>4. \A j \in 1..n : /\ j \in 1..(n + 1) /\ j + 1 \in 1..(n + 1) /\ (j + 1) - 1 = j
                      /\ j < i \/ (~(j + 1 < i) /\ j + 1 # i)
  BY <1>1
<1>5. \A j \in 1..(n + 1) : /\ j < i => j \in 1..n
                            /\ ~(j < i) /\ j # i => j - 1 \in 1..n
  BY <1>1
<1>6. \A j, k \in 1..n : q[j] = q[k] => j = k
  BY <1>1 DEF IsInjective
<1>7. \A j \in 1..n : q[j] # x
  BY <1>1 DEF ToSet
<1>8. IsInjective(r)
  BY <1>1, <1>2, <1>3, <1>5, <1>6, <1>7 DEF IsInjective
<1>9. \A j \in 1..n : \E k \in 1..(n + 1) : r[k] = q[j]
  BY <1>1, <1>2, <1>4
<1>10. \A k \in 1..(n + 1) : r[k] = x \/ \E j \in 1..n : r[k] = q[j]
  BY <1>1, <1>2, <1>5
<1>11. i \in 1..(n + 1) /\ r[i] = x
  BY <1>1, <1>2
<1>12. ToSet(r) = ToSet(q) \cup {x}
  <2>1. \A y : y \in ToSet(r) <=> \E k \in 1..(n + 1) : r[k] = y
    BY <1>3 DEF ToSet
  <2>2. \A y : y \in ToSet(q) <=> \E j \in 1..n : q[j] = y
    BY <1>1 DEF ToSet
  <2>3. \A y : y \in ToSet(r) <=> y \in ToSet(q) \/ y = x
    BY <1>1, <1>9, <1>10, <1>11, <2>1, <2>2
  <2>4. QED
    BY <2>3
<1>13. QED
  BY <1>2, <1>8, <1>12 DEF r

\* The first of the events due, and the rest.
LEMMA FirstOut ==
    ASSUME NEW out \in Seq(Events), OneEach(out), out # <<>>
    PROVE  /\ Head(out) \in ToSet(out) /\ Head(out) \in Events
           /\ Tail(out) \in Seq(Events) /\ OneEach(Tail(out))
           /\ ToSet(Tail(out)) \subseteq ToSet(out)
           /\ \A e \in ToSet(Tail(out)) : e.obj # Head(out).obj
<1> DEFINE n == Len(out)
           t == Tail(out)
<1>1. n \in Nat /\ n > 0 /\ DOMAIN out = 1..n /\ 1 \in 1..n /\ Head(out) = out[1]
  OBVIOUS
<1>2. /\ t \in Seq(Events) /\ DOMAIN t = 1..(n - 1)
      /\ \A i \in 1..(n - 1) : /\ t[i] = out[i + 1] /\ i \in Int
                              /\ i + 1 \in 1..n /\ i + 1 # 1
  BY <1>1
<1>3. out[1] \in Events
  BY <1>1
<1> HIDE DEF n, t
<1>4. OneEach(t)
  <2>1. SUFFICES ASSUME NEW i \in 1..(n - 1), NEW j \in 1..(n - 1), t[i].obj = t[j].obj
                 PROVE  i = j
    BY <1>2 DEF OneEach
  <2>2. out[i + 1].obj = out[j + 1].obj /\ i + 1 \in DOMAIN out /\ j + 1 \in DOMAIN out
    BY <1>1, <1>2, <2>1
  <2>3. i + 1 = j + 1
    BY <2>2 DEF OneEach
  <2>4. QED
    BY <1>2, <2>3
<1>5. ToSet(t) \subseteq ToSet(out) /\ out[1] \in ToSet(out)
  BY <1>1, <1>2 DEF ToSet
<1>6. \A e \in ToSet(t) : e.obj # out[1].obj
  <2>1. SUFFICES ASSUME NEW i \in 1..(n - 1), t[i].obj = out[1].obj
                 PROVE  FALSE
    BY <1>2 DEF ToSet
  <2>2. QED
    BY <1>1, <1>2, <2>1 DEF OneEach
<1>7. QED
  BY <1>1, <1>2, <1>3, <1>4, <1>5, <1>6 DEF t

\* One more event that is due, about a task that has none.
LEMMA MoreOut ==
    ASSUME NEW out \in Seq(Events), OneEach(out), NEW e \in Events,
           \A d \in ToSet(out) : d.obj # e.obj
    PROVE  /\ out \o <<e>> \in Seq(Events) /\ OneEach(out \o <<e>>)
           /\ ToSet(out \o <<e>>) = ToSet(out) \cup {e}
<1> DEFINE n == Len(out)
           t == out \o <<e>>
<1>1. n \in Nat /\ DOMAIN out = 1..n
  OBVIOUS
<1>2. /\ t \in Seq(Events) /\ DOMAIN t = 1..(n + 1) /\ t[n + 1] = e
      /\ \A i \in 1..n : t[i] = out[i]
  OBVIOUS
<1>3. ToSet(t) = ToSet(out) \cup {e}
  BY AtEnd
<1> HIDE DEF n, t
<1>4. \A i \in 1..(n + 1) : i \in 1..n \/ i = n + 1
  BY <1>1
<1>5. OneEach(t)
  BY <1>1, <1>2, <1>4 DEF ToSet, OneEach
<1>6. QED
  BY <1>2, <1>3, <1>5 DEF t

-------------------------------------------------------------------------------
(* The queues. *)

\* A task in its queue has an index there.
LEMMA QueuedAt ==
    ASSUME TypeOK, QueuesApart, NEW o \in Queued
    PROVE  o \in Objs /\ ClassOf[o] \in Classes /\ o \in ToSet(queue[ClassOf[o]])
<1>1. PICK c \in Classes : o \in ToSet(queue[c])
  BY DEF Queued
<1>2. queue[c] \in Seq(Objs)
  BY DEF TypeOK
<1>3. o \in Objs /\ ClassOf[o] = c
  BY <1>1, <1>2, Elements DEF QueuesApart
<1>4. QED
  BY <1>1, <1>3

\* Without a task, its queue holds the others.
LEMMA WithoutOne ==
    ASSUME TypeOK, QueuesApart, NEW o \in Queued
    PROVE  /\ Without(o) \in [Classes -> Seq(Objs)]
           /\ \A c \in Classes : /\ IsInjective(Without(o)[c])
                                 /\ ToSet(Without(o)[c]) = ToSet(queue[c]) \ {o}
<1> DEFINE q == queue[ClassOf[o]]
           i == CHOOSE j \in 1..Len(q) : q[j] = o
<1>1. o \in Objs /\ ClassOf[o] \in Classes /\ o \in ToSet(q)
  BY QueuedAt
<1>2. q \in Seq(Objs) /\ IsInjective(q)
  BY <1>1 DEF TypeOK, QueuesApart
<1>3. \E j \in 1..Len(q) : q[j] = o
  BY <1>1, <1>2, Elements
<1>4. i \in 1..Len(q) /\ q[i] = o
  BY <1>3
<1>5. /\ RemoveAt(q, i) \in Seq(Objs) /\ IsInjective(RemoveAt(q, i))
      /\ ToSet(RemoveAt(q, i)) = ToSet(q) \ {o}
  <2> HIDE DEF q, i
  <2>1. QED
    BY <1>2, <1>4, Removing
<1>6. Without(o) = [queue EXCEPT ![ClassOf[o]] = RemoveAt(q, i)]
  BY DEF Without
<1> HIDE DEF i
<1>7. \A c \in Classes \ {ClassOf[o]} : o \notin ToSet(queue[c])
  BY DEF QueuesApart
<1>8. /\ Without(o)[ClassOf[o]] = RemoveAt(q, i)
      /\ \A c \in Classes \ {ClassOf[o]} : Without(o)[c] = queue[c]
      /\ Without(o) \in [Classes -> Seq(Objs)]
  BY <1>1, <1>5, <1>6 DEF TypeOK
<1>9. QED
  BY <1>1, <1>5, <1>7, <1>8 DEF QueuesApart

\* A task leaves its queue.
LEMMA Dequeued ==
    ASSUME TypeOK, QueuesApart, NEW o \in Queued, queue' = Without(o)
    PROVE  queue' \in [Classes -> Seq(Objs)] /\ QueuesApart' /\ Queued' = Queued \ {o}
<1>1. \A c \in Classes : /\ IsInjective(queue'[c])
                         /\ ToSet(queue'[c]) = ToSet(queue[c]) \ {o}
  BY WithoutOne
<1>2. QueuesApart'
  BY <1>1 DEF QueuesApart
<1>3. Queued' = Queued \ {o}
  BY <1>1 DEF Queued
<1>4. QED
  BY <1>2, <1>3, WithoutOne

\* A task joins its queue, or moves within it.
LEMMA Enqueued ==
    ASSUME TypeOK, QueuesApart, NEW o \in Objs, NEW q \in Seq(Objs), IsInjective(q),
           ToSet(q) = ToSet(queue[ClassOf[o]]) \cup {o},
           queue' = [queue EXCEPT ![ClassOf[o]] = q]
    PROVE  queue' \in [Classes -> Seq(Objs)] /\ QueuesApart' /\ Queued' = Queued \cup {o}
<1>1. ClassOf[o] \in Classes
  BY ObjsAssumption
<1>2. /\ queue'[ClassOf[o]] = q /\ queue' \in [Classes -> Seq(Objs)]
      /\ \A c \in Classes \ {ClassOf[o]} : queue'[c] = queue[c]
  BY <1>1 DEF TypeOK
<1>3. QueuesApart'
  BY <1>1, <1>2 DEF QueuesApart
<1>4. Queued' = Queued \cup {o}
  BY <1>1, <1>2 DEF Queued
<1>5. QED
  BY <1>2, <1>3, <1>4

\* A task that is not queued is put at the end of its queue.
LEMMA Appended ==
    ASSUME TypeOK, QueuesApart, NEW o \in Objs, o \notin Queued,
           queue' = [queue EXCEPT ![ClassOf[o]] = Append(@, o)]
    PROVE  queue' \in [Classes -> Seq(Objs)] /\ QueuesApart' /\ Queued' = Queued \cup {o}
<1> DEFINE q == queue[ClassOf[o]]
<1>1. ClassOf[o] \in Classes /\ q \in Seq(Objs) /\ IsInjective(q)
  BY ObjsAssumption DEF TypeOK, QueuesApart
<1>2. o \notin ToSet(q)
  BY <1>1 DEF Queued
<1>3. queue' = [queue EXCEPT ![ClassOf[o]] = Append(q, o)]
  OBVIOUS
<1> HIDE DEF q
<1>4. /\ Append(q, o) \in Seq(Objs) /\ IsInjective(Append(q, o))
      /\ ToSet(Append(q, o)) = ToSet(q) \cup {o}
  BY <1>1, <1>2, AtEnd
<1>5. QED
  BY <1>3, <1>4, Enqueued DEF q

\* A task that was not queued is restored to its queue, or a queued one moved.
LEMMA RestoredOne ==
    ASSUME TypeOK, QueuesApart, NEW o \in Objs, NEW r \in Seq(Objs), IsInjective(r),
           ToSet(r) = ToSet(queue[ClassOf[o]]) \ {o}, NEW q \in Restored(r, o),
           queue' = [queue EXCEPT ![ClassOf[o]] = q]
    PROVE  queue' \in [Classes -> Seq(Objs)] /\ QueuesApart' /\ Queued' = Queued \cup {o}
<1>1. PICK i \in 1..Len(r) + 1 : q = InsertAt(r, i, o)
  BY DEF Restored
<1>2. Len(r) \in Nat /\ i \in 1..(Len(r) + 1) /\ o \notin ToSet(r)
  OBVIOUS
<1>3. q \in Seq(Objs) /\ IsInjective(q) /\ ToSet(q) = ToSet(r) \cup {o}
  BY <1>1, <1>2, Inserting
<1>4. ToSet(q) = ToSet(queue[ClassOf[o]]) \cup {o}
  BY <1>3
<1>5. QED
  BY <1>3, <1>4, Enqueued

-------------------------------------------------------------------------------
(* What the invariant says of the events that are due. *)

\* The last event of a task that waits for an attempt, and of one that has begun.
LEMMA LastEvent ==
    ASSUME NEW o
    PROVE  /\ Between(o) => /\ sent[o].kind \in {"none", "retry"} /\ sent[o].n = attempt[o]
                            /\ attempt[o] \in 0..MaxRetries
           /\ Begun(o) => /\ sent[o].kind = "start" /\ sent[o].n = attempt[o]
                          /\ attempt[o] \in 1..MaxRetries + 1
BY BoundsAssumption DEF Between, Begun, Sent

\* The tasks the events are about.
LEMMA Due ==
    ASSUME IInv
    PROVE  /\ \A d \in ToSet(sub.out) :
                 /\ d \in Events /\ d.obj \in Objs /\ d.attempt \in 0..MaxRetries + 1
                 /\ status[d.obj] \in {"running", "gone"} /\ sent[d.obj].kind \in {"none", "retry"}
           /\ \A d \in ToSet(sup.out) :
                 /\ d \in Events /\ d.obj \in Objs /\ Begun(d.obj) /\ d.attempt = attempt[d.obj]
                 /\ status[d.obj] \in {"retrying", "finished", "running", "recovering"}
                 /\ d.obj \notin Running \cup recovering
<1>1. sub.out \in Seq(Events) /\ sup.out \in Seq(Events)
  BY DEF IInv, TypeOK
<1>2. ToSet(sub.out) \subseteq Events /\ ToSet(sup.out) \subseteq Events
  BY <1>1, Elements
<1>3. \A d \in Events : d.obj \in Objs /\ d.attempt \in 0..MaxRetries + 1
  BY DEF Events
<1>4. ASSUME NEW d \in ToSet(sub.out)
      PROVE  status[d.obj] \in {"running", "gone"} /\ sent[d.obj].kind \in {"none", "retry"}
  BY DEF IInv, Outboxes, Announced
<1>5. ASSUME NEW d \in ToSet(sup.out)
      PROVE  /\ Begun(d.obj) /\ d.attempt = attempt[d.obj]
             /\ status[d.obj] \in {"retrying", "finished", "running", "recovering"}
             /\ d.obj \notin Running \cup recovering
  <2>1. Reported(d)
    BY DEF IInv, Outboxes
  <2>2. d.obj \in recovering => status[d.obj] = "recovering"
    BY <1>2, <1>3 DEF IInv, Places, Place
  <2>3. QED
    BY <2>1, <2>2 DEF Reported, Running
<1>6. QED
  BY <1>2, <1>3, <1>4, <1>5

\* Nothing happens to a task but that it leaves some of its places.
Unmoved(p) ==
    /\ status'[p] = status[p] /\ attempt'[p] = attempt[p] /\ sent'[p] = sent[p]
    /\ p \in Queued' => p \in Queued
    /\ p \in waiting' => p \in waiting
    /\ p \in llm'.todo => p \in llm.todo
    /\ p \in tracked' => p \in tracked
    /\ p \in published' => p \in published
    /\ p \in recovering' => p \in recovering
    /\ p \in sup'.todo => p \in sup.todo
    /\ \A k \in 0..MaxRetries + 1 : <<p, k>> \in kept' => <<p, k>> \in kept

\* Nothing happens to its leases.
SameLease(p) ==
    /\ status'[p] = status[p] /\ attempt'[p] = attempt[p]
    /\ p \in tracked' <=> p \in tracked
    /\ p \in recovering' <=> p \in recovering
    /\ \A k \in 0..MaxRetries + 1 : /\ <<p, k>> \in held' <=> <<p, k>> \in held
                                    /\ <<p, k>> \in kept' <=> <<p, k>> \in kept

\* The places of the tasks after a step that moves no other task than o.
LEMMA PlacesStay ==
    ASSUME Places, NEW o, \A p \in Objs \ {o} : Unmoved(p), o \in Objs => Place(o)'
    PROVE  Places'
<1>1. ASSUME NEW p \in Objs, Place(p), Unmoved(p) PROVE Place(p)'
  BY <1>1 DEF Place, Unmoved, Between, Begun, Running
<1>2. \A p \in Objs : p = o \/ Place(p)'
  BY <1>1 DEF Places
<1>3. QED
  BY <1>2 DEF Places

\* Their leases.
LEMMA LeasesStay ==
    ASSUME Leases, NEW o, \A p \in Objs \ {o} : SameLease(p), o \in Objs => Lease(o)'
    PROVE  Leases'
<1>1. ASSUME NEW p \in Objs, Lease(p), SameLease(p) PROVE Lease(p)'
  BY <1>1 DEF Lease, SameLease, Running
<1>2. \A p \in Objs : p = o \/ Lease(p)'
  BY <1>1 DEF Leases
<1>3. QED
  BY <1>2 DEF Leases

\* The events that stay due.
LEMMA DueStays ==
    ASSUME NEW d, Unmoved(d.obj)
    PROVE  (Announced(d) => Announced(d)') /\ (Reported(d) => Reported(d)')
BY DEF Unmoved, Announced, Reported, Begun

\* The events that are due after it.
LEMMA OutboxesStay ==
    ASSUME IInv, NEW o, \A p \in Objs \ {o} : Unmoved(p), OneEach(sub'.out), OneEach(sup'.out),
           \A d \in ToSet(sub'.out) : Announced(d)' \/ (d \in ToSet(sub.out) /\ d.obj # o),
           \A d \in ToSet(sup'.out) : Reported(d)' \/ (d \in ToSet(sup.out) /\ d.obj # o)
    PROVE  Outboxes'
<1>1. \A d \in ToSet(sub.out) : d.obj # o => Announced(d)'
  BY Due, DueStays DEF IInv, Outboxes
<1>2. \A d \in ToSet(sup.out) : d.obj # o => Reported(d)'
  BY Due, DueStays DEF IInv, Outboxes
<1>3. QED
  BY <1>1, <1>2 DEF Outboxes

\* The leases of the running tasks of a workflow are given back when it ends; hold
\* may differ from held in the leases of o.
LEMMA LeasesClosed ==
    ASSUME IInv, NEW w \in Workflows, NEW o, NEW hold, Close(w, hold), hold \subseteq held,
           \A p \in Objs \ {o} :
              /\ status'[p] = status[p] /\ attempt'[p] = attempt[p]
              /\ p \in recovering' <=> p \in recovering
              /\ \A k \in 0..MaxRetries + 1 : /\ <<p, k>> \in hold <=> <<p, k>> \in held
                                              /\ <<p, k>> \in kept' <=> <<p, k>> \in kept,
           o \in Objs => Lease(o)'
    PROVE  Leases'
<1>1. ASSUME NEW p \in Objs \ {o}
      PROVE  Lease(p)'
  <2>1. /\ Place(p) /\ Lease(p) /\ status'[p] = status[p] /\ attempt'[p] = attempt[p]
        /\ attempt[p] \in 0..MaxRetries + 1 /\ p \in recovering' <=> p \in recovering
        /\ \A k \in 0..MaxRetries + 1 : /\ <<p, k>> \in hold <=> <<p, k>> \in held
                                        /\ <<p, k>> \in kept' <=> <<p, k>> \in kept
    BY DEF IInv, Places, Leases, TypeOK
  <2>2. CASE p \in Running /\ WorkflowOf[p] = w
    <3>1. p \notin tracked' /\ p \notin recovering /\ Id(p) \notin held'
      BY <2>1, <2>2 DEF Close, InWorkflow, Place, Running
    <3>2. \A k \in 0..MaxRetries + 1 : <<p, k>> \notin kept
      BY <2>1, <2>2 DEF Place, Running
    <3>3. \A k \in 0..MaxRetries + 1 : <<p, k>> \in held' => <<p, k>> \in held
      BY <2>1 DEF Close
    <3>4. QED
      BY <2>1, <3>1, <3>2, <3>3 DEF Lease, Id, Running
  <2>3. CASE ~(p \in Running /\ WorkflowOf[p] = w)
    <3>1. \A k : <<p, k>> \in held' <=> <<p, k>> \in hold
      BY <2>3 DEF Close, InWorkflow, Id
    <3>2. p \in Running' <=> p \in Running
      BY <2>1, <2>3 DEF Close, InWorkflow, Running
    <3>3. QED
      BY <2>1, <3>1, <3>2 DEF Lease
  <2>4. QED
    BY <2>2, <2>3
<1>2. \A p \in Objs : p = o \/ Lease(p)'
  BY <1>1
<1>3. QED
  BY <1>2 DEF Leases

\* Where the threads may be.
Subs == [next : 1..4, head : Objs \cup {NoObj}, park : BOOLEAN, out : Seq(Events)]
Sups == [phase : {"idle", "drain", "timeouts", "results", "flush"}, todo : SUBSET Objs,
         cur : Objs \cup {NoObj}, out : Seq(Events)]
Llms == [phase : {"idle", "wake", "popped", "fail"}, todo : SUBSET Objs]

\* A step of a thread that moves no task: the supervisor may put published running
\* tasks on its list.
LEMMA NothingMoves ==
    ASSUME IInv, Threads', OneHolder',
           UNCHANGED <<status, attempt, published, queue, waiting, tracked, held,
                       recovering, sent, closed, kept>>,
           backoff' \subseteq Objs, stopped' \subseteq Workflows, closed \subseteq stopped',
           deployed' \in BOOLEAN, sub' \in Subs, sup' \in Sups, llm' \in Llms,
           sub'.out = sub.out, sup'.out = sup.out, llm'.todo = llm.todo,
           sup'.todo \subseteq sup.todo \cup (Running \cap published)
    PROVE  IInv'
<1>1. Queued' = Queued /\ Running' = Running
  BY DEF Queued, Running
<1>2. TypeOK'
  BY DEF IInv, TypeOK, Subs, Sups, Llms
<1>3. QueuesApart' /\ NoTwins' /\ ClosedForGood'
  BY DEF IInv, QueuesApart, NoTwins, ClosedForGood
<1>4. Places'
  BY <1>1 DEF IInv, Places, Place, Begun, Between, Running
<1>5. Leases'
  BY <1>1 DEF IInv, Leases, Lease
<1>6. Outboxes'
  <2>1. \A d \in ToSet(sub.out) : Announced(d)'
    BY DEF IInv, Outboxes, Announced
  <2>2. \A d \in ToSet(sup.out) : Reported(d)'
    <3>1. SUFFICES ASSUME NEW d \in ToSet(sup.out) PROVE Reported(d)'
      OBVIOUS
    <3>2. Reported(d) /\ d.obj \notin Running
      BY Due DEF IInv, Outboxes
    <3>3. QED
      BY <1>1, <3>2 DEF Reported, Begun
  <2>3. QED
    BY <2>1, <2>2 DEF IInv, Outboxes
<1>7. QED
  BY <1>2, <1>3, <1>4, <1>5, <1>6 DEF IInv

\* The invariant speaks of the leases task by task.
LEMMA LeasesAdd ==
    ASSUME TypeOK, Leases
    PROVE  LeasesAccounted
<1>1. /\ held \cup kept \subseteq Objs \X (1..MaxRetries + 1)
      /\ Running \cup recovering \subseteq Objs
      /\ \A o \in Objs : attempt[o] \in 0..MaxRetries + 1
      /\ 1..MaxRetries + 1 \subseteq 0..MaxRetries + 1
  BY BoundsAssumption DEF TypeOK, Running
<1>2. ASSUME NEW l \in held PROVE l \in {Id(o) : o \in Running \cup recovering} \cup kept
  BY <1>1 DEF Leases, Lease, Id
<1>3. ASSUME NEW l \in kept PROVE l \in held
  BY <1>1 DEF Leases, Lease
<1>4. ASSUME NEW o \in Running \cup recovering PROVE Id(o) \in held
  BY <1>1 DEF Leases, Lease, Id
<1>5. QED
  BY <1>2, <1>3, <1>4 DEF LeasesAccounted

-------------------------------------------------------------------------------
(* The steps of the submit thread. *)

\* What holds of a queued task.
InQueue(o) ==
    /\ o \in Objs /\ o \in Queued /\ ClassOf[o] \in Classes
    /\ status[o] \in {"ready", "pending", "retrying"} /\ Between(o)
    /\ sent[o].kind \in {"none", "retry"} /\ sent[o].n = attempt[o]
    /\ attempt[o] \in 0..MaxRetries /\ attempt[o] \in 0..MaxRetries + 1
    /\ attempt[o] + 1 \in 1..MaxRetries + 1 /\ attempt[o] + 1 \in 0..MaxRetries + 1
    /\ o \notin waiting \cup llm.todo \cup recovering \cup Running \cup sup.todo
    /\ o # sup.cur
    /\ \A k \in 0..MaxRetries + 1 : <<o, k>> \notin held /\ <<o, k>> \notin kept
    /\ \A d \in ToSet(sub.out) : d.obj # o
    /\ \A d \in ToSet(sup.out) : d.obj # o

LEMMA QueuedOne ==
    ASSUME IInv, NEW o \in Queued
    PROVE  InQueue(o)
<1>1. o \in Objs /\ ClassOf[o] \in Classes
  BY QueuedAt DEF IInv
<1>2. Place(o) /\ Lease(o)
  BY <1>1 DEF IInv, Places, Leases
<1>3. status[o] \in {"ready", "pending", "retrying"} /\ Between(o)
  BY <1>1, <1>2 DEF Place
<1>4. /\ sent[o].kind \in {"none", "retry"} /\ sent[o].n = attempt[o]
      /\ attempt[o] \in 0..MaxRetries
  BY <1>3, LastEvent
<1>5. /\ attempt[o] + 1 \in 1..MaxRetries + 1 /\ attempt[o] + 1 \in 0..MaxRetries + 1
      /\ attempt[o] \in 0..MaxRetries + 1
  BY <1>4, BoundsAssumption
<1>6. o \notin waiting \cup llm.todo \cup recovering \cup Running \cup sup.todo
  BY <1>1, <1>2, <1>3 DEF Place, Running
<1>7. o # sup.cur
  BY <1>1, <1>6, ObjsAssumption DEF IInv, Threads
<1>8. \A k \in 0..MaxRetries + 1 : <<o, k>> \notin held /\ <<o, k>> \notin kept
  BY <1>2, <1>3, <1>6 DEF Place, Lease
<1>9. \A d \in ToSet(sub.out) : d.obj # o
  BY <1>3, Due
<1>10. \A d \in ToSet(sup.out) : d.obj # o
  BY <1>4, Due, LastEvent
<1>11. QED
  BY <1>1, <1>3, <1>4, <1>5, <1>6, <1>7, <1>8, <1>9, <1>10 DEF InQueue

\* The head that the thread goes on with is queued.
LEMMA HeadInHand ==
    ASSUME IInv, NEW o \in Objs, sub.head = o
    PROVE  InQueue(o) /\ sub.next \in Classes
<1>1. o # NoObj /\ o \in Queued /\ sub.next = ClassOf[o] /\ ClassOf[o] \in Classes
  BY ObjsAssumption DEF IInv, Threads
<1>2. QED
  BY <1>1, QueuedOne

\* The head is handled, without an event or with one about it.
LEMMA HandledQuietly ==
    ASSUME TypeOK, sub.next \in Classes, Handled(<<>>)
    PROVE  /\ sub' \in Subs /\ sub'.head = NoObj /\ sub'.next = sub.next + 1
           /\ sub'.park = sub.park /\ sub'.out = sub.out
<1>1. sub \in Subs
  BY DEF TypeOK, Subs
<1>2. sub.out \o <<>> = sub.out
  BY <1>1 DEF Subs
<1>3. sub.next + 1 \in 1..4
  BY DEF Classes
<1>4. sub' = [sub EXCEPT !.head = NoObj, !.next = @ + 1, !.out = sub.out]
  BY <1>2 DEF Handled
<1>5. QED
  BY <1>1, <1>3, <1>4 DEF Subs

LEMMA HandledWith ==
    ASSUME IInv, sub.next \in Classes, NEW e \in Events, InQueue(e.obj), Handled(<<e>>)
    PROVE  /\ sub' \in Subs /\ sub'.head = NoObj /\ sub'.next = sub.next + 1
           /\ sub'.park = sub.park /\ OneEach(sub'.out)
           /\ ToSet(sub'.out) = ToSet(sub.out) \cup {e}
<1>1. sub \in Subs /\ sub.out \in Seq(Events) /\ OneEach(sub.out)
  BY DEF IInv, TypeOK, Subs, Outboxes
<1>2. /\ sub.out \o <<e>> \in Seq(Events) /\ OneEach(sub.out \o <<e>>)
      /\ ToSet(sub.out \o <<e>>) = ToSet(sub.out) \cup {e}
  BY <1>1, MoreOut DEF InQueue
<1>3. sub.next + 1 \in 1..4
  BY DEF Classes
<1>4. PICK out : out = sub.out \o <<e>>
  OBVIOUS
<1>5. sub' = [sub EXCEPT !.head = NoObj, !.next = @ + 1, !.out = out]
  BY <1>4 DEF Handled
<1>6. /\ sub' \in Subs /\ sub'.head = NoObj /\ sub'.next = sub.next + 1
      /\ sub'.park = sub.park /\ sub'.out = out
  BY <1>1, <1>2, <1>3, <1>4, <1>5 DEF Subs
<1>7. QED
  BY <1>2, <1>4, <1>6

\* The head is dispatched.
LEMMA SubDispatchStep ==
    ASSUME IInv, NEW o \in Objs, SubDispatch(o)
    PROVE  IInv'
<1> USE DEF IInv
<1>k. PICK k : k = attempt[o] + 1
  OBVIOUS
<1>e. PICK e : e = Event("start", o, k)
  OBVIOUS
<1>1. /\ queue' = Without(o) /\ tracked' = tracked \cup {o} /\ held' = held \cup {<<o, k>>}
      /\ attempt' = [attempt EXCEPT ![o] = k] /\ status' = [status EXCEPT ![o] = "running"]
      /\ published' = published \ {o}
      /\ backoff' = backoff /\ waiting' = waiting /\ deployed' = deployed /\ llm' = llm
      /\ stopped' = stopped /\ recovering' = recovering /\ sup' = sup /\ sent' = sent
      /\ closed' = closed /\ kept' = kept
      /\ Handled(<<e>>) /\ sub.head = o /\ ~sub.park /\ WorkflowOf[o] \notin stopped
      /\ \A p \in tracked \ {o} : TaskOf[p] # TaskOf[o]
  BY <1>k, <1>e DEF SubDispatch, Routed, Duplicate
<1>2. InQueue(o) /\ sub.next \in Classes
  BY <1>1, HeadInHand
<1>3. /\ attempt'[o] = k /\ status'[o] = "running"
      /\ \A p \in Objs \ {o} : attempt'[p] = attempt[p] /\ status'[p] = status[p]
  BY <1>1 DEF TypeOK
<1>4. queue' \in [Classes -> Seq(Objs)] /\ QueuesApart' /\ Queued' = Queued \ {o}
  BY <1>1, <1>2, Dequeued DEF InQueue
<1>5. e \in Events /\ e.kind = "start" /\ e.obj = o /\ e.attempt = k
  BY <1>2, <1>k, <1>e DEF Event, Events, InQueue
<1>6. /\ sub' \in Subs /\ sub'.head = NoObj /\ sub'.park = sub.park /\ OneEach(sub'.out)
      /\ ToSet(sub'.out) = ToSet(sub.out) \cup {e}
  BY <1>1, <1>2, <1>5, HandledWith
<1>7. \A p \in Objs \ {o} : Unmoved(p) /\ SameLease(p)
  BY <1>1, <1>3, <1>4 DEF Unmoved, SameLease
<1>8. TypeOK'
  BY <1>1, <1>2, <1>4, <1>6, <1>k DEF TypeOK, InQueue, Subs
<1>9. OneHolder'
  BY <1>1, <1>6 DEF OneHolder, SupHolds
<1>10. Threads'
  BY <1>1, <1>2, <1>3, <1>6 DEF Threads, Begun, Running, InQueue, TypeOK
<1>11. Places'
  <2>1. Place(o)'
    BY <1>1, <1>2, <1>3, <1>4 DEF Place, Running, InQueue
  <2>2. QED
    BY <1>7, <2>1, PlacesStay
<1>12. Leases'
  <2>1. Lease(o)'
    BY <1>1, <1>2, <1>3 DEF Lease, Running, InQueue
  <2>2. QED
    BY <1>7, <2>1, LeasesStay
<1>13. NoTwins'
  BY <1>1 DEF NoTwins
<1>14. Outboxes'
  <2>1. Announced(e)'
    BY <1>1, <1>2, <1>3, <1>5, <1>k DEF Announced, InQueue
  <2>2. QED
    BY <1>1, <1>2, <1>6, <1>7, <2>1, OutboxesStay DEF InQueue, Outboxes
<1>15. ClosedForGood'
  BY <1>1 DEF ClosedForGood
<1>16. QED
  BY <1>4, <1>8, <1>9, <1>10, <1>11, <1>12, <1>13, <1>14, <1>15

\* A task is removed from its queue and dropped.
LEMMA DropStep ==
    ASSUME IInv, NEW o \in Queued, Drop(o), sub' \in Subs, sub'.head = NoObj, ~sub'.park,
           sub'.out = sub.out,
           UNCHANGED <<attempt, backoff, published, waiting, deployed, llm, tracked, stopped,
                       held, recovering, sup, sent, closed, kept>>
    PROVE  IInv'
<1> USE DEF IInv
<1>1. InQueue(o)
  BY QueuedOne
<1>2. /\ status' = [status EXCEPT ![o] = "gone"] /\ status'[o] = "gone"
      /\ \A p \in Objs \ {o} : status'[p] = status[p]
  BY <1>1 DEF Drop, TypeOK, InQueue
<1>3. queue' \in [Classes -> Seq(Objs)] /\ QueuesApart' /\ Queued' = Queued \ {o}
  BY Dequeued DEF Drop
<1>4. \A p \in Objs \ {o} : Unmoved(p) /\ SameLease(p)
  BY <1>2, <1>3 DEF Unmoved, SameLease
<1>5. TypeOK'
  BY <1>1, <1>2, <1>3 DEF TypeOK, InQueue, Subs
<1>6. OneHolder'
  BY DEF OneHolder, SupHolds
<1>7. Threads'
  BY <1>1, <1>2 DEF Threads, Begun, Running, InQueue, TypeOK
<1>8. Places'
  <2>1. Place(o)'
    BY <1>1, <1>2, <1>3 DEF Place, Running, InQueue
  <2>2. QED
    BY <1>4, <2>1, PlacesStay
<1>9. Leases'
  <2>1. Lease(o)'
    BY <1>1, <1>2 DEF Lease, Running, InQueue
  <2>2. QED
    BY <1>4, <2>1, LeasesStay
<1>10. NoTwins' /\ ClosedForGood'
  BY DEF NoTwins, ClosedForGood
<1>11. Outboxes'
  BY <1>1, <1>4, OutboxesStay DEF InQueue, Outboxes
<1>12. QED
  BY <1>3, <1>5, <1>6, <1>7, <1>8, <1>9, <1>10, <1>11

LEMMA SubDropStoppedStep ==
    ASSUME IInv, NEW o \in Objs, SubDropStopped(o)
    PROVE  IInv'
<1>1. sub.head = o /\ ~sub.park /\ Drop(o) /\ Handled(<<>>)
  BY DEF SubDropStopped, LockFree
<1>2. InQueue(o) /\ sub.next \in Classes
  BY <1>1, HeadInHand
<1>3. QED
  BY <1>1, <1>2, HandledQuietly, DropStep DEF SubDropStopped, InQueue, IInv

LEMMA SubDropDuplicateStep ==
    ASSUME IInv, NEW o \in Objs, SubDropDuplicate(o)
    PROVE  IInv'
<1>1. sub.head = o /\ ~sub.park /\ Drop(o) /\ Handled(<<>>)
  BY DEF SubDropDuplicate, Routed
<1>2. InQueue(o) /\ sub.next \in Classes
  BY <1>1, HeadInHand
<1>3. QED
  BY <1>1, <1>2, HandledQuietly, DropStep DEF SubDropDuplicate, InQueue, IInv

\* Without the lock: a head of a stopped workflow is dropped, another is taken
\* in hand, or the queue is skipped.
LEMMA SubPeekStep ==
    ASSUME IInv, SubPeek
    PROVE  IInv'
<1> DEFINE q == queue[sub.next]
<1>1. /\ sub.next \in Classes /\ sub.head = NoObj /\ ~sub.park /\ sub \in Subs
      /\ sub.next \in 1..4 /\ sub.next + 1 \in 1..4
      /\ q \in Seq(Objs) /\ \A o \in ToSet(q) : ClassOf[o] = sub.next /\ o \in Objs /\ o \in Queued
  BY QueuedAt DEF SubPeek, IInv, Threads, TypeOK, Subs, Classes, QueuesApart, Queued
<1>2. q # <<>> => Head(q) \in ToSet(q)
  BY <1>1 DEF ToSet
<1>3. CASE q # <<>> /\ Drop(Head(q)) /\ sub' = [sub EXCEPT !.next = @ + 1]
  <2>1. Head(q) \in Queued
    BY <1>1, <1>2, <1>3
  <2>2. sub' \in Subs /\ sub'.head = NoObj /\ ~sub'.park /\ sub'.out = sub.out
    BY <1>1, <1>3 DEF Subs
  <2>3. QED
    BY <1>3, <2>1, <2>2, DropStep DEF SubPeek
<1>4. CASE /\ \/ sub' = [sub EXCEPT !.next = @ + 1]
              \/ q # <<>> /\ sub' = [sub EXCEPT !.head = Head(q)]
           /\ UNCHANGED <<queue, status>>
  <2>1. /\ sub' \in Subs /\ ~sub'.park /\ sub'.out = sub.out
        /\ sub'.head # NoObj => /\ sub'.next = ClassOf[sub'.head] /\ sub'.head \in Queued
    BY <1>1, <1>2, <1>4 DEF Subs
  <2>2. UNCHANGED <<status, attempt, backoff, published, queue, waiting, deployed, llm, tracked,
                    stopped, held, recovering, sup, sent, closed, kept>>
    BY <1>4 DEF SubPeek
  <2>3. OneHolder' /\ Threads'
    BY <1>1, <2>1, <2>2 DEF IInv, OneHolder, SupHolds, Threads, Begun, Running, Queued
  <2>4. QED
    BY <2>1, <2>2, <2>3, NothingMoves DEF IInv, TypeOK, Sups, Llms, ClosedForGood
<1>5. QED
  BY <1>3, <1>4 DEF SubPeek

\* No route to the model: the head is pending, and the lock is kept.
LEMMA SubRouteMissStep ==
    ASSUME IInv, NEW o \in Objs, SubRouteMiss(o)
    PROVE  IInv'
<1> USE DEF IInv
<1>1. /\ status' = [status EXCEPT ![o] = "pending"] /\ sub' = [sub EXCEPT !.park = TRUE]
      /\ sub.head = o /\ sup.phase \in {"idle", "flush"} /\ llm.phase # "fail"
      /\ attempt' = attempt /\ backoff' = backoff /\ published' = published /\ queue' = queue
      /\ waiting' = waiting /\ deployed' = deployed /\ llm' = llm /\ tracked' = tracked
      /\ stopped' = stopped /\ held' = held /\ recovering' = recovering /\ sup' = sup
      /\ sent' = sent /\ closed' = closed /\ kept' = kept
  BY DEF SubRouteMiss, LockFree
<1>2. InQueue(o) /\ o # NoObj
  BY <1>1, HeadInHand, ObjsAssumption
<1>3. /\ status'[o] = "pending" /\ \A p \in Objs \ {o} : status'[p] = status[p]
      /\ sub' \in Subs /\ sub'.head = o /\ sub'.park /\ sub'.out = sub.out /\ sub'.next = sub.next
      /\ Queued' = Queued
  <2>1. status'[o] = "pending" /\ \A p \in Objs \ {o} : status'[p] = status[p]
    BY <1>1 DEF TypeOK
  <2>2. sub \in Subs
    BY DEF TypeOK, Subs
  <2>3. /\ sub' \in Subs /\ sub'.head = o /\ sub'.park
        /\ sub'.out = sub.out /\ sub'.next = sub.next
    BY <1>1, <2>2 DEF Subs
  <2>4. Queued' = Queued
    BY <1>1 DEF Queued
  <2>5. QED
    BY <2>1, <2>3, <2>4
<1>4. \A p \in Objs \ {o} : Unmoved(p) /\ SameLease(p)
  BY <1>1, <1>3 DEF Unmoved, SameLease
<1>5. TypeOK'
  BY <1>1, <1>3 DEF TypeOK, Subs
<1>6. OneHolder' /\ QueuesApart' /\ NoTwins' /\ ClosedForGood'
  BY <1>1 DEF OneHolder, SupHolds, QueuesApart, NoTwins, ClosedForGood
<1>7. Threads'
  BY <1>1, <1>2, <1>3 DEF Threads, Begun, Running, InQueue, TypeOK
<1>8. Places'
  <2>1. Place(o)'
    BY <1>1, <1>2, <1>3 DEF Place, Running, InQueue, Between
  <2>2. QED
    BY <1>4, <2>1, PlacesStay
<1>9. Leases'
  <2>1. Lease(o)'
    BY <1>1, <1>2, <1>3 DEF Lease, Running, InQueue
  <2>2. QED
    BY <1>4, <2>1, LeasesStay
<1>10. Outboxes'
  BY <1>1, <1>2, <1>3, <1>4, OutboxesStay DEF InQueue, Outboxes
<1>11. QED
  BY <1>5, <1>6, <1>7, <1>8, <1>9, <1>10

\* No node: the head is pending and tracked.
LEMMA SubPendingStep ==
    ASSUME IInv, NEW o \in Objs, SubPending(o)
    PROVE  IInv'
<1> USE DEF IInv
<1>1. /\ status' = [status EXCEPT ![o] = "pending"] /\ tracked' = tracked \cup {o}
      /\ sub.head = o /\ ~sub.park /\ Handled(<<>>) /\ WorkflowOf[o] \notin stopped
      /\ \A p \in tracked \ {o} : TaskOf[p] # TaskOf[o]
      /\ attempt' = attempt /\ backoff' = backoff /\ published' = published /\ queue' = queue
      /\ waiting' = waiting /\ deployed' = deployed /\ llm' = llm
      /\ stopped' = stopped /\ held' = held /\ recovering' = recovering /\ sup' = sup
      /\ sent' = sent /\ closed' = closed /\ kept' = kept
  BY DEF SubPending, Routed, Duplicate
<1>2. InQueue(o) /\ sub.next \in Classes
  BY <1>1, HeadInHand
<1>3. /\ status'[o] = "pending" /\ \A p \in Objs \ {o} : status'[p] = status[p]
      /\ sub' \in Subs /\ sub'.head = NoObj /\ ~sub'.park /\ sub'.out = sub.out
      /\ Queued' = Queued
  BY <1>1, <1>2, HandledQuietly DEF TypeOK, Queued
<1>4. \A p \in Objs \ {o} : Unmoved(p) /\ SameLease(p)
  BY <1>1, <1>3 DEF Unmoved, SameLease
<1>5. TypeOK'
  BY <1>1, <1>3 DEF TypeOK, Subs
<1>6. OneHolder' /\ QueuesApart' /\ NoTwins' /\ ClosedForGood'
  BY <1>1, <1>3 DEF OneHolder, SupHolds, QueuesApart, NoTwins, ClosedForGood
<1>7. Threads'
  BY <1>1, <1>2, <1>3 DEF Threads, Begun, Running, InQueue, TypeOK
<1>8. Places'
  <2>1. Place(o)'
    BY <1>1, <1>2, <1>3 DEF Place, Running, InQueue, Between
  <2>2. QED
    BY <1>4, <2>1, PlacesStay
<1>9. Leases'
  <2>1. Lease(o)'
    BY <1>1, <1>2, <1>3 DEF Lease, Running, InQueue
  <2>2. QED
    BY <1>4, <2>1, LeasesStay
<1>10. Outboxes'
  BY <1>1, <1>2, <1>3, <1>4, OutboxesStay DEF InQueue, Outboxes
<1>11. QED
  BY <1>5, <1>6, <1>7, <1>8, <1>9, <1>10

\* The head waits for its model, or goes back to its queue.
LEMMA SubParkStep ==
    ASSUME IInv, NEW o \in Objs, SubPark(o)
    PROVE  IInv'
<1> USE DEF IInv
<1>1. /\ sub.head = o /\ sub.park /\ sub' = [sub EXCEPT !.head = NoObj, !.park = FALSE, !.next = @ + 1]
      /\ attempt' = attempt /\ backoff' = backoff /\ published' = published
      /\ deployed' = deployed /\ llm' = llm /\ tracked' = tracked
      /\ stopped' = stopped /\ held' = held /\ recovering' = recovering /\ sup' = sup
      /\ sent' = sent /\ closed' = closed /\ kept' = kept
  BY DEF SubPark
<1>2. InQueue(o) /\ sub.next \in Classes /\ status[o] = "pending"
  BY <1>1, HeadInHand DEF Threads
<1>3. /\ sub' \in Subs /\ sub'.head = NoObj /\ ~sub'.park /\ sub'.out = sub.out
      /\ status \in [Objs -> {"none", "ready", "pending", "running", "retrying",
                              "recovering", "finished", "gone"}]
  <2>1. sub.next + 1 \in 1..4
    BY <1>2 DEF Classes
  <2>2. QED
    BY <1>1, <2>1 DEF TypeOK, Subs
<1>4. /\ queue' \in [Classes -> Seq(Objs)] /\ QueuesApart' /\ status'[o] \in {"ready", "pending"}
      /\ status' = [status EXCEPT ![o] = status'[o]]
      /\ \/ Queued' = Queued /\ waiting' = waiting
         \/ /\ Queued' = Queued \ {o} /\ waiting' = waiting \cup {o} /\ status'[o] = "pending"
  <2>1. CASE deployed
    <3>1. PICK q \in Restored(Without(o)[ClassOf[o]], o) : queue' = [queue EXCEPT ![ClassOf[o]] = q]
      BY <2>1 DEF SubPark
    <3>2. queue' \in [Classes -> Seq(Objs)] /\ QueuesApart' /\ Queued' = Queued \cup {o}
      <4>1. PICK r : r = Without(o)[ClassOf[o]]
        OBVIOUS
      <4>2. r \in Seq(Objs) /\ IsInjective(r) /\ ToSet(r) = ToSet(queue[ClassOf[o]]) \ {o}
        BY <1>2, <4>1, WithoutOne DEF InQueue
      <4>3. q \in Restored(r, o)
        BY <4>1
      <4>4. QED
        BY <3>1, <4>2, <4>3, RestoredOne
    <3>3. status' = [status EXCEPT ![o] = "ready"] /\ waiting' = waiting
      BY <2>1 DEF SubPark
    <3>4. status'[o] = "ready"
      BY <1>3, <3>3
    <3>5. QED
      BY <1>2, <3>2, <3>3, <3>4 DEF InQueue
  <2>2. CASE ~deployed
    <3>1. queue' = Without(o) /\ status' = status /\ waiting' = waiting \cup {o}
      BY <2>2 DEF SubPark
    <3>2. queue' \in [Classes -> Seq(Objs)] /\ QueuesApart' /\ Queued' = Queued \ {o}
      BY <1>2, <3>1, Dequeued DEF InQueue
    <3>3. QED
      BY <1>2, <1>3, <3>1, <3>2
  <2>3. QED
    BY <2>1, <2>2
<1>5. \A p \in Objs \ {o} : status'[p] = status[p]
  BY <1>3, <1>4
<1>6. \A p \in Objs \ {o} : Unmoved(p) /\ SameLease(p)
  BY <1>1, <1>4, <1>5 DEF Unmoved, SameLease
<1>7. TypeOK'
  <2>1. status' \in [Objs -> {"none", "ready", "pending", "running", "retrying",
                              "recovering", "finished", "gone"}]
    BY <1>3, <1>4
  <2>2. waiting' \subseteq Objs
    BY <1>4 DEF TypeOK
  <2>3. QED
    BY <1>1, <1>3, <1>4, <2>1, <2>2 DEF TypeOK, Subs
<1>8. OneHolder' /\ NoTwins' /\ ClosedForGood'
  BY <1>1, <1>3 DEF OneHolder, SupHolds, NoTwins, ClosedForGood
<1>9. Threads'
  BY <1>1, <1>2, <1>3, <1>5 DEF Threads, Begun, Running, InQueue, TypeOK
<1>10. Places'
  <2>1. Place(o)'
    BY <1>1, <1>2, <1>4 DEF Place, Running, InQueue, Between
  <2>2. QED
    BY <1>6, <2>1, PlacesStay
<1>11. Leases'
  <2>1. Lease(o)'
    BY <1>1, <1>2, <1>4 DEF Lease, Running, InQueue
  <2>2. QED
    BY <1>6, <2>1, LeasesStay
<1>12. Outboxes'
  BY <1>1, <1>2, <1>3, <1>6, OutboxesStay DEF InQueue, Outboxes
<1>13. QED
  BY <1>4, <1>7, <1>8, <1>9, <1>10, <1>11, <1>12

\* The head is dropped, its workflow fails, and the Core will hear of it.
LEMMA HeadFails ==
    ASSUME IInv, NEW o \in Objs, sub.head = o, ~sub.park, sup.phase \in {"idle", "flush"},
           NEW k \in {attempt[o], attempt[o] + 1}, attempt' = [attempt EXCEPT ![o] = k],
           Drop(o), Close(WorkflowOf[o], held), Handled(<<Event("exception", o, k)>>),
           UNCHANGED <<backoff, published, deployed, llm, recovering, sup, sent, kept>>
    PROVE  IInv'
<1> USE DEF IInv
<1>e. PICK e : e = Event("exception", o, k)
  OBVIOUS
<1>w. PICK w : w = WorkflowOf[o] /\ w \in Workflows
  BY ObjsAssumption
<1>1. InQueue(o) /\ sub.next \in Classes
  BY HeadInHand
<1>2. /\ status' = [status EXCEPT ![o] = "gone"] /\ status'[o] = "gone" /\ attempt'[o] = k
      /\ \A p \in Objs \ {o} : status'[p] = status[p] /\ attempt'[p] = attempt[p]
  BY <1>1 DEF Drop, TypeOK, InQueue
<1>3. queue' \in [Classes -> Seq(Objs)] /\ QueuesApart' /\ Queued' = Queued \ {o}
  BY <1>1, Dequeued DEF Drop, InQueue
<1>4. e \in Events /\ e.kind = "exception" /\ e.obj = o /\ e.attempt = k
  BY <1>1, <1>e DEF Event, Events, InQueue
<1>5. /\ sub' \in Subs /\ sub'.head = NoObj /\ sub'.park = sub.park /\ OneEach(sub'.out)
      /\ ToSet(sub'.out) = ToSet(sub.out) \cup {e}
  BY <1>1, <1>e, <1>4, HandledWith
<1>6. /\ Close(w, held) /\ waiting' \subseteq waiting /\ tracked' \subseteq tracked
      /\ held' \subseteq held /\ stopped' = stopped \cup {w} /\ closed' = closed \cup {w}
      /\ tracked' = tracked \ InWorkflow(w) /\ sup.cur = NoObj
  BY <1>w DEF Close, Threads
<1>7. \A p \in Objs \ {o} : Unmoved(p)
  BY <1>2, <1>3, <1>6 DEF Unmoved
<1>8. TypeOK'
  BY <1>1, <1>2, <1>3, <1>5, <1>6, <1>w DEF TypeOK, InQueue, Subs
<1>9. OneHolder' /\ NoTwins'
  BY <1>5, <1>6 DEF OneHolder, SupHolds, NoTwins
<1>10. Threads'
  BY <1>1, <1>2, <1>5, <1>6 DEF Threads
<1>11. Places'
  <2>1. Place(o)'
    BY <1>1, <1>2, <1>3, <1>6 DEF Place, Running, InQueue
  <2>2. QED
    BY <1>7, <2>1, PlacesStay
<1>12. Leases'
  <2>1. Lease(o)'
    BY <1>1, <1>2, <1>6 DEF Lease, Running, InQueue
  <2>2. QED
    BY <1>2, <1>6, <1>w, <2>1, LeasesClosed
<1>13. ClosedForGood'
  BY <1>6 DEF ClosedForGood, InWorkflow, TypeOK
<1>14. Outboxes'
  <2>1. Announced(e)'
    BY <1>1, <1>2, <1>4 DEF Announced, InQueue
  <2>2. QED
    BY <1>1, <1>5, <1>7, <2>1, OutboxesStay DEF InQueue, Outboxes
<1>15. QED
  BY <1>3, <1>8, <1>9, <1>10, <1>11, <1>12, <1>13, <1>14

LEMMA SubRejectStep ==
    ASSUME IInv, NEW o \in Objs, SubReject(o)
    PROVE  IInv'
<1>1. /\ sub.head = o /\ ~sub.park /\ sup.phase \in {"idle", "flush"} /\ attempt' = attempt
      /\ attempt \in [Objs -> 0..MaxRetries + 1]
  BY DEF SubReject, LockFree, IInv, TypeOK
<1>2. attempt' = [attempt EXCEPT ![o] = attempt[o]]
  BY <1>1
<1>3. QED
  BY <1>1, <1>2, HeadFails DEF SubReject

LEMMA SubLaunchFailsStep ==
    ASSUME IInv, NEW o \in Objs, SubLaunchFails(o)
    PROVE  IInv'
<1>1. sub.head = o /\ ~sub.park /\ sup.phase \in {"idle", "flush"}
  BY DEF SubLaunchFails, Routed, LockFree
<1>2. QED
  BY <1>1, HeadFails DEF SubLaunchFails

\* The first of the events due is sent; a start_task is then published.
LEMMA SubFlushStep ==
    ASSUME IInv, SubFlush
    PROVE  IInv'
<1> USE DEF IInv
<1>1. /\ sub.next = 4 /\ sub \in Subs /\ sub.out \in Seq(Events) /\ sub.head = NoObj /\ ~sub.park
      /\ status' = status /\ attempt' = attempt /\ backoff' = backoff /\ queue' = queue
      /\ waiting' = waiting /\ deployed' = deployed /\ llm' = llm /\ tracked' = tracked
      /\ stopped' = stopped /\ held' = held /\ recovering' = recovering /\ sup' = sup
      /\ closed' = closed /\ kept' = kept
  <2>1. sub.head # NoObj => sub.next \in 1..3
    BY ObjsAssumption DEF Threads, TypeOK, Classes
  <2>2. QED
    BY <2>1 DEF SubFlush, TypeOK, Subs, Threads
<1>2. Queued' = Queued
  BY <1>1 DEF Queued
<1>3. CASE sub.out = <<>>
  <2>1. sub' = [sub EXCEPT !.next = 1] /\ published' = published /\ sent' = sent
    BY <1>3 DEF SubFlush
  <2>2. sub' \in Subs /\ sub'.out = sub.out /\ sub'.head = NoObj /\ ~sub'.park
    BY <1>1, <2>1 DEF Subs
  <2>3. OneHolder' /\ Threads'
    BY <1>1, <1>2, <2>1, <2>2 DEF OneHolder, SupHolds, Threads, Begun, Running
  <2>4. QED
    BY <1>1, <2>1, <2>2, <2>3, NothingMoves DEF TypeOK, Sups, Llms, ClosedForGood
<1>4. CASE sub.out # <<>>
  <2>1. PICK e : e = Head(sub.out)
    OBVIOUS
  <2>2. PICK o : o = e.obj
    OBVIOUS
  <2>3. PICK out : out = Tail(sub.out)
    OBVIOUS
  <2>4. /\ e \in ToSet(sub.out) /\ e \in Events /\ OneEach(out) /\ out \in Seq(Events)
        /\ ToSet(out) \subseteq ToSet(sub.out) /\ \A d \in ToSet(out) : d.obj # o
    BY <1>1, <1>4, <2>1, <2>2, <2>3, FirstOut DEF Outboxes
  <2>5. /\ sub' = [sub EXCEPT !.out = out] /\ sup.phase \in {"idle", "flush"}
        /\ sent' = [sent EXCEPT ![o] = Sent(e.kind, e.attempt, TRUE)]
        /\ published' = IF e.kind = "start" THEN published \cup {o} ELSE published
    BY <1>4, <2>1, <2>2, <2>3 DEF SubFlush, LockFree
  <2>6. sub' \in Subs /\ sub'.out = out /\ sub'.head = NoObj /\ ~sub'.park
    BY <1>1, <2>4, <2>5 DEF Subs
  <2>7. /\ o \in Objs /\ e.attempt \in 0..MaxRetries + 1 /\ e.kind \in {"start", "exception"}
        /\ Announced(e) /\ status[o] \in {"running", "gone"} /\ sent[o].kind \in {"none", "retry"}
        /\ \A d \in ToSet(sup.out) : d.obj # o
    BY <2>2, <2>4, Due, LastEvent DEF Outboxes, Announced, Events
  <2>8. /\ sent'[o] = Sent(e.kind, e.attempt, TRUE)
        /\ \A p \in Objs \ {o} : sent'[p] = sent[p]
    BY <2>5, <2>7 DEF TypeOK
  <2>9. \A p \in Objs \ {o} : Unmoved(p)
    BY <1>1, <1>2, <2>5, <2>8 DEF Unmoved
  <2>10. TypeOK'
    BY <1>1, <2>5, <2>6, <2>7 DEF TypeOK, Subs, Sent
  <2>11. OneHolder' /\ NoTwins' /\ ClosedForGood' /\ QueuesApart'
    BY <1>1, <2>6 DEF OneHolder, SupHolds, NoTwins, ClosedForGood, QueuesApart
  <2>12. Threads'
    BY <1>1, <2>5, <2>6 DEF Threads
  <2>13. Places'
    <3>1. Place(o) /\ o \notin Queued /\ o \notin sup.todo /\ o \notin recovering /\ o \notin waiting \cup llm.todo
      <4>1. Place(o)
        BY <2>7 DEF Places
      <4>2. QED
        BY <2>7, <4>1, LastEvent DEF Place
    <3>2. o \in Running => Begun(o)'
      <4>1. SUFFICES ASSUME status[o] = "running" PROVE Begun(o)'
        BY DEF Running
      <4>2. e.kind = "start" /\ e.attempt = attempt[o] /\ attempt[o] = sent[o].n + 1
        BY <2>2, <2>7, <4>1 DEF Announced
      <4>3. sent[o].n \in Nat /\ attempt[o] \in 0..MaxRetries + 1
        BY <2>7 DEF TypeOK
      <4>4. attempt[o] \in 1..MaxRetries + 1
        BY <4>2, <4>3, BoundsAssumption
      <4>5. QED
        BY <1>1, <2>8, <4>2, <4>4 DEF Begun
    <3>3. Place(o)'
      BY <1>1, <1>2, <2>7, <3>1, <3>2 DEF Place, Running
    <3>4. QED
      BY <2>9, <3>3, PlacesStay
  <2>14. Leases'
    BY <1>1 DEF Leases, Lease, Running
  <2>15. Outboxes'
    BY <1>1, <2>4, <2>6, <2>7, <2>9, OutboxesStay DEF Outboxes
  <2>16. QED
    BY <2>10, <2>11, <2>12, <2>13, <2>14, <2>15
<1>5. QED
  BY <1>3, <1>4

-------------------------------------------------------------------------------
(* The steps of the receive thread. *)

\* A task without a message has no place yet.
LEMMA NoPlaceYet ==
    ASSUME IInv, NEW o \in Objs, status[o] = "none"
    PROVE  /\ o \notin Queued \cup waiting \cup llm.todo \cup recovering \cup tracked \cup sup.todo
           /\ Between(o) /\ attempt[o] = 0 /\ sent[o].kind = "none" /\ sent[o].n = 0
           /\ o \notin Running /\ o # sup.cur /\ o # sub.head
           /\ \A k \in 0..MaxRetries + 1 : <<o, k>> \notin held /\ <<o, k>> \notin kept
           /\ \A d \in ToSet(sub.out) \cup ToSet(sup.out) : d.obj # o
<1>1. Place(o) /\ Lease(o)
  BY DEF IInv, Places, Leases
<1>2. /\ o \notin Queued \cup waiting \cup llm.todo \cup recovering \cup tracked \cup sup.todo
      /\ Between(o) /\ attempt[o] = 0 /\ o \notin Running
  BY <1>1 DEF Place, Running
<1>3. sent[o].kind = "none" /\ sent[o].n = 0
  BY <1>2 DEF Between, Sent
<1>4. o # sup.cur /\ o # sub.head
  BY <1>2, ObjsAssumption DEF IInv, Threads
<1>5. \A k \in 0..MaxRetries + 1 : <<o, k>> \notin held /\ <<o, k>> \notin kept
  BY <1>1, <1>2 DEF Place, Lease
<1>6. \A d \in ToSet(sub.out) \cup ToSet(sup.out) : d.obj # o
  BY Due
<1>7. QED
  BY <1>2, <1>3, <1>4, <1>5, <1>6

\* A task is queued, or dropped because its workflow is stopped.
LEMMA RunTaskStep ==
    ASSUME IInv, NEW o \in Objs, RunTask(o)
    PROVE  IInv'
<1> USE DEF IInv
<1>1. /\ status[o] = "none"
      /\ attempt' = attempt /\ backoff' = backoff /\ published' = published
      /\ waiting' = waiting /\ deployed' = deployed /\ llm' = llm /\ tracked' = tracked
      /\ stopped' = stopped /\ held' = held /\ recovering' = recovering /\ sub' = sub /\ sup' = sup
      /\ sent' = sent /\ closed' = closed /\ kept' = kept
  BY DEF RunTask
<1>2. PICK s \in {"ready", "gone"} :
         /\ status' = [status EXCEPT ![o] = s]
         /\ \/ s = "gone" /\ queue' = queue
            \/ s = "ready" /\ queue' = [queue EXCEPT ![ClassOf[o]] = Append(@, o)]
  BY DEF RunTask
<1>3. status'[o] = s /\ \A p \in Objs \ {o} : status'[p] = status[p]
  BY <1>2 DEF TypeOK
<1>4. /\ queue' \in [Classes -> Seq(Objs)] /\ QueuesApart'
      /\ Queued' = IF s = "ready" THEN Queued \cup {o} ELSE Queued
  <2>1. CASE s = "gone"
    BY <1>2, <2>1 DEF TypeOK, QueuesApart, Queued
  <2>2. CASE s = "ready"
    BY <1>1, <1>2, <2>2, NoPlaceYet, Appended
  <2>3. QED
    BY <2>1, <2>2
<1>5. \A p \in Objs \ {o} : Unmoved(p) /\ SameLease(p)
  BY <1>1, <1>2, <1>3, <1>4 DEF Unmoved, SameLease
<1>6. TypeOK'
  BY <1>1, <1>2, <1>4 DEF TypeOK
<1>7. OneHolder' /\ NoTwins' /\ ClosedForGood'
  BY <1>1 DEF OneHolder, SupHolds, NoTwins, ClosedForGood
<1>8. Threads'
  <2>1. /\ sub.head # NoObj => sub.head \in Objs \ {o}
        /\ sup.cur # NoObj => sup.cur \in Objs \ {o}
    BY <1>1, NoPlaceYet DEF TypeOK
  <2>2. QED
    BY <1>1, <1>3, <1>4, <2>1 DEF Threads, Begun, Running
<1>9. Places'
  <2>1. Place(o)'
    BY <1>1, <1>2, <1>3, <1>4, NoPlaceYet DEF Place, Running, Between
  <2>2. QED
    BY <1>5, <2>1, PlacesStay
<1>10. Leases'
  <2>1. Lease(o)'
    BY <1>1, <1>2, <1>3, NoPlaceYet DEF Lease, Running
  <2>2. QED
    BY <1>5, <2>1, LeasesStay
<1>11. Outboxes'
  BY <1>1, <1>5, NoPlaceYet, OutboxesStay DEF Outboxes
<1>12. QED
  BY <1>4, <1>6, <1>7, <1>8, <1>9, <1>10, <1>11

\* The message makes no task: the workflow fails.
LEMMA RejectTaskStep ==
    ASSUME IInv, NEW o \in Objs, RejectTask(o)
    PROVE  IInv'
<1> USE DEF IInv
<1>w. PICK w : w = WorkflowOf[o] /\ w \in Workflows
  BY ObjsAssumption
<1>1. /\ status[o] = "none" /\ status' = [status EXCEPT ![o] = "gone"]
      /\ sent' = [sent EXCEPT ![o] = Sent("exception", 0, TRUE)]
      /\ attempt' = attempt /\ backoff' = backoff /\ published' = published /\ queue' = queue
      /\ deployed' = deployed /\ llm' = llm
      /\ recovering' = recovering /\ sub' = sub /\ sup' = sup /\ kept' = kept
      /\ sup.phase \in {"idle", "flush"}
  BY DEF RejectTask, LockFree
<1>2. /\ Close(w, held) /\ waiting' \subseteq waiting /\ tracked' \subseteq tracked
      /\ held' \subseteq held /\ stopped' = stopped \cup {w} /\ closed' = closed \cup {w}
      /\ tracked' = tracked \ InWorkflow(w) /\ sup.cur = NoObj
  BY <1>1, <1>w DEF RejectTask, Close, Threads
<1>3. /\ status'[o] = "gone" /\ \A p \in Objs \ {o} : status'[p] = status[p] /\ sent'[p] = sent[p]
      /\ Queued' = Queued
  BY <1>1 DEF TypeOK, Queued
<1>4. \A p \in Objs \ {o} : Unmoved(p)
  BY <1>1, <1>2, <1>3 DEF Unmoved
<1>5. TypeOK'
  BY <1>1, <1>2, <1>w, BoundsAssumption DEF TypeOK, Sent
<1>6. OneHolder' /\ NoTwins' /\ QueuesApart'
  BY <1>1, <1>2 DEF OneHolder, SupHolds, NoTwins, QueuesApart
<1>7. Threads'
  BY <1>1, <1>2, <1>3, NoPlaceYet, QueuedAt DEF Threads
<1>8. Places'
  <2>1. Place(o)'
    BY <1>1, <1>2, <1>3, NoPlaceYet DEF Place, Running
  <2>2. QED
    BY <1>4, <2>1, PlacesStay
<1>9. Leases'
  <2>1. Lease(o)'
    BY <1>1, <1>2, <1>3, NoPlaceYet DEF Lease, Running
  <2>2. QED
    BY <1>1, <1>2, <1>3, <1>w, <2>1, LeasesClosed
<1>10. ClosedForGood'
  BY <1>2 DEF ClosedForGood, InWorkflow, TypeOK
<1>11. Outboxes'
  BY <1>1, <1>4, NoPlaceYet, OutboxesStay DEF Outboxes
<1>12. QED
  BY <1>5, <1>6, <1>7, <1>8, <1>9, <1>10, <1>11

\* A workflow ends, or is cleared when all its tasks have ended.
LEMMA WorkflowEnds ==
    ASSUME IInv, NEW w \in Workflows, StopWorkflow(w) \/ ClearWorkflow(w)
    PROVE  IInv'
<1> USE DEF IInv
<1>1. /\ status' = status /\ sent' = sent
      /\ attempt' = attempt /\ backoff' = backoff /\ published' = published /\ queue' = queue
      /\ deployed' = deployed /\ llm' = llm
      /\ recovering' = recovering /\ sub' = sub /\ sup' = sup /\ kept' = kept
      /\ sup.cur = NoObj
      /\ waiting' \subseteq waiting /\ tracked' \subseteq tracked
      /\ held' \subseteq held /\ stopped' = stopped \cup {w} /\ closed' = closed \cup {w}
      /\ tracked' = tracked \ InWorkflow(w)
  BY DEF StopWorkflow, ClearWorkflow, LockFree, Close, Threads
<1>2. Queued' = Queued
  BY <1>1 DEF Queued
<1>3. \A p : Unmoved(p)
  BY <1>1, <1>2 DEF Unmoved
<1>4. TypeOK'
  BY <1>1 DEF TypeOK
<1>5. OneHolder' /\ NoTwins' /\ QueuesApart'
  BY <1>1 DEF OneHolder, SupHolds, NoTwins, QueuesApart
<1>6. Threads'
  BY <1>1, <1>2 DEF Threads
<1>7. Places'
  BY <1>3, ObjsAssumption, PlacesStay
<1>8. Leases'
  <2>1. CASE StopWorkflow(w)
    BY <1>1, <2>1, ObjsAssumption, LeasesClosed DEF StopWorkflow
  <2>2. CASE ClearWorkflow(w)
    <3>1. held' = held /\ \A o \in InWorkflow(w) : status[o] \in {"finished", "gone"}
      BY <2>2 DEF ClearWorkflow
    <3>2. Running' = Running
      BY <1>1, <3>1 DEF Running
    <3>3. QED
      BY <1>1, <3>1, <3>2 DEF Leases, Lease
  <2>3. QED
    BY <2>1, <2>2
<1>9. ClosedForGood'
  BY <1>1 DEF ClosedForGood, InWorkflow, TypeOK
<1>10. Outboxes'
  <2>1. /\ \A d \in ToSet(sub'.out) : d \in ToSet(sub.out) /\ d.obj # NoObj
        /\ \A d \in ToSet(sup'.out) : d \in ToSet(sup.out) /\ d.obj # NoObj
    BY <1>1, Due, ObjsAssumption
  <2>2. OneEach(sub'.out) /\ OneEach(sup'.out)
    BY <1>1 DEF Outboxes
  <2>3. QED
    BY <1>3, <2>1, <2>2, OutboxesStay
<1>11. QED
  BY <1>4, <1>5, <1>6, <1>7, <1>8, <1>9, <1>10

-------------------------------------------------------------------------------
(* The steps of the supervisor. *)

\* What the supervisor adds to its outbox.
LEMMA SaysOne ==
    ASSUME IInv, NEW o \in Objs, NEW e, e \in Events, e.obj = o, NEW out, out = sup.out \o <<e>>,
           \A d \in ToSet(sup.out) : d.obj # o
    PROVE  out \in Seq(Events) /\ OneEach(out) /\ ToSet(out) = ToSet(sup.out) \cup {e}
<1>1. sup.out \in Seq(Events) /\ OneEach(sup.out)
  BY DEF IInv, TypeOK, Outboxes
<1>2. QED
  BY <1>1, MoreOut

\* What holds of a published task that runs and is on the list, or is being retried.
LEMMA OnList ==
    ASSUME IInv, NEW o \in Objs, o \in sup.todo \/ o = sup.cur
    PROVE  /\ status[o] = "running" /\ Begun(o) /\ attempt[o] \in 1..MaxRetries + 1
           /\ sup.phase \in {"timeouts", "results"} /\ sup.phase \in {"drain", "timeouts", "results"}
           /\ ~sub.park /\ llm.phase # "fail" /\ sent[o].kind = "start"
           /\ o \notin Queued \cup waiting \cup llm.todo \cup recovering /\ o # sub.head
           /\ \A k \in 0..MaxRetries + 1 : <<o, k>> \notin kept
           /\ o \in tracked => o \in Running
           /\ \A d \in ToSet(sub.out) \cup ToSet(sup.out) : d.obj # o
<1>1. status[o] = "running" /\ Begun(o)
  BY ObjsAssumption DEF IInv, Threads, Running, Places, Place
<1>2. sup.phase \in {"timeouts", "results"}
  BY ObjsAssumption DEF IInv, Threads
<1>3. ~sub.park /\ llm.phase # "fail"
  BY <1>2 DEF IInv, OneHolder, SupHolds
<1>4. o \notin Queued \cup waiting \cup llm.todo \cup recovering
  BY <1>1 DEF IInv, Places, Place
<1>5. o # sub.head
  BY <1>4, ObjsAssumption DEF IInv, Threads
<1>6. \A k \in 0..MaxRetries + 1 : <<o, k>> \notin kept
  BY <1>1 DEF IInv, Places, Place
<1>7. o \in tracked => o \in Running
  BY <1>1 DEF Running
<1>8. \A d \in ToSet(sup.out) : d.obj # o
  <2>1. CASE o \in sup.todo
    BY <2>1 DEF IInv, Outboxes, Reported
  <2>2. CASE o = sup.cur
    BY <2>2, Due, ObjsAssumption DEF IInv, Threads
  <2>3. QED
    BY <2>1, <2>2
<1>9. \A d \in ToSet(sub.out) : d.obj # o
  BY <1>1, Due, LastEvent
<1>10. QED
  BY <1>1, <1>2, <1>3, <1>4, <1>5, <1>6, <1>7, <1>8, <1>9, LastEvent

\* Steps of the supervisor that move no task: it takes or gives back the lock, makes
\* its lists, skips a task that was cancelled, or marks a workflow to retry.
LEMMA SupLockStep ==
    ASSUME IInv, SupBegin \/ SupRelease
    PROVE  IInv'
<1> USE DEF IInv
<1>1. /\ status' = status /\ sent' = sent /\ attempt' = attempt /\ backoff' = backoff
      /\ published' = published /\ queue' = queue /\ waiting' = waiting
      /\ deployed' = deployed /\ llm' = llm /\ tracked' = tracked /\ held' = held
      /\ recovering' = recovering /\ sub' = sub /\ closed' = closed /\ kept' = kept
      /\ stopped' = stopped
  BY DEF SupBegin, SupRelease
<1>2. sup \in Sups /\ Queued' = Queued
  BY <1>1 DEF TypeOK, Sups, Queued
<1>3. /\ sup' \in Sups /\ sup'.out = sup.out /\ sup'.todo = sup.todo /\ sup'.cur = sup.cur
      /\ sup'.phase \in {"drain", "flush"} /\ sup'.todo = {} /\ sup'.cur = NoObj
      /\ sup'.phase # "drain" \/ (~sub.park /\ llm.phase # "fail")
  BY <1>2 DEF SupBegin, SupRelease, Sups, LockFree, Threads
<1>4. OneHolder' /\ Threads'
  BY <1>1, <1>2, <1>3 DEF OneHolder, Threads, SupHolds
<1>5. QED
  BY <1>1, <1>3, <1>4, NothingMoves DEF TypeOK, Subs, Llms, ClosedForGood

LEMMA SupListStep ==
    ASSUME IInv, SupScan \/ SupCollect
    PROVE  IInv'
<1> USE DEF IInv
<1>1. /\ status' = status /\ sent' = sent /\ attempt' = attempt /\ backoff' = backoff
      /\ published' = published /\ queue' = queue /\ waiting' = waiting
      /\ deployed' = deployed /\ llm' = llm /\ tracked' = tracked /\ held' = held
      /\ recovering' = recovering /\ sub' = sub /\ closed' = closed /\ kept' = kept
      /\ stopped' = stopped
  BY DEF SupScan, SupCollect
<1>2. sup \in Sups /\ Queued' = Queued /\ Running \cap published \subseteq Objs
  BY <1>1 DEF TypeOK, Sups, Queued, Running
<1>3. /\ sup' \in Sups /\ sup'.out = sup.out /\ sup'.todo \subseteq Running \cap published
      /\ sup'.phase \in {"timeouts", "results"} /\ sup'.cur = NoObj /\ SupHolds
  BY <1>2 DEF SupScan, SupCollect, Sups, SupHolds, Threads
<1>4. OneHolder' /\ Threads'
  BY <1>1, <1>2, <1>3 DEF OneHolder, Threads, SupHolds
<1>5. QED
  BY <1>1, <1>3, <1>4, NothingMoves DEF TypeOK, Subs, Llms, ClosedForGood

LEMMA SupSkipOrMarkStep ==
    ASSUME IInv, NEW o \in Objs, SupSkip(o) \/ SupMark(o)
    PROVE  IInv'
<1> USE DEF IInv
<1>1. /\ status' = status /\ sent' = sent /\ attempt' = attempt /\ backoff' = backoff
      /\ published' = published /\ queue' = queue /\ waiting' = waiting
      /\ deployed' = deployed /\ llm' = llm /\ tracked' = tracked /\ held' = held
      /\ recovering' = recovering /\ sub' = sub /\ closed' = closed /\ kept' = kept
      /\ sup.phase = "results" /\ sup.cur = NoObj /\ o \in sup.todo
  BY DEF SupSkip, SupMark, Result
<1>2. sup \in Sups /\ Queued' = Queued /\ Running' = Running
  BY <1>1 DEF TypeOK, Sups, Queued, Running
<1>3. /\ sup' \in Sups /\ sup'.out = sup.out /\ sup'.todo = sup.todo \ {o} /\ sup'.phase = "results"
      /\ \/ sup'.cur = NoObj /\ stopped' = stopped
         \/ /\ sup'.cur = o /\ o \in Running /\ attempt[o] <= MaxRetries
            /\ stopped' = stopped \cup {WorkflowOf[o]}
  <2>1. CASE SupSkip(o)
    BY <1>1, <1>2, <2>1 DEF SupSkip, Sups
  <2>2. CASE SupMark(o)
    BY <1>1, <1>2, <2>2 DEF SupMark, Sups
  <2>3. QED
    BY <2>1, <2>2
<1>4. status[o] = "running" /\ Begun(o) /\ ~sub.park /\ llm.phase # "fail"
  BY <1>1, OnList
<1>5. OneHolder' /\ Threads'
  BY <1>1, <1>2, <1>3, <1>4 DEF OneHolder, Threads, Begun, SupHolds
<1>6. stopped' \subseteq Workflows /\ closed \subseteq stopped'
  BY <1>3, ObjsAssumption DEF TypeOK, ClosedForGood
<1>7. QED
  BY <1>1, <1>3, <1>5, <1>6, NothingMoves DEF TypeOK, Subs, Llms

\* An attempt on the list fails for good: its workflow ends.
LEMMA AttemptFails ==
    ASSUME IInv, NEW o \in Objs, SupTimeout(o) \/ SupFail(o) \/ SupRecoveryRefused(o)
    PROVE  IInv'
<1> USE DEF IInv
<1>w. PICK w : w = WorkflowOf[o] /\ w \in Workflows
  BY ObjsAssumption
<1>e. PICK e : e = Event("exception", o, attempt[o])
  OBVIOUS
<1>o. PICK out : out = sup.out \o <<e>>
  OBVIOUS
<1>1. /\ status' = status /\ attempt' = attempt /\ backoff' = backoff /\ published' = published
      /\ queue' = queue /\ deployed' = deployed /\ llm' = llm /\ recovering' = recovering
      /\ sub' = sub /\ sent' = sent /\ kept' = kept /\ Queued' = Queued
      /\ Close(w, held) /\ waiting' \subseteq waiting /\ tracked' = tracked \ InWorkflow(w)
      /\ stopped' = stopped \cup {w} /\ closed' = closed \cup {w} /\ held' \subseteq held
  BY <1>w DEF SupTimeout, SupFail, SupRecoveryRefused, Close, Queued
<1>2. o \in sup.todo \/ o = sup.cur
  BY DEF SupTimeout, SupFail, SupRecoveryRefused, Result
<1>3. e \in Events /\ e.obj = o /\ e.kind = "exception" /\ e.attempt = attempt[o]
  BY <1>e DEF Event, Events, TypeOK
<1>4. out \in Seq(Events) /\ OneEach(out) /\ ToSet(out) = ToSet(sup.out) \cup {e}
  <2>1. \A d \in ToSet(sup.out) : d.obj # o
    BY <1>2, OnList
  <2>2. QED
    BY <1>o, <1>3, <2>1, SaysOne
<1>5. /\ sup' \in Sups /\ sup'.out = out /\ sup'.todo = sup.todo \ {o} /\ sup'.cur = NoObj
      /\ sup'.phase = sup.phase
  <2>1. sup \in Sups /\ o # NoObj /\ (sup.cur # NoObj => sup.phase = "results" /\ sup.cur \notin sup.todo)
    BY ObjsAssumption DEF TypeOK, Sups, Threads
  <2>2. CASE sup' = [sup EXCEPT !.todo = @ \ {o}, !.out = out]
    BY <1>4, <2>1, <2>2 DEF Sups, SupTimeout, SupFail, SupRecoveryRefused, Result
  <2>3. CASE sup.cur = o /\ sup' = [sup EXCEPT !.cur = NoObj, !.out = out]
    BY <1>4, <2>1, <2>3 DEF Sups
  <2>4. QED
    BY <1>e, <1>o, <2>2, <2>3 DEF SupTimeout, SupFail, SupRecoveryRefused, Said
<1>6. \A p : Unmoved(p)
  BY <1>1, <1>5 DEF Unmoved
<1>7. TypeOK'
  BY <1>1, <1>5, <1>w DEF TypeOK, Sups
<1>8. OneHolder' /\ NoTwins' /\ QueuesApart'
  BY <1>1, <1>5 DEF OneHolder, SupHolds, NoTwins, QueuesApart
<1>9. Threads'
  BY <1>1, <1>5 DEF Threads
<1>10. Places'
  BY <1>6, ObjsAssumption, PlacesStay
<1>11. Leases'
  BY <1>1, <1>w, ObjsAssumption, LeasesClosed
<1>12. ClosedForGood'
  BY <1>1 DEF ClosedForGood, InWorkflow, TypeOK
<1>13. Outboxes'
  <2>1. Reported(e)'
    BY <1>1, <1>2, <1>3, <1>5, <1>w, OnList DEF Reported, InWorkflow, Begun
  <2>2. \A d \in ToSet(sub.out) \cup ToSet(sup.out) : d.obj # o
    BY <1>2, OnList
  <2>3. QED
    BY <1>1, <1>4, <1>5, <1>6, <2>1, <2>2, OutboxesStay DEF Outboxes
<1>14. QED
  BY <1>7, <1>8, <1>9, <1>10, <1>11, <1>12, <1>13

\* An attempt ends: the task is finished or will be retried, and the lease is given back.
LEMMA AttemptEnds ==
    ASSUME IInv, NEW o \in Objs, SupFinish(o) \/ SupRetry(o)
    PROVE  IInv'
<1> USE DEF IInv
<1>1. /\ attempt' = attempt /\ published' = published /\ queue' = queue /\ waiting' = waiting
      /\ deployed' = deployed /\ llm' = llm /\ tracked' = tracked /\ recovering' = recovering
      /\ sub' = sub /\ sent' = sent /\ closed' = closed /\ kept' = kept /\ Queued' = Queued
      /\ held' = held \ {Id(o)}
  BY DEF SupFinish, SupRetry, Queued
<1>2. /\ o \in sup.todo \/ o = sup.cur
      /\ o \in Running /\ attempt[o] \in 0..MaxRetries + 1 /\ o # NoObj
      /\ SupRetry(o) => attempt[o] <= MaxRetries
  BY ObjsAssumption DEF SupFinish, SupRetry, Result, Threads, TypeOK
<1>3. PICK s \in {"finished", "retrying"} :
         /\ status' = [status EXCEPT ![o] = s]
         /\ s = "finished" => SupFinish(o)
         /\ s = "retrying" => SupRetry(o)
  BY DEF SupFinish, SupRetry
<1>e. PICK e : e = Event(IF s = "finished" THEN "finish" ELSE "retry", o, attempt[o])
  OBVIOUS
<1>o. PICK out : out = sup.out \o <<e>>
  OBVIOUS
<1>4. /\ e \in Events /\ e.obj = o /\ e.attempt = attempt[o]
      /\ e.kind = IF s = "finished" THEN "finish" ELSE "retry"
  BY <1>2, <1>e DEF Event, Events
<1>5. /\ Begun(o) /\ status[o] = "running" /\ sent[o].kind = "start" /\ o # sub.head
      /\ sup.phase \in {"timeouts", "results"} /\ ~sub.park
      /\ o \notin Queued \cup waiting \cup llm.todo \cup recovering
      /\ \A k \in 0..MaxRetries + 1 : <<o, k>> \notin kept
      /\ \A d \in ToSet(sub.out) \cup ToSet(sup.out) : d.obj # o
  BY <1>2, OnList
<1>6. out \in Seq(Events) /\ OneEach(out) /\ ToSet(out) = ToSet(sup.out) \cup {e}
  BY <1>o, <1>4, <1>5, SaysOne
<1>7. /\ sup' \in Sups /\ sup'.out = out /\ sup'.todo = sup.todo \ {o} /\ sup'.cur = NoObj
      /\ sup'.phase = sup.phase
  <2>1. sup \in Sups /\ (sup.cur # NoObj => sup.cur \notin sup.todo)
    BY ObjsAssumption DEF TypeOK, Sups, Threads
  <2>2. CASE s = "finished"
    <3>1. sup' = [sup EXCEPT !.todo = @ \ {o}, !.out = out] /\ sup.cur = NoObj
      BY <1>3, <1>e, <1>o, <2>2 DEF SupFinish, Said, Result
    <3>2. QED
      BY <1>6, <2>1, <3>1 DEF Sups
  <2>3. CASE s = "retrying"
    <3>1. sup' = [sup EXCEPT !.cur = NoObj, !.out = out] /\ sup.cur = o
      BY <1>3, <1>e, <1>o, <2>3 DEF SupRetry, Said
    <3>2. QED
      BY <1>2, <1>6, <2>1, <3>1 DEF Sups
  <2>4. QED
    BY <2>2, <2>3
<1>8. status'[o] = s /\ \A p \in Objs \ {o} : status'[p] = status[p]
  BY <1>3 DEF TypeOK
<1>9. \A p \in Objs \ {o} : Unmoved(p) /\ SameLease(p)
  BY <1>1, <1>7, <1>8 DEF Unmoved, SameLease, Id
<1>10. /\ backoff' \subseteq Objs /\ stopped' \subseteq stopped /\ closed \subseteq stopped'
  <2>1. o \in tracked /\ WorkflowOf[o] \notin closed
    BY <1>2 DEF Running, ClosedForGood
  <2>2. QED
    BY <2>1 DEF SupFinish, SupRetry, TypeOK, ClosedForGood
<1>11. TypeOK'
  BY <1>1, <1>3, <1>7, <1>10 DEF TypeOK, Sups
<1>12. OneHolder' /\ NoTwins' /\ QueuesApart' /\ ClosedForGood'
  BY <1>1, <1>7, <1>10 DEF OneHolder, SupHolds, NoTwins, QueuesApart, ClosedForGood
<1>13. Threads'
  BY <1>1, <1>5, <1>7 DEF Threads
<1>14. Places'
  <2>1. Place(o)'
    BY <1>1, <1>3, <1>5, <1>7, <1>8 DEF Place, Running
  <2>2. QED
    BY <1>9, <2>1, PlacesStay
<1>15. Leases'
  <2>1. Lease(o)'
    <3>1. Lease(o)
      BY DEF Leases
    <3>2. QED
      BY <1>1, <1>2, <1>3, <1>5, <1>8, <3>1 DEF Lease, Running, Id
  <2>2. QED
    BY <1>9, <2>1, LeasesStay
<1>16. Outboxes'
  <2>1. Reported(e)'
    BY <1>1, <1>2, <1>3, <1>4, <1>5, <1>7, <1>8 DEF Reported, Begun
  <2>2. QED
    BY <1>1, <1>5, <1>6, <1>7, <1>9, <2>1, OutboxesStay DEF Outboxes
<1>17. QED
  BY <1>11, <1>12, <1>13, <1>14, <1>15, <1>16

\* The failed attempt is cleaned up first.
LEMMA SupRecoverStep ==
    ASSUME IInv, NEW o \in Objs, SupRecover(o)
    PROVE  IInv'
<1> USE DEF IInv
<1>1. /\ attempt' = attempt /\ published' = published /\ queue' = queue /\ waiting' = waiting
      /\ deployed' = deployed /\ llm' = llm /\ tracked' = tracked /\ backoff' = backoff
      /\ recovering' = recovering \cup {o} /\ held' = held
      /\ sub' = sub /\ sent' = sent /\ closed' = closed /\ kept' = kept /\ Queued' = Queued
      /\ status' = [status EXCEPT ![o] = "recovering"] /\ sup' = [sup EXCEPT !.cur = NoObj]
      /\ sup.cur = o /\ stopped' = stopped \ {WorkflowOf[o]}
  BY DEF SupRecover, Queued
<1>2. /\ o \in Running \ sup.todo /\ attempt[o] <= MaxRetries /\ attempt[o] \in 0..MaxRetries + 1
  BY <1>1, ObjsAssumption DEF Threads, TypeOK
<1>3. /\ Begun(o) /\ status[o] = "running" /\ sent[o].kind = "start" /\ o # sub.head
      /\ sup.phase \in {"timeouts", "results"} /\ ~sub.park
      /\ o \notin Queued \cup waiting \cup llm.todo \cup recovering
      /\ \A k \in 0..MaxRetries + 1 : <<o, k>> \notin kept
      /\ \A d \in ToSet(sub.out) \cup ToSet(sup.out) : d.obj # o
  BY <1>1, OnList
<1>4. /\ sup' \in Sups /\ sup'.out = sup.out /\ sup'.todo = sup.todo /\ sup'.cur = NoObj
      /\ sup'.phase = sup.phase
  BY <1>1 DEF TypeOK, Sups
<1>5. status'[o] = "recovering" /\ \A p \in Objs \ {o} : status'[p] = status[p]
  BY <1>1 DEF TypeOK
<1>6. \A p \in Objs \ {o} : Unmoved(p) /\ SameLease(p)
  BY <1>1, <1>4, <1>5 DEF Unmoved, SameLease
<1>7. closed \subseteq stopped'
  BY <1>1, <1>2 DEF Running, ClosedForGood
<1>8. TypeOK'
  BY <1>1, <1>4 DEF TypeOK, Sups
<1>9. OneHolder' /\ NoTwins' /\ QueuesApart' /\ ClosedForGood'
  BY <1>1, <1>4, <1>7 DEF OneHolder, SupHolds, NoTwins, QueuesApart, ClosedForGood
<1>10. Threads'
  BY <1>1, <1>3, <1>4 DEF Threads
<1>11. Places'
  <2>1. Place(o)'
    BY <1>1, <1>2, <1>3, <1>4, <1>5 DEF Place, Running, Begun
  <2>2. QED
    BY <1>6, <2>1, PlacesStay
<1>12. Leases'
  <2>1. Lease(o)'
    <3>1. Lease(o)
      BY DEF Leases
    <3>2. QED
      BY <1>1, <1>2, <1>3, <1>5, <3>1 DEF Lease, Running
  <2>2. QED
    BY <1>6, <2>1, LeasesStay
<1>13. Outboxes'
  BY <1>1, <1>3, <1>4, <1>6, OutboxesStay DEF Outboxes
<1>14. QED
  BY <1>8, <1>9, <1>10, <1>11, <1>12, <1>13

\* What holds of a task whose failed attempt is being cleaned up.
LEMMA InRecovery ==
    ASSUME IInv, NEW o \in Objs, o \in recovering
    PROVE  /\ status[o] = "recovering" /\ Begun(o) /\ attempt[o] <= MaxRetries
           /\ attempt[o] \in 0..MaxRetries + 1 /\ sent[o].kind = "start"
           /\ o \notin Queued \cup waiting \cup llm.todo \cup sup.todo \cup Running
           /\ o # sub.head
           /\ \A k \in 0..MaxRetries + 1 : /\ <<o, k>> \notin kept
                                           /\ <<o, k>> \in held <=> k = attempt[o]
           /\ \A d \in ToSet(sub.out) \cup ToSet(sup.out) : d.obj # o
<1>1. Place(o) /\ Lease(o)
  BY DEF IInv, Places, Leases
<1>2. /\ status[o] = "recovering" /\ Begun(o) /\ attempt[o] <= MaxRetries
      /\ \A k \in 0..MaxRetries + 1 : <<o, k>> \notin kept
  BY <1>1 DEF Place
<1>3. o \notin Queued \cup waiting \cup llm.todo \cup sup.todo \cup Running
  BY <1>1, <1>2 DEF Place, Running
<1>4. attempt[o] \in 0..MaxRetries + 1 /\ o # sub.head
  BY <1>3, ObjsAssumption DEF IInv, TypeOK, Threads
<1>5. \A k \in 0..MaxRetries + 1 : <<o, k>> \in held <=> k = attempt[o]
  BY <1>1, <1>2 DEF Lease
<1>6. \A d \in ToSet(sub.out) \cup ToSet(sup.out) : d.obj # o
  BY <1>2, Due
<1>7. QED
  BY <1>2, <1>3, <1>4, <1>5, <1>6, LastEvent

\* The cleanup is done: the lease is free, and the task is retried unless it was
\* cancelled.
LEMMA SupRecoveredStep ==
    ASSUME IInv, NEW o \in Objs, SupRecovered(o)
    PROVE  IInv'
<1> USE DEF IInv
<1>1. /\ attempt' = attempt /\ published' = published /\ queue' = queue /\ waiting' = waiting
      /\ deployed' = deployed /\ llm' = llm /\ tracked' = tracked
      /\ recovering' = recovering \ {o} /\ held' = held \ {Id(o)} /\ stopped' = stopped
      /\ sub' = sub /\ sent' = sent /\ closed' = closed /\ kept' = kept /\ Queued' = Queued
      /\ o \in recovering /\ sup.phase = "drain" /\ SupHolds
  BY DEF SupRecovered, Queued, SupHolds
<1>2. /\ status[o] = "recovering" /\ Begun(o) /\ attempt[o] <= MaxRetries
      /\ attempt[o] \in 0..MaxRetries + 1
      /\ o \notin Queued \cup waiting \cup llm.todo \cup sup.todo \cup Running /\ o # sub.head
      /\ \A k \in 0..MaxRetries + 1 : /\ <<o, k>> \notin kept
                                      /\ <<o, k>> \in held <=> k = attempt[o]
      /\ \A d \in ToSet(sub.out) \cup ToSet(sup.out) : d.obj # o
  BY <1>1, InRecovery
<1>e. PICK e : e = Event("retry", o, attempt[o])
  OBVIOUS
<1>o. PICK out : out = sup.out \o <<e>>
  OBVIOUS
<1>3. /\ e \in Events /\ e.obj = o /\ e.attempt = attempt[o] /\ e.kind = "retry"
  BY <1>2, <1>e DEF Event, Events
<1>4. out \in Seq(Events) /\ OneEach(out) /\ ToSet(out) = ToSet(sup.out) \cup {e}
  BY <1>o, <1>2, <1>3, SaysOne
<1>5. /\ sup' \in Sups /\ sup'.todo = {} /\ sup'.cur = NoObj /\ sup'.phase = sup.phase
      /\ \/ sup'.out = sup.out /\ status' = status /\ backoff' = backoff
         \/ /\ sup'.out = out /\ status' = [status EXCEPT ![o] = "retrying"]
            /\ status'[o] = "retrying" /\ backoff' = backoff \cup {o}
  <2>1. sup \in Sups /\ sup.todo = {} /\ sup.cur = NoObj /\ status[o] \in {"recovering"}
    BY <1>1, <1>2 DEF TypeOK, Sups, Threads
  <2>2. CASE o \in tracked /\ WorkflowOf[o] \notin stopped
    <3>1. /\ sup' = [sup EXCEPT !.out = out] /\ status' = [status EXCEPT ![o] = "retrying"]
          /\ backoff' = backoff \cup {o}
      BY <1>e, <1>o, <2>2 DEF SupRecovered, Said
    <3>2. QED
      BY <1>4, <2>1, <3>1 DEF Sups, TypeOK
  <2>3. CASE ~(o \in tracked /\ WorkflowOf[o] \notin stopped)
    BY <2>1, <2>3 DEF SupRecovered
  <2>4. QED
    BY <2>2, <2>3
<1>6. /\ status'[o] \in {"recovering", "retrying"} /\ \A p \in Objs \ {o} : status'[p] = status[p]
      /\ OneEach(sup'.out) /\ ToSet(sup'.out) \subseteq ToSet(sup.out) \cup {e}
  BY <1>2, <1>4, <1>5 DEF TypeOK, Outboxes
<1>7. \A p \in Objs \ {o} : Unmoved(p) /\ SameLease(p)
  BY <1>1, <1>5, <1>6 DEF Unmoved, SameLease, Id
<1>8. TypeOK'
  BY <1>1, <1>5 DEF TypeOK, Sups
<1>9. OneHolder' /\ NoTwins' /\ QueuesApart' /\ ClosedForGood'
  BY <1>1, <1>5 DEF OneHolder, SupHolds, NoTwins, QueuesApart, ClosedForGood
<1>10. Threads'
  BY <1>1, <1>2, <1>5 DEF Threads, OneHolder
<1>11. Places'
  <2>1. Place(o)'
    BY <1>1, <1>2, <1>5, <1>6 DEF Place, Running
  <2>2. QED
    BY <1>7, <2>1, PlacesStay
<1>12. Leases'
  <2>1. Lease(o)'
    BY <1>1, <1>2, <1>6 DEF Lease, Running, Id
  <2>2. QED
    BY <1>7, <2>1, LeasesStay
<1>13. Outboxes'
  <2>1. status'[o] = "retrying" => Reported(e)'
    BY <1>1, <1>2, <1>3, <1>5 DEF Reported, Begun
  <2>2. \A d \in ToSet(sup'.out) : Reported(d)' \/ (d \in ToSet(sup.out) /\ d.obj # o)
    BY <1>2, <1>4, <1>5, <1>6, <2>1
  <2>3. QED
    BY <1>1, <1>2, <1>6, <1>7, <2>2, OutboxesStay DEF Outboxes
<1>14. QED
  BY <1>8, <1>9, <1>10, <1>11, <1>12, <1>13

\* The cleanup failed: the workflow of a tracked task ends, and the lease of an
\* attempt that may still be alive stays.
LEMMA SupCleanupFailsStep ==
    ASSUME IInv, NEW o \in Objs, NEW isTask \in BOOLEAN, SupCleanupFails(o, isTask)
    PROVE  IInv'
<1> USE DEF IInv
<1>w. PICK w : w = WorkflowOf[o] /\ w \in Workflows
  BY ObjsAssumption
<1>e. PICK e : e = Event("exception", o, attempt[o])
  OBVIOUS
<1>o. PICK out : out = sup.out \o <<e>>
  OBVIOUS
<1>r. PICK rest : rest = IF isTask \/ o \notin tracked THEN held ELSE held \ {Id(o)}
  OBVIOUS
<1>1. /\ attempt' = attempt /\ published' = published /\ queue' = queue /\ status' = status
      /\ deployed' = deployed /\ llm' = llm /\ backoff' = backoff
      /\ recovering' = recovering \ {o} /\ kept' = kept \cup (rest \cap {Id(o)})
      /\ sub' = sub /\ sent' = sent /\ Queued' = Queued
      /\ o \in recovering /\ sup.phase = "drain" /\ SupHolds
  BY <1>r DEF SupCleanupFails, Queued, SupHolds
<1>2. /\ status[o] = "recovering" /\ Begun(o) /\ attempt[o] <= MaxRetries
      /\ attempt[o] \in 0..MaxRetries + 1
      /\ o \notin Queued \cup waiting \cup llm.todo \cup sup.todo \cup Running /\ o # sub.head
      /\ \A k \in 0..MaxRetries + 1 : /\ <<o, k>> \notin kept
                                      /\ <<o, k>> \in held <=> k = attempt[o]
      /\ \A d \in ToSet(sub.out) \cup ToSet(sup.out) : d.obj # o
  BY <1>1, InRecovery
<1>3. /\ e \in Events /\ e.obj = o /\ e.attempt = attempt[o] /\ e.kind = "exception"
  BY <1>2, <1>e DEF Event, Events
<1>4. out \in Seq(Events) /\ OneEach(out) /\ ToSet(out) = ToSet(sup.out) \cup {e}
  BY <1>o, <1>2, <1>3, SaysOne
<1>5. /\ sup \in Sups /\ sup.todo = {} /\ sup.cur = NoObj /\ rest \subseteq held
      /\ Id(o) = <<o, attempt[o]>> /\ held \subseteq Objs \X (1..MaxRetries + 1)
      /\ \A p \in Objs \ {o} : \A k : /\ <<p, k>> \in rest <=> <<p, k>> \in held
                                      /\ <<p, k>> \in kept' <=> <<p, k>> \in kept
  BY <1>1, <1>r DEF TypeOK, Sups, Threads, Id
<1>6. \/ /\ o \notin tracked /\ rest = held
         /\ UNCHANGED <<stopped, closed, waiting, tracked, held, sup>>
      \/ /\ o \in tracked /\ Close(w, rest) /\ sup' = [sup EXCEPT !.out = out]
         /\ waiting' \subseteq waiting /\ tracked' = tracked \ InWorkflow(w) /\ held' \subseteq rest
         /\ stopped' = stopped \cup {w} /\ closed' = closed \cup {w}
  BY <1>e, <1>o, <1>r, <1>w DEF SupCleanupFails, Said, Close
<1>7. /\ sup' \in Sups /\ sup'.todo = {} /\ sup'.cur = NoObj /\ sup'.phase = "drain"
      /\ \/ o \notin tracked /\ sup'.out = sup.out
         \/ o \in tracked /\ sup'.out = out
      /\ OneEach(sup'.out) /\ ToSet(sup'.out) \subseteq ToSet(sup.out) \cup {e}
      /\ waiting' \subseteq waiting /\ tracked' \subseteq tracked /\ o \notin tracked'
      /\ held' \subseteq held
  BY <1>1, <1>4, <1>5, <1>6, <1>w DEF Sups, InWorkflow, Outboxes
<1>8. \A p \in Objs \ {o} : Unmoved(p)
  BY <1>1, <1>5, <1>7 DEF Unmoved
<1>9. TypeOK'
  <2>1. held' \cup kept' \subseteq Objs \X (1..MaxRetries + 1)
    BY <1>1, <1>5, <1>7 DEF TypeOK
  <2>2. stopped' \cup closed' \subseteq Workflows
    BY <1>6, <1>w DEF TypeOK
  <2>3. QED
    BY <1>1, <1>7, <2>1, <2>2 DEF TypeOK, Sups
<1>10. OneHolder' /\ NoTwins' /\ QueuesApart'
  BY <1>1, <1>7 DEF OneHolder, SupHolds, NoTwins, QueuesApart
<1>11. Threads'
  BY <1>1, <1>2, <1>7 DEF Threads, OneHolder
<1>12. Places'
  <2>1. Place(o)'
    BY <1>1, <1>2, <1>5, <1>7 DEF Place, Running
  <2>2. QED
    BY <1>8, <2>1, PlacesStay
<1>13. Leases'
  <2>1. ASSUME NEW k \in 0..MaxRetries + 1
        PROVE  <<o, k>> \in held' <=> <<o, k>> \in rest
    BY <1>2, <1>6 DEF Close, Id
  <2>2. Lease(o)'
    BY <1>1, <1>2, <1>5, <1>7, <2>1 DEF Lease, Running
  <2>3. CASE o \in tracked
    <3>1. Close(w, rest)
      BY <1>6, <2>3
    <3>2. \A p \in Objs \ {o} : /\ status'[p] = status[p] /\ attempt'[p] = attempt[p]
                                /\ p \in recovering' <=> p \in recovering
      BY <1>1
    <3>3. QED
      BY <1>5, <1>w, <2>2, <3>1, <3>2, LeasesClosed
  <2>4. CASE o \notin tracked
    <3>1. \A p \in Objs \ {o} : SameLease(p)
      BY <1>1, <1>5, <1>6, <2>4 DEF SameLease
    <3>2. QED
      BY <2>2, <3>1, LeasesStay
  <2>5. QED
    BY <2>3, <2>4
<1>14. ClosedForGood'
  BY <1>6 DEF ClosedForGood, InWorkflow, TypeOK
<1>15. Outboxes'
  <2>1. Reported(e)'
    BY <1>1, <1>2, <1>3, <1>7 DEF Reported, Begun
  <2>2. \A d \in ToSet(sup'.out) : Reported(d)' \/ (d \in ToSet(sup.out) /\ d.obj # o)
    BY <1>2, <1>7, <2>1
  <2>3. QED
    BY <1>1, <1>2, <1>7, <1>8, <2>2, OutboxesStay DEF Outboxes
<1>16. QED
  BY <1>9, <1>10, <1>11, <1>12, <1>13, <1>14, <1>15

\* The first of the events due is sent; a retried task goes back to its queue.
LEMMA SupFlushStep ==
    ASSUME IInv, SupFlush
    PROVE  IInv'
<1> USE DEF IInv
<1>1. /\ sup.phase = "flush" /\ sup \in Sups /\ sup.out \in Seq(Events) /\ sup.cur = NoObj
      /\ sup.todo = {}
      /\ status' = status /\ attempt' = attempt /\ backoff' = backoff /\ published' = published
      /\ waiting' = waiting /\ deployed' = deployed /\ llm' = llm /\ tracked' = tracked
      /\ stopped' = stopped /\ held' = held /\ recovering' = recovering /\ sub' = sub
      /\ closed' = closed /\ kept' = kept
  BY DEF SupFlush, TypeOK, Sups, Threads
<1>2. CASE sup.out = <<>>
  <2>1. sup' = [sup EXCEPT !.phase = "idle"] /\ queue' = queue /\ sent' = sent
    BY <1>2 DEF SupFlush
  <2>2. /\ sup' \in Sups /\ sup'.out = sup.out /\ sup'.cur = NoObj /\ sup'.todo = {}
        /\ sup'.phase = "idle" /\ Queued' = Queued
    BY <1>1, <2>1 DEF Sups, Queued
  <2>3. OneHolder' /\ Threads'
    BY <1>1, <2>1, <2>2 DEF OneHolder, SupHolds, Threads
  <2>4. QED
    BY <1>1, <2>1, <2>2, <2>3, NothingMoves DEF TypeOK, Subs, Llms, ClosedForGood
<1>3. CASE sup.out # <<>>
  <2>1. PICK e : e = Head(sup.out)
    OBVIOUS
  <2>2. PICK o : o = e.obj
    OBVIOUS
  <2>3. PICK out : out = Tail(sup.out)
    OBVIOUS
  <2>4. /\ e \in ToSet(sup.out) /\ e \in Events /\ OneEach(out) /\ out \in Seq(Events)
        /\ ToSet(out) \subseteq ToSet(sup.out) /\ \A d \in ToSet(out) : d.obj # o
    BY <1>1, <1>3, <2>1, <2>2, <2>3, FirstOut DEF Outboxes
  <2>5. /\ sup' = [sup EXCEPT !.out = out] /\ ~sub.park
        /\ sent' = [sent EXCEPT ![o] = Sent(e.kind, e.attempt, TRUE)]
        /\ IF e.kind = "retry" THEN queue' = [queue EXCEPT ![ClassOf[o]] = Append(@, o)]
           ELSE queue' = queue
    BY <1>3, <2>1, <2>2, <2>3 DEF SupFlush, LockFree
  <2>6. /\ sup' \in Sups /\ sup'.out = out /\ sup'.cur = NoObj /\ sup'.todo = {}
        /\ sup'.phase = sup.phase
    BY <1>1, <2>4, <2>5 DEF Sups
  <2>7. /\ o \in Objs /\ e.attempt \in 0..MaxRetries + 1 /\ e.kind \in {"retry", "finish", "exception"}
        /\ Reported(e) /\ Begun(o) /\ e.attempt = attempt[o] /\ o \notin Running \cup recovering
        /\ status[o] \in {"retrying", "finished", "running", "recovering"}
        /\ \A d \in ToSet(sub.out) : d.obj # o
    BY <2>2, <2>4, Due, LastEvent DEF Outboxes, Reported
  <2>8. /\ sent'[o] = Sent(e.kind, e.attempt, TRUE)
        /\ \A p \in Objs \ {o} : sent'[p] = sent[p]
    BY <2>5, <2>7 DEF TypeOK
  <2>9. /\ o \notin Queued \cup waiting \cup llm.todo \cup sup.todo
        /\ \A k \in 0..MaxRetries + 1 :
              <<o, k>> \in kept => /\ k = attempt[o] /\ status[o] = "recovering"
                                   /\ o \notin tracked \cup recovering
    <3>1. Place(o) /\ ~Between(o)
      BY <2>7, LastEvent DEF Places
    <3>2. QED
      BY <1>1, <3>1 DEF Place
  <2>10. /\ queue' \in [Classes -> Seq(Objs)] /\ QueuesApart'
         /\ Queued' = IF e.kind = "retry" THEN Queued \cup {o} ELSE Queued
    <3>1. CASE e.kind = "retry"
      BY <2>5, <2>7, <2>9, <3>1, Appended
    <3>2. CASE e.kind # "retry"
      BY <2>5, <3>2 DEF TypeOK, QueuesApart, Queued
    <3>3. QED
      BY <3>1, <3>2
  <2>11. \A p \in Objs \ {o} : Unmoved(p)
    BY <1>1, <2>6, <2>8, <2>10 DEF Unmoved
  <2>12. TypeOK'
    BY <1>1, <2>5, <2>6, <2>7, <2>10 DEF TypeOK, Sups, Sent
  <2>13. OneHolder' /\ NoTwins' /\ ClosedForGood'
    BY <1>1, <2>6 DEF OneHolder, SupHolds, NoTwins, ClosedForGood
  <2>14. Threads'
    BY <1>1, <2>6, <2>10 DEF Threads
  <2>15. Places'
    <3>1. e.kind = "retry" => status[o] = "retrying" /\ Between(o)'
      <4>1. SUFFICES ASSUME e.kind = "retry" PROVE status[o] = "retrying" /\ Between(o)'
        OBVIOUS
      <4>2. status[o] = "retrying" /\ attempt[o] <= MaxRetries /\ attempt[o] \in 1..MaxRetries + 1
        BY <2>2, <2>7, <4>1 DEF Reported, Begun
      <4>3. attempt[o] \in 1..MaxRetries
        BY <4>2, BoundsAssumption
      <4>4. QED
        BY <1>1, <2>7, <2>8, <4>1, <4>2, <4>3 DEF Between
    <3>2. Place(o)'
      BY <1>1, <2>6, <2>7, <2>9, <2>10, <3>1 DEF Place, Running
    <3>3. QED
      BY <2>11, <3>2, PlacesStay
  <2>16. Leases'
    BY <1>1 DEF Leases, Lease, Running
  <2>17. Outboxes'
    BY <1>1, <2>4, <2>6, <2>7, <2>11, OutboxesStay DEF Outboxes
  <2>18. QED
    BY <2>10, <2>12, <2>13, <2>14, <2>15, <2>16, <2>17
<1>4. QED
  BY <1>2, <1>3

-------------------------------------------------------------------------------
(* Time, and the steps of the LLM thread. *)

\* Steps that move no task.
LEMMA LLMQuiet ==
    ASSUME IInv, \/ ModelReady \/ ModelLost \/ WakeDone \/ FailLock \/ FailUnlock
                 \/ \E o \in Objs : BackoffOver(o)
    PROVE  IInv'
<1> USE DEF IInv
<1>1. /\ status' = status /\ sent' = sent /\ attempt' = attempt
      /\ published' = published /\ queue' = queue /\ waiting' = waiting
      /\ tracked' = tracked /\ held' = held /\ stopped' = stopped
      /\ recovering' = recovering /\ sub' = sub /\ sup' = sup /\ closed' = closed /\ kept' = kept
  BY DEF ModelReady, ModelLost, WakeDone, FailLock, FailUnlock, BackoffOver
<1>2. llm \in Llms /\ sub \in Subs /\ sup \in Sups /\ Queued' = Queued /\ Running' = Running
  BY <1>1 DEF TypeOK, Llms, Subs, Sups, Queued, Running
<1>3. /\ backoff' \subseteq Objs /\ deployed' \in BOOLEAN
      /\ llm' \in Llms /\ llm'.todo = llm.todo
      /\ llm'.phase \in {"idle", "wake"} => llm.todo = {}
      /\ llm'.phase = "fail" => llm.phase = "fail" \/ (~SupHolds /\ ~sub.park)
  BY <1>2 DEF ModelReady, ModelLost, WakeDone, FailLock, FailUnlock, BackoffOver, TypeOK, Llms,
     Threads, LockFree, SupHolds
<1>4. OneHolder' /\ Threads'
  BY <1>1, <1>2, <1>3 DEF OneHolder, SupHolds, Threads, Begun
<1>5. QED
  BY <1>1, <1>2, <1>3, <1>4, NothingMoves DEF TypeOK, ClosedForGood

\* What holds of a task that waits for its model.
LEMMA Waits ==
    ASSUME IInv, NEW o \in waiting \cup llm.todo
    PROVE  /\ o \in Objs /\ status[o] = "pending" /\ Between(o)
           /\ sent[o].kind \in {"none", "retry"} /\ sent[o].n = attempt[o]
           /\ attempt[o] \in 0..MaxRetries /\ attempt[o] \in 0..MaxRetries + 1
           /\ o \notin Queued \cup recovering \cup Running \cup sup.todo
           /\ o \notin waiting \cap llm.todo /\ o # sup.cur /\ o # sub.head
           /\ \A k \in 0..MaxRetries + 1 : <<o, k>> \notin held /\ <<o, k>> \notin kept
           /\ \A d \in ToSet(sub.out) \cup ToSet(sup.out) : d.obj # o
<1>1. o \in Objs
  BY DEF IInv, TypeOK
<1>2. Place(o) /\ Lease(o)
  BY <1>1 DEF IInv, Places, Leases
<1>3. status[o] = "pending" /\ Between(o) /\ o \notin Queued
  BY <1>2 DEF Place
<1>4. o \notin recovering \cup Running \cup sup.todo /\ o \notin waiting \cap llm.todo
  BY <1>2, <1>3 DEF Place, Running
<1>5. o # sup.cur /\ o # sub.head
  BY <1>1, <1>3, <1>4, ObjsAssumption DEF IInv, Threads
<1>6. \A k \in 0..MaxRetries + 1 : <<o, k>> \notin held /\ <<o, k>> \notin kept
  BY <1>2, <1>3, <1>4 DEF Place, Lease
<1>7. \A d \in ToSet(sub.out) \cup ToSet(sup.out) : d.obj # o
  BY <1>3, Due
<1>8. attempt[o] \in 0..MaxRetries + 1
  BY <1>1 DEF IInv, TypeOK
<1>9. QED
  BY <1>1, <1>3, <1>4, <1>5, <1>6, <1>7, <1>8, LastEvent

\* A waiter goes back to its queue, or is dropped with its workflow.
LEMMA WakeStep ==
    ASSUME IInv, NEW o \in Objs, Wake(o)
    PROVE  IInv'
<1> USE DEF IInv
<1>1. /\ o \in waiting /\ waiting' = waiting \ {o} /\ llm.phase = "wake" /\ llm.todo = {}
      /\ attempt' = attempt /\ backoff' = backoff /\ published' = published
      /\ deployed' = deployed /\ llm' = llm /\ tracked' = tracked
      /\ stopped' = stopped /\ held' = held /\ recovering' = recovering /\ sub' = sub
      /\ sup' = sup /\ sent' = sent /\ closed' = closed /\ kept' = kept
  BY DEF Wake, Threads
<1>2. /\ status[o] = "pending" /\ Between(o) /\ sent[o].kind \in {"none", "retry"}
      /\ o \notin Queued \cup recovering \cup Running \cup sup.todo
      /\ o # sup.cur /\ o # sub.head
      /\ \A k \in 0..MaxRetries + 1 : <<o, k>> \notin held /\ <<o, k>> \notin kept
      /\ \A d \in ToSet(sub.out) \cup ToSet(sup.out) : d.obj # o
  BY <1>1, Waits
<1>3. PICK s \in {"ready", "gone"} :
         /\ status' = [status EXCEPT ![o] = s]
         /\ \/ s = "gone" /\ queue' = queue
            \/ s = "ready" /\ \E q \in Restored(queue[ClassOf[o]], o) :
                                 queue' = [queue EXCEPT ![ClassOf[o]] = q]
  BY DEF Wake
<1>4. status'[o] = s /\ \A p \in Objs \ {o} : status'[p] = status[p]
  BY <1>3 DEF TypeOK
<1>5. /\ queue' \in [Classes -> Seq(Objs)] /\ QueuesApart'
      /\ Queued' = IF s = "ready" THEN Queued \cup {o} ELSE Queued
  <2>1. CASE s = "gone"
    BY <1>3, <2>1 DEF TypeOK, QueuesApart, Queued
  <2>2. CASE s = "ready"
    <3>1. PICK r : r = queue[ClassOf[o]]
      OBVIOUS
    <3>2. PICK q \in Restored(r, o) : queue' = [queue EXCEPT ![ClassOf[o]] = q]
      BY <1>3, <2>2, <3>1
    <3>3. ClassOf[o] \in Classes
      BY ObjsAssumption
    <3>4. r \in Seq(Objs) /\ IsInjective(r) /\ o \notin ToSet(r)
      BY <1>2, <3>1, <3>3 DEF TypeOK, QueuesApart, Queued
    <3>5. ToSet(r) = ToSet(queue[ClassOf[o]]) \ {o}
      BY <3>1, <3>4
    <3>6. QED
      BY <2>2, <3>2, <3>4, <3>5, RestoredOne
  <2>3. QED
    BY <2>1, <2>2
<1>6. \A p \in Objs \ {o} : Unmoved(p) /\ SameLease(p)
  BY <1>1, <1>4, <1>5 DEF Unmoved, SameLease
<1>7. TypeOK'
  BY <1>1, <1>3, <1>5 DEF TypeOK
<1>8. OneHolder' /\ NoTwins' /\ ClosedForGood'
  BY <1>1 DEF OneHolder, SupHolds, NoTwins, ClosedForGood
<1>9. Threads'
  <2>1. /\ sub.head # NoObj => sub.head \in Objs \ {o}
        /\ sup.cur # NoObj => sup.cur \in Objs \ {o}
    BY <1>2 DEF TypeOK
  <2>2. QED
    BY <1>1, <1>4, <1>5, <2>1 DEF Threads, Begun, Running
<1>10. Places'
  <2>1. Place(o)'
    BY <1>1, <1>2, <1>4, <1>5 DEF Place, Running, Between
  <2>2. QED
    BY <1>6, <2>1, PlacesStay
<1>11. Leases'
  <2>1. Lease(o)'
    BY <1>1, <1>2, <1>4 DEF Lease, Running
  <2>2. QED
    BY <1>6, <2>1, LeasesStay
<1>12. Outboxes'
  BY <1>1, <1>2, <1>6, OutboxesStay DEF Outboxes
<1>13. QED
  BY <1>5, <1>7, <1>8, <1>9, <1>10, <1>11, <1>12

\* The waiters are taken, to be failed.
LEMMA PopWaitersStep ==
    ASSUME IInv, PopWaiters
    PROVE  IInv'
<1> USE DEF IInv
<1>1. /\ waiting' = {} /\ llm' = [phase |-> "popped", todo |-> waiting]
      /\ llm.phase = "idle" /\ llm.todo = {}
      /\ status' = status /\ attempt' = attempt /\ backoff' = backoff /\ published' = published
      /\ queue' = queue /\ deployed' = deployed /\ tracked' = tracked
      /\ stopped' = stopped /\ held' = held /\ recovering' = recovering /\ sub' = sub
      /\ sup' = sup /\ sent' = sent /\ closed' = closed /\ kept' = kept
  BY DEF PopWaiters, Threads
<1>2. llm' \in Llms /\ llm'.phase = "popped" /\ llm'.todo = waiting /\ Queued' = Queued
  BY <1>1 DEF TypeOK, Llms, Queued
<1>3. TypeOK'
  BY <1>1, <1>2 DEF TypeOK, Llms
<1>4. OneHolder' /\ NoTwins' /\ ClosedForGood' /\ QueuesApart'
  BY <1>1, <1>2 DEF OneHolder, SupHolds, NoTwins, ClosedForGood, QueuesApart
<1>5. Threads'
  BY <1>1, <1>2 DEF Threads, Begun, Running
<1>6. Places'
  <2>1. ASSUME NEW o \in Objs PROVE Place(o)'
    <3>1. Place(o)
      BY DEF Places
    <3>2. QED
      BY <1>1, <1>2, <3>1 DEF Place, Running, Between, Begun
  <2>2. QED
    BY <2>1 DEF Places
<1>7. Leases'
  BY <1>1 DEF Leases, Lease, Running
<1>8. Outboxes'
  BY <1>1, <1>2 DEF Outboxes, Announced, Reported, Begun
<1>9. QED
  BY <1>3, <1>4, <1>5, <1>6, <1>7, <1>8

\* A waiter fails, and with it its workflow.
LEMMA FailWaiterStep ==
    ASSUME IInv, NEW o \in Objs, FailWaiter(o)
    PROVE  IInv'
<1> USE DEF IInv
<1>w. PICK w : w = WorkflowOf[o] /\ w \in Workflows
  BY ObjsAssumption
<1>1. /\ o \in llm.todo /\ llm.phase = "fail" /\ llm' = [llm EXCEPT !.todo = @ \ {o}]
      /\ status' = [status EXCEPT ![o] = "gone"]
      /\ attempt' = attempt /\ backoff' = backoff /\ published' = published
      /\ queue' = queue /\ deployed' = deployed /\ recovering' = recovering /\ sub' = sub
      /\ sup' = sup /\ kept' = kept /\ Queued' = Queued
  BY DEF FailWaiter, Queued
<1>2. /\ status[o] = "pending" /\ Between(o) /\ sent[o].kind \in {"none", "retry"}
      /\ attempt[o] \in 0..MaxRetries + 1
      /\ o \notin Queued \cup recovering \cup Running \cup sup.todo \cup waiting
      /\ o # sup.cur /\ o # sub.head
      /\ \A k \in 0..MaxRetries + 1 : <<o, k>> \notin held /\ <<o, k>> \notin kept
      /\ \A d \in ToSet(sub.out) \cup ToSet(sup.out) : d.obj # o
  BY <1>1, Waits
<1>3. /\ llm' \in Llms /\ llm'.phase = "fail" /\ llm'.todo = llm.todo \ {o}
      /\ status'[o] = "gone" /\ \A p \in Objs \ {o} : status'[p] = status[p]
  BY <1>1 DEF TypeOK, Llms
<1>4. \/ UNCHANGED <<stopped, closed, waiting, tracked, held, sent>>
      \/ /\ Close(w, held) /\ waiting' \subseteq waiting /\ tracked' = tracked \ InWorkflow(w)
         /\ held' \subseteq held /\ stopped' = stopped \cup {w} /\ closed' = closed \cup {w}
         /\ sent' = [sent EXCEPT ![o] = Sent("exception", attempt[o], attempt[o] = 0)]
  BY <1>w DEF FailWaiter, Close
<1>5. /\ waiting' \subseteq waiting /\ tracked' \subseteq tracked /\ held' \subseteq held
      /\ stopped' \cup closed' \subseteq Workflows
      /\ \A p \in Objs \ {o} : sent'[p] = sent[p]
  BY <1>4, <1>w DEF TypeOK
<1>6. sent' \in [Objs -> [kind : {"none", "start", "retry", "finish", "exception"},
                          n : 0..MaxRetries + 1, known : BOOLEAN]]
  <2>1. Sent("exception", attempt[o], attempt[o] = 0)
           \in [kind : {"none", "start", "retry", "finish", "exception"},
                n : 0..MaxRetries + 1, known : BOOLEAN]
    BY <1>2 DEF Sent
  <2>2. QED
    BY <1>4, <2>1 DEF TypeOK
<1>7. \A p \in Objs \ {o} : Unmoved(p)
  BY <1>1, <1>3, <1>5 DEF Unmoved
<1>8. TypeOK'
  BY <1>1, <1>3, <1>5, <1>6 DEF TypeOK, Llms
<1>9. OneHolder' /\ NoTwins' /\ QueuesApart'
  BY <1>1, <1>3, <1>5 DEF OneHolder, SupHolds, NoTwins, QueuesApart
<1>10. Threads'
  <2>1. sup.phase \notin {"timeouts", "results"} /\ ~sub.park
    BY <1>1 DEF OneHolder, SupHolds
  <2>2. QED
    BY <1>1, <1>2, <1>3, <2>1 DEF Threads
<1>11. Places'
  <2>1. Place(o)'
    BY <1>1, <1>2, <1>3, <1>5 DEF Place, Running
  <2>2. QED
    BY <1>7, <2>1, PlacesStay
<1>12. Leases'
  <2>1. Lease(o)'
    BY <1>1, <1>2, <1>3, <1>5 DEF Lease, Running
  <2>2. CASE Close(w, held)
    BY <1>1, <1>3, <1>w, <2>1, <2>2, LeasesClosed
  <2>3. CASE tracked' = tracked /\ held' = held
    <3>1. \A p \in Objs \ {o} : SameLease(p)
      BY <1>1, <1>3, <2>3 DEF SameLease
    <3>2. QED
      BY <2>1, <3>1, LeasesStay
  <2>4. QED
    BY <1>4, <2>2, <2>3
<1>13. ClosedForGood'
  BY <1>4 DEF ClosedForGood, InWorkflow, TypeOK
<1>14. Outboxes'
  BY <1>1, <1>2, <1>7, OutboxesStay DEF Outboxes
<1>15. QED
  BY <1>8, <1>9, <1>10, <1>11, <1>12, <1>13, <1>14

-------------------------------------------------------------------------------
(* The invariant. *)

LEMMA InitInv == Init => IInv
<1> SUFFICES ASSUME Init PROVE IInv
  OBVIOUS
<1>1. /\ status \in [Objs -> {"none"}] /\ attempt \in [Objs -> {0}]
      /\ sent = [o \in Objs |-> Sent("none", 0, TRUE)] /\ queue = [c \in Classes |-> <<>>]
      /\ backoff = {} /\ published = {} /\ waiting = {} /\ tracked = {}
      /\ recovering = {} /\ stopped = {} /\ closed = {} /\ held = {} /\ kept = {}
      /\ deployed = FALSE /\ llm = [phase |-> "idle", todo |-> {}]
      /\ sub = [next |-> 1, head |-> NoObj, park |-> FALSE, out |-> <<>>]
      /\ sup = [phase |-> "idle", todo |-> {}, cur |-> NoObj, out |-> <<>>]
  BY DEF Init
<1>2. \A c \in Classes : ToSet(queue[c]) = {} /\ IsInjective(queue[c])
  BY <1>1 DEF ToSet, IsInjective
<1>3. ToSet(sub.out) = {} /\ ToSet(sup.out) = {} /\ OneEach(sub.out) /\ OneEach(sup.out)
  BY <1>1 DEF ToSet, OneEach
<1>4. Queued = {} /\ Running = {}
  BY <1>1, <1>2 DEF Queued, Running
<1>5. TypeOK
  <2>1. <<>> \in Seq(Objs) /\ <<>> \in Seq(Events) /\ 0 \in 0..MaxRetries + 1
    BY BoundsAssumption
  <2>2. /\ Sent("none", 0, TRUE) \in [kind : {"none", "start", "retry", "finish", "exception"},
                                      n : 0..MaxRetries + 1, known : BOOLEAN]
        /\ sub \in Subs /\ sup \in Sups /\ llm \in Llms
    BY <1>1, <2>1 DEF Sent, Subs, Sups, Llms
  <2>3. queue \in [Classes -> Seq(Objs)]
    BY <1>1, <2>1
  <2>4. attempt \in [Objs -> 0..MaxRetries + 1]
    BY <1>1, <2>1
  <2>5. QED
    BY <1>1, <2>2, <2>3, <2>4 DEF TypeOK, Subs, Sups, Llms
<1>6. OneHolder /\ Threads /\ QueuesApart /\ NoTwins /\ ClosedForGood
  BY <1>1, <1>2, <1>4 DEF OneHolder, SupHolds, Threads, QueuesApart, NoTwins, ClosedForGood
<1>7. Places /\ Leases
  BY <1>1, <1>4 DEF Places, Place, Leases, Lease, Between
<1>8. Outboxes
  BY <1>3 DEF Outboxes
<1>9. QED
  BY <1>5, <1>6, <1>7, <1>8 DEF IInv

LEMMA NextInv == IInv /\ [Next]_vars => IInv'
<1> SUFFICES ASSUME IInv, [Next]_vars PROVE IInv'
  OBVIOUS
<1>1. CASE Receive
  BY <1>1, RunTaskStep, RejectTaskStep, WorkflowEnds DEF Receive
<1>2. CASE Submit
  BY <1>2, SubPeekStep, SubFlushStep, SubDropStoppedStep, SubRejectStep, SubRouteMissStep,
     SubParkStep, SubDropDuplicateStep, SubDispatchStep, SubLaunchFailsStep, SubPendingStep
     DEF Submit
<1>3. CASE Supervisor
  <2>1. CASE SupBegin \/ SupScan \/ SupCollect \/ SupRelease
    BY <2>1, SupLockStep, SupListStep
  <2>2. CASE SupFlush
    BY <2>2, SupFlushStep
  <2>3. ASSUME NEW o \in Objs, \/ SupRecovered(o) \/ SupTimeout(o) \/ SupSkip(o) \/ SupFinish(o)
                               \/ SupFail(o) \/ SupMark(o) \/ SupRetry(o) \/ SupRecover(o)
                               \/ SupRecoveryRefused(o)
        PROVE  IInv'
    BY <2>3, SupRecoveredStep, AttemptFails, SupSkipOrMarkStep, AttemptEnds, SupRecoverStep
  <2>4. ASSUME NEW o \in Objs, NEW isTask \in BOOLEAN, SupCleanupFails(o, isTask)
        PROVE  IInv'
    BY <2>4, SupCleanupFailsStep
  <2>5. QED
    BY <1>3, <2>1, <2>2, <2>3, <2>4 DEF Supervisor
<1>4. CASE LLM
  BY <1>4, LLMQuiet, WakeStep, PopWaitersStep, FailWaiterStep DEF LLM
<1>5. CASE \E o \in Objs : BackoffOver(o)
  BY <1>5, LLMQuiet
<1>6. CASE UNCHANGED vars
  <2>1. OneHolder' /\ Threads'
    BY <1>6 DEF vars, IInv, OneHolder, SupHolds, Threads, Queued, Running, Begun
  <2>2. QED
    BY <1>6, <2>1, NothingMoves DEF vars, IInv, TypeOK, Subs, Sups, Llms, ClosedForGood
<1>7. QED
  BY <1>1, <1>2, <1>3, <1>4, <1>5, <1>6 DEF Next

\* The invariant of the four threads.
THEOREM Invariance == Spec => []IInv
<1>1. QED
  BY InitInv, NextInv, PTL DEF Spec

\* Every variable keeps its values.
THEOREM TypeCorrect == Spec => []TypeOK
<1>1. IInv => TypeOK
  BY DEF IInv
<1>2. QED
  BY <1>1, Invariance, PTL

\* No order of results, timeouts, cancellations and recoveries leaks a lease or
\* frees the lease of an attempt that is still alive.
THEOREM LeasesAlwaysAccounted == Spec => []LeasesAccounted
<1>1. IInv => LeasesAccounted
  BY LeasesAdd DEF IInv
<1>2. QED
  BY <1>1, Invariance, PTL

\* A workflow that was stopped, cleared or failed keeps its mark, although retries
\* take marks back, and has no tracked task.
THEOREM ClosedStaysClosed == Spec => []ClosedForGood
<1>1. IInv => ClosedForGood
  BY DEF IInv
<1>2. QED
  BY <1>1, Invariance, PTL

\* At most one retry of a task is due, and the task is then nowhere else.
LEMMA RetryDueOnce ==
    ASSUME IInv, NEW o \in Objs, NEW due,
           due = {i \in 1..Len(sup.out) : sup.out[i] = Event("retry", o, attempt[o])}
    PROVE  Cardinality(due) <= 1 /\ (due # {} => o \notin Queued \cup waiting \cup Running)
<1>1. sup.out \in Seq(Events) /\ OneEach(sup.out) /\ DOMAIN sup.out = 1..Len(sup.out)
  BY DEF IInv, TypeOK, Outboxes
<1>2. CASE due = {}
  <2>1. Cardinality(due) = 0
    BY <1>2, FS_EmptySet
  <2>2. QED
    BY <1>2, <2>1
<1>3. CASE due # {}
  <2>1. PICK i \in due : TRUE
    BY <1>3
  <2>2. \A j \in due : sup.out[j].obj = o /\ j \in DOMAIN sup.out
    BY <1>1 DEF Event
  <2>3. due = {i}
    BY <2>1, <2>2, <1>1 DEF OneEach
  <2>4. Cardinality(due) = 1
    BY <2>3, FS_Singleton
  <2>5. PICK e : e = sup.out[i]
    OBVIOUS
  <2>6. e \in ToSet(sup.out) /\ e.kind = "retry" /\ e.obj = o
    BY <1>1, <2>1, <2>5, Elements DEF Event
  <2>7. status[o] = "retrying" /\ o \notin Queued
    BY <2>6 DEF IInv, Outboxes, Reported
  <2>8. o \notin waiting /\ o \notin Running
    BY <2>7 DEF IInv, Places, Place, Running
  <2>9. QED
    BY <2>4, <2>7, <2>8
<1>4. QED
  BY <1>2, <1>3

\* A task is never in two places: queued twice, queued and waiting, running or
\* recovering, or about to be queued twice; and no two dispatches of a task run.
THEOREM AlwaysOnePlace == Spec => []OnePlace
<1>1. ASSUME IInv PROVE OnePlace
  <2>1. \A c \in Classes : IsInjective(queue[c])
    BY <1>1 DEF IInv, QueuesApart
  <2>2. \A o \in Queued : o \notin waiting \cup llm.todo \cup Running \cup recovering
    BY <1>1, QueuedOne DEF InQueue
  <2>3. \A o \in waiting \cup llm.todo : o \notin Running \cup recovering
    BY <1>1, Waits
  <2>4. \A o \in Objs :
           LET due == {i \in 1..Len(sup.out) : sup.out[i] = Event("retry", o, attempt[o])}
           IN  /\ Cardinality(due) <= 1
               /\ due # {} => o \notin Queued \cup waiting \cup Running
    BY <1>1, RetryDueOnce
  <2>5. \A o, p \in (Running \cup recovering) \cap tracked : o # p => TaskOf[o] # TaskOf[p]
    BY <1>1 DEF IInv, NoTwins
  <2>6. QED
    BY <2>1, <2>2, <2>3, <2>4, <2>5 DEF OnePlace
<1>2. QED
  BY <1>1, Invariance, PTL

-------------------------------------------------------------------------------
(* The model waiters. *)

\* While a route to the model exists, tasks wait for it only as long as a wake-up
\* is due.
THEOREM WakeupNeverLost == Spec => []NoLostWakeup
<1>1. Init => NoLostWakeup
  BY DEF Init, NoLostWakeup
<1>2. ASSUME IInv, NoLostWakeup, [Next]_vars PROVE NoLostWakeup'
  <2> USE <1>2
  <2>1. CASE waiting' \subseteq waiting /\ UNCHANGED <<deployed, llm>>
    BY <2>1 DEF NoLostWakeup
  <2>2. CASE Receive
    BY <2>1, <2>2 DEF Receive, RunTask, RejectTask, StopWorkflow, ClearWorkflow, Close
  <2>3. CASE SubPeek \/ SubFlush
    BY <2>1, <2>3 DEF SubPeek, SubFlush
  <2>4. ASSUME NEW o \in Objs, SubPark(o) PROVE NoLostWakeup'
    BY <2>4 DEF SubPark, NoLostWakeup
  <2>5. ASSUME NEW o \in Objs, \/ SubDropStopped(o) \/ SubReject(o) \/ SubRouteMiss(o)
                               \/ SubDropDuplicate(o) \/ SubDispatch(o) \/ SubLaunchFails(o)
                               \/ SubPending(o)
        PROVE  NoLostWakeup'
    BY <2>1, <2>5 DEF SubDropStopped, SubReject, SubRouteMiss, SubDropDuplicate, SubDispatch,
       SubLaunchFails, SubPending, Close
  <2>6. CASE SupBegin \/ SupScan \/ SupCollect \/ SupRelease \/ SupFlush
    BY <2>1, <2>6 DEF SupBegin, SupScan, SupCollect, SupRelease, SupFlush
  <2>7. ASSUME NEW o \in Objs, \/ SupRecovered(o) \/ SupTimeout(o) \/ SupSkip(o) \/ SupFinish(o)
                               \/ SupFail(o) \/ SupMark(o) \/ SupRetry(o) \/ SupRecover(o)
                               \/ SupRecoveryRefused(o)
        PROVE  NoLostWakeup'
    BY <2>1, <2>7 DEF SupRecovered, SupTimeout, SupSkip, SupFinish, SupFail, SupMark, SupRetry,
       SupRecover, SupRecoveryRefused, Close
  <2>8. ASSUME NEW o \in Objs, NEW isTask \in BOOLEAN, SupCleanupFails(o, isTask)
        PROVE  NoLostWakeup'
    BY <2>1, <2>8 DEF SupCleanupFails, Close
  <2>9. CASE ModelReady \/ ModelLost \/ WakeDone \/ PopWaiters \/ FailLock \/ FailUnlock
    <3>1. llm \in Llms
      BY DEF IInv, TypeOK, Llms
    <3>2. CASE ModelReady
      BY <3>1, <3>2 DEF ModelReady, NoLostWakeup, Llms
    <3>3. CASE ModelLost \/ WakeDone \/ PopWaiters
      BY <3>3 DEF ModelLost, WakeDone, PopWaiters, NoLostWakeup
    <3>4. CASE FailLock \/ FailUnlock
      BY <3>4 DEF FailLock, FailUnlock, NoLostWakeup
    <3>5. QED
      BY <2>9, <3>2, <3>3, <3>4
  <2>10. ASSUME NEW o \in Objs, Wake(o) \/ FailWaiter(o) \/ BackoffOver(o)
         PROVE  NoLostWakeup'
    BY <2>10 DEF Wake, FailWaiter, BackoffOver, Close, NoLostWakeup
  <2>11. CASE UNCHANGED vars
    BY <2>1, <2>11 DEF vars
  <2>12. QED
    BY <2>2, <2>3, <2>4, <2>5, <2>6, <2>7, <2>8, <2>9, <2>10, <2>11
       DEF Next, Submit, Supervisor, LLM
<1>3. QED
  BY <1>1, <1>2, Invariance, PTL DEF Spec

-------------------------------------------------------------------------------
(* The events about a task are a stream of attempts. *)

\* Two threads send what the stream promises: each step says nothing, or one thing
\* that the stream allows.
LEMMA StepInStream ==
    ASSUME IInv, Next
    PROVE  Stream!Next \/ UNCHANGED sent
<1> USE DEF IInv
<1>1. ASSUME NEW o \in Objs, RejectTask(o) PROVE Stream!FailWaiting(o)
  <2>1. sent[o].kind = "none" /\ sent[o].n = 0 /\ sent' = [sent EXCEPT ![o] = Sent("exception", 0, TRUE)]
    BY <1>1, NoPlaceYet DEF RejectTask
  <2>2. QED
    BY <2>1 DEF Stream!FailWaiting, Stream!Say, Sent
<1>2. ASSUME SubFlush, sub.out # <<>> PROVE Stream!Next
  <2>1. PICK e : e = Head(sub.out)
    OBVIOUS
  <2>2. e \in ToSet(sub.out) /\ e.obj \in Objs
    BY <1>2, <2>1, FirstOut, Due DEF Outboxes, TypeOK
  <2>3. Announced(e) /\ sent' = [sent EXCEPT ![e.obj] = Sent(e.kind, e.attempt, TRUE)]
    BY <1>2, <2>1, <2>2 DEF Outboxes, SubFlush
  <2>4. Stream!Start(e.obj) \/ Stream!FailWaiting(e.obj)
    <3>1. CASE e.kind = "start"
      BY <2>3, <3>1 DEF Announced, Sent, Stream!Start, Stream!Say
    <3>2. CASE e.kind = "exception"
      BY <2>3, <3>2 DEF Announced, Sent, Stream!FailWaiting, Stream!Say
    <3>3. QED
      BY <2>3, <3>1, <3>2 DEF Announced
  <2>5. QED
    BY <2>2, <2>4 DEF Stream!Next
<1>3. ASSUME SupFlush, sup.out # <<>> PROVE Stream!Next
  <2>1. PICK e : e = Head(sup.out)
    OBVIOUS
  <2>2. e \in ToSet(sup.out) /\ e.obj \in Objs
    BY <1>3, <2>1, FirstOut, Due DEF Outboxes, TypeOK
  <2>3. Reported(e) /\ sent' = [sent EXCEPT ![e.obj] = Sent(e.kind, e.attempt, TRUE)]
    BY <1>3, <2>1, <2>2 DEF Outboxes, SupFlush
  <2>4. /\ sent[e.obj].kind = "start" /\ sent[e.obj].n = attempt[e.obj]
        /\ e.attempt = attempt[e.obj]
    BY <2>3, LastEvent DEF Reported
  <2>5. Stream!Retry(e.obj) \/ Stream!Finish(e.obj) \/ Stream!Fail(e.obj)
    <3>1. CASE e.kind = "retry"
      BY <2>3, <2>4, <3>1 DEF Reported, Sent, Stream!Retry, Stream!Say
    <3>2. CASE e.kind = "finish"
      BY <2>3, <2>4, <3>2 DEF Sent, Stream!Finish, Stream!Say
    <3>3. CASE e.kind = "exception"
      BY <2>3, <2>4, <3>3 DEF Sent, Stream!Fail, Stream!Say
    <3>4. QED
      BY <2>3, <3>1, <3>2, <3>3 DEF Reported
  <2>6. QED
    BY <2>2, <2>5 DEF Stream!Next
<1>4. ASSUME NEW o \in Objs, FailWaiter(o) PROVE Stream!FailWaiting(o) \/ UNCHANGED sent
  <2>1. /\ Between(o) /\ sent[o].kind \in {"none", "retry"} /\ sent[o].n = attempt[o]
        /\ attempt[o] \in 0..MaxRetries
    BY <1>4, Waits DEF FailWaiter
  <2>2. CASE UNCHANGED sent
    BY <2>2
  <2>3. CASE sent' = [sent EXCEPT ![o] = Sent("exception", attempt[o], attempt[o] = 0)]
    <3>1. CASE attempt[o] = 0
      BY <2>1, <2>3, <3>1 DEF Sent, Stream!FailWaiting, Stream!Say
    <3>2. CASE attempt[o] # 0
      <4>1. sent[o].kind = "retry"
        BY <2>1, <3>2 DEF Between, Sent
      <4>2. QED
        BY <2>1, <2>3, <3>2, <4>1 DEF Sent, Stream!FailWaiting, Stream!Say
    <3>3. QED
      BY <3>1, <3>2
  <2>4. QED
    BY <1>4, <2>2, <2>3 DEF FailWaiter
<1>5. CASE Receive
  <2>1. ASSUME NEW w \in Workflows, StopWorkflow(w) \/ ClearWorkflow(w) PROVE UNCHANGED sent
    BY <2>1 DEF StopWorkflow, ClearWorkflow
  <2>2. ASSUME NEW o \in Objs, RunTask(o) PROVE UNCHANGED sent
    BY <2>2 DEF RunTask
  <2>3. QED
    BY <1>1, <1>5, <2>1, <2>2 DEF Receive, Stream!Next
<1>6. CASE Submit
  <2>1. SubFlush /\ sub.out = <<>> => UNCHANGED sent
    BY DEF SubFlush
  <2>2. SubPeek => UNCHANGED sent
    BY DEF SubPeek
  <2>3. ASSUME NEW o \in Objs, \/ SubDropStopped(o) \/ SubReject(o) \/ SubRouteMiss(o)
                               \/ SubPark(o) \/ SubDropDuplicate(o) \/ SubDispatch(o)
                               \/ SubLaunchFails(o) \/ SubPending(o)
        PROVE  UNCHANGED sent
    BY <2>3 DEF SubDropStopped, SubReject, SubRouteMiss, SubPark, SubDropDuplicate, SubDispatch,
       SubLaunchFails, SubPending
  <2>4. QED
    BY <1>2, <1>6, <2>1, <2>2, <2>3 DEF Submit
<1>7. CASE Supervisor
  <2>1. SupFlush /\ sup.out = <<>> => UNCHANGED sent
    BY DEF SupFlush
  <2>2. SupBegin \/ SupScan \/ SupCollect \/ SupRelease => UNCHANGED sent
    BY DEF SupBegin, SupScan, SupCollect, SupRelease
  <2>3. ASSUME NEW o \in Objs, \/ SupRecovered(o) \/ SupTimeout(o) \/ SupSkip(o) \/ SupFinish(o)
                               \/ SupFail(o) \/ SupMark(o) \/ SupRetry(o) \/ SupRecover(o)
                               \/ SupRecoveryRefused(o)
        PROVE  UNCHANGED sent
    BY <2>3 DEF SupRecovered, SupTimeout, SupSkip, SupFinish, SupFail, SupMark, SupRetry,
       SupRecover, SupRecoveryRefused
  <2>4. ASSUME NEW o \in Objs, NEW isTask \in BOOLEAN, SupCleanupFails(o, isTask)
        PROVE  UNCHANGED sent
    BY <2>4 DEF SupCleanupFails
  <2>5. QED
    BY <1>3, <1>7, <2>1, <2>2, <2>3, <2>4 DEF Supervisor
<1>8. CASE LLM \/ \E o \in Objs : BackoffOver(o)
  <2>1. ModelReady \/ ModelLost \/ WakeDone \/ PopWaiters \/ FailLock \/ FailUnlock => UNCHANGED sent
    BY DEF ModelReady, ModelLost, WakeDone, PopWaiters, FailLock, FailUnlock
  <2>2. ASSUME NEW o \in Objs, Wake(o) \/ BackoffOver(o) PROVE UNCHANGED sent
    BY <2>2 DEF Wake, BackoffOver
  <2>3. QED
    BY <1>4, <1>8, <2>1, <2>2 DEF LLM, Stream!Next
<1>9. QED
  BY <1>5, <1>6, <1>7, <1>8 DEF Next

\* The events about a task are a stream of attempts, in order, without a gap and
\* with nothing after the end, although two threads send them.
THEOREM StreamKept == Spec => EventsInOrder
<1>1. Init => Stream!Init
  BY DEF Init, Stream!Init, Sent
<1>2. IInv /\ [Next]_vars => [Stream!Next]_sent
  BY StepInStream DEF vars
<1>3. QED
  BY <1>1, <1>2, Invariance, PTL DEF Spec, EventsInOrder, Stream!Spec
===============================================================================
