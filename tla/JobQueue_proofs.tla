-------------------------- MODULE JobQueue_proofs --------------------------
(***************************************************************************)
(* Facts about the queue operations that the proofs of the pipeline cite:  *)
(* every operation keeps the queues well typed, keeps every job that the   *)
(* worker can still run inside a given set of jobs, and, except for a      *)
(* push, makes no second copy of a job, wherever in the list, the backoff, *)
(* the retry set or the hands of a loop the first one is.                  *)
(***************************************************************************)
EXTENDS JobQueue, TLAPS

\* A job that is pushed for the first time is an entry.
LEMMA NewEntry ==
    ASSUME NEW j \in Job
    PROVE  [job |-> j, retries |-> 0] \in Entry
BY QueueAssumption DEF Entry

\* A job that is put to sleep has been tried at most MaxJobRetries times.
LEMMA RetriedEntry ==
    ASSUME NEW e \in Entry, MayRetry(e)
    PROVE  Retried(e) \in Entry
BY QueueAssumption DEF Entry, MayRetry, Retried

\* The follow-up job of a payment is a job.
LEMMA FollowUpJob ==
    ASSUME NEW p \in Payments
    PROVE  FollowUp(p) \in Job
BY DEF FollowUp, Job, FinalStatus

\* Enqueue keeps the types.
LEMMA PushType ==
    ASSUME QueueTypeOK, NEW q \in Queues, NEW j \in Job, Push(q, j)
    PROVE  QueueTypeOK'
<1>1. [job |-> j, retries |-> 0] \in Entry
  BY NewEntry
<1>2. queue' \in [Queues -> Seq(Entry)]
  BY <1>1 DEF QueueTypeOK, Push
<1> QED
  BY <1>2 DEF QueueTypeOK, Push

\* BRPOP keeps the types.
LEMMA PopType ==
    ASSUME QueueTypeOK, NEW q \in Queues, Pop(q)
    PROVE  QueueTypeOK' /\ hand'[q] \in Entry
<1>1. queue[q] \in Seq(Entry) /\ queue[q] # <<>>
  BY DEF QueueTypeOK, Pop
<1>2. Head(queue[q]) \in Entry /\ Tail(queue[q]) \in Seq(Entry)
  BY <1>1
<1> QED
  BY <1>2 DEF QueueTypeOK, Pop

\* A handler that returns keeps the types.
LEMMA ReturnType ==
    ASSUME QueueTypeOK, NEW q \in Queues, Return(q)
    PROVE  QueueTypeOK'
BY DEF QueueTypeOK, Return

\* requeueOrDead keeps the types.
LEMMA RequeueType ==
    ASSUME QueueTypeOK, NEW q \in Queues, hand[q] # Nil, Requeue(q)
    PROVE  QueueTypeOK'
<1> DEFINE e == hand[q]
<1>1. e \in Entry
  BY DEF QueueTypeOK
<1>2. e.job \in Job
  BY <1>1 DEF Entry
<1>3. CASE MayRetry(e)
  <2>1. Retried(e) \in Entry
    BY <1>1, <1>3, RetriedEntry
  <2>2. backoff' = [backoff EXCEPT ![q][Retried(e)] = @ + 1]
    BY <1>3 DEF Requeue
  <2>3. backoff' \in [Queues -> [Entry -> Nat]]
    BY <2>1, <2>2 DEF QueueTypeOK
  <2> QED
    BY <1>3, <2>3 DEF QueueTypeOK, Requeue
<1>4. CASE ~MayRetry(e)
  BY <1>2, <1>4 DEF QueueTypeOK, Requeue, Bury
<1> QED
  BY <1>3, <1>4

\* A backoff that ends, with or without its push, keeps the types.
LEMMA WakeType ==
    ASSUME QueueTypeOK, NEW q \in Queues, NEW e \in Entry,
           Wake(q, e) \/ WakeLost(q, e)
    PROVE  QueueTypeOK'
<1>1. backoff' = [backoff EXCEPT ![q][e] = @ - 1] /\ backoff[q][e] > 0
  BY DEF Wake, WakeLost
<1>2. backoff' \in [Queues -> [Entry -> Nat]]
  BY <1>1 DEF QueueTypeOK
<1>3. queue' \in [Queues -> Seq(Entry)]
  <2>1. CASE Wake(q, e)
    <3>1. Append(queue[q], e) \in Seq(Entry)
      BY DEF QueueTypeOK
    <3> QED
      BY <2>1, <3>1 DEF QueueTypeOK, Wake
  <2>2. CASE WakeLost(q, e)
    BY <2>2 DEF QueueTypeOK, WakeLost
  <2> QED
    BY <2>1, <2>2
<1> QED
  BY <1>2, <1>3 DEF QueueTypeOK, Wake, WakeLost

\* A stop of the worker keeps the types of what it touches.
LEMMA WorkerStopsType ==
    ASSUME QueueTypeOK, queue' \in [Queues -> Seq(Entry)], WorkerStops
    PROVE  QueueTypeOK'
BY DEF QueueTypeOK, WorkerStops

-----------------------------------------------------------------------------
\* Every job that is listed, in a handler or asleep belongs to S.
JobsIn(S) ==
    \A q \in Queues :
        /\ \A i \in DOMAIN queue[q] : queue[q][i].job \in S
        /\ hand[q] # Nil => hand[q].job \in S
        /\ \A e \in Entry : backoff[q][e] > 0 => e.job \in S

\* Appending an entry adds its job and no other to a list.
LEMMA AppendJobs ==
    ASSUME QueueTypeOK, NEW q \in Queues, NEW e \in Entry,
           NEW i \in DOMAIN Append(queue[q], e)
    PROVE  \/ i \in DOMAIN queue[q] /\ Append(queue[q], e)[i] = queue[q][i]
           \/ Append(queue[q], e)[i] = e
<1>1. queue[q] \in Seq(Entry)
  BY DEF QueueTypeOK
<1> QED
  BY <1>1

\* Enqueue adds the job it pushes and no other.
LEMMA PushJobs ==
    ASSUME QueueTypeOK, NEW S, JobsIn(S), NEW q \in Queues, NEW j \in Job \cap S,
           Push(q, j)
    PROVE  JobsIn(S)'
<1> DEFINE e == [job |-> j, retries |-> 0]
<1>1. e \in Entry
  BY NewEntry
<1>2. queue' = [queue EXCEPT ![q] = Append(@, e)]
  BY DEF Push
<1>3. ASSUME NEW r \in Queues, NEW i \in DOMAIN queue'[r]
      PROVE  queue'[r][i].job \in S
  <2>1. CASE r = q
    <3>1. queue'[r] = Append(queue[q], e)
      BY <1>2, <2>1 DEF QueueTypeOK
    <3>2. \/ i \in DOMAIN queue[q] /\ queue'[r][i] = queue[q][i]
          \/ queue'[r][i] = e
      BY <1>1, <1>3, <3>1, AppendJobs
    <3> QED
      BY <3>2 DEF JobsIn
  <2>2. CASE r # q
    BY <1>2, <1>3, <2>2 DEF QueueTypeOK, JobsIn
  <2> QED
    BY <2>1, <2>2
<1> QED
  BY <1>3 DEF JobsIn, Push

\* BRPOP moves a job from the list into the handler.
LEMMA PopJobs ==
    ASSUME QueueTypeOK, NEW S, JobsIn(S), NEW q \in Queues, Pop(q)
    PROVE  JobsIn(S)'
<1>1. queue[q] \in Seq(Entry) /\ queue[q] # <<>>
  BY DEF QueueTypeOK, Pop
<1>2. hand' = [hand EXCEPT ![q] = queue[q][1]] /\ 1 \in DOMAIN queue[q]
  BY <1>1 DEF Pop
<1>3. ASSUME NEW i \in DOMAIN Tail(queue[q])
      PROVE  i + 1 \in DOMAIN queue[q] /\ Tail(queue[q])[i] = queue[q][i + 1]
  BY <1>1, <1>3
<1>4. \A r \in Queues : \A i \in DOMAIN queue'[r] : queue'[r][i].job \in S
  <2> SUFFICES ASSUME NEW r \in Queues, NEW i \in DOMAIN queue'[r]
               PROVE  queue'[r][i].job \in S
    OBVIOUS
  <2>1. CASE r = q
    <3>1. queue'[r] = Tail(queue[q])
      BY <2>1 DEF Pop, QueueTypeOK
    <3> QED
      BY <1>3, <3>1 DEF JobsIn
  <2>2. CASE r # q
    BY <2>2 DEF Pop, QueueTypeOK, JobsIn
  <2> QED
    BY <2>1, <2>2
<1>5. \A r \in Queues : hand'[r] # Nil => hand'[r].job \in S
  BY <1>2 DEF JobsIn, QueueTypeOK
<1> QED
  BY <1>4, <1>5 DEF JobsIn, Pop

\* A handler that returns forgets its job.
LEMMA ReturnJobs ==
    ASSUME QueueTypeOK, NEW S, JobsIn(S), NEW q \in Queues, Return(q)
    PROVE  JobsIn(S)'
BY DEF JobsIn, Return, QueueTypeOK

\* A failed job sleeps under its own name.
LEMMA RequeueJobs ==
    ASSUME QueueTypeOK, NEW S, JobsIn(S), NEW q \in Queues, hand[q] # Nil,
           Requeue(q)
    PROVE  JobsIn(S)'
<1> DEFINE e == hand[q]
<1>1. e \in Entry /\ e.job \in S
  BY DEF QueueTypeOK, JobsIn
<1>2. ASSUME NEW r \in Queues, NEW d \in Entry, backoff'[r][d] > 0
      PROVE  d.job \in S
  <2>1. CASE MayRetry(e)
    <3>1. Retried(e) \in Entry /\ Retried(e).job = e.job
      BY <1>1, <2>1, RetriedEntry DEF Retried, Entry
    <3>2. backoff' = [backoff EXCEPT ![q][Retried(e)] = @ + 1]
      BY <2>1 DEF Requeue
    <3> QED
      BY <1>1, <1>2, <3>1, <3>2 DEF QueueTypeOK, JobsIn
  <2>2. CASE ~MayRetry(e)
    BY <1>2, <2>2 DEF Requeue, JobsIn
  <2> QED
    BY <2>1, <2>2
<1> QED
  BY <1>2 DEF JobsIn, Requeue, QueueTypeOK

\* A job that wakes is pushed under its own name, or is lost.
LEMMA WakeJobs ==
    ASSUME QueueTypeOK, NEW S, JobsIn(S), NEW q \in Queues, NEW e \in Entry,
           Wake(q, e) \/ WakeLost(q, e)
    PROVE  JobsIn(S)'
<1>1. backoff' = [backoff EXCEPT ![q][e] = @ - 1] /\ backoff[q][e] > 0
  BY DEF Wake, WakeLost
<1>2. \A r \in Queues, d \in Entry : backoff'[r][d] > 0 => backoff[r][d] > 0
  BY <1>1 DEF QueueTypeOK
<1>3. e.job \in S
  BY <1>1 DEF JobsIn
<1>4. ASSUME NEW r \in Queues, NEW i \in DOMAIN queue'[r]
      PROVE  queue'[r][i].job \in S
  <2>1. CASE WakeLost(q, e) \/ r # q
    BY <1>4, <2>1 DEF Wake, WakeLost, QueueTypeOK, JobsIn
  <2>2. CASE Wake(q, e) /\ r = q
    <3>1. queue'[r] = Append(queue[q], e)
      BY <2>2 DEF Wake, QueueTypeOK
    <3>2. \/ i \in DOMAIN queue[q] /\ queue'[r][i] = queue[q][i]
          \/ queue'[r][i] = e
      BY <1>4, <3>1, AppendJobs
    <3> QED
      BY <1>3, <3>2 DEF JobsIn
  <2> QED
    BY <2>1, <2>2
<1> QED
  BY <1>2, <1>4 DEF JobsIn, Wake, WakeLost

-----------------------------------------------------------------------------
(* Copies of a job.                                                        *)

\* An entry of a queue that waits to be popped, in the list or asleep.
Waits(q, e) == (\E i \in DOMAIN queue[q] : queue[q][i] = e) \/ backoff[q][e] > 0

\* There is at most one copy of j in q, wherever it is.
ListedOnce(q, j) ==
    \A i, k \in DOMAIN queue[q] : queue[q][i].job = j /\ queue[q][k].job = j => i = k
SleepsOnce(q, j) ==
    \A e, f \in Entry :
        e.job = j /\ f.job = j /\ backoff[q][e] > 0 /\ backoff[q][f] > 0
            => e = f /\ backoff[q][e] = 1

Alone(q, j) ==
    /\ ListedOnce(q, j) /\ SleepsOnce(q, j)
    /\ ~(Listed(q, j) /\ InHand(q, j))
    /\ ~(Listed(q, j) /\ Sleeping(q, j))
    /\ ~(InHand(q, j) /\ Sleeping(q, j))

\* Nil is no entry.
LEMMA NilIsNoEntry == Nil \notin Entry
BY QueueAssumption DEF Entry, Job, FinalStatus

\* What belongs to a queue in a typed state.
LEMMA QueueAt ==
    ASSUME QueueTypeOK, NEW q \in Queues
    PROVE  /\ queue[q] \in Seq(Entry)
           /\ hand[q] \in Entry \cup {Nil}
           /\ backoff[q] \in [Entry -> Nat]
           /\ DOMAIN queue[q] = 1..Len(queue[q]) /\ Len(queue[q]) \in Nat
BY DEF QueueTypeOK

\* Whoever waits or is in a handler is alive, and nobody else.
LEMMA AliveMeans ==
    ASSUME QueueTypeOK, NEW q \in Queues, NEW j
    PROVE  Alive(q, j) <=> InHand(q, j) \/ \E e \in Entry : Waits(q, e) /\ e.job = j
<1>1. \A i \in DOMAIN queue[q] : queue[q][i] \in Entry
  BY QueueAt
<1> QED
  BY <1>1 DEF Alive, Listed, Sleeping, Waits

\* A queue whose list, handler and backoffs stand still.
LEMMA QueueStill ==
    ASSUME NEW q \in Queues, queue'[q] = queue[q], hand'[q] = hand[q], backoff'[q] = backoff[q]
    PROVE  /\ \A j : /\ Alive(q, j)' <=> Alive(q, j)
                     /\ InHand(q, j)' <=> InHand(q, j)
                     /\ Alone(q, j)' <=> Alone(q, j)
           /\ \A e : Waits(q, e)' <=> Waits(q, e)
BY DEF Alive, Listed, InHand, Sleeping, Alone, ListedOnce, SleepsOnce, Waits

\* A push adds one copy of the job it pushes, and no other.
LEMMA AppendCopies ==
    ASSUME QueueTypeOK, NEW q \in Queues, NEW e \in Entry,
           queue'[q] = Append(queue[q], e), hand'[q] = hand[q], backoff'[q] = backoff[q]
    PROVE  /\ \A f \in Entry : Waits(q, f)' => Waits(q, f) \/ f = e
           /\ \A j : Alive(q, j)' <=> Alive(q, j) \/ j = e.job
           /\ \A j : Alone(q, j) /\ j # e.job => Alone(q, j)'
           /\ ~Alive(q, e.job) => Alone(q, e.job)'
<1> DEFINE n == Len(queue[q]) + 1
<1>1. /\ queue[q] \in Seq(Entry) /\ DOMAIN queue[q] = 1..Len(queue[q]) /\ Len(queue[q]) \in Nat
      /\ n \notin DOMAIN queue[q]
  BY QueueAt
<1>2. /\ DOMAIN queue'[q] = DOMAIN queue[q] \cup {n}
      /\ queue'[q][n] = e
      /\ \A i \in DOMAIN queue[q] : queue'[q][i] = queue[q][i]
  BY <1>1
<1> HIDE DEF n
<1>3. \A f \in Entry : Waits(q, f)' => Waits(q, f) \/ f = e
  BY <1>2 DEF Waits
<1>4. \A j : /\ Listed(q, j)' <=> Listed(q, j) \/ j = e.job
             /\ InHand(q, j)' <=> InHand(q, j)
             /\ Sleeping(q, j)' <=> Sleeping(q, j)
             /\ SleepsOnce(q, j)' <=> SleepsOnce(q, j)
  BY <1>2 DEF Listed, InHand, Sleeping, SleepsOnce
<1>5. \A j : ListedOnce(q, j) /\ j # e.job => ListedOnce(q, j)'
  BY <1>2 DEF ListedOnce
<1>6. ~Listed(q, e.job) => ListedOnce(q, e.job)'
  BY <1>2 DEF ListedOnce, Listed
<1>7. ~Sleeping(q, e.job) => SleepsOnce(q, e.job)
  BY DEF Sleeping, SleepsOnce
<1> QED
  BY <1>3, <1>4, <1>5, <1>6, <1>7 DEF Alive, Alone

\* BRPOP takes an entry that waited and leaves the others.
LEMMA PopCopies ==
    ASSUME QueueTypeOK, NEW q \in Queues, Pop(q)
    PROVE  /\ hand'[q] \in Entry /\ hand'[q] # Nil /\ Waits(q, hand'[q])
           /\ \A f \in Entry : Waits(q, f)' => Waits(q, f)
           /\ \A j : Alive(q, j)' <=> Alive(q, j)
           /\ \A j : Alone(q, j) => Alone(q, j)'
<1> DEFINE s == queue[q]
           t == queue'[q]
<1>1. s \in Seq(Entry) /\ s # <<>> /\ DOMAIN s = 1..Len(s) /\ Len(s) \in Nat
  BY QueueAt DEF Pop
<1>2. /\ t = Tail(s) /\ hand[q] = Nil /\ hand'[q] = s[1] /\ backoff'[q] = backoff[q]
  BY <1>1 DEF Pop, QueueTypeOK
<1>3. /\ 1 \in DOMAIN s /\ s[1] \in Entry
      /\ \A i \in DOMAIN t : i \in Nat /\ i + 1 # 1 /\ i + 1 \in DOMAIN s /\ t[i] = s[i + 1]
      /\ \A i \in DOMAIN s : i = 1 \/ (i - 1 \in DOMAIN t /\ t[i - 1] = s[i])
  BY <1>1, <1>2
<1>4. s[1] # Nil
  BY <1>3, NilIsNoEntry
<1> HIDE DEF s, t
<1>5. \A j : /\ Listed(q, j) <=> \E i \in DOMAIN s : s[i].job = j
             /\ Listed(q, j)' <=> \E i \in DOMAIN t : t[i].job = j
             /\ ListedOnce(q, j) <=> \A i, k \in DOMAIN s : s[i].job = j /\ s[k].job = j => i = k
             /\ ListedOnce(q, j)' <=> \A i, k \in DOMAIN t : t[i].job = j /\ t[k].job = j => i = k
  BY DEF s, t, Listed, ListedOnce
<1>6. \A j : Listed(q, j)' => Listed(q, j)
  BY <1>3, <1>5
<1>7. \A j : Listed(q, j) <=> Listed(q, j)' \/ InHand(q, j)'
  <2> SUFFICES ASSUME NEW j
               PROVE  Listed(q, j) <=> Listed(q, j)' \/ InHand(q, j)'
    OBVIOUS
  <2>1. InHand(q, j)' <=> s[1].job = j
    BY <1>2, <1>4 DEF InHand
  <2>2. CASE Listed(q, j)
    <3>1. PICK i \in DOMAIN s : s[i].job = j
      BY <1>5, <2>2
    <3>2. CASE i = 1
      BY <2>1, <2>2, <3>1, <3>2
    <3>3. CASE i # 1
      <4>1. i - 1 \in DOMAIN t /\ t[i - 1].job = j
        BY <1>3, <3>1, <3>3
      <4> QED
        BY <1>5, <2>2, <4>1
    <3> QED
      BY <3>2, <3>3
  <2>3. CASE InHand(q, j)'
    BY <1>3, <1>5, <2>1, <2>3
  <2> QED
    BY <1>6, <2>2, <2>3
<1>8. \A j : ListedOnce(q, j) => ListedOnce(q, j)'
  <2> SUFFICES ASSUME NEW j, ListedOnce(q, j), NEW i \in DOMAIN t, NEW k \in DOMAIN t,
                      t[i].job = j, t[k].job = j
               PROVE  i = k
    BY <1>5
  <2>1. i + 1 = k + 1 /\ i \in Nat /\ k \in Nat
    BY <1>3, <1>5
  <2> QED
    BY <2>1
<1>9. \A j : ListedOnce(q, j) => ~(Listed(q, j)' /\ InHand(q, j)')
  <2> SUFFICES ASSUME NEW j, ListedOnce(q, j), s[1].job = j, NEW i \in DOMAIN t, t[i].job = j
               PROVE  FALSE
    BY <1>2, <1>5 DEF InHand
  <2>1. i + 1 \in DOMAIN s /\ s[i + 1].job = j /\ i + 1 # 1
    BY <1>3
  <2> QED
    BY <1>3, <1>5, <2>1
<1>10. \A j : /\ Sleeping(q, j)' <=> Sleeping(q, j)
              /\ SleepsOnce(q, j)' <=> SleepsOnce(q, j)
              /\ ~InHand(q, j)
  BY <1>2 DEF Sleeping, SleepsOnce, InHand
<1>11. \A f \in Entry : Waits(q, f)' => Waits(q, f)
  BY <1>2, <1>3 DEF Waits, s, t
<1>12. Waits(q, hand'[q])
  BY <1>2, <1>3 DEF Waits, s
<1>13. \A j : Alone(q, j) => Alone(q, j)'
  BY <1>6, <1>7, <1>8, <1>9, <1>10 DEF Alone
<1> QED
  BY <1>2, <1>3, <1>4, <1>7, <1>10, <1>11, <1>12, <1>13 DEF Alive

\* A handler that returns gives up the copy in its hands.
LEMMA ReturnCopies ==
    ASSUME QueueTypeOK, NEW q \in Queues, hand[q] # Nil, Return(q)
    PROVE  /\ hand'[q] = Nil
           /\ \A f \in Entry : Waits(q, f)' <=> Waits(q, f)
           /\ \A j : Alive(q, j)' => Alive(q, j)
           /\ \A j : Alive(q, j) /\ j # hand[q].job => Alive(q, j)'
           /\ \A j : Alone(q, j) => Alone(q, j)'
           /\ \A j : Alone(q, j) /\ j = hand[q].job => ~Alive(q, j)'
<1>1. hand'[q] = Nil /\ UNCHANGED <<queue, backoff>>
  BY DEF Return, QueueTypeOK
<1>2. \A j : /\ Listed(q, j)' <=> Listed(q, j)
             /\ Sleeping(q, j)' <=> Sleeping(q, j)
             /\ ListedOnce(q, j)' <=> ListedOnce(q, j)
             /\ SleepsOnce(q, j)' <=> SleepsOnce(q, j)
             /\ ~InHand(q, j)'
  BY <1>1 DEF Listed, Sleeping, ListedOnce, SleepsOnce, InHand
<1>3. InHand(q, hand[q].job) /\ \A j : InHand(q, j) => j = hand[q].job
  BY DEF InHand
<1>4. \A f \in Entry : Waits(q, f)' <=> Waits(q, f)
  BY <1>1 DEF Waits
<1>5. ASSUME NEW j
      PROVE  /\ Alive(q, j)' => Alive(q, j)
             /\ Alive(q, j) /\ j # hand[q].job => Alive(q, j)'
             /\ Alone(q, j) => Alone(q, j)'
  <2>1. InHand(q, j) => j = hand[q].job
    BY <1>3
  <2>2. /\ Listed(q, j)' <=> Listed(q, j)
        /\ Sleeping(q, j)' <=> Sleeping(q, j)
        /\ ListedOnce(q, j)' <=> ListedOnce(q, j)
        /\ SleepsOnce(q, j)' <=> SleepsOnce(q, j)
        /\ ~InHand(q, j)'
    BY <1>2
  <2> QED
    BY <2>1, <2>2 DEF Alive, Alone
<1>6. ASSUME NEW j, Alone(q, j), j = hand[q].job
      PROVE  ~Alive(q, j)'
  <2>1. /\ Listed(q, j)' <=> Listed(q, j)
        /\ Sleeping(q, j)' <=> Sleeping(q, j)
        /\ ~InHand(q, j)'
    BY <1>2
  <2>2. InHand(q, j)
    BY <1>3, <1>6
  <2> QED
    BY <1>6, <2>1, <2>2 DEF Alive, Alone
<1> QED
  BY <1>1, <1>4, <1>5, <1>6

\* A handler that fails puts the copy in its hands to sleep, one attempt older,
\* or buries it.
LEMMA RequeueCopies ==
    ASSUME QueueTypeOK, NEW q \in Queues, hand[q] # Nil, Requeue(q)
    PROVE  /\ hand'[q] = Nil
           /\ \A f \in Entry : Waits(q, f)' => \/ Waits(q, f)
                                               \/ (MayRetry(hand[q]) /\ f = Retried(hand[q]))
           /\ \A j : Alive(q, j)' => Alive(q, j)
           /\ \A j : Alive(q, j) => Alive(q, j)' \/ j \in dead'[q]
           /\ \A j : Alone(q, j) => Alone(q, j)'
<1> DEFINE h == hand[q]
           r == Retried(h)
<1>1. h \in Entry /\ backoff[q] \in [Entry -> Nat]
  BY QueueAt
<1>2. hand'[q] = Nil /\ queue' = queue
  BY DEF Requeue, QueueTypeOK
<1>3. \A j : /\ Listed(q, j)' <=> Listed(q, j)
             /\ ListedOnce(q, j)' <=> ListedOnce(q, j)
             /\ ~InHand(q, j)'
             /\ InHand(q, j) <=> j = h.job
  BY <1>2 DEF Listed, ListedOnce, InHand
<1>4. CASE MayRetry(h)
  <2>1. r \in Entry /\ r.job = h.job
    BY <1>1, <1>4, RetriedEntry DEF Retried, Entry
  <2>2. /\ backoff'[q][r] = backoff[q][r] + 1
        /\ \A f \in Entry \ {r} : backoff'[q][f] = backoff[q][f]
    BY <1>4, <2>1 DEF Requeue, QueueTypeOK
  <2> HIDE DEF r
  <2>3. \A f \in Entry : Waits(q, f)' => Waits(q, f) \/ f = r
    BY <1>2, <2>2 DEF Waits
  <2>4. \A j : Sleeping(q, j)' <=> Sleeping(q, j) \/ j = h.job
    <3>1. backoff'[q][r] > 0
      BY <1>1, <2>1, <2>2
    <3> QED
      BY <2>1, <2>2, <3>1 DEF Sleeping
  <2>5. \A j : j # h.job /\ SleepsOnce(q, j) => SleepsOnce(q, j)'
    BY <2>1, <2>2 DEF SleepsOnce
  <2>6. ASSUME NEW j, j = h.job, ~Sleeping(q, j)
        PROVE  SleepsOnce(q, j)'
    <3>1. ASSUME NEW f \in Entry, f.job = j, backoff'[q][f] > 0
          PROVE  f = r /\ backoff'[q][f] = 1
      <4>1. f = r
        BY <2>2, <2>6, <3>1 DEF Sleeping
      <4>2. ~(backoff[q][r] > 0) /\ backoff[q][r] \in Nat
        BY <1>1, <2>1, <2>6 DEF Sleeping
      <4> QED
        BY <2>2, <4>1, <4>2
    <3> QED
      BY <3>1 DEF SleepsOnce
  <2>7. ASSUME NEW j, Alone(q, j)
        PROVE  Alone(q, j)'
    <3>1. /\ Listed(q, j)' <=> Listed(q, j)
          /\ ListedOnce(q, j)' <=> ListedOnce(q, j)
          /\ ~InHand(q, j)'
          /\ InHand(q, j) <=> j = h.job
      BY <1>3
    <3>2. Sleeping(q, j)' <=> Sleeping(q, j) \/ j = h.job
      BY <2>4
    <3>3. SleepsOnce(q, j)'
      <4>1. CASE j = h.job
        <5>1. ~Sleeping(q, j)
          BY <2>7, <3>1, <4>1 DEF Alone
        <5> QED
          BY <2>6, <4>1, <5>1
      <4>2. CASE j # h.job
        BY <2>5, <2>7, <4>2 DEF Alone
      <4> QED
        BY <4>1, <4>2
    <3> QED
      BY <2>7, <3>1, <3>2, <3>3 DEF Alone
  <2>8. ASSUME NEW j
        PROVE  Alive(q, j)' <=> Alive(q, j)
    <3>1. /\ Listed(q, j)' <=> Listed(q, j)
          /\ ~InHand(q, j)'
          /\ InHand(q, j) <=> j = h.job
      BY <1>3
    <3>2. Sleeping(q, j)' <=> Sleeping(q, j) \/ j = h.job
      BY <2>4
    <3> QED
      BY <3>1, <3>2 DEF Alive
  <2>9. \A f \in Entry : Waits(q, f)' => Waits(q, f) \/ (MayRetry(h) /\ f = Retried(h))
    BY <1>4, <2>3 DEF r
  <2> QED
    BY <1>2, <2>7, <2>8, <2>9
<1>5. CASE ~MayRetry(h)
  <2>1. backoff' = backoff /\ h.job \in dead'[q]
    BY <1>5 DEF Requeue, Bury, QueueTypeOK
  <2>2. \A j : /\ Sleeping(q, j)' <=> Sleeping(q, j)
               /\ SleepsOnce(q, j)' <=> SleepsOnce(q, j)
    BY <2>1 DEF Sleeping, SleepsOnce
  <2>3. \A f \in Entry : Waits(q, f)' <=> Waits(q, f)
    BY <1>2, <2>1 DEF Waits
  <2>4. ASSUME NEW j
        PROVE  /\ Alive(q, j)' => Alive(q, j)
               /\ Alive(q, j) => Alive(q, j)' \/ j = h.job
               /\ Alone(q, j) => Alone(q, j)'
    BY <1>3, <2>2, Zenon DEF Alive, Alone
  <2> QED
    BY <1>2, <2>1, <2>3, <2>4
<1> QED
  BY <1>4, <1>5

\* What the end of a backoff does to the sleeping copies.
LEMMA RousedCopies ==
    ASSUME QueueTypeOK, NEW q \in Queues, NEW e \in Entry,
           Wake(q, e) \/ WakeLost(q, e)
    PROVE  /\ Sleeping(q, e.job)
           /\ \A f \in Entry : backoff'[q][f] > 0 => backoff[q][f] > 0
           /\ \A j : Sleeping(q, j)' => Sleeping(q, j)
           /\ \A j : j # e.job => (Sleeping(q, j)' <=> Sleeping(q, j))
           /\ \A j : SleepsOnce(q, j) => SleepsOnce(q, j)'
           /\ \A j : j = e.job /\ SleepsOnce(q, j) => ~Sleeping(q, j)'
<1>1. /\ backoff[q] \in [Entry -> Nat] /\ backoff[q][e] > 0
      /\ backoff'[q][e] = backoff[q][e] - 1
      /\ \A f \in Entry \ {e} : backoff'[q][f] = backoff[q][f]
  BY DEF Wake, WakeLost, QueueTypeOK
<1>2. \A f \in Entry : backoff'[q][f] > 0 => backoff[q][f] > 0
  BY <1>1
<1>3. \A j : j # e.job => (Sleeping(q, j)' <=> Sleeping(q, j))
  BY <1>1 DEF Sleeping
<1>4. ASSUME NEW j, SleepsOnce(q, j)
      PROVE  SleepsOnce(q, j)'
  <2> SUFFICES ASSUME NEW f \in Entry, NEW g \in Entry, f.job = j, g.job = j,
                      backoff'[q][f] > 0, backoff'[q][g] > 0
               PROVE  f = g /\ backoff'[q][f] = 1
    BY DEF SleepsOnce
  <2>1. f = g /\ backoff[q][f] = 1
    BY <1>2, <1>4 DEF SleepsOnce
  <2>2. f # e
    BY <1>1, <2>1
  <2> QED
    BY <1>1, <2>1, <2>2
<1>5. ASSUME NEW j, j = e.job, SleepsOnce(q, j), Sleeping(q, j)'
      PROVE  FALSE
  <2>1. PICK f \in Entry : f.job = j /\ backoff'[q][f] > 0
    BY <1>5 DEF Sleeping
  <2>2. f = e /\ backoff[q][e] = 1
    BY <1>1, <1>2, <1>5, <2>1 DEF SleepsOnce
  <2> QED
    BY <1>1, <2>1, <2>2
<1>6. Sleeping(q, e.job) /\ \A j : Sleeping(q, j)' => Sleeping(q, j)
  BY <1>1, <1>2 DEF Sleeping
<1> QED
  BY <1>2, <1>3, <1>4, <1>5, <1>6

\* A copy that wakes moves to the list, or is lost.
LEMMA WakeCopies ==
    ASSUME QueueTypeOK, NEW q \in Queues, NEW e \in Entry,
           Wake(q, e) \/ WakeLost(q, e)
    PROVE  /\ \A f \in Entry : Waits(q, f)' => Waits(q, f)
           /\ \A j : Alive(q, j)' => Alive(q, j)
           /\ Wake(q, e) => \A j : Alive(q, j) => Alive(q, j)'
           /\ \A j : Alone(q, j) => Alone(q, j)'
<1>1. hand'[q] = hand[q]
  BY DEF Wake, WakeLost
<1>2. \A j : InHand(q, j)' <=> InHand(q, j)
  BY <1>1 DEF InHand
<1>3. CASE Wake(q, e)
  <2> DEFINE n == Len(queue[q]) + 1
  <2>1. queue'[q] = Append(queue[q], e) /\ queue[q] \in Seq(Entry)
    BY <1>3, QueueAt DEF Wake, QueueTypeOK
  <2>2. /\ DOMAIN queue'[q] = DOMAIN queue[q] \cup {n} /\ n \notin DOMAIN queue[q]
        /\ queue'[q][n] = e
        /\ \A i \in DOMAIN queue[q] : queue'[q][i] = queue[q][i]
    BY <2>1
  <2> HIDE DEF n
  <2>3. \A j : Listed(q, j)' <=> Listed(q, j) \/ j = e.job
    BY <2>2 DEF Listed
  <2>4. \A j : j # e.job /\ ListedOnce(q, j) => ListedOnce(q, j)'
    BY <2>2 DEF ListedOnce
  <2>5. \A j : j = e.job /\ ~Listed(q, j) => ListedOnce(q, j)'
    BY <2>2 DEF ListedOnce, Listed
  <2>6. ASSUME NEW f \in Entry, Waits(q, f)'
        PROVE  Waits(q, f)
    <3>1. CASE backoff'[q][f] > 0
      BY <3>1, RousedCopies DEF Waits
    <3>2. CASE \E i \in DOMAIN queue'[q] : queue'[q][i] = f
      BY <1>3, <2>2, <3>2 DEF Waits, Wake
    <3> QED
      BY <2>6, <3>1, <3>2 DEF Waits
  <2>7. ASSUME NEW j
        PROVE  Alive(q, j)' <=> Alive(q, j)
    <3>1. Listed(q, j)' <=> Listed(q, j) \/ j = e.job
      BY <2>3
    <3>2. CASE j = e.job
      BY <3>1, <3>2, RousedCopies DEF Alive
    <3>3. CASE j # e.job
      <4>1. (Sleeping(q, j)' <=> Sleeping(q, j)) /\ (InHand(q, j)' <=> InHand(q, j))
        BY <1>2, <3>3, RousedCopies
      <4> QED
        BY <3>1, <3>3, <4>1 DEF Alive
    <3> QED
      BY <3>2, <3>3
  <2>8. ASSUME NEW j, Alone(q, j)
        PROVE  Alone(q, j)'
    <3>1. /\ InHand(q, j)' <=> InHand(q, j)
          /\ Listed(q, j)' <=> Listed(q, j) \/ j = e.job
          /\ SleepsOnce(q, j)'
      BY <1>2, <2>3, <2>8, RousedCopies DEF Alone
    <3>2. CASE j = e.job
      <4>1. Sleeping(q, j) /\ ~Sleeping(q, j)'
        BY <2>8, <3>2, RousedCopies DEF Alone
      <4>2. ~Listed(q, j) /\ ~InHand(q, j)
        BY <2>8, <4>1 DEF Alone
      <4>3. ListedOnce(q, j)'
        BY <2>5, <3>2, <4>2
      <4> QED
        BY <3>1, <4>1, <4>2, <4>3 DEF Alone
    <3>3. CASE j # e.job
      <4>1. (Sleeping(q, j)' <=> Sleeping(q, j)) /\ ListedOnce(q, j)'
        BY <2>4, <2>8, <3>3, RousedCopies DEF Alone
      <4> QED
        BY <2>8, <3>1, <3>3, <4>1 DEF Alone
    <3> QED
      BY <3>2, <3>3
  <2> QED
    BY <2>6, <2>7, <2>8
<1>4. CASE WakeLost(q, e)
  <2>1. \A j : /\ Listed(q, j)' <=> Listed(q, j)
               /\ ListedOnce(q, j)' <=> ListedOnce(q, j)
    BY <1>4 DEF WakeLost, Listed, ListedOnce
  <2>2. \A f \in Entry : Waits(q, f)' => Waits(q, f)
    BY <1>4, RousedCopies DEF WakeLost, Waits
  <2>3. ASSUME NEW j
        PROVE  (Alive(q, j)' => Alive(q, j)) /\ (Alone(q, j) => Alone(q, j)')
    <3>1. /\ InHand(q, j)' <=> InHand(q, j)
          /\ Listed(q, j)' <=> Listed(q, j)
          /\ ListedOnce(q, j)' <=> ListedOnce(q, j)
      BY <1>2, <2>1
    <3>2. /\ SleepsOnce(q, j) => SleepsOnce(q, j)'
          /\ Sleeping(q, j)' => Sleeping(q, j)
      BY RousedCopies
    <3> QED
      BY <3>1, <3>2 DEF Alive, Alone
  <2>4. ~Wake(q, e)
    <3>1. CASE Wake(q, e)
      <4>1. Append(queue[q], e) = queue[q] /\ queue[q] \in Seq(Entry)
        BY <1>4, <3>1, QueueAt DEF Wake, WakeLost, QueueTypeOK
      <4>2. Len(Append(queue[q], e)) = Len(queue[q]) + 1 /\ Len(queue[q]) \in Nat
        BY <4>1
      <4> QED
        BY <4>1, <4>2
    <3> QED
      BY <3>1
  <2> QED
    BY <2>2, <2>3, <2>4
<1> QED
  BY <1>3, <1>4

\* When the worker stops, what its memory held is gone; the lists stay, or one
\* of them has just received a job that was nowhere.
LEMMA StopCopies ==
    ASSUME QueueTypeOK, NEW q \in Queues, WorkerStops, NEW e \in Entry,
           \/ queue'[q] = queue[q]
           \/ queue'[q] = Append(queue[q], e) /\ ~Alive(q, e.job)
    PROVE  /\ \A f \in Entry : Waits(q, f)' => Waits(q, f) \/ (queue'[q] # queue[q] /\ f = e)
           /\ \A j : Alive(q, j)' => Alive(q, j) \/ (queue'[q] # queue[q] /\ j = e.job)
           /\ \A j : Alone(q, j) => Alone(q, j)'
<1> DEFINE n   == Len(queue[q]) + 1
           new == queue'[q] # queue[q]
<1>1. hand'[q] = Nil /\ \A f \in Entry : ~(backoff'[q][f] > 0)
  BY DEF WorkerStops
<1>2. \A j : ~InHand(q, j)' /\ ~Sleeping(q, j)' /\ SleepsOnce(q, j)'
  BY <1>1 DEF InHand, Sleeping, SleepsOnce
<1>3. /\ \A i \in DOMAIN queue'[q] :
            \/ i \in DOMAIN queue[q] /\ queue'[q][i] = queue[q][i]
            \/ new /\ i = n /\ queue'[q][i] = e
      /\ new => ~Alive(q, e.job)
      /\ n \notin DOMAIN queue[q]
  <2>1. queue[q] \in Seq(Entry)
    BY QueueAt
  <2> QED
    BY <2>1
<1> HIDE DEF n, new
<1>4. \A j : Listed(q, j)' => Listed(q, j) \/ (new /\ j = e.job)
  BY <1>3 DEF Listed
<1>5. ASSUME NEW j, Alone(q, j)
      PROVE  Alone(q, j)'
  <2>1. ListedOnce(q, j)'
    <3> SUFFICES ASSUME NEW i \in DOMAIN queue'[q], NEW k \in DOMAIN queue'[q],
                        queue'[q][i].job = j, queue'[q][k].job = j
                 PROVE  i = k
      BY DEF ListedOnce
    <3>1. CASE i \in DOMAIN queue[q] /\ k \in DOMAIN queue[q]
      BY <1>3, <1>5, <3>1 DEF Alone, ListedOnce
    <3>2. CASE i \notin DOMAIN queue[q] \/ k \notin DOMAIN queue[q]
      <4>1. j = e.job /\ new
        BY <1>3, <3>2
      <4>2. ~Listed(q, j)
        BY <1>3, <4>1 DEF Alive
      <4>3. i = n /\ k = n
        BY <1>3, <4>2 DEF Listed
      <4> QED
        BY <4>3
    <3> QED
      BY <3>1, <3>2
  <2>2. ~InHand(q, j)' /\ ~Sleeping(q, j)' /\ SleepsOnce(q, j)'
    BY <1>2
  <2> QED
    BY <2>1, <2>2 DEF Alone
<1>6. \A f \in Entry : Waits(q, f)' => Waits(q, f) \/ (new /\ f = e)
  BY <1>1, <1>3 DEF Waits
<1>7. ASSUME NEW j, Alive(q, j)'
      PROVE  Alive(q, j) \/ (new /\ j = e.job)
  <2>1. Listed(q, j)'
    BY <1>2, <1>7 DEF Alive
  <2> QED
    BY <1>4, <2>1 DEF Alive
<1> QED
  BY <1>5, <1>6, <1>7 DEF new
=============================================================================
