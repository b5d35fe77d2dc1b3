------------------------------ MODULE JobQueue ------------------------------
(***************************************************************************)
(* The background queues of internal/worker/worker.go: Redis lists filled  *)
(* with LPUSH and drained by one goroutine per list with BRPOP (loop), and *)
(* the retry policy of requeueOrDead: a job whose handler returned an      *)
(* error waits out a backoff held only in the worker's memory and is then  *)
(* pushed again, until its embedded retry counter exceeds maxJobRetries    *)
(* and it is moved to the dead-letter list.                                *)
(*                                                                         *)
(* BRPOP removes the job before its handler runs and nothing acknowledges  *)
(* it afterwards, so a job in a handler or in a backoff dies with the      *)
(* worker process.                                                         *)
(***************************************************************************)
EXTENDS Naturals, Sequences

CONSTANTS
    Payments,        \* payment ids (= Platega transaction ids)
    MaxJobRetries,   \* maxJobRetries, 5 in the code
    Nil              \* "no job in the handler"

ASSUME QueueAssumption ==
    /\ MaxJobRetries \in Nat
    /\ Nil \notin [job : [payment : Payments,
                          status : {"CONFIRMED", "CANCELED", "CHARGEBACKED"}],
                   retries : 0..MaxJobRetries]

VARIABLES
    queue,           \* queue[q]: the Redis list, oldest job first
    hand,            \* hand[q]: the job the loop of q has popped, or Nil
    backoff,         \* backoff[q][e]: how many copies of e sleep before a re-push
    dead             \* dead[q]: the jobs in the list "dead:" + q

queueVars == <<queue, hand, backoff, dead>>

PaymentQ  == "payment:process"
ActivateQ == "subscription:activate"
ExpandQ   == "device_expansion:activate"
RewardQ   == "referral:reward"
Queues    == {PaymentQ, ActivateQ, ExpandQ, RewardQ}

FinalStatus == {"CONFIRMED", "CANCELED", "CHARGEBACKED"}

\* The payload of PaymentProcessJob.  The jobs of the other queues carry a
\* payment id only and exist only for confirmed payments: FollowUp below.
Job   == [payment : Payments, status : FinalStatus]
Entry == [job : Job, retries : 0..MaxJobRetries]

FollowUp(p) == [payment |-> p, status |-> "CONFIRMED"]

-----------------------------------------------------------------------------
QueueTypeOK ==
    /\ queue \in [Queues -> Seq(Entry)]
    /\ hand \in [Queues -> Entry \cup {Nil}]
    /\ backoff \in [Queues -> [Entry -> Nat]]
    /\ dead \in [Queues -> SUBSET Job]

QueueInit ==
    /\ queue = [q \in Queues |-> <<>>]
    /\ hand = [q \in Queues |-> Nil]
    /\ backoff = [q \in Queues |-> [e \in Entry |-> 0]]
    /\ dead = [q \in Queues |-> {}]

\* Enqueue: LPUSH of a job that has not been tried yet.
Push(q, j) ==
    /\ queue' = [queue EXCEPT ![q] = Append(@, [job |-> j, retries |-> 0])]
    /\ UNCHANGED <<hand, backoff, dead>>

\* loop: BRPOP hands the oldest job to the handler.
Pop(q) ==
    /\ hand[q] = Nil
    /\ queue[q] # <<>>
    /\ hand' = [hand EXCEPT ![q] = Head(queue[q])]
    /\ queue' = [queue EXCEPT ![q] = Tail(queue[q])]
    /\ UNCHANGED <<backoff, dead>>

\* The handler returned nil: the loop forgets the job.
Return(q) ==
    /\ hand' = [hand EXCEPT ![q] = Nil]
    /\ UNCHANGED <<queue, backoff, dead>>

\* The handler returned an error: requeueOrDead counts the attempt in the job
\* and lets it sleep, or moves it to the dead-letter list.
RetriedUncounted(e) == e
Retried(e) == [e EXCEPT !.retries = @ + 1]

MayRetry(e) == e.retries < MaxJobRetries

BuryNowhere(q, e) == UNCHANGED dead
Bury(q, e) == dead' = [dead EXCEPT ![q] = @ \cup {e.job}]

Requeue(q) ==
    LET e == hand[q]
    IN  /\ hand' = [hand EXCEPT ![q] = Nil]
        /\ \/ /\ MayRetry(e)
              /\ backoff' = [backoff EXCEPT ![q][Retried(e)] = @ + 1]
              /\ UNCHANGED dead
           \/ /\ ~MayRetry(e)
              /\ Bury(q, e)
              /\ UNCHANGED backoff
        /\ UNCHANGED queue

\* ... or the push to the dead-letter list fails, which nobody looks at.
BuryLost(q) == ~MayRetry(hand[q]) /\ Return(q)

\* A backoff ends and its goroutine pushes the job again.
Wake(q, e) ==
    /\ backoff[q][e] > 0
    /\ backoff' = [backoff EXCEPT ![q][e] = @ - 1]
    /\ queue' = [queue EXCEPT ![q] = Append(@, e)]
    /\ UNCHANGED <<hand, dead>>

\* ... or the push fails, which is only logged ("re-queue failed").
WakeLost(q, e) ==
    /\ backoff[q][e] > 0
    /\ backoff' = [backoff EXCEPT ![q][e] = @ - 1]
    /\ UNCHANGED <<queue, hand, dead>>

\* The worker process stops: Redis keeps the lists, the rest was in memory.
WorkerStops ==
    /\ hand' = [q \in Queues |-> Nil]
    /\ backoff' = [q \in Queues |-> [e \in Entry |-> 0]]
    /\ UNCHANGED dead

-----------------------------------------------------------------------------
\* Where a job can still be found by the worker.
Listed(q, j)   == \E i \in DOMAIN queue[q] : queue[q][i].job = j
InHand(q, j)   == hand[q] # Nil /\ hand[q].job = j
Sleeping(q, j) == \E e \in Entry : e.job = j /\ backoff[q][e] > 0
Alive(q, j)    == Listed(q, j) \/ InHand(q, j) \/ Sleeping(q, j)

QueuesQuiet ==
    \A q \in Queues :
        queue[q] = <<>> /\ hand[q] = Nil /\ \A e \in Entry : backoff[q][e] = 0
=============================================================================
