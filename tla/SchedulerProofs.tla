--------------------------- MODULE SchedulerProofs ---------------------------
(***************************************************************************)
(* What Scheduler keeps for every number of requests, every limit, every   *)
(* aging period and every duration of a step.                              *)
(*                                                                         *)
(* All of it is seen on Queue, the active list followed by the deque: a    *)
(* promotion leaves Queue as it is, an admission appends to it, and a      *)
(* completion takes one element out.                                       *)
(***************************************************************************)
EXTENDS Scheduler, SequenceLemmas, FiniteSetTheorems

-----------------------------------------------------------------------------
(***************************************************************************)
(* The three operations, on Queue                                          *)
(***************************************************************************)

LEMMA QueueType ==
  ASSUME TypeOK
  PROVE  /\ Queue \in Seq(Requests)
         /\ Len(Queue) = Len(active) + Len(pending)
         /\ \A k \in 1 .. Len(Queue) :
              Queue[k] = IF k <= Len(active) THEN active[k] ELSE pending[k - Len(active)]
  BY ConcatProperties DEF TypeOK, Queue

\* A promotion moves the boundary of the two queues and nothing else.
LEMMA Promotion ==
  ASSUME TypeOK
  PROVE  /\ Pool \in Seq(Requests)
         /\ Len(Pool) = Len(active) + Promotions
         /\ Len(Pool) <= 2 * MaxBatch
         /\ SubSeq(pending, Promotions + 1, Len(pending)) \in Seq(Requests)
         /\ Len(SubSeq(pending, Promotions + 1, Len(pending))) = Len(pending) - Promotions
         /\ Promotions \in 0 .. Len(pending)
         /\ Pool \o SubSeq(pending, Promotions + 1, Len(pending)) = Queue
  <1> DEFINE n == Promotions
             a == SubSeq(pending, 1, n)
             b == SubSeq(pending, n + 1, Len(pending))
  <1>1. /\ pending \in Seq(Requests) /\ active \in Seq(Requests)
        /\ Len(pending) \in Nat /\ Len(active) \in Nat
        /\ Len(active) <= 2 * MaxBatch /\ MaxBatch \in Nat
    BY LimitAssumption DEF TypeOK
  <1>2. n \in 0 .. Len(pending) /\ n <= 2 * MaxBatch - Len(active)
    BY <1>1 DEF Promotions, Room
  <1> HIDE DEF n
  <1>3. a \in Seq(Requests) /\ Len(a) = n
    BY <1>1, <1>2, SplitAt
  <1>4. b \in Seq(Requests) /\ Len(b) = Len(pending) - n
    BY <1>1, <1>2, SplitAt
  <1>5. a \o b = pending
    BY <1>1, <1>2, SplitAt
  <1> HIDE DEF a, b
  <1>6. (active \o a) \o b = active \o pending
    <2>1. active \in Seq(Requests) /\ a \in Seq(Requests) /\ b \in Seq(Requests)
      BY <1>1, <1>3, <1>4
    <2>2. (active \o a) \o b = active \o (a \o b)
      BY <2>1, ConcatAssociative, SMTT(20)
    <2> QED
      BY <1>5, <2>2
  <1>7. Pool = active \o a
    BY DEF Pool, a, n
  <1>8. Pool \in Seq(Requests) /\ Len(Pool) = Len(active) + n
    BY <1>1, <1>3, <1>7, ConcatProperties
  <1>9. Len(Pool) <= 2 * MaxBatch
    BY <1>1, <1>2, <1>8
  <1>10. Pool \o b = Queue
    BY <1>6, <1>7 DEF Queue
  <1> QED
    BY <1>2, <1>4, <1>8, <1>9, <1>10 DEF b, n

\* An admission goes behind everything else.
LEMMA QueueOfAdmit ==
  ASSUME TypeOK, NEW r \in Requests, Admit(r)
  PROVE  /\ Queue \in Seq(Requests)
         /\ Queue' \in Seq(Requests)
         /\ Len(Queue') = Len(Queue) + 1
         /\ \A k \in 1 .. Len(Queue) : Queue'[k] = Queue[k]
         /\ Queue'[Len(Queue) + 1] = r
  <1>1. Queue \in Seq(Requests)
    BY QueueType
  <1>2. active \in Seq(Requests) /\ pending \in Seq(Requests) /\ <<r>> \in Seq(Requests)
    BY DEF TypeOK
  <1>3. Queue' = active \o Append(pending, r)
    BY DEF Admit, Queue
  <1>4. Append(pending, r) = pending \o <<r>>
    BY <1>2, AppendIsConcat
  <1>5. active \o (pending \o <<r>>) = (active \o pending) \o <<r>>
    BY <1>2, ConcatAssociative, SMTT(20)
  <1>6. Queue \o <<r>> = Append(Queue, r)
    BY <1>1, AppendIsConcat
  <1>7. Queue' = Append(Queue, r)
    BY <1>3, <1>4, <1>5, <1>6 DEF Queue
  <1> QED
    BY <1>1, <1>7, AppendProperties

\* A batch leaves the order of service as it is.
LEMMA QueueOfRunBatch ==
  ASSUME TypeOK, RunBatch
  PROVE  Queue' = Queue /\ active' = Pool /\ profile' = profile
  <1>1. active' = Pool /\ pending' = SubSeq(pending, Promotions + 1, Len(pending)) /\ profile' = profile
    BY DEF RunBatch
  <1> QED
    BY <1>1, Promotion DEF Queue

\* A completion takes one request out, from the active part.
LEMMA QueueOfComplete ==
  ASSUME TypeOK, NEW i \in DOMAIN active, active' = RemoveAt(active, i), pending' = pending
  PROVE  /\ i \in 1 .. Len(Queue)
         /\ Queue[i] = active[i]
         /\ Queue' \in Seq(Requests)
         /\ Len(Queue') = Len(Queue) - 1
         /\ \A k \in 1 .. Len(Queue) - 1 :
              Queue'[k] = IF k < i THEN Queue[k] ELSE Queue[k + 1]
  <1>1. /\ active \in Seq(Requests) /\ pending \in Seq(Requests)
        /\ i \in 1 .. Len(active)
        /\ Len(active) \in Nat /\ Len(pending) \in Nat
    BY DEF TypeOK
  <1>2. /\ Queue \in Seq(Requests)
        /\ Len(Queue) = Len(active) + Len(pending)
        /\ \A k \in 1 .. Len(Queue) :
             Queue[k] = IF k <= Len(active) THEN active[k] ELSE pending[k - Len(active)]
    BY QueueType
  <1>3. i \in 1 .. Len(Queue) /\ i <= Len(active)
    BY <1>1, <1>2
  <1>4. Queue' = RemoveAt(active, i) \o pending
    BY DEF Queue
  <1>5. RemoveAt(active, i) \o pending = RemoveAt(Queue, i)
    BY <1>1, RemoveAtOfConcat DEF Queue
  <1>6. Queue' = RemoveAt(Queue, i)
    BY <1>4, <1>5
  <1> QED
    BY <1>2, <1>3, <1>6, RemoveAtProperties

-----------------------------------------------------------------------------
(***************************************************************************)
(* Steps of a request                                                      *)
(***************************************************************************)

\* The next step is a later one, and the last one is not passed.
LEMMA NextStep ==
  ASSUME NEW s \in Nat, NEW b \in Nat \ {0}, NEW p \in Nat \ {0}
  PROVE  /\ (s \div p + 1) * p \in Nat
         /\ s < (s \div p + 1) * p
         /\ b * p \in Nat
         /\ s < b * p => (s \div p + 1) * p <= b * p
  <1> DEFINE q == s \div p
             m == s % p
  <1>1. s = p * q + m /\ m \in 0 .. p - 1 /\ q \in Nat
    OBVIOUS
  <1> HIDE DEF q, m
  <1>2. (q + 1) * p = p * q + p /\ p * q \in Nat
    BY <1>1
  <1>3. (q + 1) * p \in Nat /\ s < (q + 1) * p
    BY <1>1, <1>2
  <1>4. ASSUME s < b * p PROVE (q + 1) * p <= b * p
    <2>1. q < b
      <3>1. SUFFICES ASSUME b <= q PROVE FALSE
        BY <1>1
      <3>2. b * p <= p * q
        BY <1>1, <3>1
      <3> QED
        BY <1>1, <1>2, <1>4, <3>2
    <2>2. q + 1 <= b /\ q + 1 \in Nat
      BY <1>1, <2>1
    <2> QED
      BY <2>2
  <1> QED
    BY <1>3, <1>4 DEF q

-----------------------------------------------------------------------------
(***************************************************************************)
(* The batch                                                               *)
(***************************************************************************)

\* The pool is the front of the queue.
LEMMA PoolIsPrefix ==
  ASSUME TypeOK
  PROVE  /\ Pool \in Seq(Requests)
         /\ Len(Pool) \in Nat
         /\ Len(Pool) <= Len(Queue)
         /\ DOMAIN Pool = 1 .. Len(Pool)
         /\ DOMAIN Queue = 1 .. Len(Queue)
         /\ \A k \in 1 .. Len(Pool) : Pool[k] = Queue[k]
  <1> DEFINE rest == SubSeq(pending, Promotions + 1, Len(pending))
  <1>1. /\ Pool \in Seq(Requests) /\ rest \in Seq(Requests)
        /\ Pool \o rest = Queue
    BY Promotion
  <1>2. Queue \in Seq(Requests)
    BY QueueType
  <1> HIDE DEF rest
  <1>3. /\ Len(Pool \o rest) = Len(Pool) + Len(rest)
        /\ \A k \in 1 .. Len(Pool) + Len(rest) :
             (Pool \o rest)[k] = IF k <= Len(Pool) THEN Pool[k] ELSE rest[k - Len(Pool)]
    BY <1>1, ConcatProperties
  <1>4. Len(Pool) \in Nat /\ Len(rest) \in Nat
    BY <1>1
  <1>5. Len(Queue) = Len(Pool) + Len(rest)
    BY <1>1, <1>3
  <1>6. ASSUME NEW k \in 1 .. Len(Pool) PROVE Pool[k] = Queue[k]
    BY <1>1, <1>3, <1>4
  <1> QED
    BY <1>1, <1>2, <1>4, <1>5, <1>6

\* A batch is made of requests of the pool, all of them in the system.
LEMMA BatchMembers ==
  ASSUME TypeOK, Placed, NEW i \in DOMAIN Pool, NEW r \in Batch(Pool, i)
  PROVE  /\ r \in Requests
         /\ \E k \in DOMAIN Pool : Pool[k] = r
         /\ profile[r] \in Profiles
  <1>1. PICK k \in DOMAIN Pool : Pool[k] = r
    BY DEF Batch, Group
  <1>2. r \in Requests /\ \E j \in DOMAIN Queue : Queue[j] = r
    BY <1>1, PoolIsPrefix
  <1>3. profile[r] # None
    BY <1>2 DEF Placed
  <1> QED
    BY <1>1, <1>2, <1>3 DEF TypeOK

\* The steps a batch may take, for each of its members.
LEMMA StepsOfBatch ==
  ASSUME TypeOK, NEW r \in Requests, profile[r] \in Profiles, NEW n \in NextSteps(r)
  PROVE  /\ n \in Nat
         /\ step[r] < n
         /\ Steps(profile[r]) \in Nat
         /\ step[r] < Steps(profile[r]) => n <= Steps(profile[r])
  <1> DEFINE p == profile[r].perBlock
             b == profile[r].blocks
  <1>1. p \in Nat \ {0} /\ b \in Nat \ {0} /\ step[r] \in Nat
    BY ProfileAssumption DEF TypeOK, ProfileType
  <1>2. n = step[r] + 1 \/ n = (step[r] \div p + 1) * p
    BY DEF NextSteps
  <1>3. Steps(profile[r]) = b * p
    BY DEF Steps
  <1> HIDE DEF p, b
  <1>4. /\ (step[r] \div p + 1) * p \in Nat
        /\ step[r] < (step[r] \div p + 1) * p
        /\ b * p \in Nat
        /\ step[r] < b * p => (step[r] \div p + 1) * p <= b * p
    BY <1>1, NextStep
  <1>5. CASE n = step[r] + 1
    BY <1>1, <1>3, <1>4, <1>5
  <1>6. CASE n = (step[r] \div p + 1) * p
    BY <1>1, <1>3, <1>4, <1>6
  <1> QED
    BY <1>2, <1>5, <1>6

-----------------------------------------------------------------------------
(***************************************************************************)
(* The inductive invariant                                                 *)
(***************************************************************************)

\* An identity that is not in use starts afresh.
Blank == \A r \in Requests : profile[r] = None => step[r] = 0 /\ age[r] = 0

SchedulerInv == TypeOK /\ Placed /\ OldestFirst /\ NoStepAfterLast /\ Blank

\* Everything is empty at first.
LEMMA InitInv == Init => SchedulerInv
  <1> SUFFICES ASSUME Init PROVE SchedulerInv
    OBVIOUS
  <1>1. TypeOK
    BY LimitAssumption DEF Init, TypeOK
  <1>2. Queue = << >>
    BY DEF Init, Queue
  <1>3. Placed /\ OldestFirst
    BY <1>2 DEF Init, Placed, OldestFirst
  <1>4. NoStepAfterLast
    BY DEF Init, NoStepAfterLast
  <1>5. Blank
    BY DEF Init, Blank
  <1> QED
    BY <1>1, <1>3, <1>4, <1>5 DEF SchedulerInv

\* The invariant speaks of nothing but the variables.
LEMMA StutterInv == SchedulerInv /\ UNCHANGED vars => SchedulerInv'
  <1> SUFFICES ASSUME SchedulerInv, UNCHANGED vars PROVE SchedulerInv'
    OBVIOUS
  <1>1. /\ pending' = pending /\ active' = active /\ profile' = profile
        /\ step' = step /\ age' = age /\ leaving' = leaving
    BY DEF vars
  <1>2. Queue' = Queue
    BY <1>1 DEF Queue
  <1>3. TypeOK'
    BY <1>1 DEF SchedulerInv, TypeOK
  <1>4. Placed'
    BY <1>1, <1>2 DEF SchedulerInv, Placed
  <1>5. OldestFirst'
    BY <1>1, <1>2 DEF SchedulerInv, OldestFirst
  <1>6. NoStepAfterLast' /\ Blank'
    BY <1>1 DEF SchedulerInv, NoStepAfterLast, Blank
  <1> QED
    BY <1>3, <1>4, <1>5, <1>6 DEF SchedulerInv

\* A new request is the youngest and stands behind all the others.
LEMMA AdmitInv ==
  ASSUME SchedulerInv, NEW r \in Requests, Admit(r)
  PROVE  SchedulerInv'
  <1>1. /\ TypeOK /\ Placed /\ OldestFirst /\ NoStepAfterLast /\ Blank
        /\ leaving = {} /\ profile[r] = None
        /\ age' = age /\ step' = step /\ leaving' = leaving /\ active' = active
    BY DEF SchedulerInv, Admit
  <1>2. PICK p \in Profiles : profile' = [profile EXCEPT ![r] = p]
    BY DEF Admit
  <1>3. /\ Queue \in Seq(Requests)
        /\ Queue' \in Seq(Requests)
        /\ Len(Queue') = Len(Queue) + 1
        /\ \A k \in 1 .. Len(Queue) : Queue'[k] = Queue[k]
        /\ Queue'[Len(Queue) + 1] = r
    BY <1>1, QueueOfAdmit
  <1>4. /\ DOMAIN Queue = 1 .. Len(Queue)
        /\ DOMAIN Queue' = 1 .. Len(Queue) + 1
        /\ Len(Queue) \in Nat
    BY <1>3
  <1>5. \A k \in 1 .. Len(Queue) : Queue[k] # r
    BY <1>1, <1>4 DEF Placed
  <1>6. TypeOK'
    <2>1. pending' = Append(pending, r) /\ Len(pending) < MaxWaiting
      BY DEF Admit
    <2>2. pending' \in Seq(Requests) /\ Len(pending') <= MaxWaiting
      BY <1>1, <2>1, LimitAssumption, AppendProperties DEF TypeOK
    <2>3. profile' \in [Requests -> Profiles \cup {None}]
      BY <1>1, <1>2 DEF TypeOK
    <2> QED
      BY <1>1, <2>2, <2>3 DEF TypeOK
  <1>7. Placed'
    <2>1. ASSUME NEW i \in DOMAIN Queue', NEW j \in DOMAIN Queue', Queue'[i] = Queue'[j]
          PROVE  i = j
      BY <1>1, <1>3, <1>4, <1>5, <2>1 DEF Placed
    <2>2. ASSUME NEW q \in Requests
          PROVE  profile'[q] # None <=> \E i \in DOMAIN Queue' : Queue'[i] = q
      <3>1. CASE q = r
        <4>1. Len(Queue) + 1 \in DOMAIN Queue'
          BY <1>4
        <4>2. profile'[q] # None
          BY <1>1, <1>2, <3>1, ProfileAssumption DEF TypeOK
        <4> QED
          BY <1>3, <3>1, <4>1, <4>2
      <3>2. CASE q # r
        <4>1. profile'[q] = profile[q]
          BY <1>1, <1>2, <3>2 DEF TypeOK
        <4>2. (\E i \in DOMAIN Queue' : Queue'[i] = q) <=> \E i \in DOMAIN Queue : Queue[i] = q
          BY <1>3, <1>4, <3>2
        <4> QED
          BY <1>1, <4>1, <4>2 DEF Placed
      <3> QED
        BY <3>1, <3>2
    <2>3. \A q \in leaving' : \E i \in DOMAIN active' : active'[i] = q
      BY <1>1
    <2> QED
      BY <2>1, <2>2, <2>3 DEF Placed
  <1>8. OldestFirst'
    <2>1. SUFFICES ASSUME NEW i \in DOMAIN Queue', NEW j \in DOMAIN Queue', i < j
                   PROVE  age[Queue'[i]] >= age[Queue'[j]]
      BY <1>1 DEF OldestFirst
    <2>2. i \in 1 .. Len(Queue) /\ Queue'[i] = Queue[i]
      BY <1>3, <1>4, <2>1
    <2>3. CASE j \in 1 .. Len(Queue)
      BY <1>1, <1>3, <1>4, <2>1, <2>2, <2>3 DEF OldestFirst
    <2>4. CASE j = Len(Queue) + 1
      <3>1. age[r] = 0
        BY <1>1 DEF Blank
      <3>2. Queue[i] \in Requests
        BY <1>3, <2>2
      <3>3. age[Queue[i]] \in 0 .. MaxAge
        BY <1>1, <3>2 DEF TypeOK
      <3> QED
        BY <1>3, <2>2, <2>4, <3>1, <3>3, LimitAssumption
    <2> QED
      BY <1>4, <2>3, <2>4
  <1>9. NoStepAfterLast'
    <2>1. SUFFICES ASSUME NEW q \in Requests, profile'[q] # None
                   PROVE  /\ step[q] <= Steps(profile'[q])
                          /\ step[q] = Steps(profile'[q]) => q \in leaving
      BY <1>1 DEF NoStepAfterLast
    <2>2. CASE q = r
      <3>1. profile'[q] \in Profiles /\ step[q] = 0
        BY <1>1, <1>2, <2>2 DEF TypeOK, Blank
      <3>2. profile'[q].blocks \in Nat \ {0} /\ profile'[q].perBlock \in Nat \ {0}
        BY <3>1, ProfileAssumption DEF ProfileType
      <3>3. \A b \in Nat \ {0}, s \in Nat \ {0} : b * s \in Nat /\ b * s > 0
        OBVIOUS
      <3> QED
        BY <3>1, <3>2, <3>3 DEF Steps
    <2>3. CASE q # r
      <3>1. profile'[q] = profile[q]
        BY <1>1, <1>2, <2>3 DEF TypeOK
      <3> QED
        BY <1>1, <2>1, <3>1 DEF NoStepAfterLast
    <2> QED
      BY <2>2, <2>3
  <1>10. Blank'
    <2>1. ASSUME NEW q \in Requests, profile'[q] = None PROVE profile[q] = None
      BY <1>1, <1>2, <2>1, ProfileAssumption DEF TypeOK
    <2> QED
      BY <1>1, <2>1 DEF Blank
  <1> QED
    BY <1>6, <1>7, <1>8, <1>9, <1>10 DEF SchedulerInv

(***************************************************************************)
(* A batch ages everybody by the same time, up to the same bound, and      *)
(* moves its members to steps they still had to run, or out.               *)
(***************************************************************************)
LEMMA RunBatchInv ==
  ASSUME SchedulerInv, RunBatch
  PROVE  SchedulerInv'
  <1>1. /\ TypeOK /\ Placed /\ OldestFirst /\ NoStepAfterLast /\ Blank
        /\ leaving = {}
    BY DEF SchedulerInv, RunBatch
  <1>2. Queue' = Queue /\ active' = Pool /\ profile' = profile
    BY <1>1, QueueOfRunBatch
  <1>3. PICK i \in DOMAIN Pool : Best(Pool, i) /\ (Denoise(Batch(Pool, i)) \/ Abort(Batch(Pool, i)))
    BY DEF RunBatch
  <1>4. PICK t \in StepTicks :
          age' = [r \in Requests |->
                    IF profile[r] = None THEN age[r]
                    ELSE IF age[r] + t <= MaxAge THEN age[r] + t ELSE MaxAge]
    BY DEF RunBatch, Elapse
  <1>5. t \in Nat /\ MaxAge \in Nat
    BY LimitAssumption
  <1> DEFINE B == Batch(Pool, i)
  <1>6. ASSUME NEW r \in B
        PROVE  /\ r \in Requests
               /\ \E k \in DOMAIN Pool : Pool[k] = r
               /\ profile[r] \in Profiles
    BY <1>1, BatchMembers
  <1>7. ASSUME NEW r \in Requests
        PROVE  /\ step'[r] \in Nat
               /\ r \notin B => step'[r] = step[r]
               /\ profile[r] # None =>
                    /\ step'[r] <= Steps(profile[r])
                    /\ step'[r] = Steps(profile[r]) => r \in leaving'
    <2>1. step[r] \in Nat
      BY <1>1 DEF TypeOK
    <2>2. profile[r] # None => step[r] <= Steps(profile[r]) /\ step[r] # Steps(profile[r])
      BY <1>1 DEF NoStepAfterLast
    <2>3. CASE Abort(B)
      BY <2>1, <2>2, <2>3 DEF Abort
    <2>4. CASE Denoise(B)
      <3>1. PICK next \in [B -> UNION {NextSteps(q) : q \in B}] :
              /\ \A q \in B : next[q] \in NextSteps(q)
              /\ step' = [q \in Requests |-> IF q \in B THEN next[q] ELSE step[q]]
              /\ leaving' = {q \in B : next[q] = Steps(profile[q])}
        BY <2>4 DEF Denoise
      <3>2. CASE r \notin B
        BY <2>1, <2>2, <3>1, <3>2
      <3>3. CASE r \in B
        <4>1. step'[r] = next[r] /\ next[r] \in NextSteps(r)
          BY <3>1, <3>3
        <4>2. profile[r] \in Profiles /\ profile[r] # None
          BY <1>6, <3>3, ProfileAssumption
        <4>3. /\ next[r] \in Nat
              /\ Steps(profile[r]) \in Nat
              /\ step[r] < Steps(profile[r]) => next[r] <= Steps(profile[r])
          BY <1>1, <4>1, <4>2, StepsOfBatch
        <4>4. step[r] < Steps(profile[r])
          BY <2>1, <2>2, <4>2, <4>3
        <4>5. step'[r] = Steps(profile[r]) => r \in leaving'
          BY <3>1, <3>3, <4>1
        <4> QED
          BY <3>3, <4>1, <4>3, <4>4, <4>5
      <3> QED
        BY <3>2, <3>3
    <2> QED
      BY <1>3, <2>3, <2>4
  <1>8. leaving' \subseteq B
    BY <1>3 DEF Denoise, Abort
  <1> HIDE DEF B
  <1>9. TypeOK'
    <2>1. /\ active' \in Seq(Requests) /\ Len(active') <= 2 * MaxBatch
          /\ pending' \in Seq(Requests) /\ Len(pending') <= MaxWaiting
      <3>1. pending' = SubSeq(pending, Promotions + 1, Len(pending))
        BY DEF RunBatch
      <3>2. /\ Pool \in Seq(Requests)
            /\ Len(Pool) <= 2 * MaxBatch
            /\ pending' \in Seq(Requests)
            /\ Len(pending') = Len(pending) - Promotions
            /\ Promotions \in 0 .. Len(pending)
        BY <1>1, <3>1, Promotion
      <3>3. Len(pending) \in Nat /\ Len(pending) <= MaxWaiting /\ MaxWaiting \in Nat
        BY <1>1, LimitAssumption DEF TypeOK
      <3> QED
        BY <1>2, <3>2, <3>3
    <2>2. step' \in [Requests -> Nat]
      <3>1. \E f : step' = [r \in Requests |-> f[r]]
        <4>1. CASE Abort(B)
          BY <1>1, <4>1 DEF Abort, TypeOK
        <4>2. CASE Denoise(B)
          <5>1. PICK next : step' = [q \in Requests |-> IF q \in B THEN next[q] ELSE step[q]]
            BY <4>2 DEF Denoise
          <5>2. step' = [r \in Requests |-> step'[r]]
            BY <5>1
          <5> QED
            BY <5>2
        <4> QED
          BY <1>3, <4>1, <4>2 DEF B
      <3> QED
        BY <1>7, <3>1
    <2>3. age' \in [Requests -> 0 .. MaxAge]
      <3>1. ASSUME NEW r \in Requests
            PROVE  (IF profile[r] = None THEN age[r]
                    ELSE IF age[r] + t <= MaxAge THEN age[r] + t ELSE MaxAge) \in 0 .. MaxAge
        <4>1. age[r] \in 0 .. MaxAge
          BY <1>1 DEF TypeOK
        <4> QED
          BY <1>5, <4>1
      <3> QED
        BY <1>4, <3>1
    <2>4. leaving' \subseteq Requests
      BY <1>6, <1>8
    <2> QED
      BY <1>1, <1>2, <2>1, <2>2, <2>3, <2>4 DEF TypeOK
  <1>10. Placed'
    <2>1. \A r \in leaving' : \E k \in DOMAIN active' : active'[k] = r
      BY <1>2, <1>6, <1>8
    <2> QED
      BY <1>1, <1>2, <2>1 DEF Placed
  <1>11. OldestFirst'
    <2>1. SUFFICES ASSUME NEW j \in DOMAIN Queue, NEW k \in DOMAIN Queue, j < k
                   PROVE  age'[Queue[j]] >= age'[Queue[k]]
      BY <1>2 DEF OldestFirst
    <2> DEFINE r == Queue[j]
               q == Queue[k]
    <2>2. r \in Requests /\ q \in Requests
      BY <1>1, QueueType
    <2>3. profile[r] # None /\ profile[q] # None
      BY <1>1, <2>2 DEF Placed
    <2>4. age[r] >= age[q]
      BY <1>1, <2>1 DEF OldestFirst
    <2>5. age[r] \in 0 .. MaxAge /\ age[q] \in 0 .. MaxAge
      BY <1>1, <2>2 DEF TypeOK
    <2>6. /\ age'[r] = IF age[r] + t <= MaxAge THEN age[r] + t ELSE MaxAge
          /\ age'[q] = IF age[q] + t <= MaxAge THEN age[q] + t ELSE MaxAge
      BY <1>4, <2>2, <2>3
    <2> QED
      BY <1>5, <2>4, <2>5, <2>6
  <1>12. NoStepAfterLast'
    BY <1>2, <1>7 DEF NoStepAfterLast
  <1>13. Blank'
    <2>1. ASSUME NEW r \in Requests, profile[r] = None PROVE step'[r] = 0 /\ age'[r] = 0
      <3>1. r \notin B
        BY <1>6, <2>1, ProfileAssumption
      <3> QED
        BY <1>1, <1>4, <1>7, <2>1, <3>1 DEF Blank
    <2> QED
      BY <1>2, <2>1 DEF Blank
  <1> QED
    BY <1>9, <1>10, <1>11, <1>12, <1>13 DEF SchedulerInv

(***************************************************************************)
(* A completion closes the gap it leaves, and keeps the others in order.   *)
(***************************************************************************)
LEMMA CompleteInv ==
  ASSUME SchedulerInv, Complete
  PROVE  SchedulerInv'
  <1>1. TypeOK /\ Placed /\ OldestFirst /\ NoStepAfterLast /\ Blank
    BY DEF SchedulerInv
  <1>2. PICK i \in DOMAIN active :
          /\ active[i] \in leaving
          /\ active' = RemoveAt(active, i)
          /\ leaving' = leaving \ {active[i]}
          /\ profile' = [profile EXCEPT ![active[i]] = None]
          /\ step' = [step EXCEPT ![active[i]] = 0]
          /\ age' = [age EXCEPT ![active[i]] = 0]
          /\ pending' = pending
    BY DEF Complete
  <1> DEFINE gone == active[i]
             From(k) == IF k < i THEN k ELSE k + 1
  <1>3. gone \in Requests
    BY <1>1, <1>2 DEF TypeOK
  <1>4. /\ profile'[gone] = None /\ step'[gone] = 0 /\ age'[gone] = 0
        /\ \A q \in Requests : q # gone =>
             profile'[q] = profile[q] /\ step'[q] = step[q] /\ age'[q] = age[q]
    BY <1>1, <1>2, <1>3 DEF TypeOK
  <1>5. /\ i \in 1 .. Len(Queue)
        /\ Queue[i] = gone
        /\ Queue' \in Seq(Requests)
        /\ Len(Queue') = Len(Queue) - 1
        /\ \A k \in 1 .. Len(Queue) - 1 :
             Queue'[k] = IF k < i THEN Queue[k] ELSE Queue[k + 1]
    BY <1>1, <1>2, QueueOfComplete
  <1>6. /\ DOMAIN Queue = 1 .. Len(Queue) /\ Len(Queue) \in Nat
        /\ DOMAIN Queue' = 1 .. Len(Queue) - 1
    BY <1>1, <1>5, QueueType
  <1>7. ASSUME NEW k \in DOMAIN Queue'
        PROVE  /\ From(k) \in DOMAIN Queue /\ From(k) # i
               /\ Queue'[k] = Queue[From(k)]
               /\ Queue'[k] \in Requests /\ Queue'[k] # gone
    <2>1. From(k) \in DOMAIN Queue /\ From(k) # i
      BY <1>5, <1>6
    <2>2. Queue'[k] = Queue[From(k)]
      BY <1>5, <1>6
    <2>3. Queue[From(k)] # gone
      BY <1>1, <1>5, <1>6, <2>1 DEF Placed
    <2> HIDE DEF gone, From
    <2>4. Queue'[k] \in Requests
      BY <1>5
    <2> QED
      BY <2>1, <2>2, <2>3, <2>4
  <1>8. \A j, k \in DOMAIN Queue' : (From(j) = From(k) => j = k) /\ (j < k => From(j) < From(k))
    BY <1>5, <1>6
  <1> HIDE DEF gone, From
  <1>9. TypeOK'
    <2>1. /\ RemoveAt(active, i) \in Seq(Requests)
          /\ Len(RemoveAt(active, i)) = Len(active) - 1
      BY <1>1, <1>2, RemoveAtProperties DEF TypeOK
    <2>2. active' \in Seq(Requests) /\ Len(active') <= 2 * MaxBatch
      <3>1. Len(active) \in Nat /\ Len(active) <= 2 * MaxBatch /\ MaxBatch \in Nat
        BY <1>1, LimitAssumption DEF TypeOK
      <3> QED
        BY <1>2, <2>1, <3>1
    <2>3. /\ profile' \in [Requests -> Profiles \cup {None}]
          /\ step' \in [Requests -> Nat]
          /\ age' \in [Requests -> 0 .. MaxAge]
          /\ leaving' \subseteq Requests
      BY <1>1, <1>2, LimitAssumption DEF TypeOK
    <2> QED
      BY <1>1, <1>2, <2>2, <2>3 DEF TypeOK
  <1>10. Placed'
    <2>1. ASSUME NEW j \in DOMAIN Queue', NEW k \in DOMAIN Queue', Queue'[j] = Queue'[k]
          PROVE  j = k
      <3>1. From(j) = From(k)
        BY <1>1, <1>7, <2>1 DEF Placed
      <3> QED
        BY <1>8, <3>1
    <2>2. ASSUME NEW q \in Requests
          PROVE  profile'[q] # None <=> \E k \in DOMAIN Queue' : Queue'[k] = q
      <3>1. CASE q = gone
        BY <1>4, <1>7, <3>1
      <3>2. CASE q # gone
        <4>1. profile'[q] = profile[q]
          BY <1>4, <3>2
        <4>2. ASSUME NEW j \in DOMAIN Queue, Queue[j] = q
              PROVE  \E k \in DOMAIN Queue' : Queue'[k] = q
          <5>1. j # i
            BY <1>5, <3>2, <4>2
          <5>2. CASE j < i
            <6>1. j \in 1 .. Len(Queue) - 1 /\ Queue'[j] = Queue[j]
              BY <1>5, <1>6, <5>2
            <6> QED
              BY <1>6, <4>2, <6>1
          <5>3. CASE j > i
            <6> DEFINE m == j - 1
            <6>1. m \in 1 .. Len(Queue) - 1 /\ ~(m < i) /\ m + 1 = j
              BY <1>5, <1>6, <5>3
            <6> HIDE DEF m
            <6>2. Queue'[m] = Queue[m + 1]
              BY <1>5, <6>1
            <6> QED
              BY <1>6, <4>2, <6>1, <6>2
          <5> QED
            BY <1>5, <1>6, <5>1, <5>2, <5>3
        <4>3. (\E k \in DOMAIN Queue' : Queue'[k] = q) => \E j \in DOMAIN Queue : Queue[j] = q
          BY <1>7
        <4> QED
          BY <1>1, <4>1, <4>2, <4>3 DEF Placed
      <3> QED
        BY <3>1, <3>2
    <2>3. ASSUME NEW q \in leaving' PROVE \E k \in DOMAIN active' : active'[k] = q
      <3>1. q \in leaving /\ q # gone
        BY <1>2 DEF gone
      <3>2. PICK j \in DOMAIN active : active[j] = q
        BY <1>1, <3>1 DEF Placed
      <3>3. j # i
        BY <3>1, <3>2 DEF gone
      <3>4. /\ active' \in Seq(Requests)
            /\ Len(active') = Len(active) - 1
            /\ \A k \in 1 .. Len(active) - 1 :
                 active'[k] = IF k < i THEN active[k] ELSE active[k + 1]
        <4>1. active \in Seq(Requests) /\ i \in 1 .. Len(active)
          BY <1>1, <1>2 DEF TypeOK
        <4>2. /\ RemoveAt(active, i) \in Seq(Requests)
              /\ Len(RemoveAt(active, i)) = Len(active) - 1
              /\ \A k \in 1 .. Len(active) - 1 :
                   RemoveAt(active, i)[k] = IF k < i THEN active[k] ELSE active[k + 1]
          BY <4>1, RemoveAtProperties
        <4> QED
          BY <1>2, <4>2
      <3>5. /\ DOMAIN active = 1 .. Len(active) /\ Len(active) \in Nat
            /\ DOMAIN active' = 1 .. Len(active) - 1
        BY <1>1, <3>4 DEF TypeOK
      <3>6. CASE j < i
        <4>1. j \in 1 .. Len(active) - 1 /\ active'[j] = active[j]
          BY <1>2, <3>4, <3>5, <3>6
        <4> QED
          BY <3>2, <3>5, <4>1
      <3>7. CASE j > i
        <4> DEFINE m == j - 1
        <4>1. m \in 1 .. Len(active) - 1 /\ ~(m < i) /\ m + 1 = j
          BY <1>2, <3>5, <3>7
        <4> HIDE DEF m
        <4>2. active'[m] = active[m + 1]
          BY <3>4, <4>1
        <4> QED
          BY <3>2, <3>5, <4>1, <4>2
      <3> QED
        BY <1>2, <3>3, <3>5, <3>6, <3>7
    <2> QED
      BY <2>1, <2>2, <2>3 DEF Placed
  <1>11. OldestFirst'
    <2>1. SUFFICES ASSUME NEW j \in DOMAIN Queue', NEW k \in DOMAIN Queue', j < k
                   PROVE  age'[Queue'[j]] >= age'[Queue'[k]]
      BY DEF OldestFirst
    <2>2. age[Queue[From(j)]] >= age[Queue[From(k)]]
      BY <1>1, <1>7, <1>8, <2>1 DEF OldestFirst
    <2> QED
      BY <1>4, <1>7, <2>2
  <1>12. NoStepAfterLast'
    <2>1. ASSUME NEW q \in Requests, profile'[q] # None
          PROVE  /\ step'[q] <= Steps(profile'[q])
                 /\ step'[q] = Steps(profile'[q]) => q \in leaving'
      <3>1. q # gone /\ profile'[q] = profile[q] /\ step'[q] = step[q]
        BY <1>4, <2>1
      <3>2. leaving' = leaving \ {gone}
        BY <1>2 DEF gone
      <3>3. step[q] <= Steps(profile[q]) /\ (step[q] = Steps(profile[q]) => q \in leaving)
        BY <1>1, <2>1, <3>1 DEF NoStepAfterLast
      <3> QED
        BY <3>1, <3>2, <3>3
    <2> QED
      BY <2>1 DEF NoStepAfterLast
  <1>13. Blank'
    BY <1>1, <1>4 DEF Blank
  <1> QED
    BY <1>9, <1>10, <1>11, <1>12, <1>13 DEF SchedulerInv

LEMMA StepInv == SchedulerInv /\ [Next]_vars => SchedulerInv'
  BY AdmitInv, RunBatchInv, CompleteInv, StutterInv DEF Next

\* The invariant holds in every state of every behaviour.
LEMMA Invariance == Spec => []SchedulerInv
  BY InitInv, StepInv, PTL DEF Spec

\* The queues hold requests, within their limits.
THEOREM SchedulerTypes == Spec => []TypeOK
  BY Invariance, PTL DEF SchedulerInv

(***************************************************************************)
(* An admitted request is in the active list or in the deque, never in     *)
(* both, never twice, never in neither.                                    *)
(***************************************************************************)
THEOREM NoRequestLost == Spec => []Placed
  BY Invariance, PTL DEF SchedulerInv

\* Both queues together are always in the order of admission.
THEOREM OrderOfAdmission == Spec => []OldestFirst
  BY Invariance, PTL DEF SchedulerInv

\* A request leaves when its steps are used up, and never runs one more.
THEOREM StepsWithinBudget == Spec => []NoStepAfterLast
  BY Invariance, PTL DEF SchedulerInv

-----------------------------------------------------------------------------
(***************************************************************************)
(* Bounded overtaking                                                      *)
(***************************************************************************)

\* In the pool too, the older of two requests is the nearer to the head.
LEMMA PoolByAge ==
  ASSUME SchedulerInv
  PROVE  \A j, k \in DOMAIN Pool :
           /\ Pool[j] \in Requests /\ age[Pool[j]] \in Nat
           /\ j <= k => age[Pool[j]] >= age[Pool[k]]
  <1>1. /\ TypeOK /\ OldestFirst
        /\ Pool \in Seq(Requests)
        /\ Len(Pool) \in Nat /\ Len(Queue) \in Nat
        /\ Len(Pool) <= Len(Queue)
        /\ DOMAIN Pool = 1 .. Len(Pool)
        /\ DOMAIN Queue = 1 .. Len(Queue)
        /\ \A k \in 1 .. Len(Pool) : Pool[k] = Queue[k]
    BY PoolIsPrefix, QueueType DEF SchedulerInv
  <1> SUFFICES ASSUME NEW j \in DOMAIN Pool, NEW k \in DOMAIN Pool
               PROVE  /\ Pool[j] \in Requests /\ age[Pool[j]] \in Nat
                      /\ j <= k => age[Pool[j]] >= age[Pool[k]]
    OBVIOUS
  <1>2. Pool[j] \in Requests
    BY <1>1
  <1>3. age[Pool[j]] \in Nat
    BY <1>1, <1>2, LimitAssumption DEF TypeOK
  <1>4. /\ j \in DOMAIN Queue /\ k \in DOMAIN Queue
        /\ Pool[j] = Queue[j] /\ Pool[k] = Queue[k]
    BY <1>1
  <1>5. j < k => age[Pool[j]] >= age[Pool[k]]
    BY <1>1, <1>4 DEF OldestFirst
  <1>6. j = k => age[Pool[j]] >= age[Pool[k]]
    BY <1>3
  <1> QED
    BY <1>1, <1>2, <1>3, <1>5, <1>6

\* The wait of a group is the wait of its first member.
LEMMA OldestOfGroup ==
  ASSUME SchedulerInv, NEW j \in DOMAIN Pool, First(Pool, j)
  PROVE  OldestWait(Pool, j) = age[Pool[j]]
  <1> DEFINE S == {age[Pool[k]] : k \in Group(Pool, j)}
             w == age[Pool[j]]
  <1>1. Group(Pool, j) \subseteq DOMAIN Pool /\ j \in Group(Pool, j)
    BY DEF Group
  <1>2. w \in S /\ \A y \in S : y \in Nat /\ w >= y
    BY <1>1, PoolByAge DEF First
  <1> HIDE DEF S, w
  <1>3. Max(S) \in S /\ \A y \in S : Max(S) >= y
    BY <1>2 DEF Max
  <1>4. Max(S) = w
    BY <1>2, <1>3
  <1> QED
    BY <1>4 DEF OldestWait, S, w

\* Two different groups: the second is smaller than the pool.
LEMMA GroupSizes ==
  ASSUME SchedulerInv, NEW i \in DOMAIN Pool, First(Pool, i), i # 1
  PROVE  /\ Cardinality(Group(Pool, 1)) \in Nat \ {0}
         /\ Cardinality(Group(Pool, i)) \in Nat
         /\ Cardinality(Group(Pool, i)) <= 2 * MaxBatch - 1
  <1>1. /\ Len(Pool) \in Nat /\ DOMAIN Pool = 1 .. Len(Pool)
        /\ Len(Pool) <= 2 * MaxBatch /\ MaxBatch \in Nat
    BY PoolIsPrefix, Promotion, LimitAssumption DEF SchedulerInv
  <1>2. Group(Pool, 1) \subseteq 1 .. Len(Pool) /\ 1 \in Group(Pool, 1)
    BY <1>1 DEF Group
  <1>3. Group(Pool, i) \subseteq 2 .. Len(Pool)
    BY <1>1 DEF Group, First
  <1> DEFINE n == Len(Pool)
  <1> HIDE DEF n
  <1>4. n \in Int /\ n \in Nat
    BY <1>1 DEF n
  <1>5. IsFiniteSet(1 .. n)
    BY <1>4, FS_Interval
  <1>6. IsFiniteSet(Group(Pool, 1)) /\ Cardinality(Group(Pool, 1)) \in Nat
    <2>1. IsFiniteSet(Group(Pool, 1))
      BY <1>2, <1>5, FS_Subset DEF n
    <2> QED
      BY <2>1, FS_CardinalityType
  <1>7. Cardinality(Group(Pool, 1)) # 0
    BY <1>2, <1>6, FS_EmptySet
  <1>8. /\ IsFiniteSet(2 .. Len(Pool))
        /\ Cardinality(2 .. Len(Pool)) = IF 2 > Len(Pool) THEN 0 ELSE Len(Pool) - 2 + 1
    <2>1. IsFiniteSet(2 .. n) /\ Cardinality(2 .. n) = IF 2 > n THEN 0 ELSE n - 2 + 1
      BY <1>4, FS_Interval
    <2> QED
      BY <2>1 DEF n
  <1>9. /\ IsFiniteSet(Group(Pool, i))
        /\ Cardinality(Group(Pool, i)) <= Cardinality(2 .. Len(Pool))
    BY <1>3, <1>8, FS_Subset
  <1>10. Cardinality(Group(Pool, i)) \in Nat
    BY <1>9, FS_CardinalityType
  <1>11. i \in 1 .. Len(Pool)
    BY <1>1
  <1> QED
    BY <1>1, <1>6, <1>7, <1>8, <1>9, <1>10, <1>11

\* Scores compared, when both waits are known.
LEMMA ScoreGap ==
  ASSUME SchedulerInv, NEW i \in DOMAIN Pool, Best(Pool, i), i # 1
  PROVE  age[Pool[1]] <= age[Pool[i]] + AgingPeriod * (2 * MaxBatch - 2)
  <1> DEFINE c == Cardinality(Group(Pool, 1))
             d == Cardinality(Group(Pool, i))
             v == age[Pool[1]]
             w == age[Pool[i]]
             A == AgingPeriod
             bonus == FlushBonus * AgingPeriod
  <1>1. DOMAIN Pool = 1 .. Len(Pool) /\ Len(Pool) \in Nat
    BY PoolIsPrefix DEF SchedulerInv
  <1>2. 1 \in DOMAIN Pool
    BY <1>1
  <1>3. First(Pool, 1) /\ First(Pool, i)
    BY <1>1 DEF First, Group, Best
  <1>4. OldestWait(Pool, 1) = v /\ OldestWait(Pool, i) = w
    BY <1>2, <1>3, OldestOfGroup
  <1>5. v \in Nat /\ w \in Nat /\ w <= v
    BY <1>1, <1>2, PoolByAge
  <1>6. c \in Nat \ {0} /\ d \in Nat /\ d <= 2 * MaxBatch - 1
    BY <1>3, GroupSizes
  <1>7. A \in Nat /\ MaxBatch \in Nat \ {0} /\ FlushWait \in Nat /\ bonus \in Nat
    BY LimitAssumption
  <1>8. /\ Score(Pool, 1) = A * c + v + (IF v > FlushWait THEN bonus ELSE 0)
        /\ Score(Pool, i) = A * d + w + (IF w > FlushWait THEN bonus ELSE 0)
    BY <1>4 DEF Score
  <1>9. \/ Score(Pool, 1) < Score(Pool, i)
        \/ Score(Pool, 1) = Score(Pool, i)
    BY <1>2, <1>3 DEF Best
  <1> HIDE DEF c, d, v, w, A, bonus
  <1>10. A * c \in Nat /\ A * d \in Nat /\ A <= A * c
    BY <1>6, <1>7
  <1>11. A * d <= A * (2 * MaxBatch - 1)
    BY <1>6, <1>7
  <1>12. A * (2 * MaxBatch - 1) = A * (2 * MaxBatch - 2) + A
    BY <1>7
  <1>13. A * (2 * MaxBatch - 2) \in Nat
    BY <1>7
  <1>14. A * c + v <= A * d + w
    BY <1>5, <1>7, <1>8, <1>9, <1>10
  <1>15. v <= w + A * (2 * MaxBatch - 2)
    BY <1>5, <1>7, <1>10, <1>11, <1>12, <1>13, <1>14
  <1> QED
    BY <1>15 DEF v, w, A

\* The first member of the chosen group is in the batch.
LEMMA LeaderRuns ==
  ASSUME SchedulerInv, NEW i \in DOMAIN Pool, First(Pool, i)
  PROVE  Pool[i] \in Batch(Pool, i)
  <1>1. DOMAIN Pool = 1 .. Len(Pool) /\ Len(Pool) \in Nat
    BY PoolIsPrefix DEF SchedulerInv
  <1>2. i \in Group(Pool, i)
    BY DEF Group
  <1>3. Group(Pool, i) \subseteq 1 .. Len(Pool)
    BY <1>1 DEF Group
  <1>4. {m \in Group(Pool, i) : m < i} = {}
    BY <1>1, <1>3 DEF First
  <1>5. Cardinality({m \in Group(Pool, i) : m < i}) = 0
    BY <1>4, FS_EmptySet
  <1>6. i \in {k \in Group(Pool, i) : Cardinality({m \in Group(Pool, i) : m < k}) < MaxBatch}
    BY <1>2, <1>5, LimitAssumption
  <1> QED
    BY <1>6 DEF Batch

\* Who leads the batch is nearly as old as the head of the list.
LEMMA HeadGap ==
  ASSUME SchedulerInv, NEW i \in DOMAIN Pool, Best(Pool, i)
  PROVE  age[Pool[1]] <= age[Pool[i]] + AgingPeriod * (2 * MaxBatch - 2)
  <1>1. CASE i # 1
    BY <1>1, ScoreGap
  <1>2. CASE i = 1
    <2>1. Pool[i] \in Requests
      BY PoolIsPrefix DEF SchedulerInv
    <2>2. age[Pool[i]] \in Nat
      BY <2>1, LimitAssumption DEF SchedulerInv, TypeOK
    <2>3. AgingPeriod * (2 * MaxBatch - 2) \in Nat
      BY LimitAssumption
    <2> QED
      BY <1>2, <2>2, <2>3
  <1> QED
    BY <1>1, <1>2

\* What happens when the oldest active request is passed over.
LEMMA OvertakingStep == SchedulerInv /\ [Next]_vars => [OvertakenByLittle]_vars
  <1> SUFFICES ASSUME SchedulerInv, Next, leaving = {}, Ran # {}
               PROVE  \E r \in Ran : age[active'[1]] <= age[r] + AgingPeriod * (2 * MaxBatch - 2)
    BY DEF OvertakenByLittle
  <1>1. CASE Complete
    BY <1>1 DEF Complete
  <1>2. ASSUME NEW r \in Requests, Admit(r) PROVE FALSE
    BY <1>2 DEF Admit, Ran
  <1>3. CASE RunBatch
    <2>1. active' = Pool
      BY <1>3 DEF RunBatch
    <2>2. PICK i \in DOMAIN Pool : Best(Pool, i) /\ (Denoise(Batch(Pool, i)) \/ Abort(Batch(Pool, i)))
      BY <1>3 DEF RunBatch
    <2> DEFINE r == Pool[i]
               B == Batch(Pool, i)
    <2>3. r \in B
      BY <2>2, LeaderRuns DEF Best
    <2>4. r \in Requests /\ profile[r] \in Profiles
      BY <2>3, BatchMembers DEF SchedulerInv
    <2>5. r \in Ran
      <3>1. CASE Abort(B)
        BY <2>3, <2>4, <3>1 DEF Abort, Ran
      <3>2. CASE Denoise(B)
        <4>1. step'[r] \in NextSteps(r)
          BY <2>3, <2>4, <3>2 DEF Denoise
        <4>2. step[r] < step'[r] /\ step'[r] \in Nat /\ step[r] \in Nat
          BY <2>4, <4>1, StepsOfBatch DEF SchedulerInv, TypeOK
        <4> QED
          BY <2>4, <4>2 DEF Ran
      <3> QED
        BY <2>2, <3>1, <3>2
    <2>6. age[Pool[1]] <= age[r] + AgingPeriod * (2 * MaxBatch - 2)
      BY <2>2, HeadGap
    <2> QED
      BY <2>1, <2>5, <2>6
  <1> QED
    BY <1>1, <1>2, <1>3 DEF Next

(***************************************************************************)
(* Aging works for every size of batch and every aging period: the oldest  *)
(* active request is passed over only by a batch with a member nearly as   *)
(* old, so no stream of later requests passes it for long.                 *)
(***************************************************************************)
THEOREM AgingBoundsOvertaking == Spec => BoundedOvertaking
  BY Invariance, OvertakingStep, PTL DEF Spec, BoundedOvertaking

-----------------------------------------------------------------------------
(***************************************************************************)
(* The refinement of Batching                                              *)
(*                                                                         *)
(* What Service and Offline take for granted is what the detailed model    *)
(* does.  Both queues are segments of Queue, whose members differ          *)
(* (Placed).  A promotion moves the boundary of the two segments to the    *)
(* right by as many requests as fit; the batch is a set of at most         *)
(* MaxBatch of them, because the members of a group are cut by their rank. *)
(***************************************************************************)

Segment(s, a, b) == {s[k] : k \in a .. b}

LEMMA SegmentSize ==
  ASSUME NEW s \in Seq(Requests), \A i, j \in 1 .. Len(s) : s[i] = s[j] => i = j,
         NEW a \in 1 .. Len(s) + 1, NEW b \in a - 1 .. Len(s)
  PROVE  /\ IsFiniteSet(Segment(s, a, b))
         /\ Cardinality(Segment(s, a, b)) = b - a + 1
  <1> DEFINE f == [k \in a .. b |-> s[k]]
  <1>1. a \in Int /\ b \in Int /\ a .. b \subseteq 1 .. Len(s)
    OBVIOUS
  <1>2. f \in Bijection(a .. b, Segment(s, a, b))
    <2>1. f \in [a .. b -> Segment(s, a, b)]
      BY DEF Segment
    <2>2. \A i, j \in a .. b : f[i] = f[j] => i = j
      BY <1>1
    <2>3. \A x \in Segment(s, a, b) : \E k \in a .. b : f[k] = x
      BY DEF Segment
    <2>4. f \in Injection(a .. b, Segment(s, a, b))
      BY <2>1, <2>2 DEF Injection, IsInjective
    <2>5. f \in Surjection(a .. b, Segment(s, a, b))
      BY <2>1, <2>3 DEF Surjection
    <2> QED
      BY <2>4, <2>5 DEF Bijection
  <1>3. IsFiniteSet(a .. b) /\ Cardinality(a .. b) = b - a + 1
    <2>1. a \in Int /\ b \in Int /\ a - 1 <= b
      OBVIOUS
    <2>2. IsFiniteSet(a .. b) /\ Cardinality(a .. b) = IF a > b THEN 0 ELSE b - a + 1
      BY <2>1, FS_Interval
    <2> QED
      BY <2>1, <2>2
  <1> HIDE DEF f
  <1>4. ExistsBijection(a .. b, Segment(s, a, b))
    BY <1>2 DEF ExistsBijection
  <1> QED
    BY <1>3, <1>4, FS_Bijection

\* The two segments of a concatenation.
LEMMA Segments ==
  ASSUME NEW a \in Seq(Requests), NEW p \in Seq(Requests), NEW q, q = a \o p
  PROVE  /\ Len(a) \in Nat /\ Len(p) \in Nat
         /\ Len(q) = Len(a) + Len(p)
         /\ Members(a) = Segment(q, 1, Len(a))
         /\ Members(p) = Segment(q, Len(a) + 1, Len(q))
  <1>1. /\ Len(a) \in Nat /\ Len(p) \in Nat
        /\ DOMAIN a = 1 .. Len(a) /\ DOMAIN p = 1 .. Len(p)
    OBVIOUS
  <1>2. /\ Len(q) = Len(a) + Len(p)
        /\ \A k \in 1 .. Len(q) : q[k] = IF k <= Len(a) THEN a[k] ELSE p[k - Len(a)]
    OBVIOUS
  <1>3. Members(a) = Segment(q, 1, Len(a))
    <2>1. \A k \in 1 .. Len(a) : q[k] = a[k]
      BY <1>1, <1>2
    <2>2. Members(a) = {a[k] : k \in 1 .. Len(a)}
      BY <1>1 DEF Members
    <2> QED
      BY <2>1, <2>2 DEF Segment
  <1>4. ASSUME NEW x \in Members(p)
        PROVE  x \in Segment(q, Len(a) + 1, Len(q))
    <2>1. PICK i \in 1 .. Len(p) : x = p[i]
      BY <1>1, <1>4 DEF Members
    <2> DEFINE k == i + Len(a)
    <2>2. k \in Len(a) + 1 .. Len(q) /\ k - Len(a) = i
      BY <1>1, <1>2
    <2> HIDE DEF k
    <2>3. q[k] = p[k - Len(a)]
      BY <1>1, <1>2, <2>2
    <2> QED
      BY <2>1, <2>2, <2>3 DEF Segment
  <1>5. ASSUME NEW k \in Len(a) + 1 .. Len(q)
        PROVE  q[k] \in Members(p)
    <2>1. q[k] = p[k - Len(a)] /\ k - Len(a) \in 1 .. Len(p)
      BY <1>1, <1>2
    <2> QED
      BY <1>1, <2>1 DEF Members
  <1>6. Members(p) = Segment(q, Len(a) + 1, Len(q))
    BY <1>4, <1>5 DEF Segment
  <1> QED
    BY <1>1, <1>2, <1>3, <1>6

LEMMA QueueSegments ==
  ASSUME TypeOK
  PROVE  /\ Len(active) \in Nat /\ Len(pending) \in Nat
         /\ Len(Queue) = Len(active) + Len(pending)
         /\ Members(active) = Segment(Queue, 1, Len(active))
         /\ Members(pending) = Segment(Queue, Len(active) + 1, Len(Queue))
  <1>1. /\ active \in Seq(Requests) /\ pending \in Seq(Requests)
        /\ Queue = active \o pending
    BY DEF TypeOK, Queue
  <1> QED
    BY <1>1, Segments

\* The members of the queue differ.
LEMMA QueueInjective ==
  ASSUME SchedulerInv
  PROVE  /\ Queue \in Seq(Requests)
         /\ \A i, j \in 1 .. Len(Queue) : Queue[i] = Queue[j] => i = j
  <1>1. Queue \in Seq(Requests)
    BY QueueType DEF SchedulerInv
  <1>2. DOMAIN Queue = 1 .. Len(Queue)
    BY <1>1
  <1> QED
    BY <1>1, <1>2 DEF SchedulerInv, Placed

\* The refinement mapping, in terms of the queue.
LEMMA SizesOfQueues ==
  ASSUME SchedulerInv
  PROVE  /\ IsFiniteSet(Members(active)) /\ Cardinality(Members(active)) = Len(active)
         /\ IsFiniteSet(Members(pending)) /\ Cardinality(Members(pending)) = Len(pending)
  <1>1. /\ Len(active) \in Nat /\ Len(pending) \in Nat
        /\ Len(Queue) = Len(active) + Len(pending)
        /\ Members(active) = Segment(Queue, 1, Len(active))
        /\ Members(pending) = Segment(Queue, Len(active) + 1, Len(Queue))
    BY QueueSegments DEF SchedulerInv
  <1>2. /\ Queue \in Seq(Requests)
        /\ \A i, j \in 1 .. Len(Queue) : Queue[i] = Queue[j] => i = j
    BY QueueInjective
  <1>3. Cardinality(Segment(Queue, 1, Len(active))) = Len(active) - 1 + 1
        /\ IsFiniteSet(Segment(Queue, 1, Len(active)))
    <2>1. 1 \in 1 .. Len(Queue) + 1 /\ Len(active) \in 1 - 1 .. Len(Queue)
      BY <1>1
    <2> QED
      BY <1>2, <2>1, SegmentSize
  <1>4. Cardinality(Segment(Queue, Len(active) + 1, Len(Queue))) = Len(Queue) - (Len(active) + 1) + 1
        /\ IsFiniteSet(Segment(Queue, Len(active) + 1, Len(Queue)))
    <2>1. /\ Len(active) + 1 \in 1 .. Len(Queue) + 1
          /\ Len(Queue) \in (Len(active) + 1) - 1 .. Len(Queue)
      BY <1>1
    <2> QED
      BY <1>2, <2>1, SegmentSize
  <1> QED
    BY <1>1, <1>3, <1>4

-----------------------------------------------------------------------------
(* A set of numbers each with fewer than n members below it has at most n  *)
(* of them: the rank is an injection into 0 .. n - 1.                      *)
LEMMA CutByRank ==
  ASSUME NEW m \in Nat, NEW G \in SUBSET (1 .. m), NEW n \in Nat,
         NEW J, J = {k \in G : Cardinality({x \in G : x < k}) < n}
  PROVE  IsFiniteSet(J) /\ Cardinality(J) <= n
  <1> DEFINE below(k) == {x \in G : x < k}
             rank == [k \in J |-> Cardinality(below(k))]
  <1>1. IsFiniteSet(G)
    <2>1. 1 \in Int /\ m \in Int
      OBVIOUS
    <2>2. IsFiniteSet(1 .. m)
      BY <2>1, FS_Interval
    <2> QED
      BY <2>2, FS_Subset
  <1>2. ASSUME NEW k \in G
        PROVE  IsFiniteSet(below(k)) /\ Cardinality(below(k)) \in Nat
    BY <1>1, FS_Subset, FS_CardinalityType
  <1>3. ASSUME NEW k \in G, NEW l \in G, k < l
        PROVE  Cardinality(below(k)) < Cardinality(below(l))
    <2> DEFINE S == below(k) \cup {k}
    <2> k \in Int /\ l \in Int /\ \A x \in G : x \in Int
      OBVIOUS
    <2>1. k \notin below(k)
      OBVIOUS
    <2>2. S \subseteq below(l)
      <3>1. k \in below(l)
        BY <1>3
      <3>2. \A x \in G : x < k => x < l
        BY <1>3
      <3> QED
        BY <3>1, <3>2
    <2> HIDE DEF below
    <2>3. IsFiniteSet(S) /\ Cardinality(S) = Cardinality(below(k)) + 1
      BY <1>2, <2>1, FS_AddElement
    <2>4. Cardinality(S) <= Cardinality(below(l))
      BY <1>2, <2>2, FS_Subset
    <2> QED
      BY <1>2, <2>3, <2>4
  <1>4. rank \in Injection(J, 0 .. n - 1)
    <2>1. \A k \in J : k \in G /\ Cardinality(below(k)) < n
      OBVIOUS
    <2> HIDE DEF below
    <2>2. rank \in [J -> 0 .. n - 1]
      <3>1. \A k \in J : Cardinality(below(k)) \in 0 .. n - 1
        BY <1>2, <2>1
      <3> QED
        BY <3>1
    <2>3. ASSUME NEW k \in J, NEW l \in J, rank[k] = rank[l]
          PROVE  k = l
      <3>1. k \in Int /\ l \in Int
        BY <2>1
      <3>2. Cardinality(below(k)) = Cardinality(below(l))
        BY <2>3
      <3>3. ~(k < l) /\ ~(l < k)
        BY <1>2, <1>3, <2>1, <3>2
      <3> QED
        BY <3>1, <3>3
    <2> HIDE DEF rank
    <2> QED
      BY <2>2, <2>3 DEF Injection, IsInjective
  <1>5. IsFiniteSet(0 .. n - 1) /\ Cardinality(0 .. n - 1) = n
    <2>1. 0 \in Int /\ n - 1 \in Int
      OBVIOUS
    <2>2. IsFiniteSet(0 .. n - 1)
          /\ Cardinality(0 .. n - 1) = IF 0 > n - 1 THEN 0 ELSE (n - 1) - 0 + 1
      BY <2>1, FS_Interval
    <2> QED
      BY <2>2
  <1> HIDE DEF rank
  <1> QED
    BY <1>4, <1>5, FS_Injection

\* A batch has at most max_batch members.
LEMMA BatchSize ==
  ASSUME TypeOK, NEW i \in DOMAIN Pool
  PROVE  IsFiniteSet(Batch(Pool, i)) /\ Cardinality(Batch(Pool, i)) <= MaxBatch
  <1> DEFINE G == Group(Pool, i)
             J == {k \in G : Cardinality({m \in G : m < k}) < MaxBatch}
             f == [k \in J |-> Pool[k]]
  <1>1. Len(Pool) \in Nat /\ G \subseteq 1 .. Len(Pool)
    BY PoolIsPrefix DEF Group
  <1>2. MaxBatch \in Nat
    BY LimitAssumption
  <1>3. IsFiniteSet(J) /\ Cardinality(J) <= MaxBatch
    <2> HIDE DEF G
    <2> QED
      BY <1>1, <1>2, CutByRank
  <1>4. Batch(Pool, i) = {Pool[k] : k \in J}
    BY DEF Batch
  <1> HIDE DEF J
  <1>5. f \in Surjection(J, Batch(Pool, i))
    BY <1>4 DEF Surjection
  <1> HIDE DEF f
  <1>6. IsFiniteSet(Batch(Pool, i)) /\ Cardinality(Batch(Pool, i)) <= Cardinality(J)
    BY <1>3, <1>5, FS_Surjection
  <1> QED
    BY <1>2, <1>3, <1>6, FS_CardinalityType

-----------------------------------------------------------------------------
(***************************************************************************)
(* The steps.                                                              *)
(***************************************************************************)

LEMMA AdmitRefines ==
  ASSUME SchedulerInv, NEW r \in Requests, Admit(r)
  PROVE  Promise!Admit(r)
  <1>1. /\ pending \in Seq(Requests) /\ leaving' = leaving /\ active' = active
        /\ profile[r] = None /\ Len(pending) < MaxWaiting
        /\ pending' = Append(pending, r)
    BY DEF Admit, SchedulerInv, TypeOK
  <1>2. Members(pending') = Members(pending) \cup {r}
    <2>1. /\ DOMAIN pending = 1 .. Len(pending) /\ Len(pending) \in Nat
          /\ DOMAIN pending' = 1 .. Len(pending) + 1
          /\ \A k \in 1 .. Len(pending) : pending'[k] = pending[k]
          /\ pending'[Len(pending) + 1] = r
      BY <1>1
    <2>2. \A k : k \in DOMAIN pending' <=> k \in DOMAIN pending \/ k = Len(pending) + 1
      BY <2>1
    <2> QED
      BY <2>1, <2>2 DEF Members
  <1>3. Cardinality(Members(pending)) = Len(pending)
    BY SizesOfQueues
  <1>4. r \notin Members(pending) /\ r \notin Members(active)
    <2>1. \A j \in DOMAIN Queue : Queue[j] # r
      BY <1>1 DEF SchedulerInv, Placed
    <2>2. /\ Members(active) = Segment(Queue, 1, Len(active))
          /\ Members(pending) = Segment(Queue, Len(active) + 1, Len(Queue))
          /\ Len(active) \in Nat /\ Len(pending) \in Nat
          /\ Len(Queue) = Len(active) + Len(pending)
      BY QueueSegments DEF SchedulerInv
    <2>3. DOMAIN Queue = 1 .. Len(Queue)
      BY QueueInjective
    <2> QED
      BY <2>1, <2>2, <2>3 DEF Segment
  <1>5. Members(active') = Members(active)
    BY <1>1
  <1> HIDE DEF Members
  <1> QED
    BY <1>1, <1>2, <1>3, <1>4, <1>5
    DEF Promise!Admit, Promise!InSystem, Promise!Cardinality, Cardinality

LEMMA RunBatchRefines ==
  ASSUME SchedulerInv, SchedulerInv', RunBatch
  PROVE  \E F \in SUBSET Promise!InSystem : Promise!Iterate(F)
  <1> DEFINE n == Len(active)
             m == Len(Pool)
             l == Len(Queue)
             P == Segment(Queue, n + 1, m)
  <1>1. /\ TypeOK /\ TypeOK' /\ leaving = {} /\ leaving' \subseteq Requests
        /\ Queue' = Queue /\ active' = Pool
    BY QueueOfRunBatch DEF SchedulerInv, RunBatch, TypeOK
  <1>2. /\ n \in Nat /\ Len(pending) \in Nat /\ l = n + Len(pending)
        /\ Members(active) = Segment(Queue, 1, n)
        /\ Members(pending) = Segment(Queue, n + 1, l)
    BY <1>1, QueueSegments
  <1>3. /\ Members(active') = Segment(Queue, 1, m)
        /\ Members(pending') = Segment(Queue, m + 1, l)
    <2>1. /\ active' \in Seq(Requests) /\ pending' \in Seq(Requests)
          /\ Queue = active' \o pending' /\ Len(active') = m
      BY <1>1 DEF TypeOK, Queue
    <2> HIDE DEF m
    <2> QED
      BY <2>1, Segments DEF l
  <1>4. /\ m = n + Promotions /\ Promotions \in 0 .. Len(pending)
    BY <1>1, Promotion
  <1>5. /\ Queue \in Seq(Requests)
        /\ \A i, j \in 1 .. l : Queue[i] = Queue[j] => i = j
    BY QueueInjective
  <1> HIDE DEF n, m, l
  <1>6. m \in Nat /\ l \in Nat /\ n <= m /\ m <= l
    BY <1>2, <1>4
  <1>7. P \subseteq Members(pending)
    BY <1>2, <1>6 DEF Segment
  <1>8. Members(active') = Members(active) \cup P
    BY <1>2, <1>3, <1>6 DEF Segment
  <1>9. Members(pending') = Members(pending) \ P
    <2>1. \A i, j \in n + 1 .. l : Queue[i] = Queue[j] => i = j
      BY <1>2, <1>5, <1>6
    <2>2. m + 1 .. l = (n + 1 .. l) \ (n + 1 .. m) /\ n + 1 .. m \subseteq n + 1 .. l
      BY <1>2, <1>6
    <2> QED
      BY <1>2, <1>3, <2>1, <2>2 DEF Segment
  <1>10. IsFiniteSet(P) /\ Cardinality(P) = Promotions
    <2>1. n + 1 \in 1 .. l + 1 /\ m \in (n + 1) - 1 .. l
      BY <1>2, <1>6
    <2>2. IsFiniteSet(P) /\ Cardinality(P) = m - (n + 1) + 1
      BY <1>5, <2>1, SegmentSize DEF l
    <2> QED
      BY <1>2, <1>4, <2>2
  <1>11. Promotions = Min({Len(pending), 2 * MaxBatch - n})
    <2>1. MaxBatch \in Nat /\ Room = MaxBatch * 2 - n
      BY LimitAssumption DEF Room, n
    <2>2. Promotions = IF Len(pending) <= 2 * MaxBatch - n THEN Len(pending)
                       ELSE 2 * MaxBatch - n
      BY <1>2, <2>1 DEF Promotions
    <2> DEFINE k == 2 * MaxBatch - n
    <2>3. k \in Int
      BY <1>2, <2>1
    <2> HIDE DEF k
    <2>4. \A x : /\ x \in {Len(pending), k}
                 /\ \A y \in {Len(pending), k} : x <= y
                 => x = IF Len(pending) <= k THEN Len(pending) ELSE k
      BY <1>2, <2>3
    <2>5. \E x \in {Len(pending), k} : \A y \in {Len(pending), k} : x <= y
      BY <1>2, <2>3
    <2>6. Min({Len(pending), k}) = IF Len(pending) <= k THEN Len(pending) ELSE k
      BY <2>4, <2>5 DEF Min
    <2> QED
      BY <2>2, <2>6 DEF k
  <1>12. PICK i \in DOMAIN Pool : leaving' \subseteq Batch(Pool, i)
    BY DEF RunBatch, Denoise, Abort
  <1>13. IsFiniteSet(leaving') /\ Cardinality(leaving') <= MaxBatch
    <2>1. IsFiniteSet(Batch(Pool, i)) /\ Cardinality(Batch(Pool, i)) <= MaxBatch
      BY <1>1, BatchSize
    <2>2. IsFiniteSet(leaving') /\ Cardinality(leaving') <= Cardinality(Batch(Pool, i))
      BY <1>12, <2>1, FS_Subset
    <2> QED
      BY <2>1, <2>2, LimitAssumption, FS_CardinalityType
  <1>14. leaving' \subseteq Members(active)  \cup P
    <2>1. Batch(Pool, i) \subseteq Members(Pool)
      BY DEF Batch, Group, Members
    <2> QED
      BY <1>1, <1>8, <1>12, <2>1
  <1>15. Members(Pool) # {} /\ Members(Pool) \subseteq Members(active) \cup Members(pending)
    <2>1. Members(Pool) = Members(active) \cup P
      BY <1>1, <1>8
    <2>2. Pool[i] \in Members(Pool)
      BY <1>12 DEF Members
    <2> HIDE DEF Members, P
    <2> QED
      BY <1>7, <2>1, <2>2
  <1>16. /\ Cardinality(Members(active)) = n
         /\ Cardinality(Members(pending)) = Len(pending)
    BY SizesOfQueues DEF n
  <1> HIDE DEF P, Members
  <1>17. P \in Promise!Promotable
    <2>1. Members(active) \ leaving = Members(active)
      BY <1>1
    <2>2. Promise!Promotable = kSubset(Min({Len(pending), 2 * MaxBatch - n}), Members(pending))
      <3>1. /\ Promise!Cardinality(Members(pending)) = Len(pending)
            /\ Promise!Cardinality(Members(active)) = n
        BY <1>16 DEF Promise!Cardinality, Cardinality
      <3>2. Promise!Promotable
              = Promise!kSubset(Promise!Min({Len(pending), 2 * MaxBatch - n}), Members(pending))
        BY <2>1, <3>1 DEF Promise!Promotable
      <3>3. ASSUME NEW k, NEW S
            PROVE  Promise!kSubset(k, S) = kSubset(k, S)
        BY DEF Promise!kSubset, kSubset, Promise!Cardinality, Cardinality
      <3>4. ASSUME NEW S
            PROVE  Promise!Min(S) = Min(S)
        BY DEF Promise!Min, Min
      <3> QED
        BY <3>2, <3>3, <3>4
    <2> QED
      BY <1>7, <1>10, <1>11, <2>2 DEF kSubset
  <1>18. Promise!Iterate(leaving')
    BY <1>1, <1>8, <1>9, <1>13, <1>14, <1>15, <1>17
    DEF Promise!Iterate, Promise!HasWork, Promise!InSystem, Promise!Cardinality, Cardinality
  <1> QED
    BY <1>1, <1>7, <1>14, <1>18 DEF Promise!InSystem

LEMMA CompleteRefines ==
  ASSUME SchedulerInv, SchedulerInv', Complete
  PROVE  UNCHANGED Promise!bvars
  <1>1. PICK i \in DOMAIN active :
          /\ active[i] \in leaving
          /\ active' = RemoveAt(active, i)
          /\ leaving' = leaving \ {active[i]}
          /\ pending' = pending
    BY DEF Complete
  <1>2. active \in Seq(Requests) /\ DOMAIN active = 1 .. Len(active) /\ Len(active) \in Nat
    BY DEF SchedulerInv, TypeOK
  <1>3. Distinct(active)
    <2>1. /\ \A k \in 1 .. Len(Queue) :
               Queue[k] = IF k <= Len(active) THEN active[k] ELSE pending[k - Len(active)]
          /\ Len(active) <= Len(Queue) /\ Len(Queue) \in Nat
      BY QueueType, QueueSegments DEF SchedulerInv
    <2>2. \A k \in 1 .. Len(active) : k \in 1 .. Len(Queue) /\ Queue[k] = active[k]
      BY <1>2, <2>1
    <2> QED
      BY <1>2, <2>2, QueueInjective DEF Distinct
  <1>4. Members(active') = Members(active) \ {active[i]}
    <2>1. ToSet(active') = ToSet(active) \ {active[i]}
      BY <1>1, <1>2, <1>3, RemoveAtMembers
    <2> QED
      BY <2>1 DEF Members, ToSet
  <1>5. Members(pending') = Members(pending)
    BY <1>1
  <1> HIDE DEF Members
  <1> QED
    BY <1>1, <1>4, <1>5 DEF Promise!bvars

LEMMA StepRefines ==
  SchedulerInv /\ SchedulerInv' /\ [Next]_vars => [Promise!Next]_(Promise!bvars)
  <1> SUFFICES ASSUME SchedulerInv, SchedulerInv', [Next]_vars
               PROVE  [Promise!Next]_(Promise!bvars)
    OBVIOUS
  <1>1. CASE RunBatch
    BY <1>1, RunBatchRefines DEF Promise!Next
  <1>2. CASE Complete
    BY <1>2, CompleteRefines
  <1>3. CASE \E r \in Requests : Admit(r)
    BY <1>3, AdmitRefines DEF Promise!Next
  <1>4. CASE UNCHANGED vars
    BY <1>4 DEF vars, Promise!bvars, Members
  <1> QED
    BY <1>1, <1>2, <1>3, <1>4 DEF Next

(***************************************************************************)
(* The engine loop with its scheduler keeps the promise of Batching:       *)
(* bounded queues, and requests that leave at most a batch at a time.      *)
(***************************************************************************)
THEOREM SchedulerKeepsPromise == Spec => Batched
  <1>1. Init => Promise!Init
    BY DEF Init, Promise!Init, Members
  <1> QED
    BY <1>1, StepInv, StepRefines, Invariance, PTL DEF Spec, Batched, Promise!Spec

-----------------------------------------------------------------------------
(***************************************************************************)
(* The length of a stay                                                    *)
(*                                                                         *)
(* Whoever runs is at most Gap younger than the head of the list, hence    *)
(* than anyone.  Once a request is older than Gap, the work it may have to *)
(* wait for is that of the requests already there: nothing is added to it, *)
(* and every iteration takes at least one step off it.  Work is counted as *)
(* a set of steps, so that less work is a smaller set.                     *)
(***************************************************************************)
Gap == AgingPeriod * (2 * MaxBatch - 2)

\* The steps, numbered from 1 to at most n, of those not younger than r by more.
WorkAhead(r, n) ==
  {w \in Requests \X (1 .. n) :
     /\ profile[w[1]] # None /\ w[1] \notin leaving
     /\ age[r] <= age[w[1]] + Gap
     /\ step[w[1]] < w[2] /\ w[2] <= Steps(profile[w[1]])}

MostWork(n) == (2 * MaxBatch + MaxWaiting) * n

\* With steps of at most d ticks and requests of at most n steps.
StayBound(d, n) == Gap + d * MostWork(n)

InTime(d, n) ==
  \A r \in Requests :
    profile[r] # None => age[r] + d * Cardinality(WorkAhead(r, n)) <= StayBound(d, n)

LEMMA StayNumbers ==
  ASSUME NEW n \in Nat
  PROVE  Gap \in Nat /\ MostWork(n) \in Nat
  <1>1. MaxBatch \in Nat \ {0} /\ MaxWaiting \in Nat /\ AgingPeriod \in Nat
    BY LimitAssumption
  <1>2. 2 * MaxBatch - 2 \in Nat /\ 2 * MaxBatch + MaxWaiting \in Nat
    BY <1>1
  <1> QED
    BY <1>1, <1>2 DEF Gap, MostWork

\* The queues bound the work, whoever is in them.
LEMMA WorkIsBounded ==
  ASSUME SchedulerInv, NEW n \in Nat, NEW r \in Requests
  PROVE  /\ IsFiniteSet(WorkAhead(r, n))
         /\ Cardinality(WorkAhead(r, n)) \in 0 .. MostWork(n)
  <1> DEFINE l == Len(Queue)
             M == Segment(Queue, 1, l)
             W == WorkAhead(r, n)
             k == 2 * MaxBatch + MaxWaiting
  <1>1. l \in Nat /\ l <= k /\ k \in Nat
    <2>1. /\ Len(Queue) = Len(active) + Len(pending)
          /\ Len(active) \in Nat /\ Len(pending) \in Nat
          /\ Len(active) <= 2 * MaxBatch /\ Len(pending) <= MaxWaiting
      BY QueueSegments DEF SchedulerInv, TypeOK
    <2> QED
      BY <2>1, LimitAssumption
  <1>2. IsFiniteSet(M) /\ Cardinality(M) = l
    <2>1. 1 \in 1 .. Len(Queue) + 1 /\ Len(Queue) \in 1 - 1 .. Len(Queue)
      BY <1>1
    <2>2. IsFiniteSet(M) /\ Cardinality(M) = Len(Queue) - 1 + 1
      BY <2>1, QueueInjective, SegmentSize
    <2> QED
      BY <1>1, <2>2
  <1>3. IsFiniteSet(1 .. n) /\ Cardinality(1 .. n) = n
    <2>1. IsFiniteSet(1 .. n) /\ Cardinality(1 .. n) = IF 1 > n THEN 0 ELSE n - 1 + 1
      BY FS_Interval
    <2> QED
      BY <2>1
  <1>4. W \subseteq M \X (1 .. n)
    <2>1. ASSUME NEW q \in Requests, profile[q] # None PROVE q \in M
      <3>1. PICK j \in DOMAIN Queue : Queue[j] = q
        BY <2>1 DEF SchedulerInv, Placed
      <3>2. DOMAIN Queue = 1 .. l
        BY QueueInjective
      <3> QED
        BY <3>1, <3>2 DEF Segment
    <2> HIDE DEF M
    <2> QED
      BY <2>1 DEF WorkAhead
  <1> HIDE DEF l, M, W, k
  <1>5. IsFiniteSet(M \X (1 .. n)) /\ Cardinality(M \X (1 .. n)) = l * n
    BY <1>2, <1>3, FS_Product
  <1>6. IsFiniteSet(W) /\ Cardinality(W) <= l * n
    BY <1>4, <1>5, FS_Subset
  <1>7. Cardinality(W) \in Nat
    BY <1>6, FS_CardinalityType
  <1>8. l * n <= k * n /\ k * n \in Nat /\ l * n \in Nat
    BY <1>1
  <1>9. MostWork(n) = k * n
    BY DEF MostWork, k
  <1> QED
    BY <1>6, <1>7, <1>8, <1>9 DEF W

\* A request that is not older than Gap is in time, whatever lies before it.
YoungInTime(d, n) ==
  \A r \in Requests :
    age[r] <= Gap => age[r] + d * Cardinality(WorkAhead(r, n)) <= StayBound(d, n)

LEMMA Young ==
  ASSUME NEW n \in Nat, NEW d \in Nat
  PROVE  /\ SchedulerInv => YoungInTime(d, n)
         /\ SchedulerInv' => YoungInTime(d, n)'
  <1>1. SchedulerInv => YoungInTime(d, n)
    <2> SUFFICES ASSUME SchedulerInv, NEW r \in Requests, age[r] <= Gap
                 PROVE  age[r] + d * Cardinality(WorkAhead(r, n)) <= StayBound(d, n)
      BY DEF YoungInTime
    <2> DEFINE c == Cardinality(WorkAhead(r, n))
               m == MostWork(n)
    <2>1. c \in Nat /\ m \in Nat /\ c <= m /\ Gap \in Nat
      BY WorkIsBounded, StayNumbers
    <2>2. age[r] \in Nat
      BY LimitAssumption DEF SchedulerInv, TypeOK
    <2> HIDE DEF c, m
    <2>3. d * c <= d * m /\ d * c \in Nat /\ d * m \in Nat
      BY <2>1
    <2>4. StayBound(d, n) = Gap + d * m
      BY DEF StayBound, m
    <2> QED
      BY <2>1, <2>2, <2>3, <2>4 DEF c
  <1> QED
    BY <1>1, PTL

\* Less work at the same age, and one step less at most d ticks later.
LEMMA LessWork ==
  ASSUME SchedulerInv, NEW n \in Nat, NEW d \in Nat, NEW r \in Requests,
         age[r] + d * Cardinality(WorkAhead(r, n)) <= StayBound(d, n),
         NEW W \in SUBSET WorkAhead(r, n)
  PROVE  /\ age[r] + d * Cardinality(W) <= StayBound(d, n)
         /\ W # WorkAhead(r, n) =>
              /\ age[r] + d <= StayBound(d, n)
              /\ \A a \in Nat : a <= age[r] + d => a + d * Cardinality(W) <= StayBound(d, n)
  <1> DEFINE b == Cardinality(WorkAhead(r, n))
             c == Cardinality(W)
             m == StayBound(d, n)
  <1>1. IsFiniteSet(WorkAhead(r, n)) /\ b \in Nat
    BY WorkIsBounded, StayNumbers
  <1>2. IsFiniteSet(W) /\ c <= b /\ (c = b => W = WorkAhead(r, n))
    BY <1>1, FS_Subset
  <1>3. c \in Nat
    BY <1>2, FS_CardinalityType
  <1>4. age[r] \in Nat
    BY LimitAssumption DEF SchedulerInv, TypeOK
  <1>5. m \in Nat
    <2>1. Gap \in Nat /\ MostWork(n) \in Nat
      BY StayNumbers
    <2>2. d * MostWork(n) \in Nat
      BY <2>1
    <2> QED
      BY <2>1, <2>2 DEF StayBound
  <1>6. age[r] + d * b <= m
    OBVIOUS
  <1> HIDE DEF b, c, m
  <1>7. d * c <= d * b /\ d * c \in Nat /\ d * b \in Nat
    BY <1>1, <1>2, <1>3
  <1>8. age[r] + d * c <= m
    BY <1>4, <1>5, <1>6, <1>7
  <1>9. ASSUME W # WorkAhead(r, n)
        PROVE  /\ age[r] + d <= m
               /\ \A a \in Nat : a <= age[r] + d => a + d * c <= m
    <2>1. c + 1 <= b
      BY <1>1, <1>2, <1>3, <1>9
    <2>2. d * (c + 1) <= d * b
      BY <1>1, <1>3, <2>1
    <2>3. d * (c + 1) = d * c + d
      BY <1>3
    <2> QED
      BY <1>4, <1>5, <1>6, <1>7, <2>2, <2>3
  <1> QED
    BY <1>8, <1>9 DEF c, m

LEMMA AdmitInTime ==
  ASSUME SchedulerInv, SchedulerInv', NEW n \in Nat, NEW d \in Nat, InTime(d, n),
         NEW q \in Requests, Admit(q)
  PROVE  InTime(d, n)'
  <1> SUFFICES ASSUME NEW r \in Requests, profile'[r] # None
               PROVE  age'[r] + d * Cardinality(WorkAhead(r, n)') <= StayBound(d, n)
    BY DEF InTime
  <1>1. /\ age' = age /\ step' = step /\ leaving' = leaving
        /\ profile[q] = None
        /\ \A p \in Requests : p # q => profile'[p] = profile[p]
        /\ age[q] = 0
    BY DEF Admit, SchedulerInv, TypeOK, Blank
  <1>2. CASE age'[r] <= Gap
    BY <1>2, Young DEF YoungInTime
  <1>3. CASE ~(age'[r] <= Gap)
    <2>1. Gap \in Nat /\ age[r] \in Nat
      BY StayNumbers, LimitAssumption DEF SchedulerInv, TypeOK
    <2>2. r # q /\ ~(age[r] <= age[q] + Gap)
      BY <1>1, <1>3, <2>1
    <2>3. WorkAhead(r, n)' \in SUBSET WorkAhead(r, n)
      <3>1. ASSUME NEW w \in WorkAhead(r, n)' PROVE w \in WorkAhead(r, n)
        <4>1. /\ w \in Requests \X (1 .. n)
              /\ profile'[w[1]] # None /\ w[1] \notin leaving
              /\ age[r] <= age[w[1]] + Gap
              /\ step[w[1]] < w[2] /\ w[2] <= Steps(profile'[w[1]])
          BY <1>1, <3>1 DEF WorkAhead
        <4>2. w[1] \in Requests /\ w[1] # q
          BY <2>2, <4>1
        <4>3. profile'[w[1]] = profile[w[1]]
          BY <1>1, <4>2
        <4> QED
          BY <4>1, <4>3 DEF WorkAhead
      <3> QED
        BY <3>1
    <2>4. age[r] + d * Cardinality(WorkAhead(r, n)) <= StayBound(d, n)
      BY <1>1, <2>2 DEF InTime
    <2> QED
      BY <1>1, <2>3, <2>4, LessWork
  <1> QED
    BY <1>2, <1>3

LEMMA CompleteInTime ==
  ASSUME SchedulerInv, NEW n \in Nat, NEW d \in Nat, InTime(d, n), Complete
  PROVE  InTime(d, n)'
  <1> SUFFICES ASSUME NEW r \in Requests, profile'[r] # None
               PROVE  age'[r] + d * Cardinality(WorkAhead(r, n)') <= StayBound(d, n)
    BY DEF InTime
  <1>1. PICK q \in Requests :
          /\ leaving' = leaving \ {q}
          /\ profile' = [profile EXCEPT ![q] = None]
          /\ step' = [step EXCEPT ![q] = 0]
          /\ age' = [age EXCEPT ![q] = 0]
    BY DEF Complete, SchedulerInv, TypeOK
  <1>2. \A p \in Requests :
          profile'[p] # None =>
            /\ p # q
            /\ profile'[p] = profile[p] /\ step'[p] = step[p] /\ age'[p] = age[p]
    BY <1>1 DEF SchedulerInv, TypeOK
  <1>3. WorkAhead(r, n)' \in SUBSET WorkAhead(r, n)
    <2>1. ASSUME NEW w \in WorkAhead(r, n)' PROVE w \in WorkAhead(r, n)
      <3>1. /\ w \in Requests \X (1 .. n)
            /\ profile'[w[1]] # None /\ w[1] \notin leaving'
            /\ age'[r] <= age'[w[1]] + Gap
            /\ step'[w[1]] < w[2] /\ w[2] <= Steps(profile'[w[1]])
        BY <2>1 DEF WorkAhead
      <3>2. w[1] \in Requests /\ w[1] # q /\ w[1] \notin leaving
        BY <1>1, <1>2, <3>1
      <3> QED
        BY <1>2, <3>1, <3>2 DEF WorkAhead
    <2> QED
      BY <2>1
  <1>4. age[r] + d * Cardinality(WorkAhead(r, n)) <= StayBound(d, n)
    BY <1>2 DEF InTime
  <1> QED
    BY <1>2, <1>3, <1>4, LessWork

(***************************************************************************)
(* The leader of the batch is not younger than anyone by more than Gap,    *)
(* and its next step is done, or it leaves.                                *)
(***************************************************************************)
LEMMA LeaderMoves ==
  ASSUME SchedulerInv, RunBatch, NEW r \in Requests, profile[r] # None
  PROVE  \E q \in Requests :
           /\ profile[q] # None
           /\ age[r] <= age[q] + Gap
           /\ step[q] < Steps(profile[q])
           /\ q \in leaving' \/ step[q] < step'[q]
  <1>1. PICK i \in DOMAIN Pool : Best(Pool, i) /\ (Denoise(Batch(Pool, i)) \/ Abort(Batch(Pool, i)))
    BY DEF RunBatch
  <1> DEFINE q == Pool[i]
             B == Batch(Pool, i)
  <1>2. q \in B
    BY <1>1, LeaderRuns DEF Best
  <1>3. /\ q \in Requests /\ profile[q] \in Profiles /\ profile[q] # None
    BY <1>2, BatchMembers, ProfileAssumption DEF SchedulerInv
  <1>4. age[Pool[1]] <= age[q] + Gap
    BY <1>1, HeadGap DEF Gap
  <1>5. age[r] <= age[Pool[1]]
    <2>1. /\ DOMAIN Pool = 1 .. Len(Pool) /\ Len(Pool) \in Nat
          /\ DOMAIN Queue = 1 .. Len(Queue)
          /\ Len(Pool) <= Len(Queue)
          /\ \A k \in 1 .. Len(Pool) : Pool[k] = Queue[k]
      BY PoolIsPrefix DEF SchedulerInv
    <2>2. 1 \in DOMAIN Queue /\ Pool[1] = Queue[1]
      <3>1. 1 \in 1 .. Len(Pool)
        BY <2>1
      <3> QED
        BY <2>1, <3>1
    <2>3. PICK k \in DOMAIN Queue : Queue[k] = r
      BY DEF SchedulerInv, Placed
    <2>4. age[r] \in Nat
      BY LimitAssumption DEF SchedulerInv, TypeOK
    <2>5. CASE k = 1
      BY <2>2, <2>3, <2>4, <2>5
    <2>6. CASE 1 < k
      <3>1. age[Queue[1]] >= age[Queue[k]]
        BY <2>2, <2>6 DEF SchedulerInv, OldestFirst
      <3>2. Queue[1] \in Requests
        BY <2>2, QueueType DEF SchedulerInv
      <3>3. age[Queue[1]] \in Nat
        BY <3>2, LimitAssumption DEF SchedulerInv, TypeOK
      <3> QED
        BY <2>2, <2>3, <2>4, <3>1, <3>3
    <2> QED
      BY <2>1, <2>5, <2>6
  <1>6. age[r] <= age[q] + Gap
    <2>1. age[r] \in Nat /\ age[q] \in Nat /\ Gap \in Nat
      BY <1>3, StayNumbers, LimitAssumption DEF SchedulerInv, TypeOK
    <2>2. Pool[1] \in Requests
      BY <1>1, PoolIsPrefix DEF SchedulerInv
    <2>3. age[Pool[1]] \in Nat
      BY <2>2, LimitAssumption DEF SchedulerInv, TypeOK
    <2> HIDE DEF q
    <2> QED
      BY <1>4, <1>5, <2>1, <2>3
  <1>7. step[q] < Steps(profile[q])
    <2>1. step[q] <= Steps(profile[q]) /\ step[q] # Steps(profile[q])
      BY <1>3 DEF SchedulerInv, NoStepAfterLast, RunBatch
    <2>2. step[q] \in Nat
      BY <1>3 DEF SchedulerInv, TypeOK
    <2>3. Steps(profile[q]) \in Nat
      <3>1. step[q] + 1 \in NextSteps(q)
        BY DEF NextSteps
      <3> QED
        BY <1>3, <3>1, StepsOfBatch DEF SchedulerInv
    <2> HIDE DEF q
    <2> QED
      BY <2>1, <2>2, <2>3
  <1>8. q \in leaving' \/ step[q] < step'[q]
    <2>1. CASE Abort(B)
      BY <1>2, <2>1 DEF Abort
    <2>2. CASE Denoise(B)
      <3>1. step'[q] \in NextSteps(q)
        BY <1>2, <1>3, <2>2 DEF Denoise
      <3> QED
        BY <1>3, <3>1, StepsOfBatch DEF SchedulerInv
    <2> QED
      BY <1>1, <2>1, <2>2
  <1> QED
    BY <1>3, <1>6, <1>7, <1>8

\* No step of any request goes back, and time passes for all alike.
LEMMA BatchMoves ==
  ASSUME SchedulerInv, RunBatch, NEW d \in Nat, \A t \in StepTicks : t <= d
  PROVE  /\ profile' = profile /\ leaving = {}
         /\ \A q \in Requests : step[q] <= step'[q]
         /\ \E t \in 0 .. d : \A q \in Requests :
              profile[q] # None =>
                age'[q] = IF age[q] + t <= MaxAge THEN age[q] + t ELSE MaxAge
  <1>1. PICK i \in DOMAIN Pool : Denoise(Batch(Pool, i)) \/ Abort(Batch(Pool, i))
    BY DEF RunBatch
  <1>2. ASSUME NEW q \in Requests PROVE step[q] <= step'[q]
    <2>1. step[q] \in Nat
      BY DEF SchedulerInv, TypeOK
    <2>2. CASE Abort(Batch(Pool, i))
      BY <2>1, <2>2 DEF Abort
    <2>3. CASE Denoise(Batch(Pool, i))
      <3>1. CASE q \notin Batch(Pool, i)
        <4>1. step'[q] = step[q]
          BY <2>3, <3>1 DEF Denoise
        <4> QED
          BY <2>1, <4>1
      <3>2. CASE q \in Batch(Pool, i)
        <4>1. step'[q] \in NextSteps(q) /\ profile[q] \in Profiles
          BY <2>3, <3>2, BatchMembers DEF Denoise, SchedulerInv
        <4>2. step'[q] \in Nat /\ step[q] < step'[q]
          BY <4>1, StepsOfBatch DEF SchedulerInv
        <4> QED
          BY <2>1, <4>2
      <3> QED
        BY <3>1, <3>2
    <2> QED
      BY <1>1, <2>2, <2>3
  <1>3. PICK t \in StepTicks :
          age' = [q \in Requests |->
                    IF profile[q] = None THEN age[q]
                    ELSE IF age[q] + t <= MaxAge THEN age[q] + t ELSE MaxAge]
    BY DEF RunBatch, Elapse
  <1>4. t \in 0 .. d
    <2>1. t \in Nat /\ t <= d
      BY LimitAssumption
    <2> QED
      BY <2>1
  <1>5. \A q \in Requests :
          profile[q] # None =>
            age'[q] = IF age[q] + t <= MaxAge THEN age[q] + t ELSE MaxAge
    BY <1>3
  <1> QED
    BY <1>2, <1>4, <1>5 DEF RunBatch

LEMMA RunBatchInTime ==
  ASSUME SchedulerInv, SchedulerInv', NEW n \in Nat, NEW d \in Nat, InTime(d, n),
         \A t \in StepTicks : t <= d,
         \A p \in Profiles : Steps(p) <= n,
         StayBound(d, n) < MaxAge,
         RunBatch
  PROVE  InTime(d, n)'
  <1> SUFFICES ASSUME NEW r \in Requests, profile'[r] # None
               PROVE  age'[r] + d * Cardinality(WorkAhead(r, n)') <= StayBound(d, n)
    BY DEF InTime
  <1> DEFINE W == WorkAhead(r, n)'
             grown(q, t) == IF age[q] + t <= MaxAge THEN age[q] + t ELSE MaxAge
  <1>1. /\ profile' = profile /\ leaving = {}
        /\ \A q \in Requests : step[q] <= step'[q]
    BY BatchMoves
  <1>2. PICK t \in 0 .. d : \A q \in Requests : profile[q] # None => age'[q] = grown(q, t)
    BY BatchMoves
  <1>3. /\ \A q \in Requests : age[q] \in Nat /\ step[q] \in Nat /\ step'[q] \in Nat
        /\ MaxAge \in Nat /\ Gap \in Nat
    BY StayNumbers, LimitAssumption DEF SchedulerInv, TypeOK
  <1>4. profile[r] # None
    BY <1>1
  <1>5. PICK q \in Requests :
          /\ profile[q] # None
          /\ age[r] <= age[q] + Gap
          /\ step[q] < Steps(profile[q])
          /\ q \in leaving' \/ step[q] < step'[q]
    BY <1>4, LeaderMoves
  <1> DEFINE w0 == <<q, step[q] + 1>>
  <1>6. w0 \in WorkAhead(r, n)
    <2>1. Steps(profile[q]) <= n
      BY <1>5 DEF SchedulerInv, TypeOK
    <2>2. Steps(profile[q]) \in Nat
      <3>1. step[q] + 1 \in NextSteps(q) /\ profile[q] \in Profiles
        BY <1>5 DEF NextSteps, SchedulerInv, TypeOK
      <3> QED
        BY <3>1, StepsOfBatch DEF SchedulerInv
    <2>3. step[q] + 1 \in 1 .. n /\ step[q] < step[q] + 1 /\ step[q] + 1 <= Steps(profile[q])
      BY <1>3, <1>5, <2>1, <2>2
    <2> QED
      BY <1>1, <1>5, <2>3 DEF WorkAhead
  <1>7. w0 \notin W
    <2> SUFFICES ASSUME w0 \in W PROVE FALSE
      OBVIOUS
    <2>1. q \notin leaving' /\ step'[q] < step[q] + 1
      BY DEF WorkAhead
    <2> QED
      BY <1>3, <1>5, <2>1
  <1> HIDE DEF w0
  <1>8. age[r] + d * Cardinality(WorkAhead(r, n)) <= StayBound(d, n)
    BY <1>4 DEF InTime
  <1>9. age[r] + d <= StayBound(d, n)
    <2>1. {} \in SUBSET WorkAhead(r, n) /\ {} # WorkAhead(r, n)
      BY <1>6
    <2> QED
      BY <1>8, <2>1, LessWork
  <1>10. age[r] + d <= MaxAge
    <2>1. StayBound(d, n) \in Nat
      <3>1. Gap \in Nat /\ MostWork(n) \in Nat
        BY StayNumbers
      <3>2. d * MostWork(n) \in Nat
        BY <3>1
      <3> QED
        BY <3>1, <3>2 DEF StayBound
    <2> QED
      BY <1>3, <1>9, <2>1
  <1>11. age[r] + t <= MaxAge /\ age'[r] = age[r] + t /\ age'[r] \in Nat /\ age'[r] <= age[r] + d
    <2>1. t \in Nat /\ t <= d
      OBVIOUS
    <2>2. age[r] + t <= MaxAge
      BY <1>3, <1>10, <2>1
    <2> QED
      BY <1>2, <1>3, <1>4, <2>1, <2>2
  <1>12. W \in SUBSET WorkAhead(r, n)
    <2> SUFFICES ASSUME NEW w \in W PROVE w \in WorkAhead(r, n)
      OBVIOUS
    <2> DEFINE p == w[1]
    <2>1. /\ w \in Requests \X (1 .. n)
          /\ profile[p] # None
          /\ age'[r] <= age'[p] + Gap
          /\ step'[p] < w[2] /\ w[2] <= Steps(profile[p])
      BY <1>1 DEF WorkAhead
    <2>2. p \in Requests /\ w[2] \in Nat
      BY <2>1
    <2> HIDE DEF p
    <2>3. step[p] < w[2]
      <3>1. step[p] <= step'[p] /\ step[p] \in Nat /\ step'[p] \in Nat
        BY <1>1, <1>3, <2>2
      <3> QED
        BY <2>1, <2>2, <3>1
    <2>4. age[r] <= age[p] + Gap
      <3>1. age'[p] = grown(p, t) /\ age[p] \in Nat /\ age[r] \in Nat
        BY <1>2, <1>3, <2>1, <2>2
      <3>2. age[r] + t <= grown(p, t) + Gap
        BY <1>11, <2>1, <3>1
      <3> QED
        BY <1>3, <1>11, <3>1, <3>2
    <2> QED
      BY <1>1, <2>1, <2>3, <2>4 DEF WorkAhead, p
  <1> HIDE DEF W
  <1>13. W # WorkAhead(r, n)
    BY <1>6, <1>7
  <1>14. age'[r] + d * Cardinality(W) <= StayBound(d, n)
    BY <1>8, <1>11, <1>12, <1>13, LessWork
  <1> QED
    BY <1>14 DEF W

(***************************************************************************)
(* The stay of a request is bounded, whatever arrives after it: by the     *)
(* time aging takes to protect it, and the work of two full queues.        *)
(***************************************************************************)
THEOREM StayIsBounded ==
  ASSUME NEW d \in Nat, \A t \in StepTicks : t <= d,
         NEW n \in Nat, \A p \in Profiles : Steps(p) <= n,
         StayBound(d, n) < MaxAge
  PROVE  Spec => []BoundedStay
  <1>1. Init => InTime(d, n)
    BY DEF Init, InTime
  <1>2. SchedulerInv /\ SchedulerInv' /\ InTime(d, n) /\ [Next]_vars => InTime(d, n)'
    <2> SUFFICES ASSUME SchedulerInv, SchedulerInv', InTime(d, n), [Next]_vars
                 PROVE  InTime(d, n)'
      OBVIOUS
    <2>1. CASE RunBatch
      BY <2>1, RunBatchInTime
    <2>2. CASE Complete
      BY <2>2, CompleteInTime
    <2>3. CASE \E r \in Requests : Admit(r)
      BY <2>3, AdmitInTime
    <2>4. CASE UNCHANGED vars
      BY <2>4 DEF vars, InTime, WorkAhead
    <2> QED
      BY <2>1, <2>2, <2>3, <2>4 DEF Next
  <1>3. SchedulerInv /\ InTime(d, n) => BoundedStay
    <2> SUFFICES ASSUME SchedulerInv, InTime(d, n), NEW r \in Requests, profile[r] # None
                 PROVE  age[r] < MaxAge
      BY DEF BoundedStay
    <2> DEFINE c == Cardinality(WorkAhead(r, n))
    <2>1. c \in Nat /\ Gap \in Nat /\ MostWork(n) \in Nat
      BY WorkIsBounded, StayNumbers
    <2>2. age[r] \in Nat /\ MaxAge \in Nat
      BY LimitAssumption DEF SchedulerInv, TypeOK
    <2>3. age[r] + d * c <= StayBound(d, n)
      BY DEF InTime
    <2> HIDE DEF c
    <2>4. d * c \in Nat /\ d * MostWork(n) \in Nat
      BY <2>1
    <2>5. StayBound(d, n) \in Nat
      BY <2>1, <2>4 DEF StayBound
    <2> QED
      BY <2>2, <2>3, <2>4, <2>5
  <1> QED
    BY <1>1, <1>2, <1>3, Invariance, PTL DEF Spec
=============================================================================
