---------------------------- MODULE EngineProofs -----------------------------
(***************************************************************************)
(* The engine, for every number of requests, every limit and every aging   *)
(* period: the scheduler hands step_batch batches it is specified for, so  *)
(* what holds of the denoising loop holds of the engine, and step_batch    *)
(* moves the requests as the scheduler expects.                            *)
(***************************************************************************)
EXTENDS Engine, RowProofs, SequenceLemmas

(***************************************************************************)
(* Both halves need to know what lies in the two queues: requests, none of *)
(* them twice, all of them submitted, and unfinished unless they are about *)
(* to leave.                                                               *)
(***************************************************************************)
QueuesApart ==
  /\ active \in Seq(Rows) /\ pending \in Seq(Rows)
  /\ Len(active) <= 2 * MaxBatch
  /\ Distinct(active) /\ Distinct(pending)
  /\ ToSet(active) \cap ToSet(pending) = {}
  /\ leaving \subseteq ToSet(active)

QueuedIsUnfinished ==
  /\ \A r \in InSystem : params[r] # None
  /\ \A r \in InSystem \ leaving : ~Done(params[r], blockIdx[r])

ResultIsDone ==
  \A r \in Rows :
    future[r] = "result" => params[r] # None /\ Done(params[r], blockIdx[r])

\* Only a failed step has unfinished requests leave.
LeavingIsDone == ~raised => \A r \in leaving : Done(params[r], blockIdx[r])

EngineInv ==
  /\ CountersInv
  /\ QueuesApart
  /\ QueuedIsUnfinished
  /\ future \in [Rows -> {"none", "pending", "result", "failed"}]
  /\ raised \in BOOLEAN
  /\ LeavingIsDone
  /\ ResultIsDone

-----------------------------------------------------------------------------
(***************************************************************************)
(* The queues and the batch                                                *)
(***************************************************************************)

LEMMA InSystemIs ==
  ASSUME QueuesApart
  PROVE  /\ InSystem = ToSet(active) \cup ToSet(pending)
         /\ InSystem \subseteq Rows
  <1>1. InSystem = ToSet(active) \cup ToSet(pending)
    BY MembersOfConcat DEF QueuesApart, InSystem
  <1>2. ToSet(active) \subseteq Rows /\ ToSet(pending) \subseteq Rows
    BY DEF QueuesApart, ToSet
  <1> QED
    BY <1>1, <1>2

Rest == SubSeq(pending, S!Promotions + 1, Len(pending))

\* A promotion moves requests from one queue to the other.
LEMMA Promoted ==
  ASSUME QueuesApart
  PROVE  /\ S!Pool \in Seq(Rows) /\ Rest \in Seq(Rows)
         /\ Len(S!Pool) <= 2 * MaxBatch
         /\ Distinct(S!Pool) /\ Distinct(Rest)
         /\ ToSet(S!Pool) \cap ToSet(Rest) = {}
         /\ InSystem = ToSet(S!Pool) \cup ToSet(Rest)
  <1> DEFINE n == S!Promotions
             a == SubSeq(pending, 1, n)
             b == Rest
  <1>1. /\ active \in Seq(Rows) /\ pending \in Seq(Rows)
        /\ Len(active) \in Nat /\ Len(pending) \in Nat
        /\ MaxBatch \in Nat /\ Len(active) <= 2 * MaxBatch
        /\ Distinct(active) /\ Distinct(pending)
        /\ ToSet(active) \cap ToSet(pending) = {}
    BY EngineAssumption DEF QueuesApart
  <1>2. n \in 0 .. Len(pending) /\ Len(active) + n <= 2 * MaxBatch
    BY <1>1 DEF S!Promotions, S!Room
  <1>3. b = SubSeq(pending, n + 1, Len(pending))
    BY DEF Rest
  <1>4. S!Pool = active \o a
    BY DEF S!Pool
  <1> HIDE DEF n, b
  <1>5. /\ a \in Seq(Rows) /\ b \in Seq(Rows) /\ Len(a) = n
        /\ a \o b = pending
    BY <1>1, <1>2, <1>3, SplitAt
  <1> HIDE DEF a
  <1>6. /\ ToSet(pending) = ToSet(a) \cup ToSet(b)
        /\ Distinct(a) /\ Distinct(b) /\ ToSet(a) \cap ToSet(b) = {}
    <2>1. a \in Seq(Rows) /\ b \in Seq(Rows)
      BY <1>5
    <2>2. /\ ToSet(a \o b) = ToSet(a) \cup ToSet(b)
          /\ Distinct(a \o b)
               <=> Distinct(a) /\ Distinct(b) /\ ToSet(a) \cap ToSet(b) = {}
      BY <2>1, MembersOfConcat
    <2> QED
      BY <1>1, <1>5, <2>2
  <1>7. ToSet(active) \cap ToSet(a) = {} /\ ToSet(active) \cap ToSet(b) = {}
    BY <1>1, <1>6
  <1>8. /\ S!Pool \in Seq(Rows)
        /\ Len(S!Pool) = Len(active) + n
        /\ ToSet(S!Pool) = ToSet(active) \cup ToSet(a)
        /\ Distinct(S!Pool)
    <2>1. /\ active \o a \in Seq(Rows)
          /\ Len(active \o a) = Len(active) + Len(a)
          /\ ToSet(active \o a) = ToSet(active) \cup ToSet(a)
          /\ Distinct(active \o a)
               <=> Distinct(active) /\ Distinct(a) /\ ToSet(active) \cap ToSet(a) = {}
      BY <1>1, <1>5, MembersOfConcat
    <2> QED
      BY <1>1, <1>4, <1>5, <1>6, <1>7, <2>1
  <1>9. InSystem = ToSet(active) \cup ToSet(pending)
    BY InSystemIs
  <1> QED
    BY <1>1, <1>2, <1>5, <1>6, <1>7, <1>8, <1>9 DEF b

\* What the scheduler chooses is a batch step_batch is specified for.
LEMMA ChosenIsBatch ==
  ASSUME EngineInv, leaving = {}, NEW i \in DOMAIN S!Pool, S!First(S!Pool, i)
  PROVE  /\ S!Batch(S!Pool, i) \in Batches
         /\ S!Pool[i] \in S!Batch(S!Pool, i)
         /\ S!Batch(S!Pool, i) \subseteq ToSet(S!Pool)
  <1> DEFINE pool == S!Pool
             G == S!Group(S!Pool, i)
             B == S!Batch(S!Pool, i)
  <1>1. pool \in Seq(Rows) /\ ToSet(pool) \subseteq InSystem /\ InSystem \subseteq Rows
    BY Promoted, InSystemIs DEF EngineInv
  <1>2. ASSUME NEW j \in DOMAIN pool
        PROVE  /\ pool[j] \in Rows /\ pool[j] \in ToSet(pool)
               /\ pool[j] \in Unfinished
               /\ S!GroupKey(pool[j]) = GroupKey(pool[j])
    <2> DEFINE r == pool[j]
    <2>1. r \in InSystem /\ r \in Rows /\ r \in ToSet(pool)
      BY <1>1 DEF ToSet
    <2> HIDE DEF pool, r
    <2>2. r \in Unfinished
      BY <2>1 DEF Unfinished, EngineInv, QueuedIsUnfinished
    <2>3. S!GroupKey(r) = GroupKey(r)
      BY <2>1 DEF S!GroupKey, GroupKey, ProfileOf
    <2> QED
      BY <2>1, <2>2, <2>3 DEF r
  <1>3. B = {pool[j] : j \in {k \in G : S!Cardinality({m \in G : m < k}) < MaxBatch}}
    BY DEF S!Batch
  <1>4. G = {j \in DOMAIN pool : S!GroupKey(pool[j]) = S!GroupKey(pool[i])}
    BY DEF S!Group
  <1>5. pool[i] \in B
    <2>1. i \in G
      BY <1>4
    <2>2. i \in Nat /\ G \subseteq Nat
      BY <1>1, <1>4
    <2>3. \A j \in G : i <= j
      BY DEF S!First
    <2> HIDE DEF G
    <2>4. {m \in G : m < i} = {}
      <3>1. ASSUME NEW m \in G PROVE ~(m < i)
        BY <2>2, <2>3
      <3> QED
        BY <3>1
    <2>5. S!Cardinality({}) = Cardinality({})
      BY DEF S!Cardinality, Cardinality
    <2>6. S!Cardinality({m \in G : m < i}) < MaxBatch
      BY <2>4, <2>5, FS_EmptySet, EngineAssumption
    <2> HIDE DEF pool, B
    <2> QED
      BY <1>3, <2>1, <2>6
  <1> HIDE DEF pool, G, B
  <1>6. \A r \in B : \E j \in G : r = pool[j]
    BY <1>3
  <1>7. \A r \in B : /\ r \in Unfinished /\ r \in ToSet(pool)
                     /\ GroupKey(r) = S!GroupKey(pool[i])
    BY <1>2, <1>4, <1>6
  <1>8. B \in Batches
    BY <1>5, <1>7 DEF Batches
  <1> QED
    BY <1>5, <1>7, <1>8 DEF B, pool

-----------------------------------------------------------------------------
(***************************************************************************)
(* Every step of the engine is one of the denoising loop                   *)
(***************************************************************************)

\* An iteration: the queues after it, and what step_batch did to the batch.
LEMMA Iteration ==
  ASSUME EngineInv, RunBatch
  PROVE  /\ leaving = {}
         /\ active' = S!Pool /\ pending' = Rest /\ future' = future
         /\ \E i \in DOMAIN S!Pool :
              LET B == S!Batch(S!Pool, i)
              IN  /\ S!Best(S!Pool, i)
                  /\ B \in Batches /\ S!Pool[i] \in B /\ B \subseteq ToSet(active')
                  /\ \/ StepRaises(B, S!Pool[i])
                     \/ StepSucceeds(B, S!Pool[i])
  <1>1. /\ leaving = {} /\ future' = future
        /\ active' = S!Pool /\ pending' = Rest
    BY DEF RunBatch, Rest
  <1>2. PICK i \in DOMAIN S!Pool :
          /\ S!Best(S!Pool, i)
          /\ \/ StepRaises(S!Batch(S!Pool, i), S!Pool[i])
             \/ StepSucceeds(S!Batch(S!Pool, i), S!Pool[i])
    BY DEF RunBatch
  <1>3. S!First(S!Pool, i)
    BY <1>2 DEF S!Best
  <1>4. /\ S!Batch(S!Pool, i) \in Batches
        /\ S!Pool[i] \in S!Batch(S!Pool, i)
        /\ S!Batch(S!Pool, i) \subseteq ToSet(active')
    BY <1>1, <1>3, ChosenIsBatch
  <1> QED
    BY <1>1, <1>2, <1>4

LEMMA LoopStep == EngineInv /\ [NextEngine]_engineVars => [Next]_vars
  <1> SUFFICES ASSUME EngineInv, [NextEngine]_engineVars PROVE [Next]_vars
    OBVIOUS
  <1>1. CASE RunBatch
    <2>1. PICK i \in DOMAIN S!Pool :
            /\ S!Batch(S!Pool, i) \in Batches
            /\ S!Pool[i] \in S!Batch(S!Pool, i)
            /\ \/ StepRaises(S!Batch(S!Pool, i), S!Pool[i])
               \/ StepSucceeds(S!Batch(S!Pool, i), S!Pool[i])
      BY <1>1, Iteration
    <2>2. CASE StepRaises(S!Batch(S!Pool, i), S!Pool[i])
      BY <2>2 DEF StepRaises
    <2>3. CASE StepSucceeds(S!Batch(S!Pool, i), S!Pool[i])
      BY <2>1, <2>3 DEF StepSucceeds, Next, Step
    <2> QED
      BY <2>1, <2>2, <2>3
  <1>2. CASE Complete
    BY <1>2 DEF Complete
  <1>3. CASE \E r \in Rows : Admit(r)
    BY <1>3 DEF Admit, Next
  <1>4. CASE UNCHANGED engineVars
    BY <1>4 DEF engineVars
  <1> QED
    BY <1>1, <1>2, <1>3, <1>4 DEF NextEngine

-----------------------------------------------------------------------------
(***************************************************************************)
(* The invariant                                                           *)
(***************************************************************************)

LEMMA EngineInvInit == InitEngine => EngineInv
  <1> SUFFICES ASSUME InitEngine PROVE EngineInv
    OBVIOUS
  <1>1. CountersInv
    <2>1. Init
      BY DEF InitEngine
    <2>2. \A r \in Rows : params[r] = None /\ blockIdx[r] = 0 /\ stepInBlock[r] = 0
      BY <2>1 DEF Init
    <2> QED
      BY <2>1, <2>2, TypeInit DEF CountersInv, Counted
  <1>2. /\ active = << >> /\ pending = << >> /\ leaving = {}
        /\ future = [r \in Rows |-> "none"] /\ raised = FALSE
    BY DEF InitEngine
  <1>3. QueuesApart
    BY <1>2, EngineAssumption DEF QueuesApart, Distinct, ToSet
  <1>4. InSystem = {}
    BY <1>2, <1>3, InSystemIs DEF ToSet
  <1>5. QueuedIsUnfinished
    BY <1>4 DEF QueuedIsUnfinished
  <1>6. ResultIsDone
    BY <1>2 DEF ResultIsDone
  <1> QED
    BY <1>1, <1>2, <1>3, <1>5, <1>6 DEF EngineInv, LeavingIsDone

LEMMA AdmitKeeps ==
  ASSUME EngineInv, CountersInv', NEW r \in Rows, Admit(r)
  PROVE  /\ EngineInv'
         /\ r \notin InSystem
         /\ InSystem' = InSystem \cup {r}
  <1>1. /\ leaving = {} /\ leaving' = leaving /\ active' = active
        /\ pending' = Append(pending, r)
        /\ future' = [future EXCEPT ![r] = "pending"]
        /\ raised' = raised
        /\ Submit(r)
    BY DEF Admit
  <1>2. /\ params[r] = None
        /\ \A q \in Rows : q # r => params'[q] = params[q]
        /\ params'[r] \in ValidParams
        /\ blockIdx' = blockIdx
        /\ blockIdx[r] = 0
    <2>1. /\ params[r] = None
          /\ \A q \in Rows : q # r => params'[q] = params[q]
          /\ params'[r] \in ValidParams
      BY <1>1, CountersOfSubmit DEF EngineInv
    <2>2. blockIdx' = blockIdx
      BY <1>1 DEF Submit
    <2> QED
      BY <2>1, <2>2 DEF EngineInv, CountersInv, Counted
  <1>3. r \notin InSystem
    BY <1>2 DEF EngineInv, QueuedIsUnfinished
  <1>4. /\ active \in Seq(Rows) /\ pending \in Seq(Rows) /\ Distinct(active)
        /\ Len(active) <= 2 * MaxBatch
        /\ Distinct(pending) /\ ToSet(active) \cap ToSet(pending) = {}
        /\ leaving \subseteq ToSet(active)
        /\ InSystem = ToSet(active) \cup ToSet(pending)
    BY InSystemIs DEF EngineInv, QueuesApart
  <1>5. /\ pending' \in Seq(Rows)
        /\ Distinct(pending')
        /\ ToSet(pending') = ToSet(pending) \cup {r}
    <2>1. <<r>> \in Seq(Rows) /\ ToSet(<<r>>) = {r} /\ Distinct(<<r>>)
      BY DEF ToSet, Distinct
    <2>2. pending' = pending \o <<r>>
      BY <1>1, <1>4, AppendIsConcat
    <2> DEFINE s == <<r>>
    <2>3. s \in Seq(Rows) /\ ToSet(s) = {r} /\ Distinct(s) /\ pending' = pending \o s
      BY <2>1, <2>2
    <2> HIDE DEF s
    <2>4. /\ pending \o s \in Seq(Rows)
          /\ ToSet(pending \o s) = ToSet(pending) \cup ToSet(s)
          /\ Distinct(pending \o s)
               <=> Distinct(pending) /\ Distinct(s) /\ ToSet(pending) \cap ToSet(s) = {}
      BY <1>4, <2>3, MembersOfConcat
    <2> QED
      BY <1>3, <1>4, <2>3, <2>4
  <1>6. QueuesApart'
    BY <1>1, <1>3, <1>4, <1>5 DEF QueuesApart
  <1>7. InSystem' = InSystem \cup {r}
    <2>1. InSystem' = ToSet(active' \o pending')
      BY DEF InSystem
    <2>2. active' \in Seq(Rows) /\ pending' \in Seq(Rows)
      BY <1>1, <1>4, <1>5
    <2>3. ToSet(active' \o pending') = ToSet(active') \cup ToSet(pending')
      BY <2>2, MembersOfConcat
    <2> QED
      BY <1>1, <1>4, <1>5, <2>1, <2>3
  <1>8. QueuedIsUnfinished'
    <2>1. InSystem \subseteq Rows
      BY InSystemIs DEF EngineInv
    <2>2. params'[r] # None /\ ~Done(params'[r], blockIdx'[r])
      BY <1>2, Shape, ParamAssumption DEF Done, ValidParams
    <2>3. ASSUME NEW q \in InSystem PROVE params'[q] # None /\ ~Done(params'[q], blockIdx'[q])
      BY <1>1, <1>2, <1>3, <2>1 DEF EngineInv, QueuedIsUnfinished
    <2> QED
      BY <1>7, <2>2, <2>3 DEF QueuedIsUnfinished
  <1>9. /\ future' \in [Rows -> {"none", "pending", "result", "failed"}]
        /\ future'[r] = "pending"
        /\ \A q \in Rows : q # r => future'[q] = future[q]
    BY <1>1 DEF EngineInv
  <1>10. ResultIsDone'
    BY <1>2, <1>9 DEF ResultIsDone, EngineInv
  <1>11. raised' \in BOOLEAN /\ LeavingIsDone'
    BY <1>1 DEF EngineInv, LeavingIsDone
  <1> QED
    BY <1>3, <1>6, <1>7, <1>8, <1>9, <1>10, <1>11 DEF EngineInv

LEMMA RunBatchKeeps ==
  ASSUME EngineInv, CountersInv', RunBatch
  PROVE  /\ EngineInv'
         /\ params' = params
         /\ InSystem' = InSystem
  <1>1. /\ leaving = {} /\ future' = future
        /\ active' = S!Pool /\ pending' = Rest
    BY Iteration
  <1>2. PICK i \in DOMAIN S!Pool :
          LET B == S!Batch(S!Pool, i)
          IN  /\ B \in Batches /\ S!Pool[i] \in B /\ B \subseteq ToSet(active')
              /\ \/ StepRaises(B, S!Pool[i])
                 \/ StepSucceeds(B, S!Pool[i])
    BY Iteration
  <1> DEFINE B == S!Batch(S!Pool, i)
  <1>3. B \subseteq Unfinished
    BY <1>2 DEF Batches
  <1>4. /\ params' = params
        /\ \A r \in Rows : r \notin B => blockIdx'[r] = blockIdx[r]
        /\ \A r \in B \ leaving' : ~Done(params[r], blockIdx'[r])
        /\ leaving' \subseteq B
        /\ raised' \in BOOLEAN
        /\ ~raised' => \A r \in leaving' : Done(params[r], blockIdx'[r])
    <2>1. CASE StepRaises(B, S!Pool[i])
      BY <2>1 DEF StepRaises, vars
    <2>2. CASE StepSucceeds(B, S!Pool[i])
      <3>1. StepBatch(B, S!Pool[i])
        BY <2>2 DEF StepSucceeds
      <3>2. params' = params
        BY <3>1 DEF StepBatch
      <3>3. \A r \in Rows : r \notin B => Counters(r)' = Counters(r)
        BY <1>2, <3>1, CountersOfBatch DEF EngineInv
      <3>4. leaving' = {r \in B : Done(params[r], blockIdx'[r])} /\ raised' = FALSE
        BY <2>2 DEF StepSucceeds
      <3> QED
        BY <3>2, <3>3, <3>4 DEF Counters
    <2> QED
      BY <1>2, <2>1, <2>2
  <1>5. /\ S!Pool \in Seq(Rows) /\ Rest \in Seq(Rows)
        /\ Len(S!Pool) <= 2 * MaxBatch
        /\ Distinct(S!Pool) /\ Distinct(Rest)
        /\ ToSet(S!Pool) \cap ToSet(Rest) = {}
        /\ InSystem = ToSet(S!Pool) \cup ToSet(Rest)
    BY Promoted DEF EngineInv
  <1>6. B \subseteq ToSet(active')
    BY <1>2
  <1> HIDE DEF B
  <1>7. QueuesApart'
    BY <1>1, <1>4, <1>5, <1>6 DEF QueuesApart
  <1>8. InSystem' = InSystem
    <2>1. InSystem' = ToSet(active' \o pending')
      BY DEF InSystem
    <2>2. ToSet(active' \o pending') = ToSet(active') \cup ToSet(pending')
      BY <1>1, <1>5, MembersOfConcat
    <2> QED
      BY <1>1, <1>5, <2>1, <2>2
  <1>9. QueuedIsUnfinished'
    <2>1. InSystem \subseteq Rows
      BY InSystemIs DEF EngineInv
    <2>2. ASSUME NEW r \in InSystem PROVE params'[r] # None
      BY <1>4 DEF EngineInv, QueuedIsUnfinished
    <2>3. ASSUME NEW r \in InSystem \ leaving' PROVE ~Done(params'[r], blockIdx'[r])
      <3>1. CASE r \in B
        BY <1>4, <3>1
      <3>2. CASE r \notin B
        BY <1>1, <1>4, <2>1, <3>2 DEF EngineInv, QueuedIsUnfinished
      <3> QED
        BY <3>1, <3>2
    <2> QED
      BY <1>8, <2>2, <2>3 DEF QueuedIsUnfinished
  <1>10. ResultIsDone'
    <2>1. ASSUME NEW r \in Rows, future[r] = "result"
          PROVE  params[r] # None /\ Done(params[r], blockIdx[r]) /\ r \notin B
      BY <1>3, <2>1 DEF EngineInv, ResultIsDone, Unfinished
    <2> QED
      BY <1>1, <1>4, <2>1 DEF ResultIsDone
  <1>11. raised' \in BOOLEAN /\ LeavingIsDone'
    BY <1>4 DEF LeavingIsDone
  <1> QED
    BY <1>1, <1>4, <1>7, <1>8, <1>9, <1>10, <1>11 DEF EngineInv

LEMMA CompleteKeeps ==
  ASSUME EngineInv, CountersInv', Complete
  PROVE  /\ EngineInv'
         /\ \E i \in DOMAIN active :
              /\ active[i] \in leaving
              /\ \A j \in 1 .. i - 1 : active[j] \notin leaving
              /\ active' = RemoveAt(active, i)
              /\ leaving' = leaving \ {active[i]}
              /\ age' = [age EXCEPT ![active[i]] = 0]
              /\ pending' = pending
              /\ vars' = vars
              /\ active[i] \in Rows
              /\ InSystem' = InSystem \ {active[i]}
  <1>1. PICK i \in DOMAIN active :
          /\ active[i] \in leaving
          /\ \A j \in 1 .. i - 1 : active[j] \notin leaving
          /\ active' = RemoveAt(active, i)
          /\ leaving' = leaving \ {active[i]}
          /\ age' = [age EXCEPT ![active[i]] = 0]
          /\ future' = [future EXCEPT ![active[i]] =
                          IF raised THEN "failed" ELSE "result"]
          /\ raised' = (raised /\ leaving' # {})
          /\ pending' = pending
          /\ vars' = vars
    BY DEF Complete
  <1> DEFINE r == active[i]
  <1>2. /\ active \in Seq(Rows) /\ pending \in Seq(Rows)
        /\ Len(active) <= 2 * MaxBatch
        /\ Distinct(active) /\ Distinct(pending)
        /\ ToSet(active) \cap ToSet(pending) = {}
        /\ leaving \subseteq ToSet(active)
        /\ InSystem = ToSet(active) \cup ToSet(pending)
        /\ InSystem \subseteq Rows
        /\ i \in 1 .. Len(active)
    BY <1>1, InSystemIs DEF EngineInv, QueuesApart
  <1>3. r \in Rows /\ r \in ToSet(active)
    BY <1>2 DEF ToSet
  <1>4. /\ active' \in Seq(Rows)
        /\ Len(active') = Len(active) - 1
        /\ Distinct(active')
        /\ ToSet(active') = ToSet(active) \ {r}
    BY <1>1, <1>2, RemoveAtProperties, RemoveAtMembers
  <1>5. vars' = vars => params' = params /\ blockIdx' = blockIdx
    BY DEF vars
  <1> HIDE DEF r
  <1>6. QueuesApart'
    <2>1. Len(active') <= 2 * MaxBatch
      BY <1>2, <1>4, EngineAssumption
    <2>2. leaving' = leaving \ {r} /\ pending' = pending
      BY <1>1 DEF r
    <2> QED
      BY <1>2, <1>4, <2>1, <2>2 DEF QueuesApart
  <1>7. InSystem' = InSystem \ {r}
    <2>1. InSystem' = ToSet(active' \o pending')
      BY DEF InSystem
    <2>2. active' \in Seq(Rows) /\ pending' \in Seq(Rows)
      BY <1>1, <1>2, <1>4
    <2>3. ToSet(active' \o pending') = ToSet(active') \cup ToSet(pending')
      BY <2>2, MembersOfConcat
    <2>4. r \notin ToSet(pending)
      BY <1>2, <1>3
    <2> QED
      BY <1>1, <1>2, <1>4, <2>1, <2>3, <2>4
  <1>8. QueuedIsUnfinished'
    <2>1. leaving' = leaving \ {r} /\ params' = params /\ blockIdx' = blockIdx
      BY <1>1, <1>5 DEF r
    <2> QED
      BY <1>7, <2>1 DEF QueuedIsUnfinished, EngineInv
  <1>9. /\ future' \in [Rows -> {"none", "pending", "result", "failed"}]
        /\ ResultIsDone'
    <2>1. params' = params /\ blockIdx' = blockIdx /\ params[r] # None
      BY <1>1, <1>2, <1>3, <1>5 DEF EngineInv, QueuedIsUnfinished
    <2>2. future' = [future EXCEPT ![r] = IF raised THEN "failed" ELSE "result"]
      BY <1>1 DEF r
    <2>3. /\ future' \in [Rows -> {"none", "pending", "result", "failed"}]
          /\ future'[r] = "result" => ~raised
          /\ \A q \in Rows : q # r => future'[q] = future[q]
      <3>1. raised \in BOOLEAN
        BY DEF EngineInv
      <3>2. CASE raised
        BY <1>3, <2>2, <3>2 DEF EngineInv
      <3>3. CASE ~raised
        BY <1>3, <2>2, <3>3 DEF EngineInv
      <3> QED
        BY <3>1, <3>2, <3>3
    <2>4. ~raised => Done(params[r], blockIdx[r])
      BY <1>1 DEF EngineInv, LeavingIsDone, r
    <2> QED
      BY <2>1, <2>3, <2>4 DEF EngineInv, ResultIsDone
  <1>10. raised' \in BOOLEAN /\ LeavingIsDone'
    <2>1. /\ leaving' = leaving \ {r} /\ raised' = (raised /\ leaving' # {})
          /\ params' = params /\ blockIdx' = blockIdx
      BY <1>1, <1>5 DEF r
    <2>2. ~raised' => ~raised \/ leaving' = {}
      BY <2>1
    <2> QED
      BY <2>1, <2>2 DEF EngineInv, LeavingIsDone
  <1>11. EngineInv'
    BY <1>6, <1>8, <1>9, <1>10 DEF EngineInv
  <1> QED
    BY <1>1, <1>3, <1>7, <1>11 DEF r

LEMMA EngineInvStep == EngineInv /\ [NextEngine]_engineVars => EngineInv'
  <1> SUFFICES ASSUME EngineInv, [NextEngine]_engineVars PROVE EngineInv'
    OBVIOUS
  <1>1. CountersInv'
    BY LoopStep, CountersStep DEF EngineInv
  <1>2. CASE RunBatch
    BY <1>1, <1>2, RunBatchKeeps
  <1>3. CASE Complete
    BY <1>1, <1>3, CompleteKeeps
  <1>4. ASSUME NEW r \in Rows, Admit(r) PROVE EngineInv'
    BY <1>1, <1>4, AdmitKeeps
  <1>5. CASE UNCHANGED engineVars
    <2>1. /\ active' = active /\ pending' = pending /\ leaving' = leaving
          /\ future' = future /\ params' = params /\ blockIdx' = blockIdx
          /\ raised' = raised
      BY <1>5 DEF engineVars, vars
    <2>2. InSystem' = InSystem
      BY <2>1 DEF InSystem
    <2>3. QueuesApart'
      BY <2>1 DEF EngineInv, QueuesApart
    <2>4. QueuedIsUnfinished'
      BY <2>1, <2>2 DEF EngineInv, QueuedIsUnfinished
    <2>5. ResultIsDone'
      BY <2>1 DEF EngineInv, ResultIsDone
    <2>6. raised' \in BOOLEAN /\ LeavingIsDone'
      BY <2>1 DEF EngineInv, LeavingIsDone
    <2> QED
      BY <1>1, <2>1, <2>3, <2>4, <2>5, <2>6 DEF EngineInv
  <1> QED
    BY <1>2, <1>3, <1>4, <1>5 DEF NextEngine

LEMMA EngineInvariance == SpecEngine => []EngineInv
  BY EngineInvInit, EngineInvStep, PTL DEF SpecEngine

-----------------------------------------------------------------------------
(***************************************************************************)
(* What holds of the denoising loop holds of the engine                    *)
(***************************************************************************)

(***************************************************************************)
(* Whatever the scheduler chooses, by score, age and limits, is a batch    *)
(* step_batch is specified for, and nothing else moves a request.          *)
(***************************************************************************)
THEOREM EngineDenoises == SpecEngine => DenoisesAsSpecified
  <1>1. InitEngine => Init
    BY DEF InitEngine
  <1> QED
    BY <1>1, EngineInvariance, LoopStep, PTL DEF SpecEngine, Spec, DenoisesAsSpecified

LEMMA EngineIsLoop == SpecEngine => Spec
  BY EngineDenoises DEF DenoisesAsSpecified

(***************************************************************************)
(* A committed token, and the prompt, never change again while the engine  *)
(* runs.                                                                   *)
(***************************************************************************)
THEOREM EngineKeepsCommitted == SpecEngine => CommittedStable
  BY EngineIsLoop, CommittedForGood

(***************************************************************************)
(* In the engine as in the loop alone, a block is left with its masks      *)
(* committed.                                                              *)
(***************************************************************************)
THEOREM EngineCoversBlocks == ASSUME NoStrayMask PROVE SpecEngine => []BudgetCoversBlock
  BY EngineIsLoop, BudgetCovers

(***************************************************************************)
(* In the engine, a request without LocalLeap commits what its own         *)
(* schedule says.                                                          *)
(***************************************************************************)
THEOREM EngineKeepsSchedules ==
  ASSUME NoStrayMask PROVE SpecEngine => []PlainRowsOnSchedule
  BY EngineIsLoop, PlainOnSchedule

(***************************************************************************)
(* In the engine, every request makes a run of denoise() on its own        *)
(* parameters, when requests that can meet ask for one sampling.           *)
(***************************************************************************)
THEOREM EngineIsolates == ASSUME OneSampling PROVE SpecEngine => RowsIsolated
  BY EngineIsLoop, Isolation

(***************************************************************************)
(* What a client receives as a result is complete: all its steps are done  *)
(* and no mask is left.                                                    *)
(***************************************************************************)
THEOREM EngineResults == ASSUME NoStrayMask PROVE SpecEngine => []ResultsAreComplete
  <1>1. Spec => []CanvasFilled
    BY CanvasIsFilled
  <1>2. CanvasFilled /\ EngineInv => ResultsAreComplete
    BY DEF CanvasFilled, EngineInv, ResultIsDone, ResultsAreComplete
  <1> QED
    BY <1>1, <1>2, EngineIsLoop, EngineInvariance, PTL

-----------------------------------------------------------------------------
(***************************************************************************)
(* Every step of the engine is one of the scheduler                        *)
(***************************************************************************)

LEMMA BlockOfStep ==
  ASSUME NEW b \in Nat, NEW s \in Nat \ {0}, NEW i \in 0 .. s - 1
  PROVE  (b * s + i) \div s = b
  <1> DEFINE n == b * s + i
             q == n \div s
             m == n % s
  <1>1. b * s \in Nat
    OBVIOUS
  <1>2. n \in Nat
    BY <1>1
  <1> HIDE DEF n
  <1>3. n = s * q + m /\ m \in 0 .. s - 1 /\ q \in Nat
    BY <1>2
  <1> HIDE DEF q, m
  <1>4. ASSUME NEW x \in Nat, NEW y \in Nat, x < y PROVE x * s + s <= y * s
    <2>1. x + 1 <= y
      BY <1>4
    <2>2. (x + 1) * s <= y * s
      BY <2>1
    <2> QED
      BY <2>2
  <1>5. b * s + i = q * s + m /\ b * s \in Nat /\ q * s \in Nat
    BY <1>1, <1>3 DEF n
  <1>6. ~(q < b)
    <2> SUFFICES ASSUME q < b PROVE FALSE
      OBVIOUS
    <2>1. q * s + s <= b * s
      BY <1>3, <1>4
    <2> QED
      BY <1>3, <1>5, <2>1
  <1>7. ~(b < q)
    <2> SUFFICES ASSUME b < q PROVE FALSE
      OBVIOUS
    <2>1. b * s + s <= q * s
      BY <1>3, <1>4
    <2> QED
      BY <1>3, <1>5, <2>1
  <1> QED
    BY <1>3, <1>6, <1>7 DEF q, n

\* step_batch moves a request to a step the scheduler expects.
LEMMA StepsOfBatch ==
  ASSUME CountersInv, NEW B \in Batches, NEW leader \in B, StepBatch(B, leader),
         NEW r \in B
  PROVE  LET p == ProfileOf(params[r])
         IN  /\ StepIdx(r)' \in {StepIdx(r) + 1,
                                 (StepIdx(r) \div p.perBlock + 1) * p.perBlock}
             /\ StepIdx(r)' = p.blocks * p.perBlock <=> Done(params[r], blockIdx'[r])
  <1> DEFINE n == NumBlocks(params[r])
             s == StepsPerBlock(params[r])
             b == blockIdx[r]
             i == stepInBlock[r]
  <1>1. r \in Rows
    BY DEF Batches, Unfinished
  <1>2. /\ params'[r] = params[r] /\ params[r] \in ValidParams
        /\ b \in Nat /\ b < n /\ i \in Nat /\ i < s
        /\ \/ blockIdx'[r] = b /\ stepInBlock'[r] = i + 1 /\ i + 1 < s
           \/ blockIdx'[r] = b + 1 /\ stepInBlock'[r] = 0
    BY <1>1, CountersOfBatch
  <1>3. n \in Nat \ {0} /\ s \in Nat \ {0}
    BY <1>2, Shape
  <1>4. /\ StepIdx(r) = b * s + i
        /\ StepIdx(r)' = blockIdx'[r] * s + stepInBlock'[r]
    BY <1>2 DEF StepIdx
  <1>5. /\ ProfileOf(params[r]).perBlock = s
        /\ ProfileOf(params[r]).blocks = n
    BY DEF ProfileOf
  <1>6. Done(params[r], blockIdx'[r]) <=> blockIdx'[r] >= n
    BY DEF Done
  <1> HIDE DEF n, s, b, i
  <1>7. (b * s + i) \div s = b
    <2>1. i \in 0 .. s - 1
      BY <1>2, <1>3
    <2> QED
      BY <1>2, <1>3, <2>1, BlockOfStep
  <1>8. b + 1 <= n /\ (b + 1) * s <= n * s /\ (b + 1) * s = b * s + s /\ b * s \in Nat
    <2>1. b + 1 <= n /\ b + 1 \in Nat
      BY <1>2, <1>3
    <2>2. (b + 1) * s <= n * s
      BY <1>3, <2>1
    <2> QED
      BY <1>2, <1>3, <2>1, <2>2
  <1>9. CASE blockIdx'[r] = b /\ stepInBlock'[r] = i + 1 /\ i + 1 < s
    <2>1. StepIdx(r)' = b * s + (i + 1)
      BY <1>4, <1>9
    <2>2. StepIdx(r)' = StepIdx(r) + 1
      BY <1>2, <1>4, <1>8, <2>1
    <2>3. StepIdx(r)' < n * s /\ StepIdx(r)' # n * s
      BY <1>2, <1>3, <1>8, <1>9, <2>1
    <2>4. ~(blockIdx'[r] >= n)
      BY <1>2, <1>3, <1>9
    <2> QED
      BY <1>5, <1>6, <2>2, <2>3, <2>4
  <1>10. CASE blockIdx'[r] = b + 1 /\ stepInBlock'[r] = 0
    <2>1. StepIdx(r)' = (b + 1) * s
      BY <1>3, <1>4, <1>8, <1>10
    <2>2. StepIdx(r)' = (StepIdx(r) \div s + 1) * s
      BY <1>4, <1>7, <2>1
    <2>3. (b + 1) * s = n * s <=> b + 1 >= n
      <3>1. CASE b + 1 >= n
        <4>1. b + 1 = n
          BY <1>2, <1>3, <3>1
        <4> QED
          BY <3>1, <4>1
      <3>2. CASE b + 1 < n
        <4>1. b + 2 <= n /\ b + 2 \in Nat
          BY <1>2, <1>3, <3>2
        <4>2. (b + 2) * s <= n * s
          BY <1>3, <4>1
        <4>3. (b + 2) * s = (b + 1) * s + s
          BY <1>2, <1>3
        <4> QED
          BY <1>2, <1>3, <1>8, <3>2, <4>2, <4>3
      <3> QED
        BY <1>2, <1>3, <3>1, <3>2
    <2> QED
      BY <1>5, <1>6, <1>10, <2>1, <2>2, <2>3
  <1> QED
    BY <1>2, <1>9, <1>10

\* The scheduler's profile and step, as Engine maps them.
Profile == [r \in Rows |-> IF r \in InSystem THEN ProfileOf(params[r]) ELSE None]

StepOf == [r \in Rows |-> IF r \in InSystem THEN StepIdx(r) ELSE 0]

LEMMA AdmitIsScheduled ==
  ASSUME EngineInv, CountersInv', NEW r \in Rows, Admit(r)
  PROVE  S!Admit(r)
  <1>1. /\ r \notin InSystem /\ InSystem' = InSystem \cup {r} /\ InSystem \subseteq Rows
    BY AdmitKeeps, InSystemIs DEF EngineInv
  <1>2. Submit(r)
    BY DEF Admit
  <1>3. /\ params'[r] \in ValidParams
        /\ \A q \in Rows : /\ blockIdx'[q] = blockIdx[q]
                           /\ stepInBlock'[q] = stepInBlock[q]
                           /\ q # r => params'[q] = params[q]
        /\ blockIdx[r] = 0 /\ stepInBlock[r] = 0
    BY <1>2, CountersOfSubmit DEF EngineInv, CountersInv, Counted, Counters
  <1>4. StepIdx(r)' = 0
    <2>1. StepIdx(r)' = 0 * StepsPerBlock(params'[r]) + 0
      BY <1>3 DEF StepIdx
    <2>2. StepsPerBlock(params'[r]) \in Nat
      BY <1>3, Shape
    <2> QED
      BY <2>1, <2>2
  <1>5. \A q \in Rows : q # r => StepIdx(q)' = StepIdx(q)
    BY <1>3 DEF StepIdx
  <1>6. Profile[r] = None
    BY <1>1 DEF Profile
  <1>7. Profile' = [Profile EXCEPT ![r] = ProfileOf(params'[r])]
    BY <1>1, <1>3 DEF Profile
  <1>8. StepOf' = StepOf
    <2>1. \A q \in Rows : StepOf'[q] = StepOf[q]
      BY <1>1, <1>4, <1>5 DEF StepOf
    <2> QED
      BY <2>1 DEF StepOf
  <1>9. ProfileOf(params'[r]) \in {ProfileOf(p) : p \in {q \in ParamSpace : Valid(q)}}
    BY <1>3 DEF ValidParams
  <1>10. /\ leaving = {} /\ Len(pending) < MaxWaiting
         /\ pending' = Append(pending, r)
         /\ UNCHANGED <<active, age, leaving>>
    BY DEF Admit
  <1> QED
    BY <1>6, <1>7, <1>8, <1>9, <1>10 DEF S!Admit, Profile, StepOf

LEMMA RunBatchIsScheduled ==
  ASSUME EngineInv, CountersInv', RunBatch
  PROVE  S!RunBatch
  <1>1. /\ leaving = {} /\ active' = S!Pool /\ pending' = Rest
    BY Iteration
  <1>2. PICK i \in DOMAIN S!Pool :
          LET B == S!Batch(S!Pool, i)
          IN  /\ S!Best(S!Pool, i)
              /\ B \in Batches /\ S!Pool[i] \in B /\ B \subseteq ToSet(active')
              /\ \/ StepRaises(B, S!Pool[i])
                 \/ StepSucceeds(B, S!Pool[i])
    BY Iteration
  <1> DEFINE B == S!Batch(S!Pool, i)
  <1>3. /\ params' = params /\ InSystem' = InSystem /\ InSystem \subseteq Rows
    BY RunBatchKeeps, InSystemIs DEF EngineInv
  <1>4. Profile' = Profile
    BY <1>3 DEF Profile
  <1>5. B \subseteq InSystem
    <2>1. ToSet(active') \subseteq InSystem
      BY <1>1, Promoted DEF EngineInv
    <2> QED
      BY <1>2, <2>1
  <1>6. ASSUME StepRaises(B, S!Pool[i]) PROVE S!Abort(B)
    <2>1. leaving' = B /\ vars' = vars
      BY <1>6 DEF StepRaises
    <2>2. blockIdx' = blockIdx /\ stepInBlock' = stepInBlock
      BY <2>1 DEF vars
    <2>3. StepOf' = StepOf
      BY <1>3, <2>2 DEF StepOf, StepIdx
    <2> QED
      BY <2>1, <2>3 DEF S!Abort, StepOf
  <1>7. ASSUME StepSucceeds(B, S!Pool[i]) PROVE S!Denoise(B)
    <2> DEFINE next == [r \in B |-> StepIdx(r)']
    <2>1. /\ B \in Batches /\ S!Pool[i] \in B /\ StepBatch(B, S!Pool[i])
          /\ leaving' = {r \in B : Done(params[r], blockIdx'[r])}
      BY <1>2, <1>7 DEF StepSucceeds
    <2> HIDE DEF B
    <2>2. ASSUME NEW r \in B
          PROVE  /\ next[r] \in S!NextSteps(r)
                 /\ next[r] = S!Steps(Profile[r]) <=> Done(params[r], blockIdx'[r])
      <3>1. r \in InSystem /\ r \in Rows
        BY <1>3, <1>5
      <3>2. Profile[r] = ProfileOf(params[r]) /\ StepOf[r] = StepIdx(r)
        BY <3>1 DEF Profile, StepOf
      <3> DEFINE p == ProfileOf(params[r])
      <3>3. /\ StepIdx(r)' \in {StepIdx(r) + 1, (StepIdx(r) \div p.perBlock + 1) * p.perBlock}
            /\ StepIdx(r)' = p.blocks * p.perBlock <=> Done(params[r], blockIdx'[r])
        BY <2>1, StepsOfBatch DEF EngineInv
      <3> HIDE DEF p
      <3>4. S!NextSteps(r) = {StepIdx(r) + 1, (StepIdx(r) \div p.perBlock + 1) * p.perBlock}
        BY <3>2 DEF S!NextSteps, Profile, StepOf, p
      <3>5. S!Steps(Profile[r]) = p.blocks * p.perBlock
        BY <3>2 DEF S!Steps, p
      <3> QED
        BY <3>3, <3>4, <3>5
    <2>3. StepOf' = [r \in Rows |-> IF r \in B THEN next[r] ELSE StepOf[r]]
      <3>1. ASSUME NEW r \in Rows, r \notin B PROVE StepIdx(r)' = StepIdx(r)
        <4>1. Counters(r)' = Counters(r)
          BY <2>1, <3>1, CountersOfBatch DEF EngineInv
        <4> QED
          BY <1>3, <4>1 DEF Counters, StepIdx
      <3>2. \A r \in Rows :
              (IF r \in InSystem' THEN StepIdx(r)' ELSE 0)
                = IF r \in B THEN next[r] ELSE StepOf[r]
        BY <1>3, <1>5, <3>1 DEF StepOf
      <3> QED
        BY <3>2 DEF StepOf
    <2>4. leaving' = {r \in B : next[r] = S!Steps(Profile[r])}
      BY <2>1, <2>2
    <2>5. next \in [B -> UNION {S!NextSteps(r) : r \in B}]
      BY <2>2
    <2> HIDE DEF next
    <2> QED
      BY <2>2, <2>3, <2>4, <2>5 DEF S!Denoise, Profile, StepOf
  <1>8. S!Denoise(B) \/ S!Abort(B)
    BY <1>2, <1>6, <1>7
  <1>9. S!Elapse
    BY DEF RunBatch
  <1>10. pending' = SubSeq(pending, S!Promotions + 1, Len(pending))
    BY <1>1 DEF Rest
  <1>11. \E pool \in {S!Pool} : \E k \in DOMAIN pool : \E batch \in {S!Batch(pool, k)} :
           /\ S!Best(pool, k)
           /\ S!Denoise(batch) \/ S!Abort(batch)
           /\ active' = pool
    <2>1. S!Best(S!Pool, i)
      BY <1>2
    <2> HIDE DEF B
    <2>2. \E batch \in {B} : /\ S!Best(S!Pool, i)
                             /\ S!Denoise(batch) \/ S!Abort(batch)
                             /\ active' = S!Pool
      BY <1>1, <1>8, <2>1 DEF S!Denoise, S!Abort
    <2>3. \E k \in DOMAIN S!Pool : \E batch \in {S!Batch(S!Pool, k)} :
             /\ S!Best(S!Pool, k)
             /\ S!Denoise(batch) \/ S!Abort(batch)
             /\ active' = S!Pool
      BY <2>2 DEF B
    <2> QED
      BY <2>3
  <1> HIDE DEF B
  <1> QED
    BY <1>1, <1>4, <1>9, <1>10, <1>11 DEF S!RunBatch, Profile

LEMMA CompleteIsScheduled ==
  ASSUME EngineInv, CountersInv', Complete
  PROVE  S!Complete
  <1>1. PICK i \in DOMAIN active :
          /\ active[i] \in leaving
          /\ \A j \in 1 .. i - 1 : active[j] \notin leaving
          /\ active' = RemoveAt(active, i)
          /\ leaving' = leaving \ {active[i]}
          /\ age' = [age EXCEPT ![active[i]] = 0]
          /\ pending' = pending
          /\ vars' = vars
          /\ active[i] \in Rows
          /\ InSystem' = InSystem \ {active[i]}
    BY CompleteKeeps
  <1>2. params' = params /\ blockIdx' = blockIdx /\ stepInBlock' = stepInBlock
    BY <1>1 DEF vars
  <1>3. Profile' = [Profile EXCEPT ![active[i]] = None]
    BY <1>1, <1>2 DEF Profile
  <1>4. StepOf' = [StepOf EXCEPT ![active[i]] = 0]
    BY <1>1, <1>2 DEF StepOf, StepIdx
  <1>5. S!RemoveAt(active, i) = RemoveAt(active, i)
    BY DEF S!RemoveAt, RemoveAt
  <1> QED
    BY <1>1, <1>3, <1>4, <1>5 DEF S!Complete, Profile, StepOf

LEMMA ScheduleStep ==
  EngineInv /\ EngineInv' /\ [NextEngine]_engineVars => [S!Next]_(S!vars)
  <1> SUFFICES ASSUME EngineInv, EngineInv', [NextEngine]_engineVars
               PROVE  [S!Next]_(S!vars)
    OBVIOUS
  <1>1. CountersInv'
    BY DEF EngineInv
  <1>2. CASE RunBatch
    BY <1>1, <1>2, RunBatchIsScheduled DEF S!Next
  <1>3. CASE Complete
    BY <1>1, <1>3, CompleteIsScheduled DEF S!Next
  <1>4. ASSUME NEW r \in Rows, Admit(r) PROVE S!Next
    BY <1>1, <1>4, AdmitIsScheduled DEF S!Next
  <1>5. CASE UNCHANGED engineVars
    <2>1. /\ active' = active /\ pending' = pending /\ leaving' = leaving /\ age' = age
          /\ params' = params /\ blockIdx' = blockIdx /\ stepInBlock' = stepInBlock
      BY <1>5 DEF engineVars, vars
    <2>2. InSystem' = InSystem
      BY <2>1 DEF InSystem
    <2>3. Profile' = Profile /\ StepOf' = StepOf
      BY <2>1, <2>2 DEF Profile, StepOf, StepIdx
    <2> QED
      BY <2>1, <2>3 DEF S!vars, Profile, StepOf
  <1> QED
    BY <1>2, <1>3, <1>4, <1>5 DEF NextEngine

(***************************************************************************)
(* The engine drives its scheduler as Scheduler assumes: a request enters  *)
(* at step zero, moves to the next step or the next block in its batches   *)
(* only, and leaves when its steps are done or its batch has failed.       *)
(***************************************************************************)
THEOREM EngineSchedules == SpecEngine => SchedulesAsSpecified
  <1>1. InitEngine => S!Init
    <2> SUFFICES ASSUME InitEngine PROVE S!Init
      OBVIOUS
    <2>1. /\ active = << >> /\ pending = << >> /\ leaving = {}
          /\ age = [r \in Rows |-> 0]
      BY DEF InitEngine
    <2>2. InSystem = {}
      BY <2>1, EngineInvInit, InSystemIs DEF EngineInv, ToSet
    <2> QED
      BY <2>1, <2>2 DEF S!Init
  <1> QED
    BY <1>1, EngineInvariance, ScheduleStep, PTL
    DEF SpecEngine, SchedulesAsSpecified, S!Spec
=============================================================================
