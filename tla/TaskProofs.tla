----------------------------- MODULE TaskProofs -----------------------------
(***************************************************************************)
(* Proofs about how kk runs a task, for every host list, pool size and     *)
(* number of retries: RemoteTask, parallel or not, its invariant, the      *)
(* safety properties that follow from it and the refinement of             *)
(* TaskContract; and the same refinement for LocalTask.  The two share the *)
(* names of some variables, and nothing else: each theorem is about the    *)
(* behaviours of one of them.                                              *)
(***************************************************************************)
EXTENDS RemoteTask, FiniteSetTheorems, TLAPS

Completed == {"SUCCESS", "SKIPPED"}

(* Workers the WaitGroup counts, and those that hold a token of the pool. *)
Busy(w) == {i \in Slots : w[i] \in {"acquire", "select", "release"}}
Holding(w) == {i \in Slots : w[i] \in {"select", "release"}}

Counters ==
    /\ wg = Cardinality(Busy(worker))
    /\ pool = Cardinality(Holding(worker))
    /\ main # "spawn" => next = Len(HostList) + 1
    /\ main = "done" => wg = 0

(* What the places of a slot's worker and runner say about its reports. *)
SlotInv(i) ==
    /\ worker[i] = "none" <=> ~(i \in Live /\ i < next)
    /\ run[i] = "none" <=> worker[i] \in {"none", "acquire"}
    /\ run[i] = "gone" => worker[i] \in {"release", "exited"}
    /\ res[i] => run[i] \in {"send", "gone"}
    /\ Reported(i, Completed) <=> run[i] \in {"send", "gone"} /\ ~res[i]
    /\ Reported(i, {"FAILED"}) =>
         /\ worker[i] \in {"release", "exited"}
         /\ ctxDone \/ (run[i] = "gone" /\ res[i])
    /\ worker[i] \in {"release", "exited"} =>
         Reported(i, {"FAILED"}) \/ (run[i] = "gone" /\ ~res[i])

OneOfAKind ==
    \A j, k \in DOMAIN results :
      j # k /\ results[j].slot = results[k].slot =>
        (results[j].status = "FAILED" <=> results[k].status # "FAILED")

Verdict ==
    /\ status = "FAILED" <=> \E i \in Live : Reported(i, {"FAILED"})
    /\ main = "done" => status # "NULL"
    /\ main # "done" => status # "SUCCESS"

IInv ==
    /\ TypeOK
    /\ Counters
    /\ \A i \in Slots : SlotInv(i)
    /\ OneOfAKind
    /\ Verdict

-----------------------------------------------------------------------------
(* Lemmas *)

(* Slots is a finite interval with as many members as t.Hosts has. *)
LEMMA SlotsFinite ==
    /\ Len(HostList) \in Nat
    /\ IsFiniteSet(Slots)
    /\ Cardinality(Slots) = Len(HostList)
<1>1. Len(HostList) \in Nat
  BY HostListAssumption
<1>2. IsFiniteSet(1..Len(HostList)) /\ Cardinality(1..Len(HostList)) = Len(HostList)
  <2>1. \A n \in Nat : IsFiniteSet(1..n) /\ Cardinality(1..n) = n
    <3>1. TAKE n \in Nat
    <3>2. IsFiniteSet(1..n) /\ Cardinality(1..n) = IF 1 > n THEN 0 ELSE n - 1 + 1
      BY FS_Interval
    <3>3. QED
      BY <3>2
  <2>2. QED
    BY <1>1, <2>1
<1>3. QED
  BY <1>1, <1>2 DEF Slots

(* The sets the counters count are finite, and no larger than the host list. *)
LEMMA CountedFinite ==
    ASSUME NEW w
    PROVE  /\ IsFiniteSet(Busy(w)) /\ IsFiniteSet(Holding(w))
           /\ Cardinality(Busy(w)) \in 0..Len(HostList)
           /\ Cardinality(Holding(w)) \in 0..Len(HostList)
<1>1. Busy(w) \subseteq Slots /\ Holding(w) \subseteq Slots
  BY DEF Busy, Holding
<1>2. /\ IsFiniteSet(Busy(w)) /\ Cardinality(Busy(w)) <= Cardinality(Slots)
      /\ IsFiniteSet(Holding(w)) /\ Cardinality(Holding(w)) <= Cardinality(Slots)
  BY <1>1, SlotsFinite, FS_Subset
<1>3. Cardinality(Busy(w)) \in Nat /\ Cardinality(Holding(w)) \in Nat
  BY <1>2, FS_CardinalityType
<1>4. QED
  BY <1>2, <1>3, SlotsFinite

Counted == {"acquire", "select", "release"}
Token == {"select", "release"}

(* Moving one worker changes each counter by one at most. *)
LEMMA MoveWorker ==
    ASSUME NEW w \in [Slots -> WorkerStates], NEW v \in [Slots -> WorkerStates],
           NEW i \in Slots, \A j \in Slots \ {i} : v[j] = w[j]
    PROVE  /\ v[i] \in Counted /\ w[i] \in Counted => Cardinality(Busy(v)) = Cardinality(Busy(w))
           /\ v[i] \in Counted /\ w[i] \notin Counted => Cardinality(Busy(v)) = Cardinality(Busy(w)) + 1
           /\ v[i] \notin Counted /\ w[i] \in Counted => Cardinality(Busy(v)) = Cardinality(Busy(w)) - 1
           /\ v[i] \in Token /\ w[i] \in Token => Cardinality(Holding(v)) = Cardinality(Holding(w))
           /\ v[i] \notin Token /\ w[i] \notin Token => Cardinality(Holding(v)) = Cardinality(Holding(w))
           /\ v[i] \in Token /\ w[i] \notin Token => Cardinality(Holding(v)) = Cardinality(Holding(w)) + 1
           /\ v[i] \notin Token /\ w[i] \in Token => Cardinality(Holding(v)) = Cardinality(Holding(w)) - 1
<1>1. IsFiniteSet(Busy(w)) /\ IsFiniteSet(Holding(w))
  BY CountedFinite
<1>2. /\ Busy(v) = IF v[i] \in Counted THEN Busy(w) \cup {i} ELSE Busy(w) \ {i}
      /\ Holding(v) = IF v[i] \in Token THEN Holding(w) \cup {i} ELSE Holding(w) \ {i}
      /\ i \in Busy(w) <=> w[i] \in Counted
      /\ i \in Holding(w) <=> w[i] \in Token
  BY DEF Busy, Holding, Counted, Token
<1>3. /\ Cardinality(Busy(w) \cup {i}) =
           IF i \in Busy(w) THEN Cardinality(Busy(w)) ELSE Cardinality(Busy(w)) + 1
      /\ Cardinality(Holding(w) \cup {i}) =
           IF i \in Holding(w) THEN Cardinality(Holding(w)) ELSE Cardinality(Holding(w)) + 1
  BY <1>1, FS_AddElement
<1>4. /\ Cardinality(Busy(w) \ {i}) =
           IF i \in Busy(w) THEN Cardinality(Busy(w)) - 1 ELSE Cardinality(Busy(w))
      /\ Cardinality(Holding(w) \ {i}) =
           IF i \in Holding(w) THEN Cardinality(Holding(w)) - 1 ELSE Cardinality(Holding(w))
  BY <1>1, FS_RemoveElement
<1>5. QED
  BY <1>2, <1>3, <1>4

(* What appending an entry does to the positions of a sequence. *)
LEMMA AppendFacts ==
    ASSUME NEW R, NEW s \in Seq(R), NEW e \in R
    PROVE  /\ Append(s, e) \in Seq(R)
           /\ DOMAIN Append(s, e) = 1..Len(s) + 1
           /\ DOMAIN s = 1..Len(s)
           /\ Len(s) \in Nat
           /\ Append(s, e)[Len(s) + 1] = e
           /\ \A k \in DOMAIN s : Append(s, e)[k] = s[k] /\ s[k] \in R
  OBVIOUS

-----------------------------------------------------------------------------
(* The inductive invariant *)

(* The initial state satisfies it. *)
LEMMA InitIInv == Init => IInv
<1>. SUFFICES ASSUME Init PROVE IInv
  OBVIOUS
<1>0. \A j : \A S : ~Reported(j, S)
  BY DEF Init, Reported, Contract!Has
<1>1. Busy(worker) = {} /\ Holding(worker) = {}
  BY DEF Init, Busy, Holding
<1>2. TypeOK
  <2>1. /\ next \in 1..Len(HostList) + 1 /\ wg \in 0..Len(HostList) /\ pool \in 0..PoolSize
        /\ attempt \in [Slots -> 0..Retry - 1]
    BY SlotsFinite, PoolAssumption, RetryAssumption DEF Init
  <2>2. worker \in [Slots -> WorkerStates] /\ run \in [Slots -> RunStates]
    BY DEF Init, WorkerStates, RunStates
  <2>3. results \in Seq([slot : Live, status : {"SUCCESS", "SKIPPED", "FAILED"}])
    BY DEF Init
  <2>4. res \in [Slots -> BOOLEAN] /\ ctxDone \in BOOLEAN
    BY DEF Init
  <2>5. QED
    BY <2>1, <2>2, <2>3, <2>4 DEF Init, TypeOK
<1>3. Counters
  BY <1>1, FS_EmptySet DEF Init, Counters
<1>4. \A i \in Slots : SlotInv(i)
  BY <1>0, SlotsFinite DEF Init, SlotInv, Live, Slots
<1>5. OneOfAKind
  BY DEF Init, OneOfAKind
<1>6. Verdict
  BY <1>0 DEF Init, Verdict
<1>7. QED
  BY <1>2, <1>3, <1>4, <1>5, <1>6 DEF IInv

(* Steps of the caller that start a worker or skip a slot. *)
LEMMA SpawnIInv == ASSUME IInv, NEW i \in Slots, Spawn(i) PROVE IInv'
<1>0. Len(HostList) \in Nat /\ Slots = 1..Len(HostList) /\ Live \subseteq Slots
  BY SlotsFinite DEF Slots, Live
<1>r. \A j \in Slots : /\ Reported(j, Completed)' <=> Reported(j, Completed)
                       /\ Reported(j, {"FAILED"})' <=> Reported(j, {"FAILED"})
  BY DEF IInv, Spawn, Reported, Contract!Has
<1>1. CASE i \in Live
  <2>1. worker' = [worker EXCEPT ![i] = "acquire"] /\ worker[i] = "none"
    BY <1>1, <1>0 DEF IInv, Spawn, SlotInv, TypeOK
  <2>4. /\ Cardinality(Busy(worker')) = Cardinality(Busy(worker)) + 1
        /\ Cardinality(Holding(worker')) = Cardinality(Holding(worker))
    <3>1. /\ worker \in [Slots -> WorkerStates] /\ worker' \in [Slots -> WorkerStates]
          /\ worker'[i] = "acquire" /\ \A j \in Slots \ {i} : worker'[j] = worker[j]
      BY <2>1 DEF IInv, TypeOK, WorkerStates
    <3>2. QED
      BY <2>1, <3>1, MoveWorker DEF Counted, Token
  <2>5. wg' = Cardinality(Busy(worker')) /\ wg' \in 0..Len(HostList)
    BY <1>1, <2>4, CountedFinite DEF IInv, Spawn, Counters
  <2>6. TypeOK'
    BY <2>1, <2>5, <1>0 DEF IInv, Spawn, TypeOK, WorkerStates
  <2>7. Counters'
    BY <2>4, <2>5, <1>0 DEF IInv, Spawn, Counters
  <2>8. ASSUME NEW j \in Slots PROVE SlotInv(j)'
    BY <1>r, <2>1, <1>0, <1>1 DEF IInv, Spawn, SlotInv, TypeOK
  <2>9. QED
    BY <2>6, <2>7, <2>8, <1>r, <1>0 DEF IInv, Spawn, OneOfAKind, Verdict
<1>2. CASE i \notin Live
  <2>1. TypeOK' /\ Counters'
    BY <1>2, <1>0 DEF IInv, Spawn, TypeOK, Counters
  <2>2. ASSUME NEW j \in Slots PROVE SlotInv(j)'
    BY <1>2, <1>r, <1>0 DEF IInv, Spawn, SlotInv, TypeOK
  <2>3. QED
    BY <2>1, <2>2, <1>r, <1>0 DEF IInv, Spawn, OneOfAKind, Verdict
<1>3. QED
  BY <1>1, <1>2

(* The end of the caller's loop, its return, and the deadline. *)
LEMMA CallerIInv == ASSUME IInv, LoopEnds \/ Return \/ Timeout PROVE IInv'
<1>0. Len(HostList) \in Nat /\ Slots = 1..Len(HostList) /\ Live \subseteq Slots
  BY SlotsFinite DEF Slots, Live
<1>r. \A j \in Slots : /\ Reported(j, Completed)' <=> Reported(j, Completed)
                       /\ Reported(j, {"FAILED"})' <=> Reported(j, {"FAILED"})
  BY DEF IInv, LoopEnds, Return, Timeout, Reported, Contract!Has
<1>1. TypeOK'
  BY DEF IInv, LoopEnds, Return, Timeout, TypeOK
<1>2. Counters'
  BY <1>0 DEF IInv, LoopEnds, Return, Timeout, TypeOK, Counters
<1>3. ASSUME NEW j \in Slots PROVE SlotInv(j)'
  BY <1>r DEF IInv, LoopEnds, Return, Timeout, TypeOK, SlotInv
<1>4. OneOfAKind'
  BY DEF IInv, LoopEnds, Return, Timeout, OneOfAKind
<1>5. Verdict'
  BY <1>r, <1>0 DEF IInv, LoopEnds, Return, Timeout, TypeOK, Verdict
<1>6. QED
  BY <1>1, <1>2, <1>3, <1>4, <1>5 DEF IInv


(* What an append to the TaskResult does to the reports of every slot. *)
LEMMA AppendReports ==
    ASSUME TypeOK, OneOfAKind, NEW i \in Live, NEW st \in {"SUCCESS", "SKIPPED", "FAILED"},
           results' = Append(results, Result(i, st)),
           st = "FAILED" => ~Reported(i, {"FAILED"}),
           st # "FAILED" => ~Reported(i, Completed)
    PROVE  /\ results' \in Seq([slot : Live, status : {"SUCCESS", "SKIPPED", "FAILED"}])
           /\ \A j \in Slots :
                /\ Reported(j, Completed)' <=> Reported(j, Completed) \/ (j = i /\ st # "FAILED")
                /\ Reported(j, {"FAILED"})' <=> Reported(j, {"FAILED"}) \/ (j = i /\ st = "FAILED")
           /\ OneOfAKind'
<1>. DEFINE R == [slot : Live, status : {"SUCCESS", "SKIPPED", "FAILED"}]
            e == Result(i, st)
<1>1. results \in Seq(R) /\ e \in R /\ e.slot = i /\ e.status = st
  BY DEF TypeOK, Result
<1>2. results' = Append(results, e)
  OBVIOUS
<1>. HIDE DEF R, e
<1>a. /\ results' \in Seq(R)
      /\ DOMAIN results' = 1..Len(results) + 1
      /\ DOMAIN results = 1..Len(results)
      /\ Len(results) \in Nat
      /\ results'[Len(results) + 1] = e
      /\ \A k \in DOMAIN results : results'[k] = results[k] /\ results[k] \in R
  BY <1>1, <1>2, AppendFacts
<1>3. ASSUME NEW j \in Slots
      PROVE  /\ Reported(j, Completed)' <=> Reported(j, Completed) \/ (j = i /\ st # "FAILED")
             /\ Reported(j, {"FAILED"})' <=> Reported(j, {"FAILED"}) \/ (j = i /\ st = "FAILED")
  <2>1. ASSUME NEW S
        PROVE  Reported(j, S)' <=> Reported(j, S) \/ (e.slot = j /\ e.status \in S)
    BY <1>a DEF Reported, Contract!Has
  <2>2. QED
    BY <2>1, <1>1 DEF Completed
<1>4. OneOfAKind'
  <2>2. ASSUME NEW k \in DOMAIN results, results[k].slot = i
        PROVE  st = "FAILED" <=> results[k].status # "FAILED"
    BY <1>a, <2>2 DEF R, Reported, Contract!Has, Completed
  <2>3. QED
    BY <1>1, <1>a, <2>2 DEF OneOfAKind
<1>5. QED
  BY <1>a, <1>3, <1>4 DEF R

(* RunWithTimeout takes a token and starts the runner. *)
LEMMA AcquireIInv == ASSUME IInv, NEW i \in Slots, Acquire(i) PROVE IInv'
<1>0. Len(HostList) \in Nat /\ Slots = 1..Len(HostList) /\ Live \subseteq Slots
  BY SlotsFinite DEF Slots, Live
<1>r. \A j \in Slots : /\ Reported(j, Completed)' <=> Reported(j, Completed)
                       /\ Reported(j, {"FAILED"})' <=> Reported(j, {"FAILED"})
  BY DEF Acquire, Reported, Contract!Has
<1>1. /\ worker \in [Slots -> WorkerStates] /\ worker' \in [Slots -> WorkerStates]
      /\ worker[i] = "acquire" /\ worker'[i] = "select"
      /\ \A j \in Slots \ {i} : worker'[j] = worker[j]
  BY DEF IInv, Acquire, TypeOK, WorkerStates
<1>2. /\ Cardinality(Busy(worker')) = Cardinality(Busy(worker))
      /\ Cardinality(Holding(worker')) = Cardinality(Holding(worker)) + 1
  BY <1>1, MoveWorker DEF Counted, Token
<1>3. TypeOK'
  BY <1>1, PoolAssumption DEF IInv, Acquire, TypeOK, RunStates
<1>4. Counters'
  BY <1>2 DEF IInv, Acquire, Counters
<1>5. ASSUME NEW j \in Slots PROVE SlotInv(j)'
  BY <1>r DEF IInv, Acquire, SlotInv, TypeOK
<1>6. OneOfAKind' /\ Verdict'
  BY <1>r, <1>0 DEF IInv, Acquire, OneOfAKind, Verdict
<1>7. QED
  BY <1>3, <1>4, <1>5, <1>6 DEF IInv

(* RunWithTimeout gives its token back and counts itself out. *)
LEMMA ReleaseIInv == ASSUME IInv, NEW i \in Slots, Release(i) PROVE IInv'
<1>0. Len(HostList) \in Nat /\ Slots = 1..Len(HostList) /\ Live \subseteq Slots
  BY SlotsFinite DEF Slots, Live
<1>r. \A j \in Slots : /\ Reported(j, Completed)' <=> Reported(j, Completed)
                       /\ Reported(j, {"FAILED"})' <=> Reported(j, {"FAILED"})
  BY DEF Release, Reported, Contract!Has
<1>1. /\ worker \in [Slots -> WorkerStates] /\ worker' \in [Slots -> WorkerStates]
      /\ worker[i] = "release" /\ worker'[i] = "exited"
      /\ \A j \in Slots \ {i} : worker'[j] = worker[j]
  BY DEF IInv, Release, TypeOK, WorkerStates
<1>2. /\ Cardinality(Busy(worker')) = Cardinality(Busy(worker)) - 1
      /\ Cardinality(Holding(worker')) = Cardinality(Holding(worker)) - 1
  BY <1>1, MoveWorker DEF Counted, Token
<1>3. /\ wg' = Cardinality(Busy(worker')) /\ wg' \in 0..Len(HostList)
      /\ pool' = Cardinality(Holding(worker')) /\ pool' \in 0..PoolSize
  BY <1>2, <1>0, CountedFinite, PoolAssumption DEF IInv, Release, Counters, TypeOK
<1>4. TypeOK'
  BY <1>1, <1>3 DEF IInv, Release, TypeOK
<1>5. Counters'
  <2>1. main # "done"
    BY <1>2, <1>3, <1>0, CountedFinite DEF IInv, Counters
  <2>2. QED
    BY <1>3, <2>1 DEF IInv, Release, Counters
<1>6. ASSUME NEW j \in Slots PROVE SlotInv(j)'
  BY <1>r DEF IInv, Release, SlotInv, TypeOK
<1>7. OneOfAKind' /\ Verdict'
  BY <1>r, <1>0 DEF IInv, Release, OneOfAKind, Verdict
<1>8. QED
  BY <1>4, <1>5, <1>6, <1>7 DEF IInv


(* While a worker is counted, Execute has not returned. *)
LEMMA CountedNotDone ==
    ASSUME IInv, NEW i \in Slots, worker[i] \in Counted
    PROVE  main # "done"
<1>1. Busy(worker) # {}
  BY DEF Busy, Counted
<1>2. Cardinality(Busy(worker)) # 0
  BY <1>1, CountedFinite, FS_EmptySet
<1>3. QED
  BY <1>2 DEF IInv, Counters

(* A slot whose worker has started is live. *)
LEMMA StartedLive ==
    ASSUME IInv, NEW i \in Slots, worker[i] # "none"
    PROVE  i \in Live
  BY DEF IInv, SlotInv

(* RunWithTimeout gives up at the deadline. *)
LEMMA SelectTimeoutIInv == ASSUME IInv, NEW i \in Slots, SelectTimeout(i) PROVE IInv'
<1>0. Live \subseteq Slots /\ i \in Live /\ main # "done"
  BY StartedLive, CountedNotDone DEF SelectTimeout, Counted, Live
<1>1. ~Reported(i, {"FAILED"})
  BY DEF IInv, SlotInv, SelectTimeout
<1>r. /\ results' \in Seq([slot : Live, status : {"SUCCESS", "SKIPPED", "FAILED"}])
      /\ \A j \in Slots :
           /\ Reported(j, Completed)' <=> Reported(j, Completed)
           /\ Reported(j, {"FAILED"})' <=> Reported(j, {"FAILED"}) \/ j = i
      /\ OneOfAKind'
  BY <1>0, <1>1, AppendReports DEF IInv, SelectTimeout, AppendErr
<1>2. /\ worker \in [Slots -> WorkerStates] /\ worker' \in [Slots -> WorkerStates]
      /\ worker[i] = "select" /\ worker'[i] = "release"
      /\ \A j \in Slots \ {i} : worker'[j] = worker[j]
  BY DEF IInv, SelectTimeout, TypeOK, WorkerStates
<1>3. /\ Cardinality(Busy(worker')) = Cardinality(Busy(worker))
      /\ Cardinality(Holding(worker')) = Cardinality(Holding(worker))
  BY <1>2, MoveWorker DEF Counted, Token
<1>4. TypeOK'
  BY <1>r, <1>2 DEF IInv, SelectTimeout, AppendErr, TypeOK
<1>5. Counters'
  BY <1>3 DEF IInv, SelectTimeout, Counters
<1>6. ASSUME NEW j \in Slots PROVE SlotInv(j)'
  BY <1>r, <1>2 DEF IInv, SelectTimeout, SlotInv
<1>7. Verdict'
  BY <1>0, <1>r DEF IInv, SelectTimeout, AppendErr, Verdict
<1>8. QED
  BY <1>r, <1>4, <1>5, <1>6, <1>7 DEF IInv

(* RunWithTimeout receives the runner's result. *)
LEMMA SelectResultIInv == ASSUME IInv, NEW i \in Slots, SelectResult(i) PROVE IInv'
<1>0. Live \subseteq Slots /\ i \in Live /\ main # "done"
  BY StartedLive, CountedNotDone DEF SelectResult, Counted, Live
<1>1. ~Reported(i, {"FAILED"})
  BY DEF IInv, SlotInv, SelectResult
<1>r. /\ results' \in Seq([slot : Live, status : {"SUCCESS", "SKIPPED", "FAILED"}])
      /\ \A j \in Slots :
           /\ Reported(j, Completed)' <=> Reported(j, Completed)
           /\ Reported(j, {"FAILED"})' <=> Reported(j, {"FAILED"}) \/ (j = i /\ res[i])
      /\ OneOfAKind'
  <2>1. CASE res[i]
    BY <2>1, <1>0, <1>1, AppendReports DEF IInv, SelectResult, AppendErr
  <2>2. CASE ~res[i]
    BY <2>2 DEF IInv, SelectResult, TypeOK, OneOfAKind, Reported, Contract!Has
  <2>3. QED
    BY <2>1, <2>2
<1>2. /\ worker \in [Slots -> WorkerStates] /\ worker' \in [Slots -> WorkerStates]
      /\ worker[i] = "select" /\ worker'[i] = "release"
      /\ \A j \in Slots \ {i} : worker'[j] = worker[j]
  BY DEF IInv, SelectResult, TypeOK, WorkerStates
<1>3. /\ Cardinality(Busy(worker')) = Cardinality(Busy(worker))
      /\ Cardinality(Holding(worker')) = Cardinality(Holding(worker))
  BY <1>2, MoveWorker DEF Counted, Token
<1>4. TypeOK'
  BY <1>r, <1>2 DEF IInv, SelectResult, AppendErr, TypeOK, RunStates
<1>5. Counters'
  BY <1>3 DEF IInv, SelectResult, Counters
<1>6. ASSUME NEW j \in Slots PROVE SlotInv(j)'
  <2>1. CASE j = i
    BY <2>1, <1>r, <1>2 DEF IInv, SelectResult, SlotInv, TypeOK
  <2>2. CASE j # i
    BY <2>2, <1>r, <1>2 DEF IInv, SelectResult, SlotInv, TypeOK
  <2>3. QED
    BY <2>1, <2>2
<1>7. Verdict'
  <2>1. CASE res[i]
    BY <2>1, <1>0, <1>r DEF IInv, SelectResult, AppendErr, Verdict
  <2>2. CASE ~res[i]
    BY <2>2, <1>0, <1>r DEF IInv, SelectResult, Verdict
  <2>3. QED
    BY <2>1, <2>2
<1>8. QED
  BY <1>r, <1>4, <1>5, <1>6, <1>7 DEF IInv

(* Steps of Run before it records a result. *)
LEMMA RunnerIInv ==
    ASSUME IInv, NEW i \in Slots, Connect(i) \/ When(i) \/ Action(i)
    PROVE  IInv'
<1>0. Live \subseteq Slots
  BY DEF Live
<1>1. /\ UNCHANGED <<main, next, wg, pool, worker, ctxDone, results, status>>
      /\ run[i] \in {"connect", "when", "action"}
      /\ \/ /\ run' = run /\ res' = res /\ attempt[i] + 1 < Retry
            /\ attempt' = [attempt EXCEPT ![i] = attempt[i] + 1]
         \/ /\ run' = [run EXCEPT ![i] = "send"]
            /\ res' = [res EXCEPT ![i] = TRUE]
            /\ attempt' = attempt
         \/ \E to \in {"when", "action", "skip", "success"} :
              /\ run' = [run EXCEPT ![i] = to]
              /\ res' = res
              /\ attempt' = attempt \/ attempt' = [attempt EXCEPT ![i] = 0]
  BY DEF Connect, When, Action, FailedTry, Goto
<1>r. \A j \in Slots : /\ Reported(j, Completed)' <=> Reported(j, Completed)
                       /\ Reported(j, {"FAILED"})' <=> Reported(j, {"FAILED"})
  BY <1>1 DEF Reported, Contract!Has
<1>2. TypeOK'
  <2>1. attempt' \in [Slots -> 0..Retry - 1]
    BY <1>1, RetryAssumption DEF IInv, TypeOK
  <2>2. run' \in [Slots -> RunStates]
    BY <1>1 DEF IInv, TypeOK, RunStates
  <2>3. res' \in [Slots -> BOOLEAN]
    BY <1>1 DEF IInv, TypeOK
  <2>4. QED
    BY <1>1, <2>1, <2>2, <2>3 DEF IInv, TypeOK
<1>3. Counters' /\ OneOfAKind'
  BY <1>1 DEF IInv, Counters, OneOfAKind
<1>4. ASSUME NEW j \in Slots PROVE SlotInv(j)'
  <2>1. SlotInv(j) /\ run \in [Slots -> RunStates] /\ res \in [Slots -> BOOLEAN]
    BY DEF IInv, TypeOK
  <2>2. QED
    BY <1>1, <1>r, <2>1 DEF SlotInv
<1>5. Verdict'
  BY <1>0, <1>1, <1>r DEF IInv, Verdict
<1>6. QED
  BY <1>2, <1>3, <1>4, <1>5 DEF IInv

(* Run records a success or a skip, perhaps after Execute has returned. *)
LEMMA RecordIInv == ASSUME IInv, NEW i \in Slots, Record(i) PROVE IInv'
<1>0. Live \subseteq Slots /\ i \in Live
  BY DEF Record, Live, IInv, SlotInv
<1>1. ~Reported(i, Completed)
  BY DEF IInv, SlotInv, Record
<1>r. /\ results' \in Seq([slot : Live, status : {"SUCCESS", "SKIPPED", "FAILED"}])
      /\ \A j \in Slots :
           /\ Reported(j, Completed)' <=> Reported(j, Completed) \/ j = i
           /\ Reported(j, {"FAILED"})' <=> Reported(j, {"FAILED"})
      /\ OneOfAKind'
  <2>1. PICK st \in {"SUCCESS", "SKIPPED"} : results' = Append(results, Result(i, st))
    BY DEF Record, AppendDone
  <2>2. QED
    BY <2>1, <1>0, <1>1, AppendReports DEF IInv
<1>2. TypeOK'
  BY <1>r DEF IInv, Record, AppendDone, Goto, TypeOK, RunStates
<1>3. Counters'
  BY DEF IInv, Record, Counters
<1>4. ASSUME NEW j \in Slots PROVE SlotInv(j)'
  BY <1>r DEF IInv, Record, Goto, SlotInv, TypeOK
<1>5. Verdict'
  BY <1>0, <1>r DEF IInv, Record, AppendDone, Verdict
<1>6. QED
  BY <1>r, <1>2, <1>3, <1>4, <1>5 DEF IInv


(* Every step of the task engine preserves the invariant. *)
LEMMA NextIInv == IInv /\ [Next]_vars => IInv'
<1>. SUFFICES ASSUME IInv, [Next]_vars PROVE IInv'
  OBVIOUS
<1>1. CASE Caller \/ Timeout
  BY <1>1, SpawnIInv, CallerIInv DEF Caller
<1>2. ASSUME NEW i \in Slots, Worker(i) PROVE IInv'
  BY <1>2, AcquireIInv, SelectTimeoutIInv, SelectResultIInv, ReleaseIInv DEF Worker
<1>3. ASSUME NEW i \in Slots, Runner(i) PROVE IInv'
  BY <1>3, RunnerIInv, RecordIInv DEF Runner
<1>4. CASE UNCHANGED vars
  BY <1>4 DEF vars, IInv, TypeOK, Counters, Busy, Holding, SlotInv, OneOfAKind, Verdict,
              Reported, Contract!Has
<1>5. QED
  BY <1>1, <1>2, <1>3, <1>4 DEF Next

(* The inductive invariant holds in every reachable state. *)
THEOREM Invariance == Spec => []IInv
<1>1. Init => IInv
  BY InitIInv
<1>2. IInv /\ [Next]_vars => IInv'
  BY NextIInv
<1>3. QED
  BY <1>1, <1>2, PTL DEF Spec

-----------------------------------------------------------------------------
(* What follows from it *)

(* The state of RemoteTask.Execute is well typed: the pool never holds more *)
(* than DefaultCon tokens, no retry loop exceeds t.Retry.                   *)
THEOREM TypeCorrect == Spec => []TypeOK
<1>1. IInv => TypeOK
  BY DEF IInv
<1>2. QED
  BY <1>1, Invariance, PTL

(* When Execute has returned, its workers have all exited. *)
LEMMA DoneExited ==
    ASSUME IInv, main = "done", NEW i \in Live
    PROVE  worker[i] = "exited"
<1>1. i \in Slots /\ next = Len(HostList) + 1 /\ Len(HostList) \in Nat
  BY SlotsFinite DEF Live, IInv, Counters
<1>2. worker[i] # "none"
  BY <1>1 DEF IInv, SlotInv, Slots
<1>3. worker[i] \notin Counted
  BY <1>1, CountedNotDone
<1>4. QED
  BY <1>1, <1>2, <1>3 DEF IInv, TypeOK, WorkerStates, Counted

(* RemoteTask.Execute returns only when every live host has a result.       *)
THEOREM AllHostsAccountedFor == Spec => []EveryHostAccountedFor
<1>1. ASSUME IInv, main = "done", NEW i \in Live
      PROVE  Reported(i, {"SUCCESS", "SKIPPED", "FAILED"})
  <2>1. i \in Slots /\ worker[i] = "exited"
    BY <1>1, DoneExited DEF Live
  <2>2. Reported(i, {"FAILED"}) \/ Reported(i, Completed)
    BY <1>1, <2>1 DEF IInv, SlotInv
  <2>3. QED
    BY <2>2 DEF Reported, Contract!Has, Completed
<1>2. IInv => EveryHostAccountedFor
  BY <1>1 DEF EveryHostAccountedFor
<1>3. QED
  BY <1>2, Invariance, PTL

(* The verdict of RemoteTask.Execute agrees with its action results, late   *)
(* ones included.                                                           *)
THEOREM VerdictCorrect == Spec => []VerdictAgreesWithResults
<1>1. IInv => VerdictAgreesWithResults
  BY DEF IInv, TypeOK, Verdict, VerdictAgreesWithResults
<1>2. QED
  BY <1>1, Invariance, PTL

(* A slot of t.Hosts has two results only after the deadline.               *)
THEOREM TwoResults == Spec => []TwoResultsOnlyOnTimeout
<1>1. ASSUME IInv, NEW j \in DOMAIN results, NEW k \in DOMAIN results,
             j # k, results[j].slot = results[k].slot
      PROVE  /\ ctxDone
             /\ results[j].status = "FAILED" <=> results[k].status # "FAILED"
  <2>. DEFINE i == results[j].slot
  <2>1. results[j].status = "FAILED" <=> results[k].status # "FAILED"
    BY <1>1 DEF IInv, OneOfAKind
  <2>2. /\ i \in Slots
        /\ results[j].status \in {"SUCCESS", "SKIPPED", "FAILED"}
        /\ results[k].status \in {"SUCCESS", "SKIPPED", "FAILED"}
    <3>. DEFINE R == [slot : Live, status : {"SUCCESS", "SKIPPED", "FAILED"}]
    <3>1. results \in Seq(R)
      BY <1>1 DEF IInv, TypeOK
    <3>. HIDE DEF R
    <3>2. results[j] \in R /\ results[k] \in R
      BY <1>1, <3>1
    <3>3. QED
      BY <3>2 DEF R, Live
  <2>3. Reported(i, {"FAILED"}) /\ Reported(i, Completed)
    BY <1>1, <2>1, <2>2 DEF Reported, Contract!Has, Completed
  <2>4. ctxDone
    BY <1>1, <2>2, <2>3 DEF IInv, SlotInv
  <2>5. QED
    BY <2>1, <2>4
<1>2. IInv => TwoResultsOnlyOnTimeout
  BY <1>1 DEF TwoResultsOnlyOnTimeout
<1>3. QED
  BY <1>2, Invariance, PTL

(* RemoteTask.Execute leaves no worker behind, and a runner only when the   *)
(* deadline has passed and the host is reported as failed.                  *)
THEOREM ReturnIsClean == Spec => []CleanReturn
<1>1. ASSUME IInv, main = "done" PROVE pool = 0
  <2>1. Holding(worker) \subseteq Busy(worker) /\ Busy(worker) = {}
    <3>1. \A i \in Slots : worker[i] \notin Counted
      BY <1>1, CountedNotDone
    <3>2. QED
      BY <3>1 DEF Busy, Holding, Counted
  <2>2. QED
    BY <1>1, <2>1, FS_EmptySet DEF IInv, Counters
<1>2. ASSUME IInv, main = "done", NEW i \in Live
      PROVE  /\ worker[i] = "exited"
             /\ run[i] # "gone" => ctxDone /\ Reported(i, {"FAILED"})
  <2>1. i \in Slots /\ worker[i] = "exited"
    BY <1>2, DoneExited DEF Live
  <2>2. QED
    BY <1>2, <2>1 DEF IInv, SlotInv
<1>3. IInv => CleanReturn
  BY <1>1, <1>2 DEF CleanReturn
<1>4. QED
  BY <1>3, Invariance, PTL

-----------------------------------------------------------------------------
(* Refinement *)

(* A step of the engine is a step of the contract, or leaves it alone. *)
LEMMA StepRefines ==
    ASSUME IInv, [Next]_vars
    PROVE  [Contract!CNext]_(Contract!cvars)
<1>. USE DEF Contract!cvars
<1>l. Live \subseteq Slots
  BY DEF Live
<1>1. CASE Return
  <2>1. /\ main # "done" /\ main' = "done" /\ UNCHANGED results
        /\ status' = IF status = "NULL" THEN "SUCCESS" ELSE status
    BY <1>1 DEF Return
  <2>2. ASSUME NEW i \in Live PROVE Reported(i, {"SUCCESS", "SKIPPED", "FAILED"})
    <3>2. worker[i] = "exited"
      <4>1. i \in Slots /\ next = Len(HostList) + 1 /\ Len(HostList) \in Nat
        BY <1>1, SlotsFinite DEF Live, IInv, Counters, Return
      <4>2. worker[i] # "none"
        BY <4>1 DEF IInv, SlotInv, Slots
      <4>3. Busy(worker) = {}
        BY <1>1, CountedFinite, FS_EmptySet DEF IInv, Counters, Return
      <4>4. QED
        BY <1>1, <4>1, <4>2, <4>3 DEF IInv, TypeOK, WorkerStates, Busy, Return
    <3>3. Reported(i, {"FAILED"}) \/ Reported(i, Completed)
      BY <3>2, <1>l DEF IInv, SlotInv
    <3>4. QED
      BY <3>3 DEF Reported, Contract!Has, Completed
  <2>3. Contract!Return
    BY <2>1, <2>2 DEF Contract!Return, Contract!Done, Reported, Contract!Has
  <2>4. QED
    BY <2>3 DEF Contract!CNext
<1>2. CASE LoopEnds \/ Timeout \/ \E i \in Slots : Spawn(i)
  BY <1>2 DEF LoopEnds, Timeout, Spawn
<1>3. ASSUME NEW i \in Slots, Acquire(i) \/ Release(i) \/ Connect(i) \/ When(i) \/ Action(i)
      PROVE  UNCHANGED <<results, status, main>>
  BY <1>3 DEF Acquire, Release, Connect, When, Action
<1>4. ASSUME NEW i \in Slots, SelectTimeout(i) \/ SelectResult(i)
      PROVE  [Contract!CNext]_(Contract!cvars)
  <2>1. i \in Live /\ main # "done" /\ main' = main /\ ~Reported(i, {"FAILED"})
    BY <1>4, StartedLive, CountedNotDone
    DEF SelectTimeout, SelectResult, Counted, IInv, SlotInv
  <2>2. AppendErr(i) \/ UNCHANGED <<results, status>>
    BY <1>4 DEF SelectTimeout, SelectResult
  <2>3. AppendErr(i) => Contract!Fail(i)
    BY <2>1 DEF AppendErr, Result, Contract!Fail, Reported
  <2>4. QED
    BY <2>1, <2>2, <2>3 DEF Contract!CNext
<1>5. ASSUME NEW i \in Slots, Record(i) PROVE [Contract!CNext]_(Contract!cvars)
  <2>1. i \in Live /\ ~Reported(i, Completed)
    BY <1>5 DEF Record, IInv, SlotInv
  <2>2. main = "done" => Reported(i, {"FAILED"})
    BY <1>5, <2>1, DoneExited DEF Record, IInv, SlotInv
  <2>3. PICK st \in Contract!Done : AppendDone(i, st)
    BY <1>5 DEF Record, Contract!Done
  <2>4. Contract!Finish(i, st)
    BY <1>5, <2>1, <2>2, <2>3
    DEF Record, AppendDone, Result, Contract!Finish, Reported, Completed, Contract!Done
  <2>5. QED
    BY <2>1, <2>4 DEF Contract!CNext
<1>6. CASE UNCHANGED vars
  BY <1>6 DEF vars
<1>7. QED
  BY <1>1, <1>2, <1>3, <1>4, <1>5, <1>6 DEF Next, Caller, Worker, Runner

(* RemoteTask implements TaskContract.                                      *)
THEOREM Refinement == Spec => ImplementsContract
<1>1. Init => Contract!CInit
  BY DEF Init, Contract!CInit
<1>2. IInv /\ [Next]_vars => [Contract!CNext]_(Contract!cvars)
  BY StepRefines
<1>3. QED
  BY <1>1, <1>2, Invariance, PTL DEF Spec, ImplementsContract, Contract!CSpec

-----------------------------------------------------------------------------
(* LocalTask.Execute.  Before the select is left nothing has failed, and    *)
(* afterwards a Run that has not been heard has been given up as failed,    *)
(* which is what allows it to record its success late.                      *)

Local == INSTANCE LocalTask

HasDone == Local!Contract!Has(results, Local!LocalHost, Local!Contract!Done)
HasFailed == Local!Contract!Has(results, Local!LocalHost, {"FAILED"})

Recorded ==
    /\ main \in {"start", "select"} => ~HasFailed
    /\ HasDone => run \in {"send", "gone"}
    /\ run \in {"send", "gone"} /\ ~res => HasDone
    /\ main \in {"report", "done"} => HasFailed \/ (run = "gone" /\ HasDone)
    /\ main = "start" => run = "none"
    /\ run = "gone" => main \in {"report", "done"}

LInv == Local!TypeOK /\ Recorded

(* What an appended result adds. *)
LEMMA AppendHas ==
    ASSUME Local!TypeOK, NEW st \in {"SUCCESS", "SKIPPED", "FAILED"},
           results' = Append(results, [slot |-> Local!LocalHost, status |-> st])
    PROVE  /\ results' \in Seq([slot : {Local!LocalHost}, status : {"SUCCESS", "SKIPPED", "FAILED"}])
           /\ HasDone' <=> HasDone \/ st # "FAILED"
           /\ HasFailed' <=> HasFailed \/ st = "FAILED"
<1> DEFINE E == [slot : {Local!LocalHost}, status : {"SUCCESS", "SKIPPED", "FAILED"}]
           e == [slot |-> Local!LocalHost, status |-> st]
<1>1. e \in E /\ results \in Seq(E) BY DEF Local!TypeOK
<1>2. results' \in Seq(E) BY <1>1
<1>3. Len(results) \in Nat /\ DOMAIN results = 1..Len(results) BY <1>1
<1>4. DOMAIN results' = 1..Len(results) + 1 BY <1>1, <1>3
<1>5. \A k \in 1..Len(results) : results'[k] = results[k] BY <1>1
<1>6. results'[Len(results) + 1] = e BY <1>1
<1>7. \A k \in DOMAIN results' : k \in DOMAIN results \/ k = Len(results) + 1 BY <1>3, <1>4
<1>8. Len(results) + 1 \in DOMAIN results' /\ DOMAIN results \subseteq DOMAIN results' BY <1>3, <1>4
<1>9. HasDone' <=> HasDone \/ st # "FAILED"
  BY <1>3, <1>5, <1>6, <1>7, <1>8 DEF HasDone, Local!Contract!Has, Local!Contract!Done
<1>10. HasFailed' <=> HasFailed \/ st = "FAILED"
  BY <1>3, <1>5, <1>6, <1>7, <1>8 DEF HasFailed, Local!Contract!Has
<1> QED BY <1>2, <1>9, <1>10

LEMMA SameHas == UNCHANGED results => (HasDone' <=> HasDone) /\ (HasFailed' <=> HasFailed)
BY DEF HasDone, HasFailed, Local!Contract!Has

LEMMA InitLInv == Local!Init => LInv
<1> SUFFICES ASSUME Local!Init PROVE LInv OBVIOUS
<1>1. ~HasDone /\ ~HasFailed BY DEF Local!Init, HasDone, HasFailed, Local!Contract!Has
<1>2. <<>> \in Seq([slot : {Local!LocalHost}, status : {"SUCCESS", "SKIPPED", "FAILED"}]) OBVIOUS
<1>3. Local!TypeOK BY <1>2 DEF Local!Init, Local!TypeOK
<1> QED BY <1>1, <1>3 DEF Local!Init, LInv, Recorded

LEMMA NextLInv == ASSUME LInv, [Local!Next]_(Local!vars) PROVE LInv'
<1> USE DEF LInv
<1>1. CASE UNCHANGED Local!vars BY <1>1, SameHas DEF Local!vars, Local!TypeOK, Recorded
<1>2. CASE Local!Start BY <1>2, SameHas DEF Local!Start, Local!TypeOK, Recorded
<1>3. CASE Local!Timeout
  <2>1. HasFailed' /\ (HasDone' <=> HasDone) /\ Local!TypeOK'
    BY <1>3, AppendHas DEF Local!Timeout, Local!AppendErr, Local!TypeOK
  <2> QED BY <1>3, <2>1 DEF Local!Timeout, Recorded
<1>4. CASE Local!Answer
  <2>1. CASE res
    <3>1. HasFailed' /\ (HasDone' <=> HasDone) /\ Local!TypeOK'
      BY <1>4, <2>1, AppendHas DEF Local!Answer, Local!AppendErr, Local!TypeOK
    <3> QED BY <1>4, <2>1, <3>1 DEF Local!Answer, Recorded
  <2>2. CASE ~res BY <1>4, <2>2, SameHas DEF Local!Answer, Local!TypeOK, Recorded
  <2> QED BY <2>1, <2>2
<1>5. CASE Local!Report BY <1>5, SameHas DEF Local!Report, Local!TypeOK, Recorded
<1>6. CASE Local!When \/ Local!Action
  <2>1. attempt' \in Nat
    BY <1>6 DEF Local!When, Local!Action, Local!FailedTry, Local!TypeOK
  <2>2. run \in {"when", "action"} /\ UNCHANGED <<main, results, status>>
    BY <1>6 DEF Local!When, Local!Action
  <2>3. \/ run' \in {"when", "action", "skip", "success"} /\ res' = res
        \/ run' = "send" /\ res' = TRUE
    BY <1>6 DEF Local!When, Local!Action, Local!FailedTry
  <2>4. Local!TypeOK' BY <2>1, <2>2, <2>3 DEF Local!TypeOK
  <2> QED BY <2>2, <2>3, <2>4, SameHas DEF Recorded
<1>7. CASE Local!Record
  <2>1. HasDone' /\ (HasFailed' <=> HasFailed) /\ Local!TypeOK'
    BY <1>7, AppendHas DEF Local!Record, Local!AppendDone, Local!TypeOK
  <2> QED BY <1>7, <2>1 DEF Local!Record, Recorded
<1> QED BY <1>1, <1>2, <1>3, <1>4, <1>5, <1>6, <1>7 DEF Local!Next, Local!Execute

LEMMA LocalInvariance == Local!Spec => []LInv
BY InitLInv, NextLInv, PTL DEF Local!Spec

(* LocalTask.Execute keeps the promise of TaskContract: one outcome at the *)
(* return and a verdict the abandoned Run of a timed-out task cannot       *)
(* change (RunWithTimeout, Run).                                           *)
THEOREM LocalRefinement == Local!Spec => Local!ImplementsContract
<1>1. Local!Init => Local!Contract!CInit BY DEF Local!Init, Local!Contract!CInit
<1>2. ASSUME LInv, [Local!Next]_(Local!vars) PROVE [Local!Contract!CNext]_(Local!Contract!cvars)
  <2> USE DEF LInv, Local!Contract!cvars
  <2>1. CASE UNCHANGED Local!vars \/ Local!Start \/ Local!When \/ Local!Action
    BY <1>2, <2>1 DEF Local!vars, Local!Start, Local!When, Local!Action
  <2>2. CASE Local!Timeout
    <3>1. Local!Contract!Fail(Local!LocalHost)
      BY <1>2, <2>2 DEF Local!Timeout, Local!AppendErr, Local!Contract!Fail, Recorded, HasFailed
    <3> QED BY <3>1 DEF Local!Contract!CNext
  <2>3. CASE Local!Answer
    <3>1. CASE res
      <4>1. Local!Contract!Fail(Local!LocalHost)
        BY <1>2, <2>3, <3>1 DEF Local!Answer, Local!AppendErr, Local!Contract!Fail, Recorded, HasFailed
      <4> QED BY <4>1 DEF Local!Contract!CNext
    <3>2. CASE ~res BY <2>3, <3>2 DEF Local!Answer
    <3> QED BY <3>1, <3>2
  <2>4. CASE Local!Report
    <3>1. Local!Contract!Has(results, Local!LocalHost, Local!Contract!Done \cup {"FAILED"})
      BY <1>2, <2>4 DEF Local!Report, Recorded, HasDone, HasFailed, Local!Contract!Has
    <3>2. Local!Contract!Return BY <2>4, <3>1 DEF Local!Report, Local!Contract!Return
    <3> QED BY <3>2 DEF Local!Contract!CNext
  <2>5. CASE Local!Record
    <3>1. ~HasDone /\ (main = "done" => HasFailed) BY <1>2, <2>5 DEF Local!Record, Recorded
    <3>2. PICK st \in Local!Contract!Done : Local!AppendDone(st) /\ UNCHANGED main
      BY <2>5 DEF Local!Record, Local!Contract!Done
    <3>3. Local!Contract!Finish(Local!LocalHost, st)
      BY <3>1, <3>2 DEF Local!AppendDone, Local!Contract!Finish, HasDone, HasFailed
    <3> QED BY <3>3 DEF Local!Contract!CNext
  <2> QED BY <1>2, <2>1, <2>2, <2>3, <2>4, <2>5 DEF Local!Next, Local!Execute
<1> QED BY <1>1, <1>2, LocalInvariance, PTL DEF Local!Spec, Local!ImplementsContract, Local!Contract!CSpec
=============================================================================
