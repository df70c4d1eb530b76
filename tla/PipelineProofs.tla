--------------------------- MODULE PipelineProofs ---------------------------
(***************************************************************************)
(* Proofs about the engine of kk, for any inventory, modules and number of *)
(* rounds, and for any results and pool.                                   *)
(*                                                                         *)
(* TaskPipeline: its invariant has three parts: what the host tables hold  *)
(* after any sequence of removals, what the lists a module captured still  *)
(* show of them, and who is to blame for what has failed so far.           *)
(*                                                                         *)
(* TaskRollback, the undoing of a failed task: a count of the increments   *)
(* and decrements of its WaitGroup, in whichever order they come.          *)
(***************************************************************************)
EXTENDS TaskPipeline, TaskRollback, SequenceTheorems, FiniteSetTheorems, TLAPS

InModule == {"task", "execute", "results", "until"}

(* The three parts of TypeOK that the steps change or leave alone. *)
RuntimeType ==
    /\ ignoreErr \in BOOLEAN
    /\ allHosts \in Seq(Host)
    /\ roleArr \in Seq(Host) /\ Len(roleArr) = Len(RoleHosts)
    /\ roleLen \in 0..Len(RoleHosts)
    /\ deprecated \subseteq Host

ControlType ==
    /\ pc \in {"module", "task", "execute", "results", "until", "ok", "err", "panic"}
    /\ mi \in 1..Len(Modules) + 1 /\ ti \in Nat /\ rounds \in 0..MaxRounds
    /\ pc \in InModule => mi <= Len(Modules) /\ ti \in 1..Len(Modules[mi]) + 1
    /\ captured \in [all : Seq(Host), role : 0..Len(RoleHosts)]
    /\ modStatus \in {"NULL", "SUCCESS", "FAILED"}
    /\ failed \subseteq Host \cup {LocalHost}

ResultType ==
    /\ DOMAIN slots \subseteq Nat /\ slots \in [DOMAIN slots -> Host \cup {LocalHost}]
    /\ reports \in Seq([slot : DOMAIN slots, status : {"SUCCESS", "FAILED"}])
    /\ resStatus \in {"NULL", "SUCCESS", "FAILED"}
    /\ at \in 1..Len(reports) + 1

(* The hosts of the role's slice, read entry by entry. *)
RoleSlice(len) == {roleArr[i] : i \in 1..len}

Tables ==
    /\ IsInjective(allHosts)
    /\ Range(allHosts) = Range(AllHosts) \ deprecated
    /\ \A i, j \in 1..roleLen : roleArr[i] = roleArr[j] => i = j
    /\ RoleSlice(roleLen) = Range(RoleHosts) \ deprecated
    /\ Range(roleArr) \subseteq Range(RoleHosts)
    /\ Len(allHosts) <= Len(AllHosts)
    /\ Len(allHosts) = Len(AllHosts) <=> deprecated = {}

(* A captured list has lost nobody who is still in the tables. *)
Captured ==
    pc \in InModule =>
      /\ roleLen <= captured.role
      /\ Range(allHosts) \subseteq Range(captured.all)
      /\ Range(captured.all) \subseteq Range(AllHosts)

Removes == kind # "local" /\ ignoreErr

(* Hosts the task at hand has failed on. *)
Culprits == {slots[reports[k].slot] : k \in {j \in DOMAIN reports : reports[j].status = "FAILED"}}

Blame ==
    /\ ~ignoreErr => deprecated = {}
    /\ deprecated \subseteq failed
    /\ pc \in {"module", "task", "until"} => failed = deprecated
    /\ pc \in {"execute", "results"} =>
         /\ ti <= Len(Modules[mi])
         /\ failed = deprecated \cup Culprits
         /\ kind # "local" => Range(slots) \subseteq Range(AllHosts)
    /\ pc = "execute" =>
         /\ at = 1 /\ resStatus # "SUCCESS"
         /\ Range(slots) \cap deprecated = {}
         /\ resStatus = "FAILED" <=> \E k \in DOMAIN reports : reports[k].status = "FAILED"
    /\ pc = "results" /\ ~Removes =>
         (resStatus = "FAILED" <=> \E k \in DOMAIN reports : reports[k].status = "FAILED")
    /\ pc = "results" /\ Removes =>
         \A k \in DOMAIN reports : reports[k].status = "FAILED" =>
           /\ k < at => slots[reports[k].slot] \in deprecated
           /\ k < at => resStatus # "FAILED"
    /\ pc = "results" /\ Removes /\ resStatus = "FAILED" =>
         \E k \in DOMAIN reports : reports[k].status = "FAILED"
    /\ pc \notin {"err", "panic"} => modStatus # "FAILED"
    /\ pc = "ok" => failed = {}
    /\ pc = "err" => failed # {}

IInv ==
    /\ RuntimeType /\ ControlType /\ ResultType
    /\ Tables /\ Captured /\ Blame /\ HealthyHostsRun

-----------------------------------------------------------------------------
(* The host tables *)

(* What the compaction loop does to a slice that holds nobody twice: h is   *)
(* gone from it, the others are still there, and no stranger has come.      *)
Compacted(arr, len, h) ==
    /\ Compact(arr, len, h) \in Seq(Host)
    /\ Len(Compact(arr, len, h)) = Len(arr)
    /\ Range(Compact(arr, len, h)) \subseteq Range(arr)
    /\ Kept(arr, len, h) \in 0..len
    /\ Kept(arr, len, h) = IF h \in {arr[i] : i \in 1..len} THEN len - 1 ELSE len
    /\ \A i, j \in 1..Kept(arr, len, h) :
         Compact(arr, len, h)[i] = Compact(arr, len, h)[j] => i = j
    /\ {Compact(arr, len, h)[i] : i \in 1..Kept(arr, len, h)}
         = {arr[i] : i \in 1..len} \ {h}

(* The loop of deleteHost, for every slice, length and host. *)
LEMMA CompactFacts ==
    ASSUME NEW arr \in Seq(Host), NEW len \in 0..Len(arr), NEW h,
           \A i, j \in 1..len : arr[i] = arr[j] => i = j
    PROVE  Compacted(arr, len, h)
<1> USE DEF Compacted
<1> DEFINE c == Compact(arr, len, h)
           n == Kept(arr, len, h)
<1>1. Len(arr) \in Nat /\ DOMAIN arr = 1..Len(arr) /\ arr \in [1..Len(arr) -> Host]
  OBVIOUS
<1>2. \A k \in 1..Len(arr) : c[k] = arr[k] \/ (k < len /\ c[k] = arr[k + 1])
  BY <1>1 DEF Compact
<1>3. DOMAIN c = 1..Len(arr) /\ c = [k \in 1..Len(arr) |-> c[k]]
  BY <1>1 DEF Compact
<1>4. \A k \in 1..Len(arr) : c[k] \in Host /\ c[k] \in Range(arr)
  BY <1>1, <1>2 DEF Range
<1>5. c \in Seq(Host) /\ Len(c) = Len(arr)
  <2>1. c \in [1..Len(arr) -> Host]
    BY <1>3, <1>4
  <2> QED
    BY <1>1, <2>1, SeqDef
<1>6. Range(c) \subseteq Range(arr)
  BY <1>3, <1>4 DEF Range
<1>7. CASE \E j \in 1..len : arr[j] = h
  <2>1. PICK j \in 1..len : arr[j] = h
    BY <1>7
  <2>2. n = len - 1 /\ h \in {arr[i] : i \in 1..len}
    BY <1>7 DEF Kept
  <2>3. \A k \in 1..n : c[k] = IF k < j THEN arr[k] ELSE arr[k + 1]
    <3> SUFFICES ASSUME NEW k \in 1..n PROVE c[k] = IF k < j THEN arr[k] ELSE arr[k + 1]
      OBVIOUS
    <3>1. (\E i \in 1..k : arr[i] = h) <=> j <= k
      BY <1>1, <2>1, <2>2
    <3> QED
      BY <1>1, <2>1, <2>2, <3>1 DEF Compact
  <2>4. \A i, k \in 1..n : c[i] = c[k] => i = k
    <3> SUFFICES ASSUME NEW i \in 1..n, NEW k \in 1..n, c[i] = c[k] PROVE i = k
      OBVIOUS
    <3>1. PICK a \in 1..len : c[i] = arr[a] /\ a = IF i < j THEN i ELSE i + 1
      BY <1>1, <2>2, <2>3
    <3>2. PICK b \in 1..len : c[k] = arr[b] /\ b = IF k < j THEN k ELSE k + 1
      BY <1>1, <2>2, <2>3
    <3>3. a = b
      BY <3>1, <3>2
    <3>4. i \in Nat /\ k \in Nat /\ j \in Nat
      BY <1>1, <2>2
    <3> QED
      BY ONLY <3>1, <3>2, <3>3, <3>4
  <2>5. \A k \in 1..n : c[k] \in {arr[i] : i \in 1..len} /\ c[k] # h
    BY <1>1, <2>1, <2>2, <2>3
  <2>6. \A i \in 1..len : arr[i] # h => \E k \in 1..n : c[k] = arr[i]
    <3> SUFFICES ASSUME NEW i \in 1..len, arr[i] # h PROVE \E k \in 1..n : c[k] = arr[i]
      OBVIOUS
    <3>1. CASE i < j
      BY <1>1, <2>1, <2>2, <2>3, <3>1
    <3>2. CASE j < i
      <4>1. i - 1 \in 1..n /\ c[i - 1] = arr[i]
        BY <1>1, <2>1, <2>2, <2>3, <3>2
      <4> QED
        BY <4>1
    <3> QED
      BY <1>1, <2>1, <3>1, <3>2
  <2>7. {c[k] : k \in 1..n} = {arr[i] : i \in 1..len} \ {h}
    BY <2>5, <2>6
  <2> QED
    <3>1. n \in 0..len
      BY <1>1, <2>1, <2>2
    <3> QED
      BY <1>5, <1>6, <2>2, <2>4, <2>7, <3>1
<1>8. CASE ~\E j \in 1..len : arr[j] = h
  <2>1. n = len /\ h \notin {arr[i] : i \in 1..len}
    BY <1>8 DEF Kept
  <2>2. \A k \in 1..len : c[k] = arr[k]
    BY <1>1, <1>8 DEF Compact
  <2>3. {c[k] : k \in 1..n} = {arr[i] : i \in 1..len} \ {h}
    BY <2>1, <2>2
  <2> QED
    BY <1>1, <1>5, <1>6, <2>1, <2>2, <2>3
<1> QED
  BY <1>7, <1>8

(* The part of a slice that is looked at through a length. *)
LEMMA SliceFacts ==
    ASSUME NEW S, NEW s \in Seq(S), NEW n \in 0..Len(s)
    PROVE  /\ SubSeq(s, 1, n) \in Seq(S)
           /\ Len(SubSeq(s, 1, n)) = n
           /\ \A i \in 1..n : SubSeq(s, 1, n)[i] = s[i]
           /\ DOMAIN SubSeq(s, 1, n) = 1..n
           /\ Range(SubSeq(s, 1, n)) = {s[i] : i \in 1..n}
<1>1. Len(s) \in Nat /\ \A i \in 1..n : s[i] \in S
  OBVIOUS
<1>2. /\ SubSeq(s, 1, n) \in Seq(S)
      /\ Len(SubSeq(s, 1, n)) = n
      /\ \A i \in 1..n : SubSeq(s, 1, n)[i] = s[i]
  BY <1>1, SubSeqProperties
<1>3. DOMAIN SubSeq(s, 1, n) = 1..n
  BY <1>2
<1> QED
  BY <1>2, <1>3 DEF Range

(* Without, for the list of all hosts. *)
LEMMA WithoutFacts ==
    ASSUME NEW s \in Seq(Host), IsInjective(s), NEW h \in Range(s)
    PROVE  /\ Without(s, h) \in Seq(Host)
           /\ IsInjective(Without(s, h))
           /\ Range(Without(s, h)) = Range(s) \ {h}
           /\ Len(Without(s, h)) = Len(s) - 1
<1> DEFINE c == Compact(s, Len(s), h)
           n == Kept(s, Len(s), h)
<1>1. Len(s) \in Nat /\ DOMAIN s = 1..Len(s)
  OBVIOUS
<1>2. Range(s) = {s[i] : i \in 1..Len(s)}
  BY <1>1 DEF Range
<1>3. /\ c \in Seq(Host) /\ Len(c) = Len(s)
      /\ n \in 0..Len(s) /\ n = Len(s) - 1
      /\ \A i, j \in 1..n : c[i] = c[j] => i = j
      /\ {c[i] : i \in 1..n} = Range(s) \ {h}
  <2>1. Len(s) \in 0..Len(s)
    BY <1>1
  <2>2. \A i, j \in 1..Len(s) : s[i] = s[j] => i = j
    BY <1>1 DEF IsInjective
  <2>3. h \in {s[i] : i \in 1..Len(s)}
    BY <1>2
  <2> HIDE DEF c, n
  <2> QED
    BY <1>2, <2>1, <2>2, <2>3, CompactFacts DEF c, n, Compacted
<1> HIDE DEF c, n
<1>4. /\ SubSeq(c, 1, n) \in Seq(Host)
      /\ Len(SubSeq(c, 1, n)) = n
      /\ \A i \in 1..n : SubSeq(c, 1, n)[i] = c[i]
      /\ DOMAIN SubSeq(c, 1, n) = 1..n
      /\ Range(SubSeq(c, 1, n)) = {c[i] : i \in 1..n}
  <2>1. n \in 0..Len(c)
    BY <1>3
  <2> QED
    BY <1>3, <2>1, SliceFacts
<1>5. IsInjective(SubSeq(c, 1, n))
  BY <1>3, <1>4 DEF IsInjective
<1> QED
  BY <1>3, <1>4, <1>5 DEF Without, c, n

LEMMA DeleteHostTables ==
    ASSUME RuntimeType, Tables, NEW h \in Range(allHosts), DeleteHost(h), UNCHANGED ignoreErr
    PROVE  /\ RuntimeType' /\ Tables'
           /\ Range(allHosts') \subseteq Range(allHosts)
           /\ roleLen' <= roleLen
<1>1. h \in Host
  <2>1. allHosts \in Seq(Host)
    BY DEF RuntimeType
  <2> QED
    BY <2>1, RangeOfSeq
<1>2. /\ allHosts' \in Seq(Host)
      /\ IsInjective(allHosts')
      /\ Range(allHosts') = Range(allHosts) \ {h}
      /\ Len(allHosts') = Len(allHosts) - 1
  BY WithoutFacts DEF DeleteHost, RuntimeType, Tables
<1>3. Len(RoleHosts) \in Nat /\ roleLen \in 0..Len(roleArr) /\ Len(roleArr) = Len(RoleHosts)
  BY HostsAssumption DEF RuntimeType
<1>4. /\ roleArr' \in Seq(Host)
      /\ Len(roleArr') = Len(roleArr)
      /\ Range(roleArr') \subseteq Range(roleArr)
      /\ roleLen' \in 0..roleLen
      /\ \A i, j \in 1..roleLen' : roleArr'[i] = roleArr'[j] => i = j
      /\ RoleSlice(roleLen)' = RoleSlice(roleLen) \ {h}
  <2>1. roleArr \in Seq(Host) /\ \A i, j \in 1..roleLen : roleArr[i] = roleArr[j] => i = j
    BY DEF RuntimeType, Tables
  <2>2. PICK arr, len : arr = roleArr /\ len = roleLen
    OBVIOUS
  <2>3. /\ arr \in Seq(Host) /\ len \in 0..Len(arr)
        /\ \A i, j \in 1..len : arr[i] = arr[j] => i = j
    BY <1>3, <2>1, <2>2
  <2>4. /\ Compact(arr, len, h) \in Seq(Host)
        /\ Len(Compact(arr, len, h)) = Len(arr)
        /\ Range(Compact(arr, len, h)) \subseteq Range(arr)
        /\ Kept(arr, len, h) \in 0..len
        /\ \A i, j \in 1..Kept(arr, len, h) :
             Compact(arr, len, h)[i] = Compact(arr, len, h)[j] => i = j
        /\ {Compact(arr, len, h)[i] : i \in 1..Kept(arr, len, h)}
             = {arr[i] : i \in 1..len} \ {h}
    <3>1. Compacted(arr, len, h)
      BY ONLY <2>3, CompactFacts
    <3> QED
      BY ONLY <3>1, Zenon DEF Compacted
  <2>5. roleArr' = Compact(arr, len, h) /\ roleLen' = Kept(arr, len, h)
    BY <2>2 DEF DeleteHost
  <2>6. /\ RoleSlice(roleLen)' = {Compact(arr, len, h)[i] : i \in 1..Kept(arr, len, h)}
        /\ RoleSlice(roleLen) = {arr[i] : i \in 1..len}
    BY <2>2, <2>5, Zenon DEF RoleSlice
  <2> QED
    BY <2>2, <2>4, <2>5, <2>6, Zenon
<1>5. deprecated' = deprecated \cup {h}
  BY DEF DeleteHost
<1>6. Len(allHosts) \in Nat /\ Len(AllHosts) \in Nat
  BY HostsAssumption DEF RuntimeType
<1>7. Tables'
  <2>1. Range(allHosts') = Range(AllHosts) \ deprecated'
    BY <1>2, <1>5 DEF Tables
  <2>2. RoleSlice(roleLen)' = Range(RoleHosts) \ deprecated'
    BY <1>4, <1>5 DEF Tables
  <2>3. Len(allHosts') < Len(AllHosts) /\ deprecated' # {}
    BY <1>2, <1>5, <1>6 DEF Tables
  <2> QED
    BY <1>2, <1>4, <1>6, <2>1, <2>2, <2>3 DEF Tables
<1>8. RuntimeType'
  BY <1>1, <1>2, <1>3, <1>4, <1>5 DEF RuntimeType
<1> QED
  BY <1>2, <1>3, <1>4, <1>7, <1>8

-----------------------------------------------------------------------------
(* The steps of the pipeline *)

LEMMA SameRuntime == RuntimeType /\ Tables /\ UNCHANGED runtime => RuntimeType' /\ Tables'
BY DEF RuntimeType, Tables, RoleSlice, runtime

LEMMA SameResult == ResultType /\ UNCHANGED <<slots, result>> => ResultType'
BY DEF ResultType, result

LEMMA InitIInv == Init => IInv
<1> SUFFICES ASSUME Init PROVE IInv
  OBVIOUS
<1> USE HostsAssumption, ModulesAssumption
<1>1. Len(RoleHosts) \in Nat /\ Len(AllHosts) \in Nat /\ Len(Modules) \in Nat
  OBVIOUS
<1>2. RuntimeType /\ ControlType
  BY <1>1 DEF Init, RuntimeType, ControlType, InModule
<1>3. ResultType
  BY DEF Init, ResultType
<1>4. Tables
  <2>1. DOMAIN RoleHosts = 1..Len(RoleHosts)
    OBVIOUS
  <2>2. RoleSlice(roleLen) = Range(RoleHosts)
    BY <2>1 DEF Init, RoleSlice, Range
  <2> QED
    BY <1>1, <2>1, <2>2 DEF Init, Tables, IsInjective
<1>5. Captured /\ HealthyHostsRun
  BY DEF Init, Captured, HealthyHostsRun, InModule
<1>6. Blame
  BY DEF Init, Blame
<1> QED
  BY <1>2, <1>3, <1>4, <1>5, <1>6 DEF IInv

LEMMA StartModuleIInv == ASSUME IInv, StartModule PROVE IInv'
<1> USE HostsAssumption, ModulesAssumption DEF IInv
<1>1. Len(Modules) \in Nat /\ Len(RoleHosts) \in Nat
  OBVIOUS
<1>2. RuntimeType' /\ Tables' /\ ResultType'
  BY SameRuntime, SameResult DEF StartModule
<1>3. ControlType'
  <2>1. mi \in 1..Len(Modules)
    BY <1>1 DEF StartModule, ControlType
  <2>2. Len(Modules[mi]) \in Nat
    BY <2>1
  <2>3. captured' \in [all : Seq(Host), role : 0..Len(RoleHosts)]
    BY DEF StartModule, RuntimeType
  <2>4. mi' = mi /\ mi <= Len(Modules) /\ ti' = 1 /\ 1 \in 1..Len(Modules[mi]) + 1
    BY <1>1, <2>1, <2>2 DEF StartModule
  <2> QED
    BY <1>1, <2>3, <2>4 DEF StartModule, ControlType
<1>4. Captured'
  <2>1. captured'.all = allHosts /\ captured'.role = roleLen /\ UNCHANGED <<allHosts, roleLen>>
    BY DEF StartModule, runtime
  <2>2. roleLen <= roleLen /\ Range(allHosts) \subseteq Range(AllHosts)
    BY <1>1 DEF RuntimeType, Tables
  <2> QED
    BY <2>1, <2>2 DEF Captured
<1>5. Blame' /\ HealthyHostsRun'
  BY DEF StartModule, Blame, HealthyHostsRun, runtime, result
<1> QED
  BY <1>2, <1>3, <1>4, <1>5

LEMMA FinishIInv == ASSUME IInv, Finish PROVE IInv'
<1> USE HostsAssumption DEF IInv
<1>1. RuntimeType' /\ Tables' /\ ResultType'
  BY SameRuntime, SameResult DEF Finish
<1>2. ControlType'
  BY DEF Finish, ControlType, InModule
<1>3. Captured' /\ HealthyHostsRun'
  BY DEF Finish, Captured, HealthyHostsRun, InModule
<1>4. Blame'
  BY DEF Finish, Blame, Tables, SpecHosts, runtime, result
<1> QED
  BY <1>1, <1>2, <1>3, <1>4

LEMMA UntilIInv == ASSUME IInv, Until PROVE IInv'
<1> USE ModulesAssumption DEF IInv
<1>1. Len(Modules) \in Nat /\ mi \in 1..Len(Modules) /\ Len(Modules[mi]) \in Nat
  <2>1. Len(Modules) \in Nat /\ mi \in 1..Len(Modules)
    BY DEF Until, ControlType, InModule
  <2> QED
    BY <2>1
<1>2. RuntimeType' /\ Tables' /\ ResultType'
  BY SameRuntime, SameResult DEF Until
<1>3. ControlType'
  <2>1. pc' = "task" => ti' = 1 /\ mi' = mi
    BY DEF Until
  <2>2. rounds' \in 0..MaxRounds /\ ti' \in Nat
    BY DEF Until, ControlType
  <2>3. mi' \in 1..Len(Modules) + 1
    BY <1>1 DEF Until
  <2>4. pc' \in {"module", "task", "err"} /\ UNCHANGED captured
    BY DEF Until
  <2>5. modStatus' \in {"NULL", "SUCCESS", "FAILED"} /\ failed' \subseteq Host \cup {LocalHost}
    BY DEF Until, ControlType
  <2> QED
    BY <1>1, <2>1, <2>2, <2>3, <2>4, <2>5 DEF ControlType, InModule
<1>4. Captured' /\ HealthyHostsRun'
  BY DEF Until, Captured, HealthyHostsRun, InModule, runtime
<1>5. Blame'
  BY DEF Until, Blame, runtime, result
<1> QED
  BY <1>2, <1>3, <1>4, <1>5

LEMMA EndModuleIInv == ASSUME IInv, EndModule PROVE IInv'
<1> USE DEF IInv
<1>1. RuntimeType' /\ Tables' /\ ResultType'
  BY SameRuntime, SameResult DEF EndModule
<1>2. ControlType'
  BY DEF EndModule, ControlType, InModule
<1>3. Captured' /\ HealthyHostsRun'
  BY DEF EndModule, Captured, HealthyHostsRun, InModule, runtime
<1>4. Blame'
  BY DEF EndModule, Blame, runtime, result
<1> QED
  BY <1>1, <1>2, <1>3, <1>4

(* The list a task finds: after whatever removals, it names every host that *)
(* is left and nobody from outside the inventory.                           *)
LEMMA TaskHostsFacts ==
    ASSUME IInv, pc = "task", ti <= Len(Modules[mi])
    PROVE  /\ kind \in Kinds
           /\ TaskHosts \in Seq(Host \cup {LocalHost})
           /\ kind = "role" => Range(TaskHosts) \ deprecated = Range(RoleHosts) \ deprecated
           /\ kind = "all" => Range(TaskHosts) \ deprecated = Range(AllHosts) \ deprecated
           /\ kind = "local" => Range(TaskHosts) \ deprecated = {LocalHost}
           /\ kind # "local" => Range(TaskHosts) \subseteq Range(AllHosts)
<1> USE HostsAssumption, ModulesAssumption DEF IInv
<1>1. /\ mi \in 1..Len(Modules) /\ Len(Modules) \in Nat
      /\ ti \in 1..Len(Modules[mi]) + 1
  BY DEF ControlType, InModule
<1>2. Modules[mi] \in Seq(Kinds)
  BY <1>1
<1>3. kind \in Kinds
  <2>1. ti \in 1..Len(Modules[mi])
    BY <1>1, <1>2
  <2> QED
    BY <1>2, <2>1 DEF kind
<1>4. CASE kind = "role"
  <2>1. /\ roleArr \in Seq(Host) /\ captured.role \in 0..Len(roleArr)
        /\ roleLen \in 0..Len(roleArr) /\ roleLen <= captured.role /\ Len(roleArr) \in Nat
    BY DEF RuntimeType, ControlType, Captured, InModule
  <2>2. TaskHosts = SubSeq(roleArr, 1, captured.role)
    BY <1>4 DEF TaskHosts
  <2>3. TaskHosts \in Seq(Host) /\ Range(TaskHosts) = {roleArr[i] : i \in 1..captured.role}
    BY <2>1, <2>2, SliceFacts
  <2>4. RoleSlice(roleLen) \subseteq Range(TaskHosts)
    <3>1. ASSUME NEW i \in 1..roleLen PROVE i \in 1..captured.role
      BY ONLY <2>1, i \in 1..roleLen
    <3> QED
      BY <2>3, <3>1 DEF RoleSlice
  <2>5. Range(TaskHosts) \subseteq Range(RoleHosts)
    <3>1. Range(TaskHosts) \subseteq Range(roleArr)
      <4>1. DOMAIN roleArr = 1..Len(roleArr) /\ 1..captured.role \subseteq 1..Len(roleArr)
        BY <2>1
      <4>2. {roleArr[i] : i \in 1..captured.role} \subseteq {roleArr[i] : i \in DOMAIN roleArr}
        BY <4>1, Zenon
      <4> QED
        BY <2>3, <4>2, Zenon DEF Range
    <3> QED
      BY <3>1 DEF Tables
  <2>6. Range(TaskHosts) \ deprecated = Range(RoleHosts) \ deprecated
    BY <2>4, <2>5 DEF Tables
  <2>7. TaskHosts \in Seq(Host \cup {LocalHost})
    BY <2>3, SeqMonotonic
  <2> QED
    BY <1>3, <1>4, <2>5, <2>6, <2>7
<1>5. CASE kind = "all"
  <2>1. TaskHosts = captured.all /\ captured.all \in Seq(Host)
    BY <1>5 DEF TaskHosts, ControlType
  <2>2. TaskHosts \in Seq(Host \cup {LocalHost})
    BY <2>1, SeqMonotonic
  <2>3. Range(TaskHosts) \ deprecated = Range(AllHosts) \ deprecated
    BY <2>1 DEF Captured, InModule, Tables
  <2> QED
    BY <1>3, <1>5, <2>1, <2>2, <2>3 DEF Captured, InModule
<1>6. CASE kind = "local"
  <2>1. TaskHosts = <<LocalHost>>
    BY <1>6 DEF TaskHosts
  <2>2. TaskHosts \in Seq(Host \cup {LocalHost})
    BY <2>1
  <2>3. Range(TaskHosts) = {LocalHost}
    BY <2>1 DEF Range
  <2>4. LocalHost \notin deprecated
    BY DEF RuntimeType
  <2> QED
    BY <1>3, <1>6, <2>2, <2>3, <2>4
<1> QED
  BY <1>3, <1>4, <1>5, <1>6 DEF Kinds

LEMMA StartTaskIInv == ASSUME IInv, StartTask PROVE IInv'
<1> USE DEF IInv
<1> DEFINE hosts == TaskHosts
           alive == {k \in DOMAIN hosts : hosts[k] \notin deprecated}
<1>1. pc = "task" /\ ti <= Len(Modules[mi]) /\ kind' = kind
  BY DEF StartTask, kind
<1>2. /\ kind \in Kinds
      /\ hosts \in Seq(Host \cup {LocalHost})
      /\ kind = "role" => Range(hosts) \ deprecated = Range(RoleHosts) \ deprecated
      /\ kind = "all" => Range(hosts) \ deprecated = Range(AllHosts) \ deprecated
      /\ kind = "local" => Range(hosts) \ deprecated = {LocalHost}
      /\ kind # "local" => Range(hosts) \subseteq Range(AllHosts)
  BY <1>1, TaskHostsFacts
<1>3. slots' = [i \in alive |-> hosts[i]]
  BY DEF StartTask
<1> HIDE DEF hosts
<1>4. Range(slots') = Range(hosts) \ deprecated
  BY <1>3 DEF Range
<1>5. RuntimeType' /\ Tables'
  BY SameRuntime DEF StartTask
<1>6. ResultType'
  <2>1. DOMAIN hosts \subseteq Nat /\ \A i \in DOMAIN hosts : hosts[i] \in Host \cup {LocalHost}
    BY <1>2
  <2>2. DOMAIN slots' \subseteq Nat /\ slots' \in [DOMAIN slots' -> Host \cup {LocalHost}]
    BY <1>3, <2>1
  <2> QED
    BY <2>2 DEF StartTask, ResultType
<1>7. ControlType'
  BY <1>1 DEF StartTask, ControlType, InModule
<1>8. Captured'
  BY DEF StartTask, Captured, InModule, runtime
<1>9. HealthyHostsRun'
  <2>1. deprecated' = deprecated
    BY DEF StartTask, runtime
  <2> QED
    BY <1>1, <1>2, <1>4, <2>1 DEF HealthyHostsRun, Kinds
<1>10. Blame'
  <2>1. /\ UNCHANGED <<deprecated, ignoreErr, mi, ti, modStatus, failed>>
        /\ reports' = <<>> /\ resStatus' = "NULL" /\ at' = 1 /\ pc' = "execute"
    BY DEF StartTask, runtime
  <2>2. DOMAIN reports' = {} /\ Culprits' = {}
    BY <2>1 DEF Culprits
  <2>3. failed = deprecated
    BY <1>1 DEF Blame
  <2>4. kind' # "local" => Range(slots') \subseteq Range(AllHosts)
    BY <1>1, <1>2, <1>4
  <2>5. Range(slots') \cap deprecated' = {}
    BY <1>4, <2>1
  <2> QED
    BY <1>1, <2>1, <2>2, <2>3, <2>4, <2>5 DEF Blame
<1> QED
  BY <1>5, <1>6, <1>7, <1>8, <1>9, <1>10

(* What one more report adds to the hosts that have failed. *)
LEMMA ReportFacts ==
    ASSUME ResultType, NEW i \in DOMAIN slots, NEW st \in {"SUCCESS", "FAILED"},
           reports' = Append(reports, [slot |-> i, status |-> st]), UNCHANGED slots
    PROVE  /\ reports' \in Seq([slot : DOMAIN slots, status : {"SUCCESS", "FAILED"}])
           /\ Len(reports') = Len(reports) + 1
           /\ Culprits' = Culprits \cup IF st = "FAILED" THEN {slots[i]} ELSE {}
           /\ (\E k \in DOMAIN reports' : reports'[k].status = "FAILED") <=>
                (st = "FAILED" \/ \E k \in DOMAIN reports : reports[k].status = "FAILED")
<1> DEFINE R == [slot : DOMAIN slots, status : {"SUCCESS", "FAILED"}]
           e == [slot |-> i, status |-> st]
<1>1. reports \in Seq(R) /\ e \in R
  BY DEF ResultType
<1>2. Len(reports) \in Nat /\ DOMAIN reports = 1..Len(reports)
  BY <1>1
<1>3. /\ reports' \in Seq(R) /\ Len(reports') = Len(reports) + 1
      /\ \A k \in 1..Len(reports) : reports'[k] = reports[k]
      /\ reports'[Len(reports) + 1] = e
  BY <1>1
<1>4. /\ \A k \in DOMAIN reports' : k \in DOMAIN reports \/ k = Len(reports) + 1
      /\ DOMAIN reports \subseteq DOMAIN reports' /\ Len(reports) + 1 \in DOMAIN reports'
  BY <1>2, <1>3
<1>5. e.slot = i /\ e.status = st
  OBVIOUS
<1>6. Culprits' = Culprits \cup IF st = "FAILED" THEN {slots[i]} ELSE {}
  BY <1>2, <1>3, <1>4, <1>5 DEF Culprits
<1>7. (\E k \in DOMAIN reports' : reports'[k].status = "FAILED") <=>
        (st = "FAILED" \/ \E k \in DOMAIN reports : reports[k].status = "FAILED")
  BY <1>2, <1>3, <1>4, <1>5
<1> QED
  BY <1>3, <1>6, <1>7

LEMMA ReportIInv ==
    ASSUME IInv, NEW i \in DOMAIN slots, NEW st \in {"SUCCESS", "FAILED"}, Report(i, st)
    PROVE  IInv'
<1> USE DEF IInv
<1>1. /\ reports' \in Seq([slot : DOMAIN slots, status : {"SUCCESS", "FAILED"}])
      /\ Len(reports') = Len(reports) + 1
      /\ Culprits' = Culprits \cup IF st = "FAILED" THEN {slots[i]} ELSE {}
      /\ (\E k \in DOMAIN reports' : reports'[k].status = "FAILED") <=>
           (st = "FAILED" \/ \E k \in DOMAIN reports : reports[k].status = "FAILED")
  BY ReportFacts DEF Report
<1>2. /\ UNCHANGED <<runtime, pc, mi, ti, rounds, captured, slots, at, modStatus>>
      /\ pc = "execute"
      /\ resStatus' = IF st = "FAILED" THEN "FAILED" ELSE resStatus
      /\ failed' = IF st = "FAILED" THEN failed \cup {slots[i]} ELSE failed
  BY DEF Report
<1>3. RuntimeType' /\ Tables'
  BY <1>2, SameRuntime
<1>4. ResultType'
  <2>1. Len(reports) \in Nat /\ at \in 1..Len(reports) + 1
    BY DEF ResultType
  <2>2. at' \in 1..Len(reports') + 1
    <3>1. at' = at
      BY <1>2
    <3>2. Len(reports') = Len(reports) + 1
      BY <1>1
    <3> QED
      BY ONLY <2>1, <3>1, <3>2
  <2>3. resStatus' \in {"NULL", "SUCCESS", "FAILED"}
    BY <1>2 DEF ResultType
  <2>4. UNCHANGED slots
    BY <1>2
  <2> QED
    BY <1>1, <2>2, <2>3, <2>4 DEF ResultType
<1>5. ControlType'
  <2>1. slots[i] \in Host \cup {LocalHost}
    BY DEF ResultType
  <2> QED
    BY <1>2, <2>1 DEF ControlType
<1>6. Captured' /\ HealthyHostsRun'
  BY <1>2 DEF Captured, HealthyHostsRun, runtime, kind
<1>7. Blame'
  <2>1. kind' = kind /\ UNCHANGED <<deprecated, ignoreErr>>
    BY <1>2 DEF kind, runtime
  <2>2. failed' = deprecated' \cup Culprits'
    BY <1>1, <1>2, <2>1 DEF Blame
  <2> QED
    BY <1>1, <1>2, <2>1, <2>2 DEF Blame
<1> QED
  BY <1>3, <1>4, <1>5, <1>6, <1>7

LEMMA ExecutedIInv == ASSUME IInv, Executed PROVE IInv'
<1> USE DEF IInv
<1>1. /\ UNCHANGED <<runtime, mi, ti, rounds, captured, slots, reports, at, modStatus, failed>>
      /\ pc = "execute" /\ pc' = "results"
      /\ resStatus' = IF resStatus = "NULL" THEN "SUCCESS" ELSE resStatus
  BY DEF Executed
<1>2. RuntimeType' /\ Tables'
  BY <1>1, SameRuntime
<1>3. ResultType' /\ ControlType'
  BY <1>1 DEF ResultType, ControlType, InModule
<1>4. Captured' /\ HealthyHostsRun'
  BY <1>1 DEF Captured, HealthyHostsRun, runtime, InModule
<1>5. Blame'
  <2>1. kind' = kind /\ Removes' = Removes /\ Culprits' = Culprits /\ UNCHANGED <<deprecated, ignoreErr>>
    BY <1>1 DEF kind, runtime, Removes, Culprits
  <2>2. at' = 1 /\ \A k \in DOMAIN reports' : ~(k < at')
    BY <1>1 DEF Blame, ResultType
  <2> QED
    BY <1>1, <2>1, <2>2 DEF Blame
<1> QED
  BY <1>2, <1>3, <1>4, <1>5
(* The report under the loop's index names a slot of the task. *)
LEMMA AtReport ==
    ASSUME ResultType, at <= Len(reports)
    PROVE  /\ at \in DOMAIN reports /\ at \in Nat
           /\ \A k \in DOMAIN reports : k \in Nat /\ (k < at + 1 => k < at \/ k = at)
           /\ reports[at].slot \in DOMAIN slots
           /\ slots[reports[at].slot] \in Range(slots)
<1>1. at \in 1..Len(reports) /\ Len(reports) \in Nat /\ DOMAIN reports = 1..Len(reports)
  BY DEF ResultType
<1>2. reports[at] \in [slot : DOMAIN slots, status : {"SUCCESS", "FAILED"}]
  <2>1. reports \in Seq([slot : DOMAIN slots, status : {"SUCCESS", "FAILED"}])
    BY DEF ResultType
  <2> QED
    BY <1>1, <2>1, ElementOfSeq
<1> QED
  BY <1>1, <1>2 DEF Range

(* No host is left: the loop leaves with the module's error. *)
LEMMA ReadResultNone ==
    ASSUME IInv, ReadResult, Removes, allHosts = <<>>
    PROVE  IInv'
<1> USE DEF IInv
<1>1. /\ pc = "results" /\ at <= Len(reports) /\ pc' = "err" /\ modStatus' = "FAILED"
      /\ UNCHANGED <<runtime, resStatus, at, mi, ti, rounds, captured, slots, reports, failed>>
  BY DEF ReadResult, Removes
<1>2. RuntimeType' /\ Tables'
  BY <1>1, SameRuntime
<1>3. ResultType' /\ ControlType'
  BY <1>1 DEF ResultType, ControlType, InModule
<1>4. Captured' /\ HealthyHostsRun'
  BY <1>1 DEF Captured, HealthyHostsRun, InModule
<1>5. failed # {}
  <2>1. slots[reports[at].slot] \in Range(AllHosts)
    BY <1>1, AtReport DEF Blame, Removes
  <2>2. Range(allHosts) = {}
    BY DEF Range
  <2> QED
    BY <2>1, <2>2 DEF Tables, Blame
<1>6. Blame'
  BY <1>1, <1>5 DEF Blame, runtime
<1> QED
  BY <1>2, <1>3, <1>4, <1>6

(* The host of a FAILED report leaves the tables. *)
LEMMA ReadResultRemove ==
    ASSUME IInv, ReadResult, Removes, allHosts # <<>>, reports[at].status = "FAILED",
           slots[reports[at].slot] \in Range(allHosts)
    PROVE  IInv'
<1> USE DEF IInv
<1> DEFINE h == slots[reports[at].slot]
<1>1. /\ pc = "results" /\ at <= Len(reports) /\ pc' = "results" /\ at' = at + 1
      /\ resStatus' = "SUCCESS" /\ DeleteHost(h)
      /\ UNCHANGED <<ignoreErr, modStatus, mi, ti, rounds, captured, slots, reports, failed>>
  BY DEF ReadResult, Removes
<1>2. /\ RuntimeType' /\ Tables'
      /\ Range(allHosts') \subseteq Range(allHosts)
      /\ roleLen' <= roleLen
  BY <1>1, DeleteHostTables
<1>3. /\ at \in DOMAIN reports /\ at \in Nat
      /\ \A k \in DOMAIN reports : k \in Nat /\ (k < at + 1 => k < at \/ k = at)
  BY <1>1, AtReport
<1>4. ResultType'
  <2>1. Len(reports) \in Nat
    BY DEF ResultType
  <2> QED
    BY <1>1, <1>3, <2>1 DEF ResultType
<1>5. ControlType'
  BY <1>1 DEF ControlType, InModule
<1>6. Captured'
  <2>1. roleLen \in Nat /\ roleLen' \in Nat /\ captured.role \in Nat
    <3>1. Len(RoleHosts) \in Nat
      BY HostsAssumption
    <3>2. roleLen \in 0..Len(RoleHosts) /\ roleLen' \in 0..Len(RoleHosts)
      BY <1>2 DEF RuntimeType
    <3>3. captured.role \in 0..Len(RoleHosts)
      BY DEF ControlType
    <3> QED
      BY ONLY <3>1, <3>2, <3>3
  <2>2. roleLen' <= captured.role
    <3>1. roleLen <= captured.role
      BY <1>1 DEF Captured, InModule
    <3>2. roleLen' <= roleLen
      BY <1>2
    <3> QED
      BY ONLY <2>1, <3>1, <3>2
  <2> QED
    BY <1>1, <1>2, <2>2 DEF Captured, InModule
<1>7. HealthyHostsRun'
  BY <1>1 DEF HealthyHostsRun
<1>8. Blame'
  <2>1. /\ kind' = kind /\ Removes' /\ Culprits' = Culprits /\ ignoreErr'
        /\ deprecated' = deprecated \cup {h}
    BY <1>1 DEF kind, Removes, Culprits, DeleteHost
  <2>2. h \in Culprits
    BY <1>3 DEF Culprits
  <2>3. failed' = deprecated' \cup Culprits' /\ deprecated' \subseteq failed'
    BY <1>1, <2>1, <2>2 DEF Blame
  <2>4. \A k \in DOMAIN reports' : reports'[k].status = "FAILED" =>
           /\ k < at' => slots'[reports'[k].slot] \in deprecated'
           /\ k < at' => resStatus' # "FAILED"
    BY <1>1, <1>3, <2>1 DEF Blame
  <2> QED
    BY <1>1, <2>1, <2>3, <2>4 DEF Blame
<1> QED
  BY <1>2, <1>4, <1>5, <1>6, <1>7, <1>8

(* The host of a FAILED report is not in allHosts any more. *)
LEMMA ReadResultPanic ==
    ASSUME IInv, ReadResult, Removes, allHosts # <<>>, reports[at].status = "FAILED",
           slots[reports[at].slot] \notin Range(allHosts)
    PROVE  IInv'
<1> USE DEF IInv
<1>1. /\ pc = "results" /\ pc' = "panic" /\ resStatus' = "SUCCESS"
      /\ UNCHANGED <<runtime, at, modStatus, mi, ti, rounds, captured, slots, reports, failed>>
  BY DEF ReadResult, Removes
<1>2. RuntimeType' /\ Tables'
  BY <1>1, SameRuntime
<1>3. ResultType' /\ ControlType'
  BY <1>1 DEF ResultType, ControlType, InModule
<1>4. Captured' /\ HealthyHostsRun'
  BY <1>1 DEF Captured, HealthyHostsRun, InModule
<1>5. Blame'
  BY <1>1 DEF Blame, runtime
<1> QED
  BY <1>2, <1>3, <1>4, <1>5

(* Nothing is to be removed for this report. *)
LEMMA ReadResultSkip ==
    ASSUME IInv, ReadResult, ~Removes \/ (allHosts # <<>> /\ reports[at].status # "FAILED")
    PROVE  IInv'
<1> USE DEF IInv
<1>1. /\ pc = "results" /\ at <= Len(reports) /\ at' = at + 1
      /\ UNCHANGED <<runtime, pc, resStatus, modStatus, mi, ti, rounds, captured, slots, reports, failed>>
  BY DEF ReadResult, Removes
<1>2. RuntimeType' /\ Tables'
  BY <1>1, SameRuntime
<1>3. /\ at \in DOMAIN reports /\ at \in Nat
      /\ \A k \in DOMAIN reports : k \in Nat /\ (k < at + 1 => k < at \/ k = at)
  BY <1>1, AtReport
<1>4. ResultType'
  <2>1. Len(reports) \in Nat
    BY DEF ResultType
  <2> QED
    BY <1>1, <1>3, <2>1 DEF ResultType
<1>5. ControlType'
  BY <1>1 DEF ControlType, InModule
<1>6. Captured' /\ HealthyHostsRun'
  BY <1>1 DEF Captured, HealthyHostsRun, InModule, runtime
<1>7. Blame'
  <2>1. /\ kind' = kind /\ Removes' = Removes /\ Culprits' = Culprits
        /\ UNCHANGED <<deprecated, ignoreErr>>
    BY <1>1 DEF kind, Removes, Culprits, runtime
  <2>2. Removes => \A k \in DOMAIN reports' : reports'[k].status = "FAILED" =>
           /\ k < at' => slots'[reports'[k].slot] \in deprecated'
           /\ k < at' => resStatus' # "FAILED"
    BY <1>1, <1>3, <2>1 DEF Blame
  <2> QED
    BY <1>1, <2>1, <2>2 DEF Blame
<1> QED
  BY <1>2, <1>4, <1>5, <1>6, <1>7

LEMMA ReadResultIInv == ASSUME IInv, ReadResult PROVE IInv'
BY ReadResultNone, ReadResultRemove, ReadResultPanic, ReadResultSkip

LEMMA EndTaskIInv == ASSUME IInv, EndTask PROVE IInv'
<1> USE DEF IInv
<1>1. /\ pc = "results" /\ at > Len(reports)
      /\ UNCHANGED <<runtime, result, mi, rounds, captured, slots, failed>>
      /\ resStatus = "FAILED" => modStatus' = "FAILED" /\ pc' = "err" /\ UNCHANGED ti
      /\ resStatus # "FAILED" => ti' = ti + 1 /\ pc' = "task" /\ UNCHANGED modStatus
  BY DEF EndTask
<1>2. RuntimeType' /\ Tables'
  BY <1>1, SameRuntime
<1>3. ResultType'
  BY <1>1, SameResult
<1>4. ti \in Nat /\ ti <= Len(Modules[mi]) /\ ti \in 1..Len(Modules[mi]) + 1 /\ Len(Modules[mi]) \in Nat
  <2>1. mi \in 1..Len(Modules) /\ ti \in Nat /\ ti \in 1..Len(Modules[mi]) + 1
    BY <1>1, ModulesAssumption DEF ControlType, InModule
  <2>2. Len(Modules[mi]) \in Nat
    BY <2>1, ModulesAssumption
  <2>3. ti <= Len(Modules[mi])
    BY <1>1 DEF Blame
  <2> QED
    BY <2>1, <2>2, <2>3
<1>5. ControlType'
  <2>1. CASE resStatus = "FAILED"
    BY <1>1, <2>1 DEF ControlType, InModule
  <2>2. CASE resStatus # "FAILED"
    <3>1. ti' \in Nat /\ ti' \in 1..Len(Modules[mi]) + 1
      BY <1>1, <1>4, <2>2
    <3> QED
      BY <1>1, <2>2, <3>1 DEF ControlType, InModule
  <2> QED
    BY <2>1, <2>2
<1>6. Captured' /\ HealthyHostsRun'
  BY <1>1 DEF Captured, HealthyHostsRun, InModule, runtime
<1>7. resStatus = "FAILED" => failed # {}
  <2> SUFFICES ASSUME resStatus = "FAILED" PROVE failed # {}
    OBVIOUS
  <2>1. PICK k \in DOMAIN reports : reports[k].status = "FAILED"
    BY <1>1 DEF Blame
  <2>2. slots[reports[k].slot] \in Culprits
    BY <2>1 DEF Culprits
  <2> QED
    BY <1>1, <2>2 DEF Blame
<1>8. resStatus # "FAILED" => failed = deprecated
  <2> SUFFICES ASSUME resStatus # "FAILED" PROVE Culprits \subseteq deprecated
    BY <1>1 DEF Blame
  <2>1. \A k \in DOMAIN reports : k < at
    BY <1>1 DEF ResultType
  <2>2. ASSUME NEW k \in DOMAIN reports, reports[k].status = "FAILED"
        PROVE  slots[reports[k].slot] \in deprecated
    BY <1>1, <2>1, <2>2 DEF Blame
  <2> QED
    BY <2>2 DEF Culprits
<1>9. Blame'
  <2>1. deprecated' = deprecated /\ ignoreErr' = ignoreErr
    BY <1>1 DEF runtime
  <2> QED
    BY <1>1, <1>7, <1>8, <2>1 DEF Blame
<1> QED
  BY <1>2, <1>3, <1>5, <1>6, <1>9

-----------------------------------------------------------------------------
LEMMA StutterIInv == ASSUME IInv, UNCHANGED vars PROVE IInv'
<1> USE DEF IInv, vars
<1>0. UNCHANGED runtime /\ UNCHANGED <<slots, result>>
  BY DEF runtime, result
<1>1. RuntimeType' /\ Tables'
  BY <1>0, SameRuntime
<1>2. ResultType'
  BY <1>0, SameResult
<1>3. ControlType' /\ Captured' /\ HealthyHostsRun'
  BY DEF ControlType, Captured, HealthyHostsRun, kind, runtime
<1>4. Blame'
  BY DEF Blame, Removes, Culprits, kind, runtime, result
<1> QED
  BY <1>1, <1>2, <1>3, <1>4

LEMMA NextIInv == ASSUME IInv, [Next]_vars PROVE IInv'
<1>1. CASE Next
  BY <1>1, StartModuleIInv, FinishIInv, UntilIInv, StartTaskIInv, EndModuleIInv, ReportIInv,
     ExecutedIInv, ReadResultIInv, EndTaskIInv DEF Next
<1>2. CASE UNCHANGED vars
  BY <1>2, StutterIInv
<1> QED
  BY <1>1, <1>2

(* The invariant of BaseTaskModule.Run, RunModule and Start. *)
THEOREM Invariance == Spec => []IInv
<1>1. IInv /\ [Next]_vars => IInv'
  BY NextIInv
<1> QED
  BY InitIInv, <1>1, PTL DEF Spec

(* Every variable keeps its type: in particular the length of the role's    *)
(* slice stays within its array, and the loop over the action results never *)
(* reads past them.                                                         *)
THEOREM TypeCorrect == Spec => []TypeOK
<1>1. IInv => TypeOK
  BY Zenon DEF IInv, RuntimeType, ControlType, ResultType, InModule, TypeOK
<1> QED
  BY Invariance, <1>1, PTL

(* DeleteHost's compaction in place keeps allHosts, the role's slice and    *)
(* the removed hosts a partition of the inventory, for any inventory.       *)
THEOREM TablesStayInStep == Spec => []TablesAgree
<1>1. ASSUME IInv PROVE TablesAgree
  <2>1. roleArr \in Seq(Host) /\ roleLen \in 0..Len(roleArr)
    BY <1>1 DEF IInv, RuntimeType
  <2>2. /\ Range(SubSeq(roleArr, 1, roleLen)) = {roleArr[i] : i \in 1..roleLen}
        /\ \A i \in 1..roleLen : SubSeq(roleArr, 1, roleLen)[i] = roleArr[i]
        /\ DOMAIN SubSeq(roleArr, 1, roleLen) = 1..roleLen
    BY <2>1, SliceFacts
  <2>3. Range(SubSeq(roleArr, 1, roleLen)) = Range(RoleHosts) \ deprecated
    BY <1>1, <2>2 DEF IInv, Tables, RoleSlice
  <2>4. IsInjective(SubSeq(roleArr, 1, roleLen))
    BY <1>1, <2>2 DEF IInv, Tables, IsInjective
  <2> QED
    BY <1>1, <2>3, <2>4 DEF TablesAgree, IInv, Tables
<1> QED
  BY Invariance, <1>1, PTL

(* No task passes over a host that is not removed, although earlier         *)
(* removals have moved the entries of the list the task captured.           *)
THEOREM NobodyPassedOver == Spec => []HealthyHostsRun
<1>1. IInv => HealthyHostsRun
  BY DEF IInv
<1> QED
  BY Invariance, <1>1, PTL

(* A host that has failed is never given another task, in whichever module *)
(* it failed and whatever lists the later tasks captured.                  *)
THEOREM FailedHostsStayOut == Spec => []FailedHostNeverRunsAgain
<1>1. ASSUME IInv PROVE FailedHostNeverRunsAgain
  <2> SUFFICES ASSUME pc = "execute", reports = <<>> PROVE Range(slots) \cap failed = {}
    BY DEF FailedHostNeverRunsAgain
  <2>1. Culprits = {}
    BY DEF Culprits
  <2> QED
    BY <1>1, <2>1 DEF IInv, Blame
<1> QED
  BY Invariance, <1>1, PTL

(* kk reports success only when no task has failed on any host, an error    *)
(* only when one has.                                                       *)
THEOREM VerdictCorrect == Spec => []VerdictIsRight
<1>1. IInv => VerdictIsRight
  BY DEF IInv, Blame, VerdictIsRight
<1> QED
  BY Invariance, <1>1, PTL

(* Without --ignore-err no task starts after one has failed. *)
THEOREM FirstFailureIsFinal == Spec => FailStop
<1>1. ASSUME IInv, [Next]_vars, ~ignoreErr, failed # {}, pc # "execute"
      PROVE  pc' # "execute"
  <2>1. pc # "task"
    BY <1>1 DEF IInv, Blame
  <2>2. CASE Next
    BY <1>1, <2>1, <2>2 DEF Next, StartModule, Finish, Until, StartTask, EndModule, Report,
       Executed, ReadResult, EndTask
  <2>3. CASE UNCHANGED vars
    BY <1>1, <2>3 DEF vars
  <2> QED
    BY <1>1, <2>2, <2>3
<1>2. IInv /\ [Next]_vars => [~ignoreErr /\ failed # {} /\ pc # "execute" => pc' # "execute"]_vars
  BY <1>1
<1> QED
  BY Invariance, <1>2, PTL DEF Spec, FailStop

-----------------------------------------------------------------------------
(* ExecuteRollback *)

Exited(w) == {i \in Results : w[i] = "exited"}
Tokens(w) == {i \in Results : w[i] \in {"select", "release"}}
Added(n) == {i \in Live : i < n}

(* A Done that overtakes its Add keeps the sum, until there is nothing to    *)
(* take from and kk panics.                                                 *)
Balance ==
    /\ pool = Cardinality(Tokens(worker))
    /\ main # "panic" => rwg + Cardinality(Exited(worker)) = Cardinality(Added(next))
    /\ main = "returned" => rwg = 0

Started ==
    /\ \A i \in Results : worker[i] # "none" =>
         i \in Live /\ (i < next \/ (i = next /\ main \in {"add", "panic"}))
    /\ main = "add" => next \in Live
    /\ main \in {"wait", "returned"} => next = NumResults + 1

RInv == RTypeOK /\ Balance /\ Started

LEMMA ResultsFinite ==
    /\ NumResults \in Nat /\ PoolSize \in Nat
    /\ IsFiniteSet(Results) /\ Cardinality(Results) = NumResults
    /\ Live \subseteq Results /\ Results = 1..NumResults
<1>1. NumResults \in Nat /\ PoolSize \in Nat
  BY NumResultsAssumption, RollbackPoolAssumption
<1>2. IsFiniteSet(1..NumResults) /\ Cardinality(1..NumResults) = IF 1 > NumResults THEN 0 ELSE NumResults - 1 + 1
  BY <1>1, FS_Interval
<1>3. Cardinality(1..NumResults) = NumResults
  BY <1>1, <1>2
<1> QED
  BY <1>1, <1>2, <1>3 DEF Results, Live

(* The sets that are counted are finite, and no larger than the results. *)
LEMMA RollbackCounted ==
    ASSUME NEW w, NEW n
    PROVE  /\ IsFiniteSet(Exited(w)) /\ IsFiniteSet(Tokens(w)) /\ IsFiniteSet(Added(n))
           /\ Cardinality(Exited(w)) \in Nat
           /\ Cardinality(Tokens(w)) \in Nat
           /\ Cardinality(Added(n)) \in 0..NumResults
<1>1. /\ Exited(w) \subseteq Results /\ Tokens(w) \subseteq Results
      /\ Added(n) \subseteq Results
  BY ResultsFinite DEF Exited, Tokens, Added
<1>2. /\ IsFiniteSet(Exited(w)) /\ IsFiniteSet(Tokens(w)) /\ IsFiniteSet(Added(n))
      /\ Cardinality(Added(n)) <= Cardinality(Results)
  BY <1>1, ResultsFinite, FS_Subset
<1>3. /\ Cardinality(Exited(w)) \in Nat /\ Cardinality(Tokens(w)) \in Nat
      /\ Cardinality(Added(n)) \in Nat
  BY <1>2, FS_CardinalityType
<1> QED
  BY <1>2, <1>3, ResultsFinite

Moves == {"none", "acquire", "select", "release", "exited"}
Held(s) == s \in {"select", "release"}

(* What moving one worker does to the two counts. *)
LEMMA RollbackMove ==
    ASSUME NEW w \in [Results -> Moves], NEW v \in [Results -> Moves],
           NEW i \in Results, \A j \in Results \ {i} : v[j] = w[j]
    PROVE  /\ Held(v[i]) /\ ~Held(w[i]) => Cardinality(Tokens(v)) = Cardinality(Tokens(w)) + 1
           /\ ~Held(v[i]) /\ Held(w[i]) => Cardinality(Tokens(v)) = Cardinality(Tokens(w)) - 1
           /\ Held(v[i]) /\ Held(w[i]) => Cardinality(Tokens(v)) = Cardinality(Tokens(w))
           /\ ~Held(v[i]) /\ ~Held(w[i]) => Cardinality(Tokens(v)) = Cardinality(Tokens(w))
           /\ v[i] = "exited" /\ w[i] # "exited" => Cardinality(Exited(v)) = Cardinality(Exited(w)) + 1
           /\ v[i] # "exited" /\ w[i] # "exited" => Cardinality(Exited(v)) = Cardinality(Exited(w))
<1>1. IsFiniteSet(Tokens(w)) /\ IsFiniteSet(Exited(w))
  BY RollbackCounted
<1>3. /\ Tokens(v) = IF Held(v[i]) THEN Tokens(w) \cup {i} ELSE Tokens(w) \ {i}
      /\ i \in Tokens(w) <=> Held(w[i])
  BY DEF Tokens, Held
<1>4. /\ v[i] = "exited" => Exited(v) = Exited(w) \cup {i}
      /\ v[i] # "exited" /\ w[i] # "exited" => Exited(v) = Exited(w)
      /\ i \in Exited(w) <=> w[i] = "exited"
  BY DEF Exited
<1>5. /\ Cardinality(Tokens(w) \cup {i}) =
           IF i \in Tokens(w) THEN Cardinality(Tokens(w)) ELSE Cardinality(Tokens(w)) + 1
      /\ Cardinality(Exited(w) \cup {i}) =
           IF i \in Exited(w) THEN Cardinality(Exited(w)) ELSE Cardinality(Exited(w)) + 1
  BY <1>1, FS_AddElement
<1>6. Cardinality(Tokens(w) \ {i}) =
        IF i \in Tokens(w) THEN Cardinality(Tokens(w)) - 1 ELSE Cardinality(Tokens(w))
  BY <1>1, FS_RemoveElement
<1> QED
  BY <1>3, <1>4, <1>5, <1>6

LEMMA InitRInv == ASSUME RInit PROVE RInv
<1>1. NumResults \in Nat /\ PoolSize \in Nat
  BY ResultsFinite
<1>2. RTypeOK
  <2>1. /\ worker \in [Results -> {"none", "acquire", "select", "release", "exited"}]
        /\ run \in [Results -> {"none", "connect", "rollback", "send", "gone"}]
    BY DEF RInit
  <2>2. runner \in [Results -> BOOLEAN] /\ res \in [Results -> BOOLEAN]
    BY DEF RInit
  <2>3. /\ parallel \in BOOLEAN /\ ctxDone = FALSE /\ main = "loop"
        /\ next = 1 /\ rwg = 0 /\ pool = 0
    BY DEF RInit
  <2>4. next \in 1..NumResults + 1 /\ rwg \in 0..NumResults /\ pool \in 0..PoolSize
    BY <1>1, <2>3
  <2>5. ctxDone \in BOOLEAN /\ main \in {"loop", "add", "wait", "returned", "panic"}
    BY <2>3
  <2> QED
    BY <2>1, <2>2, <2>3, <2>4, <2>5, Zenon DEF RTypeOK
<1>3. Tokens(worker) = {} /\ Exited(worker) = {} /\ Added(next) = {}
  BY <1>1 DEF RInit, Tokens, Exited, Added, Live, Results
<1>4. Balance
  BY <1>3, FS_EmptySet DEF RInit, Balance
<1>5. Started
  BY DEF RInit, Started
<1> QED
  BY <1>2, <1>4, <1>5 DEF RInv

(* The loop of ExecuteRollback, and its end. *)
LEMMA CallerRInv == ASSUME RInv, Caller, UNCHANGED parallel PROVE RInv'
<1> USE DEF RInv
<1>0. NumResults \in Nat /\ Results = 1..NumResults /\ Live \subseteq Results
  BY ResultsFinite
<1>1. CASE LoopEnds
  BY <1>0, <1>1 DEF LoopEnds, RTypeOK, Balance, Started
<1>2. CASE Return
  BY <1>2 DEF Return, RTypeOK, Balance, Started
<1>3. CASE Add
  <2>1. /\ main = "add" /\ rwg' = rwg + 1 /\ next' = next + 1 /\ main' = "loop" /\ next \in Live
        /\ UNCHANGED <<pool, worker, run, runner, res, ctxDone>>
    BY <1>3 DEF Add, Started
  <2>2. Added(next') = Added(next) \cup {next} /\ next \notin Added(next)
    <3>1. \A j \in Live : j < next + 1 <=> j < next \/ j = next
      BY <1>0, <2>1
    <3>2. ~(next < next)
      BY <1>0, <2>1
    <3> QED
      BY <2>1, <3>1, <3>2, Zenon DEF Added
  <2>3. PICK n : n = next
    OBVIOUS
  <2>4. /\ IsFiniteSet(Added(n)) /\ Cardinality(Added(n)) \in Nat
        /\ Cardinality(Added(n + 1)) \in 0..NumResults
        /\ Cardinality(Exited(worker)) \in Nat
    BY RollbackCounted
  <2>5. Cardinality(Added(n) \cup {n}) = Cardinality(Added(n)) + 1
    BY <2>2, <2>3, <2>4, FS_AddElement
  <2>6. Cardinality(Added(next')) = Cardinality(Added(next)) + 1
    BY <2>2, <2>3, <2>5
  <2>7. rwg' + Cardinality(Exited(worker)) = Cardinality(Added(next')) /\ rwg' \in Nat /\ rwg' <= NumResults
    BY <1>0, <2>1, <2>3, <2>4, <2>6 DEF Balance, RTypeOK
  <2>8. RTypeOK'
    BY <1>0, <2>1, <2>7 DEF RTypeOK
  <2>9. Balance'
    BY <2>1, <2>7 DEF Balance
  <2>10. Started'
    BY <1>0, <2>1 DEF Started
  <2> QED
    BY <2>8, <2>9, <2>10
<1>4. ASSUME NEW i \in Results, Start(i), i \in Live PROVE RInv'
  <2>1. /\ main = "loop" /\ next = i /\ worker' = [worker EXCEPT ![i] = "acquire"] /\ main' = "add"
        /\ UNCHANGED <<next, rwg, pool, run, runner, res, ctxDone>>
    BY <1>4 DEF Start
  <2>2. worker \in [Results -> Moves] /\ worker[i] = "none"
    BY <1>0, <2>1 DEF RTypeOK, Moves, Started
  <2>3. PICK w \in [Results -> Moves] : w = worker
    BY <2>2
  <2>v. PICK v \in [Results -> Moves] :
          v = worker' /\ v[i] = "acquire" /\ \A j \in Results \ {i} : v[j] = w[j]
    BY <2>1, <2>3 DEF Moves
  <2>4. /\ v \in [Results -> Moves]
        /\ Cardinality(Tokens(v)) = Cardinality(Tokens(w))
        /\ Cardinality(Exited(v)) = Cardinality(Exited(w))
    BY <2>v, <2>2, <2>3, RollbackMove DEF Held
  <2>5. RTypeOK'
    BY <2>v, <2>1, <2>3, <2>4 DEF RTypeOK, Moves
  <2>6. Balance'
    BY <2>v, <2>1, <2>3, <2>4 DEF Balance
  <2>7. Started'
    BY <1>0, <1>4, <2>1, <2>2 DEF Started
  <2> QED
    BY <2>5, <2>6, <2>7
<1>5. ASSUME NEW i \in Results, Start(i), i \notin Live PROVE RInv'
  <2>1. /\ main = "loop" /\ next = i /\ next' = next + 1
        /\ UNCHANGED <<main, worker, rwg, pool, run, runner, res, ctxDone>>
    BY <1>5 DEF Start
  <2>2. Added(next') = Added(next)
    <3>1. \A j \in Live : j < next + 1 <=> j < next
      BY <1>0, <1>5, <2>1
    <3> QED
      BY <2>1, <3>1, Zenon DEF Added
  <2>3. RTypeOK'
    BY <1>0, <2>1 DEF RTypeOK
  <2>4. Balance' /\ Started'
    BY <1>0, <2>1, <2>2 DEF Balance, Started
  <2> QED
    BY <2>3, <2>4
<1> QED
  BY <1>1, <1>2, <1>3, <1>4, <1>5 DEF Caller

(* RollbackWithTimeout moves its own worker. *)
LEMMA WorkerRInv ==
    ASSUME RInv, NEW i \in Results, Worker(i), UNCHANGED parallel
    PROVE  RInv'
<1> USE DEF RInv
<1>0. NumResults \in Nat /\ PoolSize \in Nat
  BY ResultsFinite
<1>1. PICK w \in [Results -> Moves] : w = worker
  BY DEF RTypeOK, Moves
<1>2. Cardinality(Tokens(w)) \in Nat /\ Cardinality(Exited(w)) \in Nat
  BY RollbackCounted
<1>3. main \notin {"returned", "panic"} /\ UNCHANGED <<next, ctxDone>>
  BY DEF Worker, Acquire, SelectTimeout, SelectResult,
     Release, Alive
<1>4. CASE Acquire(i)
  <2>1. /\ w[i] = "acquire" /\ worker' = [w EXCEPT ![i] = "select"] /\ pool' = pool + 1
        /\ pool < PoolSize /\ UNCHANGED <<main, rwg, runner, res>>
        /\ run' = [run EXCEPT ![i] = "connect"]
    BY <1>1, <1>4 DEF Acquire
  <2>v. PICK v \in [Results -> Moves] :
          v = worker' /\ v[i] = "select" /\ \A j \in Results \ {i} : v[j] = w[j]
    BY <2>1 DEF Moves
  <2>2. /\ worker' \in [Results -> Moves]
        /\ Cardinality(Tokens(worker')) = Cardinality(Tokens(w)) + 1
        /\ Cardinality(Exited(worker')) = Cardinality(Exited(w))
    BY <2>v, <2>1, RollbackMove DEF Held
  <2>3. RTypeOK'
    BY <1>0, <1>3, <2>1, <2>2 DEF RTypeOK, Moves
  <2>4. Balance'
    BY <1>1, <1>3, <2>1, <2>2 DEF Balance
  <2>5. Started'
    BY <1>1, <1>3, <2>1 DEF Started
  <2> QED
    BY <2>3, <2>4, <2>5
<1>5. CASE SelectTimeout(i) \/ SelectResult(i)
  <2>1. /\ w[i] = "select" /\ UNCHANGED <<rwg, pool, runner, res>>
        /\ run' = run \/ run' = [run EXCEPT ![i] = "gone"]
        /\ \/ worker' = [w EXCEPT ![i] = "release"] /\ main' = main
           \/ worker' = w /\ main' = "panic"
    BY <1>1, <1>5 DEF SelectTimeout, SelectResult, LogFailure
  <2>2. /\ worker' \in [Results -> Moves]
        /\ Cardinality(Tokens(worker')) = Cardinality(Tokens(w))
        /\ Cardinality(Exited(worker')) = Cardinality(Exited(w))
        /\ \A j \in Results : worker'[j] # "none" => w[j] # "none"
    <3>1. CASE worker' = [w EXCEPT ![i] = "release"]
      <4>1. PICK v \in [Results -> Moves] :
              v = worker' /\ v[i] = "release" /\ \A j \in Results \ {i} : v[j] = w[j]
        BY <3>1 DEF Moves
      <4>2. /\ v \in [Results -> Moves]
            /\ Cardinality(Tokens(v)) = Cardinality(Tokens(w))
            /\ Cardinality(Exited(v)) = Cardinality(Exited(w))
        BY <2>1, <3>1, <4>1, RollbackMove DEF Held
      <4> QED
        BY <2>1, <3>1, <4>1, <4>2
    <3>2. CASE worker' = w
      BY <3>2
    <3> QED
      BY <2>1, <3>1, <3>2
  <2>3. RTypeOK'
    BY <1>3, <2>1, <2>2 DEF RTypeOK, Moves
  <2>4. Balance'
    BY <1>1, <1>3, <2>1, <2>2 DEF Balance
  <2>5. Started'
    BY <1>1, <1>3, <2>1, <2>2 DEF Started
  <2> QED
    BY <2>3, <2>4, <2>5
<1>6. CASE Release(i)
  <2>1. /\ w[i] = "release" /\ worker' = [w EXCEPT ![i] = "exited"] /\ pool' = pool - 1
        /\ UNCHANGED <<run, runner, res>>
        /\ \/ rwg > 0 /\ rwg' = rwg - 1 /\ main' = main
           \/ rwg' = rwg /\ main' = "panic"
    BY <1>1, <1>6 DEF Release
  <2>2. /\ worker' \in [Results -> Moves]
        /\ Cardinality(Tokens(worker')) = Cardinality(Tokens(w)) - 1
        /\ Cardinality(Exited(worker')) = Cardinality(Exited(w)) + 1
    <3>1. PICK v \in [Results -> Moves] :
            v = worker' /\ v[i] = "exited" /\ \A j \in Results \ {i} : v[j] = w[j]
      BY <2>1 DEF Moves
    <3> QED
      BY <2>1, <3>1, RollbackMove DEF Held
  <2>3. i \in Tokens(w)
    BY <2>1 DEF Tokens
  <2>4. Cardinality(Tokens(w)) # 0
    BY <2>3, RollbackCounted, FS_EmptySet
  <2>5. pool' \in 0..PoolSize /\ rwg' \in 0..NumResults
    BY <1>0, <1>1, <1>2, <2>1, <2>4 DEF RTypeOK, Balance
  <2>6. RTypeOK'
    BY <1>3, <2>1, <2>2, <2>5 DEF RTypeOK, Moves
  <2>7. Balance'
    <3>1. pool' = Cardinality(Tokens(worker')) /\ main' # "returned"
      BY <1>1, <1>3, <2>1, <2>2 DEF Balance
    <3>2. main' # "panic" => rwg' + Cardinality(Exited(worker')) = Cardinality(Added(next'))
      <4> SUFFICES ASSUME main' # "panic"
                   PROVE  rwg' + Cardinality(Exited(worker')) = Cardinality(Added(next'))
        OBVIOUS
      <4>1. rwg' = rwg - 1 /\ main # "panic"
        BY <2>1
      <4>2. rwg + Cardinality(Exited(w)) = Cardinality(Added(next))
        BY <1>1, <4>1 DEF Balance
      <4>3. rwg \in Nat
        BY <1>0 DEF RTypeOK
      <4>4. next' = next
        BY <1>3, <2>1
      <4> QED
        BY <1>2, <2>2, <4>1, <4>2, <4>3, <4>4
    <3> QED
      BY <3>1, <3>2 DEF Balance
  <2>8. Started'
    BY <1>1, <1>3, <2>1 DEF Started
  <2> QED
    BY <2>6, <2>7, <2>8
<1> QED
  BY <1>4, <1>5, <1>6 DEF Worker

LEMMA NextRInv == ASSUME RInv, [RNext]_rvars PROVE RInv'
<1>1. CASE Caller /\ UNCHANGED parallel
  BY <1>1, CallerRInv
<1>2. ASSUME NEW i \in Results, Worker(i), UNCHANGED parallel PROVE RInv'
  BY <1>2, WorkerRInv
<1>3. ASSUME NEW i \in Results, Connect(i) \/ Rollback(i), UNCHANGED parallel
      PROVE  RInv'
  <2>1. UNCHANGED <<main, next, rwg, pool, worker, ctxDone>>
    BY <1>3 DEF Connect, Rollback
  <2>2. run' \in [Results -> {"none", "connect", "rollback", "send", "gone"}]
    BY <1>3 DEF Connect, Rollback, RInv, RTypeOK
  <2>3. runner' \in [Results -> BOOLEAN]
    BY <1>3 DEF Connect, Rollback, RInv, RTypeOK
  <2>4. res' \in [Results -> BOOLEAN]
    BY <1>3 DEF Connect, Rollback, RInv, RTypeOK
  <2>5. RTypeOK'
    BY <1>3, <2>1, <2>2, <2>3, <2>4 DEF RInv, RTypeOK
  <2> QED
    BY <2>1, <2>5 DEF RInv, Balance, Started
<1>4. CASE Timeout /\ UNCHANGED parallel
  BY <1>4 DEF Timeout, RInv, RTypeOK, Balance, Started
<1>5. CASE UNCHANGED rvars
  BY <1>5 DEF rvars, RInv, RTypeOK, Balance, Started
<1> QED
  BY <1>1, <1>2, <1>3, <1>4, <1>5 DEF RNext

(* The invariant of ExecuteRollback, for any number of results and any pool. *)
THEOREM RollbackInvariance == RSpec => []RInv
<1>1. RInit => RInv
  BY InitRInv
<1>2. RInv /\ [RNext]_rvars => RInv'
  BY NextRInv
<1> QED
  BY <1>1, <1>2, PTL DEF RSpec

(* The WaitGroup of ExecuteRollback stays between nothing and the number of *)
(* results and its pool within DefaultCon, late increments or not.          *)
THEOREM RollbackTypeCorrect == RSpec => []RTypeOK
<1>1. RInv => RTypeOK
  BY DEF RInv
<1> QED
  BY <1>1, RollbackInvariance, PTL

(* When ExecuteRollback returns, every worker it started has exited, though *)
(* it calls rwg.Add only after starting it.                                 *)
THEOREM RollbackWaits == RSpec => []RollbackWaitsForAll
<1>1. ASSUME RInv, main = "returned", NEW i \in Live PROVE worker[i] = "exited"
  <2>1. NumResults \in Nat /\ Live \subseteq Results /\ Results = 1..NumResults
        /\ next = NumResults + 1
    BY <1>1, ResultsFinite DEF RInv, Started
  <2>2. Added(next) = Live
    <3>1. \A j \in Live : j < next
      BY <2>1
    <3> QED
      BY <3>1, Zenon DEF Added
  <2>3. Exited(worker) \subseteq Live
    BY <1>1 DEF RInv, Started, Exited
  <2>4. Cardinality(Exited(worker)) = Cardinality(Live)
    BY <1>1, <2>2, RollbackCounted DEF RInv, Balance
  <2>5. IsFiniteSet(Live)
    BY <2>1, ResultsFinite, FS_Subset
  <2>6. Exited(worker) = Live
    BY <2>3, <2>4, <2>5, FS_Subset
  <2> QED
    BY <1>1, <2>6 DEF Exited
<1>2. RInv => RollbackWaitsForAll
  BY <1>1 DEF RollbackWaitsForAll
<1> QED
  BY <1>2, RollbackInvariance, PTL
=============================================================================
