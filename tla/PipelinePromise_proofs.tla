----------------------- MODULE PipelinePromise_proofs -----------------------
(***************************************************************************)
(* ApplyPipeline implements ApplicationPromise, for any constants: under   *)
(* the mapping of Promise its initial state is the one of the promise, and *)
(* each of its steps is one step of the promise or changes nothing there.  *)
(***************************************************************************)
EXTENDS ApplyPipeline_proofs

Accepted == {a \in Apps : row[a].status # "absent"}
Prepared == {a \in Apps : row[a].content # "none"}
Forms == [a \in Apps |-> FiledOf(a)]
RedeliveredApps == {a \in Apps : Redelivered(a)}
Recorded == {a \in Apps : row[a].applied_at}

(* An absent job was never attempted, so a redelivery shows in the attempts.*)
LEMMA RedeliveredByAttempt ==
  ASSUME JobInv, NEW a \in Apps
  PROVE  Redelivered(a) <=> \E j \in Jobs : j.app = a /\ attempt[j] > 1
BY DEF Redelivered, JobsOf, JobInv

LEMMA SameAttempts ==
  ASSUME JobInv, JobInv', attempt' = attempt
  PROVE  RedeliveredApps' = RedeliveredApps
<1>1. \A a \in Apps : Redelivered(a)' <=> \E j \in Jobs : j.app = a /\ attempt'[j] > 1
  BY DEF Redelivered, JobsOf, JobInv
<1> QED BY <1>1, RedeliveredByAttempt DEF RedeliveredApps

LEMMA SameFiled == ASSUME filed' = filed PROVE Forms' = Forms
BY DEF Forms, FiledOf

LEMMA SameRow ==
  ASSUME row' = row
  PROVE  Accepted' = Accepted /\ Prepared' = Prepared /\ Recorded' = Recorded
BY DEF Accepted, Prepared, Recorded

LEMMA PromiseInit == Init => Promise!Init
<1> SUFFICES ASSUME Init PROVE Promise!Init
  OBVIOUS
<1>1. \A a \in Apps : JobsOf(a) = {} /\ FiledOf(a) = {}
  BY DEF Init, JobsOf, FiledOf
<1>2. Accepted = {} /\ Prepared = {} /\ Recorded = {}
  BY DEF Init, Accepted, Prepared, Recorded
<1>3. RedeliveredApps = {} /\ Forms = [a \in Apps |-> {}]
  BY <1>1 DEF RedeliveredApps, Redelivered, Forms
<1> QED BY <1>2, <1>3
        DEF Promise!Init, Accepted, Prepared, Recorded, RedeliveredApps, Forms

(* Submit accepts the application, names its raw documents, or stutters.    *)
LEMMA PromiseSubmit ==
  ASSUME IInv, IInv', NEW c \in Callers, NEW a \in Apps, SubmitStep(c, a)
  PROVE  Promise!Accept(a) \/ Promise!Prepare(a) \/ UNCHANGED Promise!vars
<1>1. Forms' = Forms
  BY SameFiled DEF SubmitStep
<1>2. RedeliveredApps' = RedeliveredApps
  BY SameAttempts DEF SubmitStep, IInv
<1>3. Recorded' = Recorded
  BY DEF SubmitStep, Recorded
<1>4. CASE row[a].status = "absent" /\ row'[a].status = "queued" /\ row'[a].content = row[a].content
  <2>1. a \notin Accepted /\ Accepted' = Accepted \cup {a} /\ Prepared' = Prepared
    BY <1>4 DEF SubmitStep, Accepted, Prepared
  <2> QED BY <1>1, <1>2, <1>3, <2>1
          DEF Promise!Accept, Accepted, Prepared, Recorded, RedeliveredApps, Forms
<1>5. CASE call[c][a] = "link_raw" /\ row'[a].status = row[a].status
  <2>1. a \in Accepted /\ Accepted' = Accepted
    BY <1>5 DEF SubmitStep, Accepted, IInv, CallInv
  <2>2. Prepared' = Prepared \cup {a} \/ Prepared' = Prepared
    BY <1>5 DEF SubmitStep, Prepared, IInv, CallInv
  <2> QED BY <1>1, <1>2, <1>3, <2>1, <2>2
          DEF Promise!Prepare, Promise!vars, Accepted, Prepared, Recorded, RedeliveredApps, Forms
<1>6. CASE row' = row
  BY <1>1, <1>2, <1>3, <1>6, SameRow
  DEF Promise!vars, Accepted, Prepared, Recorded, RedeliveredApps, Forms
<1> QED BY <1>4, <1>5, <1>6 DEF SubmitStep

(* Work names the tailored documents, records the submission, or stutters.  *)
LEMMA PromiseWork ==
  ASSUME IInv, IInv', NEW j \in Jobs, WorkStep(j), WorkWrite(j)
  PROVE  Promise!Prepare(j.app) \/ Promise!Record(j.app) \/ UNCHANGED Promise!vars
<1> DEFINE a == j.app
<1>0. a \in Apps /\ j \in JobsOf(a) /\ queue[j] = "running"
  BY JobNames DEF WorkStep, JobsOf
<1> HIDE DEF a
<1>1. Forms' = Forms /\ RedeliveredApps' = RedeliveredApps
  BY SameFiled, SameAttempts DEF WorkStep, IInv
<1>2. row[a].status # "absent" /\ row'[a].status # "absent"
  BY <1>0 DEF IInv, RowInv, WorkWrite, a
<1>3. a \in Accepted /\ Accepted' = Accepted
  BY <1>0, <1>2 DEF Accepted, WorkStep, a
<1>4. CASE row'[a].content # row[a].content
  <2>1. Prepared' = Prepared \cup {a}
    BY <1>0, <1>4 DEF WorkStep, WorkWrite, Prepared, a
  <2>2. Recorded' = Recorded
    BY <1>0, <1>4 DEF WorkStep, WorkWrite, Recorded, a
  <2>3. Promise!Prepare(a)
    BY <1>1, <1>3, <2>1, <2>2
    DEF Promise!Prepare, Accepted, Prepared, Recorded, RedeliveredApps, Forms
  <2> QED BY <2>3 DEF a
<1>5. CASE row'[a].content = row[a].content /\ row'[a].applied_at # row[a].applied_at
  <2>1. Prepared' = Prepared
    BY <1>0, <1>5 DEF WorkStep, Prepared, a
  <2>2. Recorded' = Recorded \cup {a}
    BY <1>0, <1>5 DEF WorkStep, WorkWrite, Recorded, a
  <2>3. <<j, attempt[j]>> \in filed
    BY <1>0, <1>5 DEF WorkWrite, IInv, SessionInv, At, a
  <2>4. Forms[a] # {}
    <3>1. <<j, attempt[j]>> \in FiledOf(a)
      BY <2>3 DEF FiledOf, a
    <3> QED BY <1>0, <3>1 DEF Forms
  <2>5. Promise!Record(a)
    BY <1>1, <1>3, <2>1, <2>2, <2>4
    DEF Promise!Record, Accepted, Prepared, Recorded, RedeliveredApps, Forms
  <2> QED BY <2>5 DEF a
<1>6. CASE row'[a].content = row[a].content /\ row'[a].applied_at = row[a].applied_at
  <2>1. Prepared' = Prepared /\ Recorded' = Recorded
    BY <1>0, <1>6 DEF WorkStep, Prepared, Recorded, a
  <2> QED BY <1>1, <1>3, <2>1
          DEF Promise!vars, Accepted, Prepared, Recorded, RedeliveredApps, Forms
<1> QED BY <1>4, <1>5, <1>6

(* A fetch may be a redelivery.                                             *)
LEMMA PromiseFetch ==
  ASSUME IInv, IInv', NEW j \in Jobs, Fetch(j)
  PROVE  Promise!Redeliver(j.app) \/ UNCHANGED Promise!vars
<1> DEFINE a == j.app
<1>0. a \in Apps /\ j \in JobsOf(a)
  BY JobNames DEF Fetch, JobsOf
<1>1. Forms' = Forms /\ Accepted' = Accepted /\ Prepared' = Prepared /\ Recorded' = Recorded
  BY SameFiled, SameRow DEF Fetch, poolVars
<1>2. a \in Accepted
  BY <1>0 DEF IInv, RowInv, Accepted
<1>3. \A b \in Apps : Redelivered(b)' <=> \E k \in Jobs : k.app = b /\ attempt'[k] > 1
  BY DEF Redelivered, JobsOf, IInv, JobInv
<1>4. \A b \in Apps : Redelivered(b) <=> \E k \in Jobs : k.app = b /\ attempt[k] > 1
  BY RedeliveredByAttempt DEF IInv
<1>5. /\ attempt'[j] = attempt[j] + 1 /\ \A k \in Jobs : k # j => attempt'[k] = attempt[k]
      /\ attempt[j] \in Nat
  BY PipelineAssumption DEF Fetch, IInv, TypeOK
<1>6. \A b \in Apps : b # a => (Redelivered(b)' <=> Redelivered(b))
  BY <1>3, <1>4, <1>5
<1>7. Redelivered(a) => Redelivered(a)'
  BY <1>0, <1>3, <1>4, <1>5
<1>8. RedeliveredApps' = RedeliveredApps \cup {a} \/ RedeliveredApps' = RedeliveredApps
  BY <1>0, <1>6, <1>7 DEF RedeliveredApps
<1> QED BY <1>1, <1>2, <1>8
        DEF Promise!Redeliver, Promise!vars, Accepted, Prepared, Recorded, RedeliveredApps, Forms

(* The pool files a form: of an application whose documents are ready, and  *)
(* only after a redelivery when it was filed before.                        *)
LEMMA PromiseFile ==
  ASSUME IInv, IInv', NEW j \in Stage2Jobs, NEW n \in 1..MaxAttempts, PoolFile(j, n)
  PROVE  Promise!File(j.app, <<j, n>>)
<1> DEFINE a == j.app
           s == <<j, n>>
<1>0. j \in Jobs /\ a \in Apps /\ s \in open /\ s \notin filed /\ s[1] = j /\ s[2] = n
  BY JobNames DEF PoolFile
<1>1. queue[j] # "absent"
  <2>1. n <= attempt[j]
    BY <1>0 DEF IInv, SessionInv
  <2>2. attempt[j] # 0
    BY <1>0, <2>1, PipelineAssumption DEF IInv, TypeOK
  <2> QED BY <1>0, <2>2 DEF IInv, JobInv
<1>2. a \in Prepared
  BY <1>0, <1>1 DEF IInv, ApplyInv, Prepared
<1>3. \A b \in Apps : s \notin Forms[b]
  BY <1>0 DEF Forms, FiledOf
<1>4. Forms[a] # {} => a \in RedeliveredApps
  <2> SUFFICES ASSUME NEW t \in filed, t[1].app = a PROVE Redelivered(a)
    BY <1>0 DEF Forms, FiledOf, RedeliveredApps
  <2> HIDE DEF s
  <2>1. s # t
    BY <1>0
  <2> QED BY <1>0, <2>1, TwoSessions
<1>5. Forms' = [Forms EXCEPT ![a] = @ \cup {s}]
  <2>1. \A b \in Apps : FiledOf(b)' = IF b = a THEN FiledOf(b) \cup {s} ELSE FiledOf(b)
    BY <1>0 DEF FiledOf, PoolFile
  <2> QED BY <1>0, <2>1 DEF Forms
<1>6. /\ Accepted' = Accepted /\ Prepared' = Prepared /\ Recorded' = Recorded
      /\ RedeliveredApps' = RedeliveredApps
  BY SameRow, SameAttempts DEF PoolFile, jobVars, IInv
<1> QED BY <1>2, <1>3, <1>4, <1>5, <1>6
        DEF Promise!File, Accepted, Prepared, Recorded, RedeliveredApps, Forms

(* No other step of River, the pool or the user shows.                      *)
LEMMA PromiseStutter ==
  ASSUME IInv, IInv', row' = row, filed' = filed, attempt' = attempt
  PROVE  UNCHANGED Promise!vars
BY SameRow, SameFiled, SameAttempts
DEF Promise!vars, Accepted, Prepared, Recorded, RedeliveredApps, Forms, IInv

LEMMA PromiseNext == IInv /\ [Next]_vars => [Promise!Next]_(Promise!vars)
<1> SUFFICES ASSUME IInv, [Next]_vars PROVE [Promise!Next]_(Promise!vars)
  OBVIOUS
<1>0. TypeOK /\ JobInv /\ IInv'
  BY InvNext DEF IInv
<1>1. ASSUME NEW c \in Callers, NEW a \in Apps,
             SubmitCreate(c, a) \/ Submitting(c, a) \/ SubmitCrash(c, a)
      PROVE  [Promise!Next]_(Promise!vars)
  BY <1>0, <1>1, SubmitShape, PromiseSubmit DEF Promise!Next
<1>2. ASSUME NEW j \in Jobs, Work(j) PROVE [Promise!Next]_(Promise!vars)
  BY <1>0, <1>2, JobNames, WorkShape, WriteShape, PromiseWork DEF Promise!Next
<1>3. ASSUME NEW j \in Jobs, Fetch(j) PROVE [Promise!Next]_(Promise!vars)
  BY <1>0, <1>3, JobNames, PromiseFetch DEF Promise!Next
<1>4. ASSUME NEW j \in Stage2Jobs, NEW n \in 1..MaxAttempts, PoolFile(j, n)
      PROVE  [Promise!Next]_(Promise!vars)
  BY <1>0, <1>4, Stage2Name, PromiseFile DEF Promise!Next
<1>5. CASE \/ \E j \in Jobs : Complete(j) \/ Retry(j) \/ Deadline(j)
           \/ \E j \in Stage2Jobs, n \in 1..MaxAttempts : PoolAnswer(j, n)
           \/ EngineCrash \/ EmergencyStop \/ UNCHANGED vars
  <2>1. row' = row /\ filed' = filed /\ attempt' = attempt
    BY <1>5 DEF Complete, Retry, Deadline, PoolAnswer, EngineCrash, EmergencyStop, vars, poolVars
  <2> QED BY <1>0, <2>1, PromiseStutter
<1> QED BY <1>1, <1>2, <1>3, <1>4, <1>5 DEF Next, River, Pool

(* The pipeline keeps the promise, whatever fails: accepted once, filed     *)
(* only with documents, twice only after a redelivery, recorded only if     *)
(* filed, and nothing of it taken back.                                     *)
THEOREM PipelineKeepsPromise == Spec => PromiseKept
<1> QED BY PromiseInit, PromiseNext, Invariance, PTL DEF Spec, PromiseKept, Promise!Spec

=============================================================================
