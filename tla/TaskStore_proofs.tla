-------------------------- MODULE TaskStore_proofs --------------------------
(* Lemmas about the statements of TaskStore, for the modules that use them. *)
EXTENDS TaskStore, FiniteSetTheorems, WellFoundedInduction, TLAPS

(* The operators of TaskStore keep a task a task and a row a row.           *)
LEMMA TaskOps ==
  ASSUME NEW t \in Task, NEW n \in Nat
  PROVE  /\ Claim(t) \in Task /\ MarkRunning(t) \in Task /\ Heartbeat(t) \in Task
         /\ AdvanceProgress(t, n) \in Task /\ RecomputeProgress(t, n) \in Task
         /\ MarkCompleted(t) \in Task /\ MarkFailed(t) \in Task
         /\ ReclaimStale(t) \in Task /\ DeadLetterStale(t) \in Task
         /\ RetryTask(t) \in Task /\ AgeStarted(t) \in Task /\ AgeBeat(t) \in Task
<1> USE DEF Task, TaskStatus, Instant
<1>1. Claim(t) \in Task /\ MarkRunning(t) \in Task /\ Heartbeat(t) \in Task
  BY DEF Claim, MarkRunning, Heartbeat
<1>2. AdvanceProgress(t, n) \in Task /\ RecomputeProgress(t, n) \in Task
  <2>1. \A p \in Nat : [t EXCEPT !.processed = p, !.beat = "fresh"] \in Task
    OBVIOUS
  <2>2. t.processed + n \in Nat
    OBVIOUS
  <2> QED BY <2>1, <2>2 DEF AdvanceProgress, RecomputeProgress
<1>3. MarkCompleted(t) \in Task /\ MarkFailed(t) \in Task
  BY DEF MarkCompleted, MarkFailed
<1>4. ReclaimStale(t) \in Task /\ DeadLetterStale(t) \in Task /\ RetryTask(t) \in Task
  <2>1. \A e, k \in Nat : [t EXCEPT !.status = "pending", !.beat = "none",
                                    !.restarts = k, !.epoch = e] \in Task
    OBVIOUS
  <2>2. \A e \in Nat : [t EXCEPT !.status = "failed", !.epoch = e] \in Task
    OBVIOUS
  <2>3. t.epoch + 1 \in Nat /\ t.restarts + 1 \in Nat
    OBVIOUS
  <2> QED BY <2>1, <2>2, <2>3 DEF ReclaimStale, DeadLetterStale, RetryTask
<1>5. AgeStarted(t) \in Task
  BY DEF AgeStarted
<1>6. AgeBeat(t) \in Task
  BY <1>5 DEF AgeBeat
<1> QED BY <1>1, <1>2, <1>3, <1>4, <1>5, <1>6

LEMMA RowOps ==
  ASSUME NEW x \in Row, NEW n \in Nat
  PROVE  MarkRowDone(x) \in Row /\ RecordRowFailure(x, n) \in Row /\ RetryRow(x) \in Row
  BY DEF Row, RowStatus, MarkRowDone, RecordRowFailure, RetryRow, NewRow

(* What the statements of publication do to the fields the ingestion relies *)
(* on.                                                                      *)
LEMMA PublishOps ==
  ASSUME NEW t \in Task, NEW n \in Nat, NEW k \in TaskWeight
  PROVE  /\ SetTotalRows(t, n) \in Task /\ MarkPending(t, k) \in Task
         /\ SetTotalRows(t, n).total = n
         /\ SetTotalRows(t, n).status = t.status /\ SetTotalRows(t, n).weight = t.weight
         /\ MarkPending(t, k).total = t.total
         /\ MarkPending(t, k).status = "pending" /\ MarkPending(t, k).weight = k
  BY DEF Task, TaskStatus, TaskWeight, Instant, SetTotalRows, MarkPending

(* The other statements leave total_rows and the weight alone; each sets    *)
(* the status it is named for.                                              *)
LEMMA StatusOps ==
  ASSUME NEW t \in Task
  PROVE  /\ \A u \in {Claim(t), MarkRunning(t), MarkCompleted(t), MarkFailed(t), RetryTask(t),
                     ReclaimStale(t), DeadLetterStale(t)} :
              u.total = t.total /\ u.weight = t.weight
         /\ Claim(t).status = "starting" /\ MarkRunning(t).status = "running"
         /\ MarkCompleted(t).status = "completed" /\ MarkFailed(t).status = "failed"
         /\ RetryTask(t).status = "pending"
         /\ ReclaimStale(t).status = "pending" /\ DeadLetterStale(t).status = "failed"
  BY DEF Task, Claim, MarkRunning, MarkCompleted, MarkFailed, RetryTask, ReclaimStale,
     DeadLetterStale

-----------------------------------------------------------------------------
(* Rows are read in the order of row_index: the least and the greatest of   *)
(* them.                                                                    *)
LEMMA Least ==
  ASSUME NEW T \in SUBSET Nat, T # {}
  PROVE  \E x \in T : \A y \in T : x <= y
<1> DEFINE R == OpToRel(<, Nat)
<1>1. IsWellFoundedOn(R, Nat)
  BY NatLessThanWellFounded
<1>2. \A x, y \in Nat : y < x => <<y, x>> \in R
  BY DEF OpToRel
<1> HIDE DEF R
<1>3. PICK x \in T : \A y \in T : ~ (<<y, x>> \in R)
  BY <1>1, WFMin
<1>4. x \in Nat /\ \A y \in T : y \in Nat /\ ~(y < x)
  BY <1>2, <1>3
<1>5. \A a, b \in Nat : ~(b < a) => a <= b
  OBVIOUS
<1> QED
  BY <1>4, <1>5

LEMMA Greatest ==
  ASSUME NEW T \in SUBSET Nat, T # {}, NEW b \in Nat, \A x \in T : x <= b
  PROVE  \E x \in T : \A y \in T : y <= x
<1> DEFINE U == {n \in Nat : \A x \in T : x <= n}
<1>1. PICK u \in U : \A n \in U : u <= n
  <2>1. U \in SUBSET Nat /\ b \in U
    OBVIOUS
  <2> HIDE DEF U
  <2> QED BY <2>1, Least
<1>2. u \in Nat /\ \A x \in T : x \in Nat /\ x <= u
  OBVIOUS
<1>3. u \in T
  <2> SUFFICES ASSUME u \notin T PROVE FALSE
    OBVIOUS
  <2>1. \A x \in T : x < u
    BY <1>2
  <2>2. PICK x \in T : TRUE
    OBVIOUS
  <2>3. u - 1 \in Nat
    BY <1>2, <2>1, <2>2
  <2>4. u - 1 \in U
    BY <1>2, <2>1, <2>3
  <2> QED BY <1>1, <1>2, <2>4
<1> QED BY <1>2, <1>3
=============================================================================
