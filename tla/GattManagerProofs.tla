------------------------- MODULE GattManagerProofs -------------------------
(***************************************************************************)
(* Type correctness of the GATT manager and conservation of its slots, for *)
(* every set of addresses and of tasks and every number of slots.          *)
(***************************************************************************)
EXTENDS GattManagerProps, SequenceTheorems, FiniteSetTheorems, TLAPS

(* The part of the type invariant that the slots depend on.                *)
PoolOK ==
  /\ free \in Nat /\ waiters \in Seq(Jobs) /\ pc \in [Jobs -> PCs]
  /\ SlotConservation

(* The rest of the type invariant.                                         *)
RestOK ==
  /\ target \in [Probes -> Addrs \cup {NoAddr}]
  /\ \A t \in Probes : pc[t] # "idle" => target[t] \in Addrs
  /\ outcome \in [Jobs -> Outcomes]
  /\ cancelReq \subseteq Probes
  /\ pending \subseteq Addrs /\ probeTasks \in [Addrs -> Probes \cup {NoTask}]
  /\ result \in [Addrs -> Results] /\ failures \in [Addrs -> 0..MaxRetries]
  /\ lastError \subseteq Addrs /\ initialCache \subseteq Addrs
  /\ confirmed \subseteq Addrs
  /\ phase \in {"running", "stopping", "stopped"} /\ awaited \subseteq Probes

IInv == PoolOK /\ RestOK

-----------------------------------------------------------------------------
(* Finite sets and sequences.                                              *)

(* There are finitely many tasks.                                          *)
LEMMA JobsFinite == IsFiniteSet(Jobs)
  BY FS_Union, PollsAssumption, ProbesAssumption DEF Jobs

(* Removing an element of a sequence leaves a sequence of the same type.   *)
LEMMA RemoveAtType ==
  ASSUME NEW S, NEW s \in Seq(S), NEW i \in DOMAIN s
  PROVE  RemoveAt(s, i) \in Seq(S)
  BY SMT DEF RemoveAt

(* Of two members of a set of positions, the later one has more members    *)
(* before it.                                                              *)
LEMMA BeforeGrows ==
  ASSUME NEW len \in Nat, NEW W \in SUBSET (1..len)
  PROVE  /\ IsFiniteSet(W)
         /\ \A k \in W : /\ IsFiniteSet({h \in W : h < k})
                         /\ Cardinality({h \in W : h < k}) \in Nat
         /\ \A k, m \in W :
              k < m => Cardinality({h \in W : h < k})
                         < Cardinality({h \in W : h < m})
<1> DEFINE Before(k) == {h \in W : h < k}
<1>0. IsFiniteSet(1..len)
  BY FS_Interval
<1>1. IsFiniteSet(W)
  BY <1>0, FS_Subset
<1>2. \A k \in W : IsFiniteSet(Before(k)) /\ Cardinality(Before(k)) \in Nat
  BY <1>1, FS_Subset, FS_CardinalityType
<1>3. \A k, m \in W : k < m => Cardinality(Before(k)) < Cardinality(Before(m))
  <2> SUFFICES ASSUME NEW k \in W, NEW m \in W, k < m
               PROVE  Cardinality(Before(k)) < Cardinality(Before(m))
    OBVIOUS
  <2>0. k \in Nat /\ m \in Nat /\ W \subseteq Nat
    OBVIOUS
  <2>1. Before(k) \in SUBSET Before(m)
    <3> SUFFICES ASSUME NEW h \in W, h < k PROVE h < m
      OBVIOUS
    <3> QED
      BY <2>0
  <2>2. k \in Before(m) /\ k \notin Before(k)
    BY <2>0
  <2> QED
    BY <1>2, <2>1, <2>2, FS_Subset
<1> QED
  BY <1>1, <1>2, <1>3

(* The positions that fewer than n others of W come before are at most n:  *)
(* their ranks in W are distinct members of 1..n.                          *)
LEMMA FirstFew ==
  ASSUME NEW len \in Nat, NEW W \in SUBSET (1..len), NEW n \in Nat
  PROVE  LET F == {k \in W : Cardinality({h \in W : h < k}) < n}
         IN  IsFiniteSet(F) /\ Cardinality(F) <= n
<1> DEFINE Before(k) == {h \in W : h < k}
           F == {k \in W : Cardinality(Before(k)) < n}
           rank == [k \in F |-> Cardinality(Before(k)) + 1]
<1>1. IsFiniteSet(W)
  BY BeforeGrows
<1>2. \A k \in W : IsFiniteSet(Before(k)) /\ Cardinality(Before(k)) \in Nat
  BY BeforeGrows
<1>3. \A k, m \in W : k < m => Cardinality(Before(k)) < Cardinality(Before(m))
  BY BeforeGrows
<1>4. rank \in [F -> 1..n]
  <2> SUFFICES ASSUME NEW k \in F PROVE Cardinality(Before(k)) + 1 \in 1..n
    OBVIOUS
  <2>1. Cardinality(Before(k)) \in Nat /\ Cardinality(Before(k)) < n
    BY <1>2
  <2> QED
    BY <2>1
<1>5. \A k, m \in F : rank[k] = rank[m] => k = m
  BY <1>2, <1>3
<1>6. rank \in Injection(F, 1..n)
  BY <1>4, <1>5 DEF Injection, IsInjective
<1>7. IsFiniteSet(1..n) /\ Cardinality(1..n) = n
  BY FS_Interval
<1> QED
  BY <1>6, <1>7, FS_Injection

-----------------------------------------------------------------------------
(* The semaphore.                                                          *)

(* n wake-ups reach at most n jobs, each of them in line and not cancelled. *)
LEMMA WokenFacts ==
  ASSUME waiters \in Seq(Jobs), NEW n \in Nat
  PROVE  /\ Woken(n) \subseteq {j \in Jobs : pc[j] = "queued" /\ j \notin cancelReq}
         /\ IsFiniteSet(Woken(n))
         /\ Cardinality(Woken(n)) \in Nat /\ Cardinality(Woken(n)) <= n
<1> DEFINE W == {k \in 1..Len(waiters) : Waiting(k)}
           F == {k \in W : Cardinality({h \in W : h < k}) < n}
           pick == [k \in F |-> waiters[k]]
<1>1. Len(waiters) \in Nat /\ DOMAIN waiters = 1..Len(waiters)
  OBVIOUS
<1>2. IsFiniteSet(F) /\ Cardinality(F) <= n
  <2> HIDE DEF W
  <2>1. W \in SUBSET (1..Len(waiters))
    BY DEF W
  <2> QED
    BY <1>1, <2>1, FirstFew
<1>3. \A k \in 1..Len(waiters) :
        {h \in 1..(k - 1) : Waiting(h)} = {h \in W : h < k}
  <2> SUFFICES ASSUME NEW k \in 1..Len(waiters)
               PROVE  {h \in 1..(k - 1) : Waiting(h)} = {h \in W : h < k}
    OBVIOUS
  <2>1. \A h : h \in 1..(k - 1) <=> h \in 1..Len(waiters) /\ h < k
    BY <1>1
  <2> QED
    BY <2>1
<1>4. F = {k \in DOMAIN waiters :
             Waiting(k) /\ Cardinality({h \in 1..(k - 1) : Waiting(h)}) < n}
  BY <1>1, <1>3
<1>5. Woken(n) = {waiters[k] : k \in F}
  BY <1>4 DEF Woken
<1>6. pick \in Surjection(F, Woken(n))
  BY <1>5 DEF Surjection
<1>7. IsFiniteSet(Woken(n)) /\ Cardinality(Woken(n)) <= Cardinality(F)
  BY <1>2, <1>6, FS_Surjection
<1>8. Cardinality(F) \in Nat /\ Cardinality(Woken(n)) \in Nat
  BY <1>2, <1>7, FS_CardinalityType
<1>9. \A k \in F : waiters[k] \in Jobs /\ Waiting(k)
  BY <1>1
<1>10. Cardinality(Woken(n)) <= n
  <2> HIDE DEF F
  <2> QED
    BY <1>2, <1>7, <1>8
<1> QED
  BY <1>5, <1>7, <1>8, <1>9, <1>10 DEF Waiting

(* The jobs that own a slot are finitely many.                             *)
LEMMA HoldersFinite ==
  /\ IsFiniteSet(Holders) /\ Cardinality(Holders) \in Nat
  BY JobsFinite, FS_Subset, FS_CardinalityType DEF Holders

(* A job moves and others are woken: the slots still add up when they did, *)
(* with value free, once the job is counted where it goes.                 *)
LEMMA MoveAndWakeOK ==
  ASSUME PoolOK, NEW j \in Jobs, NEW where \in PCs,
         NEW value \in Nat, NEW n \in Nat, n <= value,
         pc[j] # "queued" \/ j \in cancelReq,
         MoveAndWake(j, where, value, n),
         value + Cardinality(Holders \ {j})
               + (IF where \in HoldingPC THEN 1 ELSE 0) = MaxConcurrent
  PROVE  free' \in Nat /\ pc' \in [Jobs -> PCs] /\ SlotConservation'
<1> DEFINE rest == Holders \ {j}
           own == IF where \in HoldingPC THEN {j} ELSE {}
<1>1. /\ Woken(n) \subseteq {k \in Jobs : pc[k] = "queued" /\ k \notin cancelReq}
      /\ IsFiniteSet(Woken(n))
      /\ Cardinality(Woken(n)) \in Nat /\ Cardinality(Woken(n)) <= n
  BY WokenFacts DEF PoolOK
<1>2. IsFiniteSet(rest) /\ Cardinality(rest) \in Nat
  BY HoldersFinite, FS_RemoveElement, FS_CardinalityType
<1>3. pc' \in [Jobs -> PCs]
  BY DEF MoveAndWake, PCs, HoldingPC, PoolOK
<1>4. "queued" \notin HoldingPC /\ "granted" \in HoldingPC
  BY DEF HoldingPC
<1>5. Holders' = (rest \cup Woken(n)) \cup own
  <2>1. j \notin Woken(n)
    BY <1>1
  <2>2. \A k \in Jobs : pc'[k] = IF k = j THEN where
                                 ELSE IF k \in Woken(n) THEN "granted" ELSE pc[k]
    BY DEF MoveAndWake
  <2>3. Holders' = {k \in Jobs : pc'[k] \in HoldingPC}
    BY DEF Holders
  <2> QED
    BY <1>1, <1>4, <2>1, <2>2, <2>3 DEF Holders
<1>6. rest \cap Woken(n) = {} /\ (rest \cup Woken(n)) \cap own = {}
  BY <1>1, <1>4 DEF Holders
<1>7. /\ IsFiniteSet(rest \cup Woken(n))
      /\ Cardinality(rest \cup Woken(n))
           = Cardinality(rest) + Cardinality(Woken(n))
  <2> HIDE DEF rest
  <2>1. Cardinality(rest \cap Woken(n)) = 0
    BY <1>6, FS_EmptySet
  <2>2. /\ IsFiniteSet(rest \cup Woken(n))
        /\ Cardinality(rest \cup Woken(n))
             = Cardinality(rest) + Cardinality(Woken(n))
                                 - Cardinality(rest \cap Woken(n))
    BY <1>1, <1>2, FS_Union
  <2> QED
    BY <1>1, <1>2, <2>1, <2>2
<1>8. Cardinality(Holders') = Cardinality(rest) + Cardinality(Woken(n))
                              + (IF where \in HoldingPC THEN 1 ELSE 0)
  <2>1. CASE where \in HoldingPC
    <3>1. Holders' = (rest \cup Woken(n)) \cup {j} /\ j \notin rest \cup Woken(n)
      BY <1>5, <1>6, <2>1
    <3> HIDE DEF rest
    <3> QED
      BY <1>7, <2>1, <3>1, FS_AddElement
  <2>2. CASE where \notin HoldingPC
    <3>1. Holders' = rest \cup Woken(n)
      BY <1>5, <2>2
    <3> HIDE DEF rest
    <3> QED
      BY <1>1, <1>2, <1>7, <2>2, <3>1
  <2> QED
    BY <2>1, <2>2
<1>9. free' = value - Cardinality(Woken(n))
  BY DEF MoveAndWake
<1>10. free' \in Nat
  BY <1>1, <1>9
<1>11. free' + Cardinality(Holders') = MaxConcurrent
  <2> HIDE DEF rest
  <2>1. MaxConcurrent \in Nat
    BY SlotsAssumption
  <2>2. value + Cardinality(rest)
              + (IF where \in HoldingPC THEN 1 ELSE 0) = MaxConcurrent
    BY DEF rest
  <2> QED
    BY <1>1, <1>2, <1>8, <1>9, <2>1, <2>2
<1> QED
  BY <1>3, <1>10, <1>11 DEF SlotConservation

(* A job that changes place while it owns a slot, or while it owns none.   *)
LEMMA MoveOK ==
  ASSUME PoolOK, NEW j \in Jobs, NEW where \in PCs,
         pc[j] \in HoldingPC <=> where \in HoldingPC,
         pc' = [pc EXCEPT ![j] = where], free' = free
  PROVE  free' \in Nat /\ pc' \in [Jobs -> PCs] /\ SlotConservation'
<1>1. Holders' = Holders
  BY DEF Holders, PoolOK
<1> QED
  BY <1>1 DEF PoolOK, SlotConservation

(* A job that leaves the line leaves a sequence of jobs.                   *)
LEMMA LeaveLineOK ==
  ASSUME PoolOK, NEW j \in Jobs, LeaveLine(j)
  PROVE  waiters' \in Seq(Jobs)
  BY RemoveAtType DEF LeaveLine, PoolOK

(* A job that resumes and keeps the slot it was handed.                    *)
LEMMA ResumeOK ==
  ASSUME PoolOK, NEW j \in Jobs, NEW where \in HoldingPC,
         pc[j] = "granted", Resume(j, where)
  PROVE  PoolOK'
<1>1. Cardinality(Holders \ {j}) = Cardinality(Holders) - 1
  BY HoldersFinite, FS_RemoveElement DEF Holders, HoldingPC
<1>2. free \in Nat /\ free + Cardinality(Holders \ {j}) + 1 = MaxConcurrent
  BY <1>1, HoldersFinite, SlotsAssumption DEF PoolOK, SlotConservation
<1>3. where \in PCs /\ MoveAndWake(j, where, free, free)
  BY DEF Resume, PCs
<1>4. free' \in Nat /\ pc' \in [Jobs -> PCs] /\ SlotConservation'
  BY <1>2, <1>3, MoveAndWakeOK
<1> QED
  BY <1>4, LeaveLineOK DEF Resume, PoolOK

(* A job that was cancelled in line resumes without a slot.                *)
LEMMA ResumeWithoutSlotOK ==
  ASSUME PoolOK, NEW j \in Jobs, pc[j] = "queued", j \in cancelReq,
         Resume(j, "idle")
  PROVE  PoolOK'
<1>0. j \notin Holders
  BY DEF Holders, HoldingPC
<1>1. Cardinality(Holders \ {j}) = Cardinality(Holders)
  BY <1>0, HoldersFinite, FS_RemoveElement
<1>2. free \in Nat /\ free + Cardinality(Holders \ {j}) + 0 = MaxConcurrent
  BY <1>1, HoldersFinite, SlotsAssumption DEF PoolOK, SlotConservation
<1>3. "idle" \in PCs /\ "idle" \notin HoldingPC
  BY DEF PCs, HoldingPC
<1>4. free' \in Nat /\ pc' \in [Jobs -> PCs] /\ SlotConservation'
  BY <1>2, <1>3, MoveAndWakeOK DEF Resume
<1> QED
  BY <1>4, LeaveLineOK DEF Resume, PoolOK

(* What a release adds to the value, the job that ends takes from Holders. *)
LEMMA SlotGivenBack ==
  ASSUME PoolOK, NEW j \in Jobs, pc[j] \in HoldingPC
  PROVE  /\ free + 1 \in Nat
         /\ (free + 1) + Cardinality(Holders \ {j})
                       + (IF "idle" \in HoldingPC THEN 1 ELSE 0) = MaxConcurrent
<1>1. Cardinality(Holders \ {j}) = Cardinality(Holders) - 1
  BY HoldersFinite, FS_RemoveElement DEF Holders
<1>2. "idle" \notin HoldingPC
  BY DEF HoldingPC
<1> QED
  BY <1>1, <1>2, HoldersFinite, SlotsAssumption DEF PoolOK, SlotConservation

(* A job that was handed a slot gives it straight back.                    *)
LEMMA ResumeAndReleaseOK ==
  ASSUME PoolOK, NEW j \in Jobs, pc[j] = "granted", ResumeAndRelease(j)
  PROVE  PoolOK'
<1>1. pc[j] \in HoldingPC /\ "idle" \in PCs
  BY DEF HoldingPC, PCs
<1>2. free + 1 <= free + 1
  BY DEF PoolOK
<1>3. free' \in Nat /\ pc' \in [Jobs -> PCs] /\ SlotConservation'
  BY <1>1, <1>2, SlotGivenBack, MoveAndWakeOK DEF ResumeAndRelease
<1> QED
  BY <1>3, LeaveLineOK DEF ResumeAndRelease, PoolOK

(* A job that owns a slot ends and releases it.                            *)
LEMMA EndAndReleaseOK ==
  ASSUME PoolOK, NEW j \in Jobs, pc[j] \in HoldingPC, EndAndRelease(j)
  PROVE  free' \in Nat /\ pc' \in [Jobs -> PCs] /\ SlotConservation'
<1>1. "idle" \in PCs /\ pc[j] # "queued"
  BY DEF HoldingPC, PCs
<1>2. 1 <= free + 1
  BY DEF PoolOK
<1> QED
  BY <1>1, <1>2, SlotGivenBack, MoveAndWakeOK DEF EndAndRelease

(* An acquire that does not wait finds a slot.                             *)
LEMMA TakeSlotOK ==
  ASSUME PoolOK, NEW j \in Jobs, NEW where \in HoldingPC, pc[j] = "idle",
         free # 0, TakeSlot(j, where)
  PROVE  PoolOK'
<1>1. Holders' = Holders \cup {j} /\ j \notin Holders
  BY DEF TakeSlot, Holders, PoolOK, HoldingPC
<1>2. Cardinality(Holders') = Cardinality(Holders) + 1
  BY <1>1, HoldersFinite, FS_AddElement
<1>3. free' = free - 1 /\ free' \in Nat
  BY DEF TakeSlot, PoolOK
<1>4. pc' \in [Jobs -> PCs] /\ waiters' = waiters
  BY DEF TakeSlot, PoolOK, PCs
<1>5. SlotConservation'
  BY <1>2, <1>3, HoldersFinite, SlotsAssumption DEF PoolOK, SlotConservation
<1> QED
  BY <1>3, <1>4, <1>5 DEF PoolOK

(* An acquire that waits.                                                  *)
LEMMA JoinLineOK ==
  ASSUME PoolOK, NEW j \in Jobs, pc[j] = "idle", JoinLine(j)
  PROVE  PoolOK'
<1>1. "queued" \in PCs /\ "queued" \notin HoldingPC /\ "idle" \notin HoldingPC
  BY DEF PCs, HoldingPC
<1>2. free' \in Nat /\ pc' \in [Jobs -> PCs] /\ SlotConservation'
  BY <1>1, MoveOK DEF JoinLine
<1>3. waiters' \in Seq(Jobs)
  BY DEF JoinLine, PoolOK
<1> QED
  BY <1>2, <1>3 DEF PoolOK

(* A step inside the same slot that leaves the line alone.                 *)
LEMMA MoveInsideSlot ==
  ASSUME PoolOK, NEW j \in Jobs, NEW where \in HoldingPC, pc[j] \in HoldingPC,
         pc' = [pc EXCEPT ![j] = where], UNCHANGED poolVars
  PROVE  PoolOK'
<1>1. where \in PCs
  BY DEF PCs
<1>2. free' \in Nat /\ pc' \in [Jobs -> PCs] /\ SlotConservation'
  BY <1>1, MoveOK DEF poolVars
<1> QED
  BY <1>2 DEF PoolOK, poolVars

(* A job that ends, the line left alone.                                   *)
LEMMA EndsAtOnce ==
  ASSUME PoolOK, NEW j \in Jobs, pc[j] \in HoldingPC, EndAndRelease(j),
         UNCHANGED waiters
  PROVE  PoolOK'
  BY EndAndReleaseOK DEF PoolOK

(* A step that touches neither the semaphore nor a job.                    *)
LEMMA PoolUnchanged ==
  ASSUME PoolOK, UNCHANGED <<poolVars, pc>>
  PROVE  PoolOK'
  BY DEF PoolOK, SlotConservation, Holders, poolVars

-----------------------------------------------------------------------------
(* Every step keeps the slots.                                             *)

(* Which places own a slot.                                                *)
LEMMA SomePCs ==
  /\ {"granted", "connecting", "reading", "closing", "cooldown", "polling"}
       \subseteq HoldingPC
  /\ "idle" \notin HoldingPC /\ "queued" \notin HoldingPC
  BY DEF HoldingPC

(* Probes and polls are jobs.                                              *)
LEMMA JobTypes ==
  /\ Probes \subseteq Jobs /\ Polls \subseteq Jobs /\ Probes \cap Polls = {}
  /\ \A p \in Polls : PollOf[p] \in Addrs
  BY ProbesAssumption, PollsAssumption DEF Jobs

(* Every step of a probe task keeps the slots.                             *)
LEMMA ProbeStepPool ==
  ASSUME IInv, NEW t \in Probes, ProbeStep(t) \/ ProbeTimeout(t)
  PROVE  PoolOK'
<1> USE SomePCs, JobTypes DEF IInv
<1>1. CASE ProbeStarts(t)
  BY <1>1, ResumeOK DEF ProbeStarts
<1>2. CASE ConnectSucceeds(t)
  BY <1>2, MoveInsideSlot DEF ConnectSucceeds
<1>3. CASE ConnectFails(t)
  BY <1>3, MoveInsideSlot DEF ConnectFails
<1>4. CASE ReadDone(t)
  BY <1>4, MoveInsideSlot DEF ReadDone
<1>5. CASE TimeoutFires(t)
  BY <1>5, MoveInsideSlot DEF TimeoutFires
<1>6. ASSUME CloseAndCool(t) PROVE PoolOK'
  BY <1>6, MoveInsideSlot DEF CloseAndCool
<1>7. ASSUME NEW o, Returned(t, o) PROVE PoolOK'
  BY <1>6, <1>7, ResumeOK DEF Returned
<1>8. CASE ProbeSupported(t) \/ ProbeErrored(t) \/ ProbeUnsupported(t)
  BY <1>7, <1>8 DEF ProbeSupported, ProbeErrored, ProbeUnsupported
<1>9. CASE ProbeTimedOut(t)
  BY <1>6, <1>9 DEF ProbeTimedOut
<1>10. CASE CooldownDone(t)
  BY <1>10, EndsAtOnce DEF CooldownDone
<1>11. CASE CancelledInLine(t)
  BY <1>11, ResumeAndReleaseOK, ResumeWithoutSlotOK DEF CancelledInLine
<1>12. CASE CancelledConnected(t)
  BY <1>12, MoveInsideSlot DEF CancelledConnected
<1>13. CASE CancelledUnwinds(t)
  BY <1>13, EndsAtOnce DEF CancelledUnwinds
<1>14. CASE CancelledInCooldown(t)
  BY <1>14, EndsAtOnce DEF CancelledInCooldown
<1> QED
  BY <1>1, <1>2, <1>3, <1>4, <1>5, <1>8, <1>9, <1>10, <1>11, <1>12, <1>13,
     <1>14 DEF ProbeStep, ProbeTimeout

(* A poll that owns a slot works with it or ends.                          *)
LEMMA PollWorkType ==
  ASSUME RestOK, NEW a \in Addrs
  PROVE  PollWork(a) \in HoldingPC \cup {"idle"}
  BY DEF PollWork, RestOK, Results, HoldingPC

(* Every step of a poll keeps the slots.                                   *)
LEMMA PollStepPool ==
  ASSUME IInv, NEW p \in Polls, PollStep(p)
  PROVE  PoolOK'
<1> USE SomePCs, JobTypes DEF IInv
<1>1. CASE PollResumes(p)
  BY <1>1, ResumeOK, ResumeAndReleaseOK, PollWorkType DEF PollResumes
<1>2. CASE ConnectSucceeds(p)
  BY <1>2, MoveInsideSlot DEF ConnectSucceeds
<1>3. CASE ConnectFails(p)
  BY <1>3, MoveInsideSlot DEF ConnectFails
<1>4. CASE ReadDone(p)
  BY <1>4, MoveInsideSlot DEF ReadDone
<1>5. CASE PollProbeDone(p)
  BY <1>5, MoveInsideSlot, EndsAtOnce DEF PollProbeDone, poolVars
<1>6. CASE PollReadDone(p)
  BY <1>6, EndsAtOnce DEF PollReadDone
<1> QED
  BY <1>1, <1>2, <1>3, <1>4, <1>5, <1>6 DEF PollStep

(* Scheduling, removal and entries keep the slots.                         *)
LEMMA EnvironmentPool ==
  ASSUME IInv, NEW a \in Addrs, Environment(a)
  PROVE  PoolOK'
<1> USE SomePCs, JobTypes DEF IInv
<1>1. ASSUME NEW t \in Probes, ScheduleProbe(t, a) PROVE PoolOK'
  BY <1>1, TakeSlotOK, JoinLineOK DEF ScheduleProbe, Locked
<1>2. ASSUME NEW t \in Probes, ScheduleProbeFailsAtOnce(t, a) PROVE PoolOK'
  BY <1>2, TakeSlotOK DEF ScheduleProbeFailsAtOnce, Locked
<1>3. CASE ForgetDevices({a})
  BY <1>3, PoolUnchanged DEF ForgetDevices
<1>4. CASE EntryAdded(a)
  BY <1>4, PoolUnchanged DEF EntryAdded
<1> QED
  BY <1>1, <1>2, <1>3, <1>4 DEF Environment

(* A poll that begins keeps the slots.                                     *)
LEMMA PollBeginsPool ==
  ASSUME IInv, NEW p \in Polls, PollBegins(p)
  PROVE  PoolOK'
<1> USE SomePCs, JobTypes DEF IInv
<1>1. CASE PollFromCache(p)
  BY <1>1, PoolUnchanged DEF PollFromCache
<1>2. CASE PollStarts(p) /\ Locked(cancelReq')
  BY <1>2, JoinLineOK DEF PollStarts
<1>3. CASE PollStarts(p) /\ ~Locked(cancelReq')
  BY <1>3, TakeSlotOK, PollWorkType, PoolUnchanged DEF PollStarts, Locked
<1> QED
  BY <1>1, <1>2, <1>3 DEF PollBegins

(* Every step of the manager keeps the slots.                              *)
LEMMA PoolStep ==
  ASSUME IInv, [Next]_vars
  PROVE  PoolOK'
<1> USE DEF IInv
<1>1. CASE StopBegins
  BY <1>1, PoolUnchanged DEF StopBegins
<1>2. CASE StopReturns
  BY <1>2, PoolUnchanged DEF StopReturns
<1>3. ASSUME NEW a \in Addrs, EntryRemoved(a) PROVE PoolOK'
  BY <1>3, PoolUnchanged DEF EntryRemoved
<1>4. CASE UNCHANGED vars
  BY <1>4, PoolUnchanged DEF vars
<1> QED
  BY <1>1, <1>2, <1>3, <1>4, ProbeStepPool, PollStepPool, PollBeginsPool,
     EnvironmentPool DEF Next, NextButRemoval

-----------------------------------------------------------------------------
(* Every step keeps the other types.                                       *)

(* The conjuncts of RestOK that concern where a probe is, and the others.  *)
TargetsOK ==
  /\ target \in [Probes -> Addrs \cup {NoAddr}]
  /\ \A t \in Probes : pc[t] # "idle" => target[t] \in Addrs

CachesOK ==
  /\ outcome \in [Jobs -> Outcomes]
  /\ cancelReq \subseteq Probes
  /\ pending \subseteq Addrs /\ probeTasks \in [Addrs -> Probes \cup {NoTask}]
  /\ result \in [Addrs -> Results] /\ failures \in [Addrs -> 0..MaxRetries]
  /\ lastError \subseteq Addrs /\ initialCache \subseteq Addrs
  /\ confirmed \subseteq Addrs
  /\ phase \in {"running", "stopping", "stopped"} /\ awaited \subseteq Probes

(* The two parts are the whole.                                            *)
LEMMA RestParts == RestOK <=> TargetsOK /\ CachesOK
  BY DEF RestOK, TargetsOK, CachesOK

(* Only a job that was off the line goes from idle to elsewhere.           *)
LEMMA MoveAndWakeBusy ==
  ASSUME PoolOK, NEW j \in Jobs, NEW where, NEW value, NEW n \in Nat,
         MoveAndWake(j, where, value, n)
  PROVE  \A k \in Jobs : k # j /\ pc'[k] # "idle" => pc[k] # "idle"
<1>1. Woken(n) \subseteq {k \in Jobs : pc[k] = "queued" /\ k \notin cancelReq}
  BY WokenFacts DEF PoolOK
<1> QED
  BY <1>1 DEF MoveAndWake

(* When nobody but j leaves idle, the targets stay right: either j has     *)
(* one, or j is idle.                                                      *)
LEMMA TargetsKept ==
  ASSUME TargetsOK, NEW j \in Jobs, pc[j] # "idle", UNCHANGED target,
         \A k \in Jobs : k # j /\ pc'[k] # "idle" => pc[k] # "idle"
  PROVE  TargetsOK'
  BY JobTypes DEF TargetsOK

(* A probe that ends gives up its target.                                  *)
LEMMA TargetsDropped ==
  ASSUME TargetsOK, NEW t \in Probes, TaskEnds(t), pc'[t] = "idle",
         \A k \in Jobs : k # t /\ pc'[k] # "idle" => pc[k] # "idle"
  PROVE  TargetsOK'
  BY JobTypes DEF TargetsOK, TaskEnds

(* A step that moves no job.                                               *)
LEMMA TargetsUnchanged ==
  ASSUME TargetsOK, UNCHANGED <<target, pc>>
  PROVE  TargetsOK'
  BY DEF TargetsOK

(* Every step of a probe task keeps the targets.                           *)
LEMMA ProbeStepTargets ==
  ASSUME IInv, NEW t \in Probes, ProbeStep(t) \/ ProbeTimeout(t)
  PROVE  TargetsOK'
<1> USE JobTypes DEF IInv
<1>0. /\ TargetsOK /\ pc \in [Jobs -> PCs] /\ free \in Nat
      /\ free + 1 \in Nat /\ 1 \in Nat
  BY RestParts DEF PoolOK
<1>1. ASSUME NEW where, pc[t] # "idle", pc' = [pc EXCEPT ![t] = where],
             UNCHANGED target
      PROVE  TargetsOK'
  BY <1>0, <1>1, TargetsKept
<1>2. ASSUME NEW where, pc[t] # "idle", Resume(t, where), UNCHANGED target
      PROVE  TargetsOK'
  BY <1>0, <1>2, MoveAndWakeBusy, TargetsKept DEF Resume
<1>3. ASSUME NEW value, NEW n \in Nat, MoveAndWake(t, "idle", value, n),
             TaskEnds(t)
      PROVE  TargetsOK'
  <2>1. pc'[t] = "idle"
    BY <1>3 DEF MoveAndWake
  <2>2. \A k \in Jobs : k # t /\ pc'[k] # "idle" => pc[k] # "idle"
    BY <1>3, MoveAndWakeBusy
  <2> QED
    BY <1>0, <1>3, <2>1, <2>2, TargetsDropped
<1>4. CASE ProbeStarts(t)
  BY <1>2, <1>4 DEF ProbeStarts
<1>5. CASE ConnectSucceeds(t)
  BY <1>1, <1>5 DEF ConnectSucceeds
<1>6. CASE ConnectFails(t)
  BY <1>1, <1>6 DEF ConnectFails
<1>7. CASE ReadDone(t)
  BY <1>1, <1>7 DEF ReadDone
<1>8. CASE TimeoutFires(t)
  BY <1>1, <1>8 DEF TimeoutFires
<1>9. ASSUME CloseAndCool(t), UNCHANGED target PROVE TargetsOK'
  BY <1>1, <1>9 DEF CloseAndCool
<1>10. ASSUME NEW o, Returned(t, o), UNCHANGED target PROVE TargetsOK'
  BY <1>2, <1>9, <1>10 DEF Returned
<1>11. CASE ProbeSupported(t) \/ ProbeErrored(t) \/ ProbeUnsupported(t)
  BY <1>10, <1>11
     DEF ProbeSupported, ProbeErrored, ProbeUnsupported, Settle
<1>12. CASE ProbeTimedOut(t)
  BY <1>9, <1>12 DEF ProbeTimedOut, Settle
<1>13. CASE CooldownDone(t)
  BY <1>0, <1>3, <1>13 DEF CooldownDone, EndAndRelease
<1>14. CASE CancelledInLine(t)
  BY <1>0, <1>3, <1>14 DEF CancelledInLine, ResumeAndRelease, Resume
<1>15. CASE CancelledConnected(t)
  BY <1>1, <1>15 DEF CancelledConnected
<1>16. CASE CancelledUnwinds(t)
  BY <1>0, <1>3, <1>16 DEF CancelledUnwinds, EndAndRelease
<1>17. CASE CancelledInCooldown(t)
  BY <1>0, <1>3, <1>17 DEF CancelledInCooldown, EndAndRelease
<1> QED
  BY <1>4, <1>5, <1>6, <1>7, <1>8, <1>11, <1>12, <1>13, <1>14, <1>15,
     <1>16, <1>17 DEF ProbeStep, ProbeTimeout

(* A step of a job that is no probe.                                       *)
LEMMA PollTargets ==
  ASSUME TargetsOK, NEW p \in Polls, UNCHANGED target,
         \A k \in Jobs : k # p /\ pc'[k] # "idle" => pc[k] # "idle"
  PROVE  TargetsOK'
  BY JobTypes, ProbesAssumption DEF TargetsOK

(* Every step of a poll keeps the targets.                                 *)
LEMMA PollStepTargets ==
  ASSUME IInv, NEW p \in Polls, PollStep(p)
  PROVE  TargetsOK'
<1> USE JobTypes DEF IInv
<1>0. /\ TargetsOK /\ pc \in [Jobs -> PCs] /\ free \in Nat
      /\ free + 1 \in Nat /\ 1 \in Nat
  BY RestParts DEF PoolOK
<1>1. ASSUME NEW where, pc' = [pc EXCEPT ![p] = where], UNCHANGED target
      PROVE  TargetsOK'
  BY <1>0, <1>1, PollTargets
<1>2. ASSUME NEW where, NEW value, NEW n \in Nat,
             MoveAndWake(p, where, value, n), UNCHANGED target
      PROVE  TargetsOK'
  BY <1>0, <1>2, MoveAndWakeBusy, PollTargets
<1>3. CASE PollResumes(p)
  BY <1>0, <1>2, <1>3 DEF PollResumes, Resume, ResumeAndRelease
<1>4. CASE ConnectSucceeds(p)
  BY <1>1, <1>4 DEF ConnectSucceeds
<1>5. CASE ConnectFails(p)
  BY <1>1, <1>5 DEF ConnectFails
<1>6. CASE ReadDone(p)
  BY <1>1, <1>6 DEF ReadDone
<1>7. CASE PollProbeDone(p)
  BY <1>0, <1>1, <1>2, <1>7 DEF PollProbeDone, EndAndRelease
<1>8. CASE PollReadDone(p)
  BY <1>0, <1>2, <1>8 DEF PollReadDone, EndAndRelease
<1> QED
  BY <1>3, <1>4, <1>5, <1>6, <1>7, <1>8 DEF PollStep

(* A probe that is scheduled gets a target.                                *)
LEMMA EnvironmentTargets ==
  ASSUME IInv, NEW a \in Addrs, Environment(a)
  PROVE  TargetsOK'
<1> USE JobTypes DEF IInv
<1>0. TargetsOK /\ pc \in [Jobs -> PCs]
  BY RestParts DEF PoolOK
<1>1. ASSUME NEW t \in Probes, NEW where, pc' = [pc EXCEPT ![t] = where],
             target' = [target EXCEPT ![t] = a]
      PROVE  TargetsOK'
  BY <1>0, <1>1 DEF TargetsOK
<1>2. ASSUME NEW t \in Probes, ScheduleProbe(t, a) PROVE TargetsOK'
  BY <1>1, <1>2 DEF ScheduleProbe, TakeSlot, JoinLine
<1>3. ASSUME NEW t \in Probes, ScheduleProbeFailsAtOnce(t, a) PROVE TargetsOK'
  BY <1>1, <1>3 DEF ScheduleProbeFailsAtOnce, TakeSlot
<1>4. CASE ForgetDevices({a})
  BY <1>0, <1>4, TargetsUnchanged DEF ForgetDevices
<1>5. CASE EntryAdded(a)
  BY <1>0, <1>5, TargetsUnchanged DEF EntryAdded
<1> QED
  BY <1>2, <1>3, <1>4, <1>5 DEF Environment

(* A poll that begins keeps the targets.                                   *)
LEMMA PollBeginsTargets ==
  ASSUME IInv, NEW p \in Polls, PollBegins(p)
  PROVE  TargetsOK'
<1> USE JobTypes DEF IInv
<1>0. TargetsOK /\ pc \in [Jobs -> PCs]
  BY RestParts DEF PoolOK
<1>1. CASE PollFromCache(p)
  BY <1>0, <1>1, TargetsUnchanged DEF PollFromCache
<1>2. CASE PollStarts(p)
  BY <1>0, <1>2, PollTargets, TargetsUnchanged
     DEF PollStarts, TakeSlot, JoinLine
<1> QED
  BY <1>1, <1>2 DEF PollBegins

(* Every step of the manager keeps the targets.                            *)
LEMMA TargetsStep ==
  ASSUME IInv, [Next]_vars
  PROVE  TargetsOK'
<1>0. TargetsOK
  BY RestParts DEF IInv
<1>1. CASE StopBegins
  BY <1>0, <1>1, TargetsUnchanged DEF StopBegins
<1>2. CASE StopReturns
  BY <1>0, <1>2, TargetsUnchanged DEF StopReturns
<1>3. ASSUME NEW a \in Addrs, EntryRemoved(a) PROVE TargetsOK'
  BY <1>0, <1>3, TargetsUnchanged DEF EntryRemoved
<1>4. CASE UNCHANGED vars
  BY <1>0, <1>4, TargetsUnchanged DEF vars
<1> QED
  BY <1>1, <1>2, <1>3, <1>4, ProbeStepTargets, PollStepTargets,
     PollBeginsTargets, EnvironmentTargets DEF Next, NextButRemoval

(* A failure that is counted stays within the limit.                       *)
LEMMA RecordFailureOK ==
  ASSUME CachesOK, NEW a \in Addrs, RecordFailure(a)
  PROVE  failures' \in [Addrs -> 0..MaxRetries] /\ lastError' \subseteq Addrs
<1>1. MaxRetries \in Nat
  BY RetriesAssumption
<1>2. failures \in [Addrs -> 0..MaxRetries] /\ failures[a] \in 0..MaxRetries
  BY DEF CachesOK
<1>3. (IF failures[a] < MaxRetries THEN failures[a] + 1 ELSE failures[a])
        \in 0..MaxRetries
  BY <1>1, <1>2
<1> QED
  BY <1>2, <1>3 DEF RecordFailure, CachesOK

(* The finally block of a probe only takes entries away.                   *)
LEMMA UntrackOK ==
  ASSUME CachesOK, NEW t, Untrack(t)
  PROVE  /\ pending' \subseteq Addrs
         /\ probeTasks' \in [Addrs -> Probes \cup {NoTask}]
  BY DEF Untrack, CachesOK

(* A step that touches none of these variables.                            *)
LEMMA CachesUnchanged ==
  ASSUME CachesOK,
         UNCHANGED <<outcome, cancelReq, trackVars, cacheVars, confirmed,
                     stopVars>>
  PROVE  CachesOK'
  BY DEF CachesOK, trackVars, cacheVars, stopVars

(* The steps inside async_probe_device, of a probe or of a poll.           *)
LEMMA ProbeDeviceCaches ==
  ASSUME CachesOK, NEW j \in Jobs, AddressOf(j) \in Addrs,
         ConnectSucceeds(j) \/ ConnectFails(j) \/ ReadDone(j)
  PROVE  CachesOK'
<1>1. CASE ConnectSucceeds(j)
  BY <1>1
     DEF ConnectSucceeds, CachesOK, trackVars, stopVars, Outcomes, Results
<1>2. CASE ConnectFails(j)
  BY <1>2, RecordFailureOK
     DEF ConnectFails, CachesOK, trackVars, stopVars, Outcomes
<1>3. CASE ReadDone(j)
  BY <1>3 DEF ReadDone, CachesOK, trackVars, stopVars, Outcomes
<1> QED
  BY <1>1, <1>2, <1>3

(* Every step of a probe task keeps the types of the caches.               *)
LEMMA ProbeStepCaches ==
  ASSUME IInv, NEW t \in Probes, ProbeStep(t) \/ ProbeTimeout(t)
  PROVE  CachesOK'
<1>0. /\ CachesOK /\ t \in Jobs
      /\ pc[t] # "idle" => target[t] \in Addrs /\ AddressOf(t) \in Addrs
  BY RestParts, JobTypes, ProbesAssumption DEF IInv, TargetsOK, AddressOf
<1>1. CASE ProbeStarts(t)
  BY <1>0, <1>1 DEF ProbeStarts, CachesOK, trackVars, stopVars
<1>2. CASE ConnectSucceeds(t) \/ ConnectFails(t) \/ ReadDone(t)
  <2>1. pc[t] # "idle"
    BY <1>2 DEF ConnectSucceeds, ConnectFails, ReadDone
  <2> QED
    BY <1>0, <1>2, <2>1, ProbeDeviceCaches
<1>3. CASE TimeoutFires(t)
  BY <1>0, <1>3
     DEF TimeoutFires, CachesOK, trackVars, cacheVars, stopVars, Outcomes
<1>4. CASE ProbeSupported(t) \/ ProbeErrored(t) \/ ProbeUnsupported(t)
  <2>1. /\ Settle(t) /\ UNCHANGED failures
        /\ lastError' \in {lastError, lastError \ {target[t]}}
    BY <1>4 DEF ProbeSupported, ProbeErrored, ProbeUnsupported
  <2> QED
    BY <1>0, <2>1, UntrackOK DEF Settle, CachesOK, stopVars, Outcomes
<1>5. CASE ProbeTimedOut(t)
  <2>1. pc[t] # "idle"
    BY <1>5 DEF ProbeTimedOut, CloseAndCool
  <2> QED
    BY <1>0, <1>5, <2>1, UntrackOK, RecordFailureOK
       DEF ProbeTimedOut, Settle, CachesOK, stopVars, Outcomes
<1>6. CASE CooldownDone(t)
  BY <1>0, <1>6 DEF CooldownDone, TaskEnds, CachesOK, cacheVars
<1>7. CASE CancelledInLine(t)
  BY <1>0, <1>7 DEF CancelledInLine, TaskEnds, CachesOK, trackVars, cacheVars
<1>8. CASE CancelledConnected(t)
  BY <1>0, <1>8
     DEF CancelledConnected, CachesOK, trackVars, cacheVars, stopVars, Outcomes
<1>9. CASE CancelledUnwinds(t)
  BY <1>0, <1>9, UntrackOK
     DEF CancelledUnwinds, TaskEnds, CachesOK, cacheVars, Outcomes
<1>10. CASE CancelledInCooldown(t)
  BY <1>0, <1>10
     DEF CancelledInCooldown, TaskEnds, CachesOK, trackVars, cacheVars
<1> QED
  BY <1>1, <1>2, <1>3, <1>4, <1>5, <1>6, <1>7, <1>8, <1>9, <1>10
     DEF ProbeStep, ProbeTimeout

(* Every step of a poll keeps the types of the caches.                     *)
LEMMA PollStepCaches ==
  ASSUME IInv, NEW p \in Polls, PollStep(p)
  PROVE  CachesOK'
<1>0. CachesOK /\ p \in Jobs /\ AddressOf(p) \in Addrs
  BY RestParts, JobTypes DEF IInv, AddressOf
<1>1. CASE PollResumes(p)
  BY <1>0, <1>1
     DEF PollResumes, ErrorAfterPollStart, CachesOK, trackVars, stopVars
<1>2. CASE ConnectSucceeds(p) \/ ConnectFails(p) \/ ReadDone(p)
  BY <1>0, <1>2, ProbeDeviceCaches
<1>3. CASE PollProbeDone(p)
  BY <1>0, <1>3 DEF PollProbeDone, CachesOK, trackVars, stopVars, Outcomes
<1>4. CASE PollReadDone(p)
  BY <1>0, <1>4, CachesUnchanged DEF PollReadDone
<1> QED
  BY <1>1, <1>2, <1>3, <1>4 DEF PollStep

(* The table names probe tasks.                                            *)
LEMMA TasksOfType ==
  ASSUME CachesOK, NEW S \in SUBSET Addrs
  PROVE  TasksOf(S) \subseteq Probes
  BY DEF TasksOf, CachesOK

(* Scheduling, removal and entries keep the types.                         *)
LEMMA EnvironmentCaches ==
  ASSUME IInv, NEW a \in Addrs, Environment(a)
  PROVE  CachesOK'
<1>0. CachesOK
  BY RestParts DEF IInv
<1>1. ASSUME NEW t \in Probes, ScheduleProbe(t, a) PROVE CachesOK'
  BY <1>0, <1>1 DEF ScheduleProbe, CachesOK, stopVars
<1>2. ASSUME NEW t \in Probes, ScheduleProbeFailsAtOnce(t, a) PROVE CachesOK'
  BY <1>0, <1>2, RecordFailureOK
     DEF ScheduleProbeFailsAtOnce, CachesOK, stopVars
<1>3. CASE ForgetDevices({a})
  <2>1. cancelReq' \subseteq Probes
    BY <1>0, <1>3, TasksOfType DEF ForgetDevices, CachesOK
  <2>2. /\ result' \in [Addrs -> Results]
        /\ failures' \in [Addrs -> 0..MaxRetries]
    BY <1>0, <1>3, RetriesAssumption DEF ForgetDevices, CachesOK, Results
  <2>3. probeTasks' \in [Addrs -> Probes \cup {NoTask}]
    BY <1>0, <1>3 DEF ForgetDevices, CachesOK
  <2> QED
    BY <1>0, <1>3, <2>1, <2>2, <2>3 DEF ForgetDevices, CachesOK, stopVars
<1>4. CASE EntryAdded(a)
  BY <1>0, <1>4 DEF EntryAdded, CachesOK, trackVars, cacheVars, stopVars
<1> QED
  BY <1>1, <1>2, <1>3, <1>4 DEF Environment

(* A poll that begins keeps the types.                                     *)
LEMMA PollBeginsCaches ==
  ASSUME IInv, NEW p \in Polls, PollBegins(p)
  PROVE  CachesOK'
<1>0. CachesOK /\ PollOf[p] \in Addrs
  BY RestParts, JobTypes DEF IInv
<1>1. CASE PollFromCache(p)
  BY <1>0, <1>1 DEF PollFromCache, CachesOK, trackVars, stopVars
<1>2. CASE PollStarts(p)
  <2>1. Unconfirmed \in SUBSET Addrs
    BY DEF Unconfirmed
  <2>2. cancelReq' \subseteq Probes
    BY <1>0, <1>2, <2>1, TasksOfType DEF PollStarts, Preempt, CachesOK
  <2>3. /\ pending' \subseteq Addrs
        /\ probeTasks' \in [Addrs -> Probes \cup {NoTask}]
    BY <1>0, <1>2 DEF PollStarts, Preempt, CachesOK
  <2>4. lastError' \subseteq Addrs
    BY <1>0, <1>2 DEF PollStarts, ErrorAfterPollStart, CachesOK
  <2> QED
    BY <1>0, <1>2, <2>2, <2>3, <2>4 DEF PollStarts, CachesOK, stopVars
<1> QED
  BY <1>1, <1>2 DEF PollBegins

(* Every step of the manager keeps the types of the caches.                *)
LEMMA CachesStep ==
  ASSUME IInv, [Next]_vars
  PROVE  CachesOK'
<1>0. CachesOK
  BY RestParts DEF IInv
<1>1. CASE StopBegins
  <2>1. TasksOf(Addrs) \subseteq Probes
    BY <1>0, TasksOfType
  <2> QED
    BY <1>0, <1>1, <2>1 DEF StopBegins, CachesOK, cacheVars
<1>2. CASE StopReturns
  BY <1>0, <1>2 DEF StopReturns, CachesOK, trackVars, cacheVars
<1>3. ASSUME NEW a \in Addrs, EntryRemoved(a) PROVE CachesOK'
  BY <1>0, <1>3 DEF EntryRemoved, CachesOK, trackVars, cacheVars, stopVars
<1>4. CASE UNCHANGED vars
  BY <1>0, <1>4, CachesUnchanged DEF vars
<1> QED
  BY <1>1, <1>2, <1>3, <1>4, ProbeStepCaches, PollStepCaches,
     PollBeginsCaches, EnvironmentCaches DEF Next, NextButRemoval

-----------------------------------------------------------------------------
(* The theorems.                                                           *)

(* The invariant holds when the manager is created.                        *)
LEMMA InitIInv == Init => IInv
<1> SUFFICES ASSUME Init PROVE IInv
  OBVIOUS
<1>1. free \in Nat /\ waiters \in Seq(Jobs) /\ pc \in [Jobs -> PCs]
  BY SlotsAssumption DEF Init, PCs
<1>2. Holders = {}
  BY SomePCs DEF Init, Holders
<1>3. SlotConservation
  BY <1>2, FS_EmptySet, SlotsAssumption DEF Init, SlotConservation
<1>4. failures \in [Addrs -> 0..MaxRetries]
  BY RetriesAssumption DEF Init
<1>5. RestOK
  BY <1>4, JobTypes DEF Init, RestOK, Outcomes, Results
<1> QED
  BY <1>1, <1>3, <1>5 DEF IInv, PoolOK

(* The invariant is inductive.                                             *)
LEMMA IInvStep == IInv /\ [Next]_vars => IInv'
  BY PoolStep, TargetsStep, CachesStep, RestParts
     DEF IInv, RestOK, TargetsOK, CachesOK

(* The free slots cannot be more than there are: that follows from their   *)
(* conservation, and from nothing else in the invariant.                   *)
LEMMA IInvTypeOK == IInv => TypeOK
<1> SUFFICES ASSUME IInv PROVE TypeOK
  OBVIOUS
<1>1. free \in 0..MaxConcurrent
  BY HoldersFinite, SlotsAssumption DEF IInv, PoolOK, SlotConservation
<1> QED
  BY <1>1 DEF IInv, PoolOK, RestOK, TypeOK

(* The state of the manager always has its type: a poll or a probe that    *)
(* runs has an address, and every task told to stop exists.                *)
THEOREM TypeCorrect == Spec => []TypeOK
<1>1. Spec => []IInv
  BY InitIInv, IInvStep, PTL DEF Spec
<1> QED
  BY <1>1, IInvTypeOK, PTL

(* Whatever is cancelled, timed out, preempted or forgotten, in any order  *)
(* and at any await, the slots that are free and those that are owned add  *)
(* up to max_concurrent_probes.                                            *)
THEOREM SlotsConserved == Spec => []SlotConservation
<1>1. Spec => []IInv
  BY InitIInv, IInvStep, PTL DEF Spec
<1>2. IInv => SlotConservation
  BY DEF IInv, PoolOK
<1> QED
  BY <1>1, <1>2, PTL
=============================================================================
