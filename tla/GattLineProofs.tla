--------------------------- MODULE GattLineProofs ---------------------------
(***************************************************************************)
(* The line in front of the semaphore: it holds the suspended jobs, each   *)
(* once, and no wake-up is lost, for every set of addresses and of tasks   *)
(* and every number of slots.                                              *)
(***************************************************************************)
EXTENDS GattManagerProofs

(* A job suspended in acquire().                                           *)
LinePC == {"queued", "granted"}

LineInv == LineIsSuspended /\ NoLostWakeup

InvL == IInv /\ LineInv

(* Every cancellation of a job other than j is still there.                *)
StillCancelled(j) == cancelReq \ {j} \subseteq cancelReq'

-----------------------------------------------------------------------------
(* Wake-ups.                                                               *)

(* Of the positions in W, n have fewer than n others before them as soon   *)
(* as one has not: the ranks of those before it are all of 0..r - 1.       *)
LEMMA EnoughBefore ==
  ASSUME NEW len \in Nat, NEW W \in SUBSET (1..len), NEW n \in Nat,
         NEW i \in W, Cardinality({h \in W : h < i}) >= n
  PROVE  LET F == {k \in W : Cardinality({h \in W : h < k}) < n}
         IN  Cardinality(F) >= n
<1> DEFINE Before(k) == {h \in W : h < k}
           F == {k \in W : Cardinality(Before(k)) < n}
           r == Cardinality(Before(i))
           rank == [k \in Before(i) |-> Cardinality(Before(k))]
           G == {k \in Before(i) : Cardinality(Before(k)) < n}
           low == [k \in G |-> Cardinality(Before(k))]
<1>1. /\ IsFiniteSet(W)
      /\ \A k \in W : IsFiniteSet(Before(k)) /\ Cardinality(Before(k)) \in Nat
      /\ \A k, m \in W :
           k < m => Cardinality(Before(k)) < Cardinality(Before(m))
  BY BeforeGrows
<1>2. r \in Nat /\ r >= n /\ 0..(r - 1) \in SUBSET Nat
  BY <1>1
<1>3. IsFiniteSet(0..(r - 1)) /\ Cardinality(0..(r - 1)) = r
  <2> HIDE DEF r
  <2> QED BY <1>2, FS_Interval
<1>4. rank \in Injection(Before(i), 0..(r - 1))
  <2>1. \A k \in Before(i) : Cardinality(Before(k)) \in 0..(r - 1)
    BY <1>1
  <2>2. \A k, m \in Before(i) :
          Cardinality(Before(k)) = Cardinality(Before(m)) => k = m
    <3> SUFFICES ASSUME NEW k \in Before(i), NEW m \in Before(i), k # m
                 PROVE  Cardinality(Before(k)) # Cardinality(Before(m))
      OBVIOUS
    <3>1. k \in W /\ m \in W /\ (k < m \/ m < k)
      OBVIOUS
    <3>2. Cardinality(Before(k)) \in Nat /\ Cardinality(Before(m)) \in Nat
      BY <1>1, <3>1
    <3>3. \/ Cardinality(Before(k)) < Cardinality(Before(m))
          \/ Cardinality(Before(m)) < Cardinality(Before(k))
      BY <1>1, <3>1
    <3> QED BY <3>2, <3>3
  <2> QED BY <2>1, <2>2 DEF Injection, IsInjective
<1>5. rank \in Surjection(Before(i), 0..(r - 1))
  BY <1>3, <1>4, FS_Injection
<1>6. low \in Surjection(G, 0..(n - 1))
  <2>1. low \in [G -> 0..(n - 1)]
    <3>1. ASSUME NEW k \in G PROVE Cardinality(Before(k)) \in 0..(n - 1)
      <4>1. Cardinality(Before(k)) \in Nat /\ Cardinality(Before(k)) < n
        BY <1>1
      <4> QED BY <4>1
    <3> QED BY <3>1
  <2>2. ASSUME NEW v \in 0..(n - 1) PROVE \E k \in G : low[k] = v
    <3>1. v \in 0..(r - 1)
      BY <1>2
    <3>2. PICK k \in Before(i) : rank[k] = v
      BY <1>5, <3>1 DEF Surjection
    <3> QED BY <3>2
  <2> QED BY <2>1, <2>2 DEF Surjection
<1>7. IsFiniteSet(F) /\ IsFiniteSet(G) /\ Cardinality(G) <= Cardinality(F)
  <2>1. F \in SUBSET W /\ G \in SUBSET F
    OBVIOUS
  <2> QED BY <1>1, <2>1, FS_Subset
<1>8. Cardinality(0..(n - 1)) = n /\ Cardinality(0..(n - 1)) <= Cardinality(G)
  BY <1>6, <1>7, FS_Interval, FS_Surjection
<1> QED
  BY <1>7, <1>8, FS_CardinalityType

(* When fewer than n jobs are woken, there were no more that waited.       *)
LEMMA AllWoken ==
  ASSUME waiters \in Seq(Jobs), LineIsSuspended, NEW n \in Nat,
         Cardinality(Woken(n)) < n
  PROVE  \A i \in DOMAIN waiters : Waiting(i) => waiters[i] \in Woken(n)
<1> DEFINE W == {k \in 1..Len(waiters) : Waiting(k)}
           F == {k \in W : Cardinality({h \in W : h < k}) < n}
           pick == [k \in F |-> waiters[k]]
<1>1. Len(waiters) \in Nat /\ DOMAIN waiters = 1..Len(waiters)
      /\ W \in SUBSET (1..Len(waiters))
  OBVIOUS
<1>2. \A k \in 1..Len(waiters) :
        {h \in 1..(k - 1) : Waiting(h)} = {h \in W : h < k}
  <2> SUFFICES ASSUME NEW k \in 1..Len(waiters)
               PROVE  {h \in 1..(k - 1) : Waiting(h)} = {h \in W : h < k}
    OBVIOUS
  <2>1. \A h : h \in 1..(k - 1) <=> h \in 1..Len(waiters) /\ h < k
    BY <1>1
  <2> QED
    BY <2>1
<1>3. F = {k \in DOMAIN waiters :
             Waiting(k) /\ Cardinality({h \in 1..(k - 1) : Waiting(h)}) < n}
  BY <1>1, <1>2
<1>4. Woken(n) = {waiters[k] : k \in F}
  BY <1>3 DEF Woken
<1>5. pick \in Surjection(F, Woken(n))
  BY <1>4 DEF Surjection
<1>6. pick \in Injection(F, Woken(n))
  BY <1>1, <1>5 DEF Injection, IsInjective, Surjection, LineIsSuspended
<1>7. IsFiniteSet(F)
  <2> HIDE DEF W
  <2> QED BY <1>1, FirstFew
<1>8. Cardinality(F) = Cardinality(Woken(n))
  BY <1>5, <1>6, <1>7, FS_Surjection
<1>9. \A i \in W : Cardinality({h \in W : h < i}) < n
  <2> HIDE DEF W
  <2> SUFFICES ASSUME NEW i \in W, ~(Cardinality({h \in W : h < i}) < n)
               PROVE  FALSE
    OBVIOUS
  <2>1. Cardinality({h \in W : h < i}) \in Nat
    BY <1>1, BeforeGrows
  <2>2. Cardinality({h \in W : h < i}) >= n
    BY <2>1
  <2>3. Cardinality(F) >= n
    BY <1>1, <2>2, EnoughBefore
  <2>4. Cardinality(F) \in Nat
    BY <1>7, FS_CardinalityType
  <2> QED BY <1>8, <2>3, <2>4
<1> QED
  BY <1>1, <1>4, <1>9

-----------------------------------------------------------------------------
(* What moves do to the line.                                              *)

(* Taking a place out of the line.                                         *)
LEMMA RemoveAtElements ==
  ASSUME NEW S, NEW s \in Seq(S), NEW i \in DOMAIN s
  PROVE  /\ DOMAIN RemoveAt(s, i) = 1..(Len(s) - 1)
         /\ \A k \in 1..(Len(s) - 1) :
              RemoveAt(s, i)[k] = IF k < i THEN s[k] ELSE s[k + 1]
<1>1. i \in 1..Len(s) /\ Len(s) \in Nat
  OBVIOUS
<1>2. /\ SubSeq(s, 1, i - 1) \in Seq(S) /\ Len(SubSeq(s, 1, i - 1)) = i - 1
      /\ \A k \in 1..(i - 1) : SubSeq(s, 1, i - 1)[k] = s[k]
  BY <1>1
<1>3. /\ SubSeq(s, i + 1, Len(s)) \in Seq(S)
      /\ Len(SubSeq(s, i + 1, Len(s))) = Len(s) - i
      /\ \A k \in 1..(Len(s) - i) : SubSeq(s, i + 1, Len(s))[k] = s[i + k]
  BY <1>1
<1> DEFINE front == SubSeq(s, 1, i - 1)
           back == SubSeq(s, i + 1, Len(s))
<1>4. /\ DOMAIN (front \o back) = 1..(Len(s) - 1)
      /\ \A k \in 1..(Len(s) - 1) :
           (front \o back)[k] = IF k < i THEN front[k] ELSE back[k - (i - 1)]
  <2> HIDE DEF front, back
  <2>1. front \in Seq(S) /\ back \in Seq(S)
        /\ Len(front) = i - 1 /\ Len(back) = Len(s) - i
    BY <1>2, <1>3 DEF front, back
  <2> QED BY <1>1, <2>1
<1>5. ASSUME NEW k \in 1..(Len(s) - 1), ~(k < i)
      PROVE  back[k - (i - 1)] = s[k + 1]
  <2>1. k - (i - 1) \in 1..(Len(s) - i) /\ i + (k - (i - 1)) = k + 1
    BY <1>1, <1>5
  <2> QED BY <1>3, <2>1
<1>6. ASSUME NEW k \in 1..(Len(s) - 1), k < i PROVE front[k] = s[k]
  BY <1>1, <1>2, <1>6
<1> QED
  BY <1>4, <1>5, <1>6 DEF RemoveAt

(* The line does not change, nor who is suspended.                         *)
LEMMA LineKept ==
  ASSUME LineIsSuspended, UNCHANGED waiters,
         \A k \in Jobs : pc'[k] \in LinePC <=> pc[k] \in LinePC
  PROVE  LineIsSuspended'
  BY DEF LineIsSuspended, LinePC

(* A job joins at the end.                                                 *)
LEMMA LineJoined ==
  ASSUME LineIsSuspended, waiters \in Seq(Jobs), NEW j \in Jobs,
         pc[j] \notin LinePC, waiters' = Append(waiters, j), pc'[j] \in LinePC,
         \A k \in Jobs : k # j => (pc'[k] \in LinePC <=> pc[k] \in LinePC)
  PROVE  LineIsSuspended'
<1>1. \A i \in DOMAIN waiters : waiters[i] \in Jobs /\ waiters[i] # j
  BY DEF LineIsSuspended, LinePC
<1>2. /\ DOMAIN waiters' = 1..(Len(waiters) + 1) /\ Len(waiters) \in Nat
      /\ DOMAIN waiters = 1..Len(waiters)
      /\ waiters'[Len(waiters) + 1] = j
      /\ \A i \in DOMAIN waiters : waiters'[i] = waiters[i]
  OBVIOUS
<1>3. \A i, k \in DOMAIN waiters' : waiters'[i] = waiters'[k] => i = k
  BY <1>1, <1>2 DEF LineIsSuspended
<1>4. ASSUME NEW k \in Jobs
      PROVE  (\E i \in DOMAIN waiters' : waiters'[i] = k)
               <=> k = j \/ \E i \in DOMAIN waiters : waiters[i] = k
  BY <1>2
<1> QED
  BY <1>3, <1>4 DEF LineIsSuspended, LinePC

(* A job leaves its place.                                                 *)
LEMMA LineLeft ==
  ASSUME LineIsSuspended, waiters \in Seq(Jobs), NEW j \in Jobs,
         LeaveLine(j), pc'[j] \notin LinePC,
         \A k \in Jobs : k # j => (pc'[k] \in LinePC <=> pc[k] \in LinePC)
  PROVE  LineIsSuspended'
<1>1. PICK i \in DOMAIN waiters : waiters[i] = j /\ waiters' = RemoveAt(waiters, i)
  BY DEF LeaveLine
<1>2. /\ DOMAIN waiters' = 1..(Len(waiters) - 1) /\ Len(waiters) \in Nat
      /\ DOMAIN waiters = 1..Len(waiters)
      /\ \A k \in DOMAIN waiters' :
           waiters'[k] = IF k < i THEN waiters[k] ELSE waiters[k + 1]
  BY <1>1, RemoveAtElements
<1>3. \A h, k \in DOMAIN waiters' : waiters'[h] = waiters'[k] => h = k
  BY <1>1, <1>2 DEF LineIsSuspended
<1>4. ASSUME NEW k \in Jobs
      PROVE  (\E h \in DOMAIN waiters' : waiters'[h] = k)
               <=> k # j /\ \E h \in DOMAIN waiters : waiters[h] = k
  <2>1. ASSUME NEW h \in DOMAIN waiters' PROVE waiters'[h] # j
    BY <1>1, <1>2 DEF LineIsSuspended
  <2>2. ASSUME NEW h \in DOMAIN waiters' PROVE \E m \in DOMAIN waiters : waiters[m] = waiters'[h]
    BY <1>1, <1>2
  <2>3. ASSUME NEW m \in DOMAIN waiters, m # i
        PROVE  \E h \in DOMAIN waiters' : waiters'[h] = waiters[m]
    <3>1. CASE m < i
      BY <1>1, <1>2, <3>1
    <3>2. CASE m > i
      <4>1. m - 1 \in DOMAIN waiters' /\ ~(m - 1 < i) /\ (m - 1) + 1 = m
        BY <1>1, <1>2, <3>2
      <4> QED BY <1>2, <4>1
    <3> QED BY <1>1, <1>2, <2>3, <3>1, <3>2
  <2> QED BY <1>1, <2>1, <2>2, <2>3
<1> QED
  BY <1>3, <1>4 DEF LineIsSuspended, LinePC

(* A move with its wake-ups, seen from the line: those who are woken stay  *)
(* in it until they run.                                                   *)
LEMMA MoveSeen ==
  ASSUME IInv, NEW j \in Jobs, NEW where, NEW value \in Nat, NEW n \in Nat,
         MoveAndWake(j, where, value, n)
  PROVE  /\ pc'[j] = where
         /\ \A k \in Jobs : k # j => (pc'[k] \in LinePC <=> pc[k] \in LinePC)
         /\ \A k \in Jobs : k # j /\ pc[k] = "granted" => pc'[k] = "granted"
         /\ \A k \in Jobs : k # j /\ pc'[k] = "queued"
              => pc[k] = "queued" /\ k \notin Woken(n)
         /\ free' = value - Cardinality(Woken(n))
         /\ Cardinality(Woken(n)) \in Nat /\ Cardinality(Woken(n)) <= n
<1>1. waiters \in Seq(Jobs) /\ pc \in [Jobs -> PCs]
  BY DEF IInv, PoolOK
<1>2. /\ Woken(n) \subseteq {k \in Jobs : pc[k] = "queued" /\ k \notin cancelReq}
      /\ Cardinality(Woken(n)) \in Nat /\ Cardinality(Woken(n)) <= n
  BY <1>1, WokenFacts
<1> QED
  BY <1>1, <1>2 DEF MoveAndWake, LinePC

-----------------------------------------------------------------------------
(* The ways in which a job meets the line.                                 *)

(* It moves outside the line, and hands out nothing.                       *)
LEMMA StayOutside ==
  ASSUME InvL, NEW j \in Jobs, pc[j] \notin LinePC, pc'[j] \notin LinePC,
         \A k \in Jobs : k # j => pc'[k] = pc[k],
         UNCHANGED poolVars, StillCancelled(j)
  PROVE  LineInv'
<1>1. waiters \in Seq(Jobs) /\ waiters' = waiters /\ free' = free
  BY DEF InvL, IInv, PoolOK, poolVars
<1>2. LineIsSuspended'
  BY <1>1, LineKept DEF InvL, LineInv
<1>3. ASSUME NEW i \in DOMAIN waiters, Waiting(i)' PROVE Waiting(i)
  BY <1>1, <1>3 DEF Waiting, StillCancelled, LinePC
<1>4. \A k \in DOMAIN waiters : pc[waiters[k]] = "granted" => pc'[waiters[k]] = "granted"
  BY <1>1 DEF LinePC
<1>5. NoLostWakeup'
  BY <1>1, <1>3, <1>4 DEF InvL, LineInv, NoLostWakeup
<1> QED
  BY <1>2, <1>5 DEF LineInv

(* It ends and gives its slot back.                                        *)
LEMMA EndOutside ==
  ASSUME InvL, NEW j \in Jobs, pc[j] \notin LinePC, EndAndRelease(j),
         UNCHANGED waiters, StillCancelled(j)
  PROVE  LineInv'
<1>1. /\ waiters \in Seq(Jobs) /\ free \in Nat /\ free + 1 \in Nat
      /\ LineIsSuspended /\ NoLostWakeup /\ IInv
  BY DEF InvL, IInv, PoolOK, LineInv
<1>2. MoveAndWake(j, "idle", free + 1, 1)
  BY DEF EndAndRelease
<1>3. /\ pc'[j] = "idle"
      /\ \A k \in Jobs : k # j => (pc'[k] \in LinePC <=> pc[k] \in LinePC)
      /\ \A k \in Jobs : k # j /\ pc[k] = "granted" => pc'[k] = "granted"
      /\ \A k \in Jobs : k # j /\ pc'[k] = "queued"
           => pc[k] = "queued" /\ k \notin Woken(1)
      /\ Cardinality(Woken(1)) \in Nat
  <2>1. PICK v \in Nat, n \in Nat :
          v = free + 1 /\ n = 1 /\ MoveAndWake(j, "idle", v, n)
    BY <1>1, <1>2
  <2>2. MoveAndWake(j, "idle", v, n)
    BY <2>1
  <2>3. /\ pc'[j] = "idle"
        /\ \A k \in Jobs : k # j => (pc'[k] \in LinePC <=> pc[k] \in LinePC)
        /\ \A k \in Jobs : k # j /\ pc[k] = "granted" => pc'[k] = "granted"
        /\ \A k \in Jobs : k # j /\ pc'[k] = "queued"
             => pc[k] = "queued" /\ k \notin Woken(n)
        /\ Cardinality(Woken(n)) \in Nat
    BY <1>1, <2>2, MoveSeen
  <2> QED BY <2>1, <2>3
<1>4. free' = free + 1 - Cardinality(Woken(1))
  BY <1>1, <1>2, <1>3 DEF MoveAndWake
<1>5. LineIsSuspended'
  BY <1>1, <1>3, LineKept DEF LinePC
<1>6. ASSUME NEW i \in DOMAIN waiters, Waiting(i)'
      PROVE  Waiting(i) /\ waiters[i] \notin Woken(1)
  BY <1>1, <1>3, <1>6 DEF Waiting, StillCancelled
<1>7. \A k \in DOMAIN waiters : pc[waiters[k]] = "granted" => pc'[waiters[k]] = "granted"
  BY <1>1, <1>3 DEF LinePC
<1>8. CASE free = 0
  <2>1. free' > 0 => Cardinality(Woken(1)) < 1
    BY <1>3, <1>4, <1>8
  <2> QED BY <1>1, <1>5, <1>6, <2>1, AllWoken DEF LineInv, NoLostWakeup
<1>9. CASE free > 0
  <2>1. ASSUME NEW i \in DOMAIN waiters, Waiting(i)'
        PROVE  \E k \in 1..(i - 1) : pc'[waiters[k]] = "granted"
    <3>1. PICK k \in 1..(i - 1) : pc[waiters[k]] = "granted"
      BY <1>6, <1>9, <1>1, <2>1 DEF NoLostWakeup
    <3>2. k \in DOMAIN waiters
      BY <1>1, <3>1
    <3> QED BY <1>7, <3>1, <3>2
  <2> QED BY <1>5, <2>1 DEF LineInv, NoLostWakeup
<1> QED
  BY <1>1, <1>8, <1>9

(* It leaves the line and hands out whatever is free.                      *)
LEMMA LeaveAndWake ==
  ASSUME InvL, NEW j \in Jobs, NEW where, where \notin LinePC, NEW n \in Nat,
         LeaveLine(j), MoveAndWake(j, where, n, n), StillCancelled(j)
  PROVE  LineInv'
<1>1. waiters \in Seq(Jobs) /\ LineIsSuspended /\ IInv
  BY DEF InvL, IInv, PoolOK, LineInv
<1>2. waiters' \in Seq(Jobs)
  BY <1>1, LeaveLineOK DEF IInv
<1>3. /\ pc'[j] = where
      /\ \A k \in Jobs : k # j => (pc'[k] \in LinePC <=> pc[k] \in LinePC)
      /\ \A k \in Jobs : k # j /\ pc'[k] = "queued"
           => pc[k] = "queued" /\ k \notin Woken(n)
      /\ free' = n - Cardinality(Woken(n)) /\ Cardinality(Woken(n)) \in Nat
  BY <1>1, MoveSeen
<1>4. LineIsSuspended'
  BY <1>1, <1>3, LineLeft
<1>5. ASSUME free' > 0, NEW i \in DOMAIN waiters', Waiting(i)' PROVE FALSE
  <2>1. Cardinality(Woken(n)) < n
    BY <1>3, <1>5
  <2> DEFINE k == waiters'[i]
  <2>2. k \in Jobs /\ pc'[k] = "queued" /\ k \notin cancelReq'
    BY <1>2, <1>5 DEF Waiting
  <2>3. k # j /\ pc[k] = "queued" /\ k \notin Woken(n) /\ k \notin cancelReq
    BY <1>3, <2>2 DEF LinePC, StillCancelled
  <2>4. PICK m \in DOMAIN waiters : waiters[m] = k
    BY <1>1, <2>2, <2>3 DEF LineIsSuspended
  <2>5. Waiting(m)
    BY <2>3, <2>4 DEF Waiting
  <2> QED BY <1>1, <2>1, <2>3, <2>4, <2>5, AllWoken
<1> QED
  BY <1>4, <1>5 DEF LineInv, NoLostWakeup

(* It takes a slot: nobody waits.                                          *)
LEMMA TakeOutside ==
  ASSUME InvL, NEW j \in Jobs, NEW where, where \notin LinePC, pc[j] = "idle",
         ~Locked(cancelReq'), TakeSlot(j, where), cancelReq \subseteq cancelReq'
  PROVE  LineInv'
<1>1. /\ waiters \in Seq(Jobs) /\ LineIsSuspended /\ pc \in [Jobs -> PCs]
      /\ waiters' = waiters /\ pc' = [pc EXCEPT ![j] = where]
  BY DEF InvL, IInv, PoolOK, LineInv, TakeSlot
<1>2. LineIsSuspended'
  BY <1>1, LineKept DEF LinePC
<1>3. ASSUME NEW i \in DOMAIN waiters PROVE ~(Waiting(i)')
  BY <1>1 DEF Waiting, Locked
<1> QED
  BY <1>1, <1>2, <1>3 DEF LineInv, NoLostWakeup

(* It joins the line: no slot is free, or one ahead of it was woken.       *)
LEMMA JoinBehind ==
  ASSUME InvL, NEW j \in Jobs, pc[j] = "idle", Locked(cancelReq'), JoinLine(j),
         cancelReq \subseteq cancelReq'
  PROVE  LineInv'
<1>1. /\ waiters \in Seq(Jobs) /\ LineIsSuspended /\ NoLostWakeup
      /\ pc \in [Jobs -> PCs] /\ waiters' = Append(waiters, j)
      /\ pc' = [pc EXCEPT ![j] = "queued"] /\ free' = free
  BY DEF InvL, IInv, PoolOK, LineInv, JoinLine
<1>2. LineIsSuspended'
  BY <1>1, LineJoined DEF LinePC
<1>3. /\ DOMAIN waiters' = 1..(Len(waiters) + 1) /\ Len(waiters) \in Nat
      /\ DOMAIN waiters = 1..Len(waiters)
      /\ \A i \in DOMAIN waiters :
           /\ waiters'[i] = waiters[i] /\ waiters[i] \in Jobs
           /\ waiters[i] # j /\ pc'[waiters[i]] = pc[waiters[i]]
           /\ pc[waiters[i]] \in LinePC
  BY <1>1 DEF LineIsSuspended, LinePC
<1>4. ASSUME free > 0, NEW i \in DOMAIN waiters, Waiting(i)
      PROVE  \E k \in 1..(i - 1) : k \in DOMAIN waiters /\ pc[waiters[k]] = "granted"
  BY <1>1, <1>3, <1>4 DEF NoLostWakeup
<1>5. ASSUME free > 0, free # 0
      PROVE  \E k \in DOMAIN waiters : pc[waiters[k]] = "granted"
  <2>1. PICK i \in DOMAIN waiters :
          ~(pc[waiters[i]] = "queued" /\ waiters[i] \in cancelReq')
    BY <1>5 DEF Locked
  <2>2. pc[waiters[i]] = "granted" \/ Waiting(i)
    BY <1>3, <2>1 DEF LinePC, Waiting
  <2> QED BY <1>4, <1>5, <2>2
<1>6. ASSUME free' > 0, NEW i \in DOMAIN waiters', Waiting(i)'
      PROVE  \E k \in 1..(i - 1) : pc'[waiters'[k]] = "granted"
  <2>1. free > 0 /\ free # 0
    BY <1>1, <1>6
  <2>2. CASE i \in DOMAIN waiters
    <3>1. Waiting(i)
      BY <1>3, <1>6, <2>2 DEF Waiting
    <3> QED BY <1>3, <1>4, <2>1, <2>2, <3>1
  <2>3. CASE i = Len(waiters) + 1
    <3>1. PICK k \in DOMAIN waiters : pc[waiters[k]] = "granted"
      BY <1>5, <2>1
    <3>2. k \in 1..(i - 1)
      BY <1>3, <2>3
    <3> QED BY <1>3, <3>1, <3>2
  <2> QED BY <1>3, <2>2, <2>3
<1> QED
  BY <1>2, <1>6 DEF LineInv, NoLostWakeup

(* Nothing moves, and at most more jobs are told to stop.                  *)
LEMMA LineUntouched ==
  ASSUME InvL, UNCHANGED <<poolVars, pc>>, cancelReq \subseteq cancelReq'
  PROVE  LineInv'
<1>1. LineIsSuspended'
  BY DEF InvL, LineInv, LineIsSuspended, poolVars
<1>2. \A i \in DOMAIN waiters : Waiting(i)' => Waiting(i)
  BY DEF Waiting, poolVars
<1>3. NoLostWakeup'
  BY <1>2 DEF InvL, LineInv, NoLostWakeup, poolVars
<1> QED
  BY <1>1, <1>3 DEF LineInv

(* The moves of a job that does not join the line, together.               *)
LEMMA JobMoves ==
  ASSUME InvL, NEW j \in Jobs, NEW where, where \notin LinePC, StillCancelled(j)
  PROVE  /\ Resume(j, where) => LineInv'
         /\ ResumeAndRelease(j) => LineInv'
         /\ pc[j] \notin LinePC /\ EndAndRelease(j) /\ UNCHANGED waiters
              => LineInv'
         /\ pc[j] \notin LinePC /\ pc' = [pc EXCEPT ![j] = where]
              /\ UNCHANGED poolVars => LineInv'
<1>1. free \in Nat /\ free + 1 \in Nat /\ "idle" \notin LinePC
      /\ pc \in [Jobs -> PCs]
  BY DEF InvL, IInv, PoolOK, LinePC
<1>2. ASSUME Resume(j, where) PROVE LineInv'
  BY <1>1, <1>2, LeaveAndWake DEF Resume
<1>3. ASSUME ResumeAndRelease(j) PROVE LineInv'
  <2>1. PICK n \in Nat : n = free + 1 /\ MoveAndWake(j, "idle", n, n)
    BY <1>1, <1>3 DEF ResumeAndRelease
  <2>2. LeaveLine(j) /\ MoveAndWake(j, "idle", n, n)
    BY <1>3, <2>1 DEF ResumeAndRelease
  <2> QED BY <1>1, <2>2, LeaveAndWake
<1>4. ASSUME pc[j] \notin LinePC, EndAndRelease(j), UNCHANGED waiters
      PROVE  LineInv'
  BY <1>4, EndOutside
<1>5. ASSUME pc[j] \notin LinePC, pc' = [pc EXCEPT ![j] = where],
             UNCHANGED poolVars
      PROVE  LineInv'
  BY <1>1, <1>5, StayOutside
<1> QED
  BY <1>2, <1>3, <1>4, <1>5

(* The places outside the line.                                            *)
LEMMA OutsideLine ==
  {"idle", "connecting", "reading", "closing", "cooldown", "polling"}
    \cap LinePC = {}
  BY DEF LinePC

-----------------------------------------------------------------------------
(* Every step keeps the line.                                              *)

(* The steps inside async_probe_device.                                    *)
LEMMA ProbeDeviceLine ==
  ASSUME InvL, NEW j \in Jobs,
         ConnectSucceeds(j) \/ ConnectFails(j) \/ ReadDone(j)
  PROVE  LineInv'
<1>1. StillCancelled(j) /\ pc[j] \notin LinePC /\ UNCHANGED poolVars
  BY OutsideLine DEF ConnectSucceeds, ConnectFails, ReadDone, StillCancelled
<1>2. \E w \in {"reading", "closing"} : pc' = [pc EXCEPT ![j] = w]
  BY DEF ConnectSucceeds, ConnectFails, ReadDone
<1> QED
  BY <1>1, <1>2, JobMoves, OutsideLine

LEMMA ProbeStepLine ==
  ASSUME InvL, NEW t \in Probes, ProbeStep(t) \/ ProbeTimeout(t)
  PROVE  LineInv'
<1> USE JobTypes, OutsideLine
<1>1. UNCHANGED cancelReq \/ cancelReq' = cancelReq \ {t} => StillCancelled(t)
  BY DEF StillCancelled
<1>2. CASE ProbeStarts(t)
  BY <1>1, <1>2, JobMoves DEF ProbeStarts
<1>3. CASE ConnectSucceeds(t) \/ ConnectFails(t) \/ ReadDone(t)
  BY <1>3, ProbeDeviceLine
<1>4. CASE TimeoutFires(t)
  BY <1>1, <1>4, JobMoves DEF TimeoutFires
<1>5. ASSUME CloseAndCool(t), StillCancelled(t) PROVE LineInv'
  BY <1>5, JobMoves DEF CloseAndCool
<1>6. ASSUME NEW o, Returned(t, o), StillCancelled(t) PROVE LineInv'
  BY <1>5, <1>6, JobMoves DEF Returned
<1>7. CASE ProbeSupported(t) \/ ProbeErrored(t) \/ ProbeUnsupported(t)
  BY <1>1, <1>6, <1>7 DEF ProbeSupported, ProbeErrored, ProbeUnsupported, Settle
<1>8. CASE ProbeTimedOut(t)
  BY <1>1, <1>5, <1>8 DEF ProbeTimedOut, Settle
<1>9. CASE CooldownDone(t)
  BY <1>1, <1>9, JobMoves DEF CooldownDone
<1>10. CASE CancelledInLine(t)
  BY <1>1, <1>10, JobMoves DEF CancelledInLine
<1>11. CASE CancelledConnected(t)
  BY <1>1, <1>11, JobMoves DEF CancelledConnected
<1>12. CASE CancelledUnwinds(t)
  BY <1>1, <1>12, JobMoves DEF CancelledUnwinds
<1>13. CASE CancelledInCooldown(t)
  BY <1>1, <1>13, JobMoves DEF CancelledInCooldown
<1> QED
  BY <1>2, <1>3, <1>4, <1>7, <1>8, <1>9, <1>10, <1>11, <1>12, <1>13
     DEF ProbeStep, ProbeTimeout

(* What a poll does with its slot is not done in the line.                 *)
LEMMA PollWorkOutside ==
  ASSUME InvL, NEW a \in Addrs
  PROVE  PollWork(a) \notin LinePC
  BY DEF PollWork, LinePC, InvL, IInv, RestOK, Results

LEMMA PollStepLine ==
  ASSUME InvL, NEW p \in Polls, PollStep(p)
  PROVE  LineInv'
<1> USE JobTypes, OutsideLine
<1>1. UNCHANGED cancelReq => StillCancelled(p)
  BY DEF StillCancelled
<1>2. CASE PollResumes(p)
  BY <1>1, <1>2, JobMoves, PollWorkOutside, JobTypes DEF PollResumes
<1>3. CASE ConnectSucceeds(p) \/ ConnectFails(p) \/ ReadDone(p)
  BY <1>3, ProbeDeviceLine
<1>4. CASE PollProbeDone(p)
  BY <1>1, <1>4, JobMoves DEF PollProbeDone, poolVars
<1>5. CASE PollReadDone(p)
  BY <1>1, <1>5, JobMoves DEF PollReadDone
<1> QED
  BY <1>2, <1>3, <1>4, <1>5 DEF PollStep

LEMMA EnvironmentLine ==
  ASSUME InvL, NEW a \in Addrs, Environment(a)
  PROVE  LineInv'
<1> USE JobTypes, OutsideLine
<1>1. ASSUME NEW t \in Probes, ScheduleProbe(t, a) PROVE LineInv'
  <2>1. cancelReq' = cancelReq /\ pc[t] = "idle"
    BY <1>1 DEF ScheduleProbe
  <2>2. CASE ~Locked(cancelReq) /\ TakeSlot(t, "connecting")
    BY <2>1, <2>2, TakeOutside
  <2>3. CASE Locked(cancelReq) /\ JoinLine(t)
    BY <2>1, <2>3, JoinBehind
  <2> QED BY <1>1, <2>2, <2>3 DEF ScheduleProbe
<1>2. ASSUME NEW t \in Probes, ScheduleProbeFailsAtOnce(t, a) PROVE LineInv'
  <2>1. /\ cancelReq' = cancelReq /\ pc[t] = "idle"
        /\ ~Locked(cancelReq) /\ TakeSlot(t, "cooldown")
    BY <1>2 DEF ScheduleProbeFailsAtOnce
  <2> QED BY <2>1, TakeOutside
<1>3. CASE ForgetDevices({a})
  BY <1>3, LineUntouched DEF ForgetDevices
<1>4. CASE EntryAdded(a)
  BY <1>4, LineUntouched DEF EntryAdded
<1> QED
  BY <1>1, <1>2, <1>3, <1>4 DEF Environment

LEMMA PollBeginsLine ==
  ASSUME InvL, NEW p \in Polls, PollBegins(p)
  PROVE  LineInv'
<1> USE JobTypes, OutsideLine
<1>1. CASE PollFromCache(p)
  BY <1>1, LineUntouched DEF PollFromCache
<1>2. CASE PollStarts(p)
  <2>1. cancelReq \subseteq cancelReq' /\ pc[p] = "idle"
    BY <1>2 DEF PollStarts, Preempt
  <2>2. CASE Locked(cancelReq')
    BY <1>2, <2>1, <2>2, JoinBehind DEF PollStarts
  <2>3. CASE ~Locked(cancelReq') /\ TakeSlot(p, PollWork(PollOf[p]))
    BY <2>1, <2>3, TakeOutside, PollWorkOutside
  <2>4. CASE UNCHANGED <<poolVars, pc>>
    BY <2>1, <2>4, LineUntouched
  <2> QED BY <1>2, <2>2, <2>3, <2>4 DEF PollStarts
<1> QED
  BY <1>1, <1>2 DEF PollBegins

(* The line is kept by every step.                                         *)
LEMMA LineStep ==
  ASSUME InvL, [Next]_vars
  PROVE  LineInv'
<1>1. CASE StopBegins
  BY <1>1, LineUntouched DEF StopBegins
<1>2. CASE StopReturns
  BY <1>2, LineUntouched DEF StopReturns
<1>3. ASSUME NEW a \in Addrs, EntryRemoved(a) PROVE LineInv'
  BY <1>3, LineUntouched DEF EntryRemoved
<1>4. CASE UNCHANGED vars
  BY <1>4, LineUntouched DEF vars
<1> QED
  BY <1>1, <1>2, <1>3, <1>4, ProbeStepLine, PollStepLine, PollBeginsLine,
     EnvironmentLine DEF Next, NextButRemoval

LEMMA InvLHolds == Spec => []InvL
<1>1. Init => LineInv
  BY DEF Init, LineInv, LineIsSuspended, NoLostWakeup
<1>2. InvL /\ [Next]_vars => InvL'
  BY LineStep, IInvStep DEF InvL
<1> QED
  BY <1>1, <1>2, InitIInv, PTL DEF Spec, InvL

-----------------------------------------------------------------------------
(* The line as the slot pool sees it.                                      *)

(* The jobs that wait.                                                     *)
StillWaiting == {j \in Jobs : pc[j] = "queued" /\ j \notin cancelReq}

(* The pairs of members of Q in the order in which they stand in w.        *)
OrderOf(w, Q) ==
  {p \in Q \X Q : \E m, n \in DOMAIN w : m <= n /\ w[m] = p[1] /\ w[n] = p[2]}

(* The order of the places is the order of those who stand in them.        *)
LEMMA OrderOfPlaces ==
  ASSUME NEW w, NEW Q
  PROVE  LET P == {i \in DOMAIN w : w[i] \in Q}
         IN  {<<w[p[1]], w[p[2]]>> : p \in {q \in P \X P : q[1] <= q[2]}}
               = OrderOf(w, Q)
<1> DEFINE P == {i \in DOMAIN w : w[i] \in Q}
<1>1. P = {i \in DOMAIN w : w[i] \in Q}
  OBVIOUS
<1>2. ASSUME NEW m \in P, NEW n \in P, m <= n
      PROVE  <<w[m], w[n]>> \in OrderOf(w, Q)
  BY <1>1, <1>2 DEF OrderOf
<1>3. ASSUME NEW p \in OrderOf(w, Q)
      PROVE  \E m \in P, n \in P : m <= n /\ p = <<w[m], w[n]>>
  BY <1>1, <1>3 DEF OrderOf
<1>4. ASSUME NEW x
      PROVE  x \in {<<w[p[1]], w[p[2]]>> :
                       p \in {q \in P \X P : q[1] <= q[2]}}
               <=> \E m \in P, n \in P : m <= n /\ x = <<w[m], w[n]>>
  <2> HIDE DEF P
  <2>1. ASSUME NEW m \in P, NEW n \in P, m <= n
        PROVE  /\ <<m, n>> \in {q \in P \X P : q[1] <= q[2]}
               /\ <<m, n>>[1] = m /\ <<m, n>>[2] = n
    BY <2>1
  <2> DEFINE R == {q \in P \X P : q[1] <= q[2]}
  <2>2. \A q \in R : q[1] \in P /\ q[2] \in P /\ q[1] <= q[2]
    OBVIOUS
  <2>3. \A m \in P, n \in P :
          m <= n => <<m, n>> \in R /\ <<m, n>>[1] = m /\ <<m, n>>[2] = n
    BY <2>1
  <2> HIDE DEF R
  <2>4. ASSUME x \in {<<w[p[1]], w[p[2]]>> : p \in R}
        PROVE  \E m \in P, n \in P : m <= n /\ x = <<w[m], w[n]>>
    <3>1. PICK q \in R : x = <<w[q[1]], w[q[2]]>>
      BY <2>4
    <3> QED BY <2>2, <3>1
  <2>5. ASSUME NEW m \in P, NEW n \in P, m <= n, x = <<w[m], w[n]>>
        PROVE  x \in {<<w[p[1]], w[p[2]]>> : p \in R}
    <3>1. PICK q \in R : q[1] = m /\ q[2] = n
      BY <2>3, <2>5
    <3>2. x = <<w[q[1]], w[q[2]]>>
      BY <2>5, <3>1
    <3> QED BY <3>2
  <2> QED BY <2>4, <2>5 DEF R
<1> HIDE DEF P
<1>5. \A x : x \in {<<w[p[1]], w[p[2]]>> :
                     p \in {q \in P \X P : q[1] <= q[2]}}
             <=> x \in OrderOf(w, Q)
  BY <1>2, <1>3, <1>4
<1> QED
  BY <1>5 DEF P

(* The line of the pool is the order of those who wait.                    *)
LEMMA LineMapped ==
  /\ waiters \in Seq(Jobs) => LineOrder = OrderOf(waiters, StillWaiting)
  /\ waiters' \in Seq(Jobs) => LineOrder' = OrderOf(waiters', StillWaiting')
<1>1. ASSUME waiters \in Seq(Jobs)
      PROVE  PlacesInLine = {i \in DOMAIN waiters : waiters[i] \in StillWaiting}
  BY <1>1 DEF PlacesInLine, Waiting, StillWaiting
<1>2. ASSUME waiters' \in Seq(Jobs)
      PROVE  PlacesInLine' = {i \in DOMAIN waiters' : waiters'[i] \in StillWaiting'}
  BY <1>2 DEF PlacesInLine, Waiting, StillWaiting
<1> QED
  BY <1>1, <1>2, OrderOfPlaces DEF LineOrder

(* Everybody in line is somewhere in its order.                            *)
LEMMA OrderKeys ==
  ASSUME NEW w, DOMAIN w \subseteq Nat, NEW Q, \A j \in Q : \E i \in DOMAIN w : w[i] = j
  PROVE  {p[1] : p \in OrderOf(w, Q)} = Q
<1>1. ASSUME NEW j \in Q PROVE <<j, j>> \in OrderOf(w, Q)
  BY DEF OrderOf
<1>2. \A p \in OrderOf(w, Q) : p[1] \in Q
  BY DEF OrderOf
<1> QED
  BY <1>1, <1>2

(* The order does not depend on a place of somebody who does not wait.     *)
LEMMA OrderRemoved ==
  ASSUME NEW w \in Seq(Jobs), NEW i \in DOMAIN w, NEW Q, w[i] \notin Q
  PROVE  OrderOf(RemoveAt(w, i), Q) = OrderOf(w, Q)
<1> DEFINE v == RemoveAt(w, i)
<1>1. /\ DOMAIN v = 1..(Len(w) - 1) /\ Len(w) \in Nat /\ DOMAIN w = 1..Len(w)
      /\ \A k \in DOMAIN v : v[k] = IF k < i THEN w[k] ELSE w[k + 1]
  BY RemoveAtElements
<1> HIDE DEF v
<1>2. ASSUME NEW p \in OrderOf(v, Q) PROVE p \in OrderOf(w, Q)
  <2>1. PICK m \in DOMAIN v, n \in DOMAIN v : m <= n /\ v[m] = p[1] /\ v[n] = p[2]
    BY DEF OrderOf
  <2> DEFINE mm == IF m < i THEN m ELSE m + 1
             nn == IF n < i THEN n ELSE n + 1
  <2>2. mm \in DOMAIN w /\ nn \in DOMAIN w /\ mm <= nn
    BY <1>1, <2>1
  <2>3. w[mm] = p[1] /\ w[nn] = p[2]
    BY <1>1, <2>1
  <2> QED BY <2>2, <2>3 DEF OrderOf
<1>3. ASSUME NEW p \in OrderOf(w, Q) PROVE p \in OrderOf(v, Q)
  <2>1. PICK m \in DOMAIN w, n \in DOMAIN w : m <= n /\ w[m] = p[1] /\ w[n] = p[2]
    BY DEF OrderOf
  <2>2. m # i /\ n # i
    BY <2>1 DEF OrderOf
  <2> DEFINE mm == IF m < i THEN m ELSE m - 1
             nn == IF n < i THEN n ELSE n - 1
  <2>3. mm \in DOMAIN v /\ nn \in DOMAIN v /\ mm <= nn
    BY <1>1, <2>1, <2>2
  <2>4. v[mm] = p[1] /\ v[nn] = p[2]
    BY <1>1, <2>1, <2>2, <2>3
  <2> QED BY <2>3, <2>4 DEF OrderOf
<1> QED
  BY <1>2, <1>3 DEF v

(* Nor on somebody at the end who does not wait.                           *)
LEMMA OrderAppended ==
  ASSUME NEW w \in Seq(Jobs), NEW j \in Jobs, NEW Q, j \notin Q
  PROVE  OrderOf(Append(w, j), Q) = OrderOf(w, Q)
<1> DEFINE v == Append(w, j)
<1>1. /\ DOMAIN v = 1..(Len(w) + 1) /\ Len(w) \in Nat /\ DOMAIN w = 1..Len(w)
      /\ v[Len(w) + 1] = j /\ \A k \in DOMAIN w : v[k] = w[k]
  OBVIOUS
<1> HIDE DEF v
<1>2. DOMAIN w \subseteq DOMAIN v
      /\ \A k \in DOMAIN v : v[k] \in Q => k \in DOMAIN w /\ v[k] = w[k]
  BY <1>1
<1>3. \A p \in Q \X Q : p[1] \in Q /\ p[2] \in Q
  OBVIOUS
<1>4. ASSUME NEW p \in Q \X Q
      PROVE  (\E m, n \in DOMAIN v : m <= n /\ v[m] = p[1] /\ v[n] = p[2])
               <=> \E m, n \in DOMAIN w : m <= n /\ w[m] = p[1] /\ w[n] = p[2]
  BY <1>1, <1>2, <1>3
<1> QED
  BY <1>4 DEF OrderOf, v

(* Whoever joins comes last.                                               *)
LEMMA OrderJoined ==
  ASSUME NEW w \in Seq(Jobs), NEW j \in Jobs, NEW Q, j \notin Q,
         \A k \in Q : \E i \in DOMAIN w : w[i] = k,
         \A i \in DOMAIN w : w[i] # j
  PROVE  OrderOf(Append(w, j), Q \cup {j})
           = OrderOf(w, Q) \cup ((Q \cup {j}) \X {j})
<1> DEFINE v == Append(w, j)
<1>1. /\ DOMAIN v = 1..(Len(w) + 1) /\ Len(w) \in Nat /\ DOMAIN w = 1..Len(w)
      /\ v[Len(w) + 1] = j /\ \A k \in DOMAIN w : v[k] = w[k]
  OBVIOUS
<1> HIDE DEF v
<1>2. \A k \in Q \cup {j} : \E i \in DOMAIN v : v[i] = k
  BY <1>1
<1>3. ASSUME NEW p \in OrderOf(v, Q \cup {j})
      PROVE  p \in OrderOf(w, Q) \cup ((Q \cup {j}) \X {j})
  <2>1. PICK m \in DOMAIN v, n \in DOMAIN v : m <= n /\ v[m] = p[1] /\ v[n] = p[2]
    BY DEF OrderOf
  <2>2. p \in (Q \cup {j}) \X (Q \cup {j})
    BY DEF OrderOf
  <2>3. CASE n = Len(w) + 1
    BY <1>1, <2>1, <2>2, <2>3
  <2>4. CASE n # Len(w) + 1
    <3>1. n \in DOMAIN w /\ m \in DOMAIN w
      BY <1>1, <2>1, <2>4
    <3>2. p[1] \in Q /\ p[2] \in Q /\ w[m] = p[1] /\ w[n] = p[2]
      BY <1>1, <2>1, <2>2, <3>1
    <3> QED BY <2>1, <2>2, <3>1, <3>2 DEF OrderOf
  <2> QED BY <2>3, <2>4
<1>4. ASSUME NEW p \in OrderOf(w, Q) PROVE p \in OrderOf(v, Q \cup {j})
  <2>1. PICK m \in DOMAIN w, n \in DOMAIN w : m <= n /\ w[m] = p[1] /\ w[n] = p[2]
    BY DEF OrderOf
  <2>2. m \in DOMAIN v /\ n \in DOMAIN v /\ v[m] = p[1] /\ v[n] = p[2]
    BY <1>1, <2>1
  <2> QED BY <2>1, <2>2 DEF OrderOf
<1>5. ASSUME NEW k \in Q \cup {j} PROVE <<k, j>> \in OrderOf(v, Q \cup {j})
  <2>1. PICK i \in DOMAIN v : v[i] = k
    BY <1>2
  <2>2. i <= Len(w) + 1 /\ Len(w) + 1 \in DOMAIN v
    BY <1>1
  <2> QED BY <1>1, <2>1, <2>2 DEF OrderOf
<1>6. ASSUME NEW p \in (Q \cup {j}) \X {j}
      PROVE  p \in OrderOf(v, Q \cup {j})
  <2>1. p[1] \in Q \cup {j} /\ p = <<p[1], j>>
    OBVIOUS
  <2> QED BY <1>5, <2>1
<1> QED
  BY <1>3, <1>4, <1>6 DEF v

(* What the pool's definitions say of the semaphore.                       *)
LEMMA PoolSeen ==
  ASSUME waiters \in Seq(Jobs), LineIsSuspended
  PROVE  /\ \A j \in StillWaiting : \E i \in DOMAIN waiters : waiters[i] = j
         /\ Pool!InLine = StillWaiting
         /\ \A S : Pool!LineWithout(S) = OrderOf(waiters, StillWaiting \ S)
<1>1. \A j \in StillWaiting : \E i \in DOMAIN waiters : waiters[i] = j
  BY DEF StillWaiting, LineIsSuspended
<1>2. DOMAIN waiters \subseteq Nat
  OBVIOUS
<1>3. Pool!InLine = StillWaiting
  BY <1>1, <1>2, LineMapped, OrderKeys DEF Pool!InLine
<1>4. ASSUME NEW S
      PROVE  Pool!LineWithout(S) = OrderOf(waiters, StillWaiting \ S)
  <2>1. Pool!LineWithout(S) = {p \in OrderOf(waiters, StillWaiting) :
                                p[1] \notin S /\ p[2] \notin S}
    BY LineMapped DEF Pool!LineWithout
  <2> QED BY <2>1 DEF OrderOf
<1> QED
  BY <1>1, <1>3, <1>4

(* A move with its wake-ups, seen from the pool.                           *)
LEMMA MoveCounted ==
  ASSUME IInv, NEW j \in Jobs, j \notin StillWaiting, NEW where, where # "queued",
         NEW value \in Nat, NEW n \in Nat, MoveAndWake(j, where, value, n),
         cancelReq' \ {j} = cancelReq \ {j}
  PROVE  /\ Woken(n) \subseteq StillWaiting
         /\ StillWaiting' = StillWaiting \ Woken(n)
         /\ Holders' = (Holders \ {j}) \cup Woken(n)
                         \cup (IF where \in HoldingPC THEN {j} ELSE {})
<1>1. Woken(n) \subseteq StillWaiting /\ pc \in [Jobs -> PCs]
  BY WokenFacts DEF IInv, PoolOK, StillWaiting
<1>2. pc' = [k \in Jobs |-> IF k = j THEN where
                            ELSE IF k \in Woken(n) THEN "granted" ELSE pc[k]]
  BY DEF MoveAndWake
<1>3. ASSUME NEW k \in Jobs
      PROVE  k \in StillWaiting' <=> k \in StillWaiting \ Woken(n)
  BY <1>1, <1>2 DEF StillWaiting
<1>4. ASSUME NEW k \in Jobs
      PROVE  k \in Holders' <=> \/ k \in Holders \ {j} \/ k \in Woken(n)
                                \/ k = j /\ where \in HoldingPC
  BY <1>1, <1>2 DEF Holders, HoldingPC, StillWaiting
<1>5. StillWaiting' \subseteq Jobs /\ StillWaiting \subseteq Jobs
      /\ Holders' \subseteq Jobs /\ Holders \subseteq Jobs
  BY DEF StillWaiting, Holders
<1>6. StillWaiting' = StillWaiting \ Woken(n)
  BY <1>3, <1>5
<1>7. Holders' = (Holders \ {j}) \cup Woken(n)
                  \cup (IF where \in HoldingPC THEN {j} ELSE {})
  BY <1>1, <1>4, <1>5
<1> QED
  BY <1>1, <1>6, <1>7

(* Those who are woken stand at the front.                                 *)
LEMMA WokenAtFront ==
  ASSUME waiters \in Seq(Jobs), LineIsSuspended, NEW n \in Nat
  PROVE  Pool!AtFront(Woken(n))
<1> DEFINE W == {k \in 1..Len(waiters) : Waiting(k)}
           Ahead(k) == {h \in 1..(k - 1) : Waiting(h)}
<1>1. Len(waiters) \in Nat /\ DOMAIN waiters = 1..Len(waiters)
  OBVIOUS
<1>2. ASSUME NEW k \in DOMAIN waiters
      PROVE  IsFiniteSet(Ahead(k)) /\ Cardinality(Ahead(k)) \in Nat
  <2>1. PICK b \in Int : b = k - 1
    BY <1>1
  <2>2. Ahead(k) \in SUBSET (1..b)
    BY <2>1
  <2>3. IsFiniteSet(1..b)
    BY FS_Interval
  <2> HIDE DEF Ahead
  <2> QED BY <2>2, <2>3, FS_Subset, FS_CardinalityType
<1>3. ASSUME NEW j \in Woken(n), NEW i \in StillWaiting,
             <<i, j>> \in OrderOf(waiters, StillWaiting)
      PROVE  i \in Woken(n)
  <2>1. PICK k \in DOMAIN waiters :
          waiters[k] = j /\ Waiting(k) /\ Cardinality(Ahead(k)) < n
    BY DEF Woken
  <2>2. PICK m \in DOMAIN waiters, l \in DOMAIN waiters :
          m <= l /\ waiters[m] = i /\ waiters[l] = j
    BY <1>3 DEF OrderOf
  <2>3. m <= k
    BY <2>1, <2>2 DEF LineIsSuspended
  <2>4. Waiting(m)
    BY <2>2 DEF Waiting, StillWaiting
  <2>5. Ahead(m) \in SUBSET Ahead(k)
    BY <1>1, <2>3
  <2>6. Cardinality(Ahead(m)) <= Cardinality(Ahead(k))
    <3> HIDE DEF Ahead
    <3> QED BY <1>2, <2>5, FS_Subset
  <2>7. Cardinality(Ahead(m)) < n
    <3> HIDE DEF Ahead
    <3> QED BY <1>2, <2>1, <2>6
  <2> QED BY <2>2, <2>4, <2>7 DEF Woken
<1> QED
  BY <1>3, PoolSeen, LineMapped DEF Pool!AtFront

(* The pool counts as its instance does.                                   *)
LEMMA SameCount == ASSUME NEW S PROVE Pool!Cardinality(S) = Cardinality(S)
  BY DEF Pool!Cardinality, Cardinality

(* Nobody owns a slot beyond those there are.                              *)
LEMMA NeverTooMany ==
  ASSUME IInv'
  PROVE  Pool!Cardinality(Holders') <= MaxConcurrent
<1>1. IsFiniteSet(Jobs) /\ Holders' \in SUBSET Jobs
  BY PollsAssumption, ProbesAssumption, FS_Union DEF Jobs, Holders
<1>2. Cardinality(Holders') \in Nat
  BY <1>1, FS_Subset, FS_CardinalityType
<1> QED
  BY <1>2, SameCount, SlotsAssumption DEF IInv, PoolOK, SlotConservation

(* A step of the pool, or none.                                            *)
PoolMoves == [Pool!PoolNext]_(Pool!poolVars)

(* A release, a hand-over of what is free, or nothing.                     *)
LEMMA Served ==
  ASSUME InvL, IInv', NEW j \in Jobs, j \notin StillWaiting,
         NEW where, where # "queued", NEW value \in Nat, NEW n \in Nat,
         MoveAndWake(j, where, value, n), cancelReq' \ {j} = cancelReq \ {j},
         UNCHANGED waiters \/ LeaveLine(j), j \in Holders \/ where \notin HoldingPC
  PROVE  PoolMoves
<1> DEFINE G == Woken(n)
<1>1. /\ G \subseteq StillWaiting /\ StillWaiting' = StillWaiting \ G
      /\ Holders' = (Holders \ {j}) \cup G
                      \cup (IF where \in HoldingPC THEN {j} ELSE {})
  BY MoveCounted DEF InvL
<1>2. waiters \in Seq(Jobs) /\ LineIsSuspended /\ waiters' \in Seq(Jobs)
  BY DEF InvL, IInv, PoolOK, LineInv
<1>3. Pool!AtFront(G) /\ Pool!InLine = StillWaiting
  BY <1>2, WokenAtFront, PoolSeen
<1>4. OrderOf(waiters', StillWaiting') = OrderOf(waiters, StillWaiting')
  BY <1>1, <1>2, OrderRemoved DEF LeaveLine
<1>5. LineOrder' = Pool!LineWithout(G)
  BY <1>1, <1>2, <1>4, LineMapped, PoolSeen
<1>6. Pool!Cardinality(Holders') <= MaxConcurrent
  BY NeverTooMany
<1> HIDE DEF G
<1>7. CASE Holders' = (Holders \ {j}) \cup G /\ j \in Holders
  <2>1. Pool!Serve({j}, G)
    BY <1>3, <1>5, <1>6, <1>7 DEF Pool!Serve
  <2>2. Pool!Release(j)
    BY <1>1, <1>3, <1>7, <2>1 DEF Pool!Release
  <2> QED BY <2>2 DEF PoolMoves, Pool!PoolNext
<1>8. CASE Holders' = Holders \cup G
  <2>1. CASE G = {}
    <3>1. LineOrder' = LineOrder
      BY <1>2, <1>5, <2>1, LineMapped, PoolSeen
    <3> QED BY <1>8, <2>1, <3>1 DEF PoolMoves, Pool!poolVars
  <2>2. CASE G # {}
    <3>1. Holders' = (Holders \ {}) \cup G
      BY <1>8
    <3>2. Pool!Serve({}, G)
      BY <1>3, <1>5, <1>6, <3>1 DEF Pool!Serve
    <3>3. Pool!Grant
      BY <1>1, <1>3, <2>2, <3>2 DEF Pool!Grant
    <3> QED BY <3>3 DEF PoolMoves, Pool!PoolNext
  <2> QED BY <2>1, <2>2
<1> QED
  BY <1>1, <1>7, <1>8

(* Jobs give up their places, or nothing.                                  *)
LEMMA Withdrawn ==
  ASSUME InvL, IInv', UNCHANGED <<waiters, Holders>>,
         StillWaiting' \subseteq StillWaiting
  PROVE  PoolMoves
<1> DEFINE S == StillWaiting \ StillWaiting'
<1>1. waiters \in Seq(Jobs) /\ LineIsSuspended
  BY DEF InvL, IInv, PoolOK, LineInv
<1>2. StillWaiting \ S = StillWaiting'
  OBVIOUS
<1>3. LineOrder' = Pool!LineWithout(S)
  BY <1>1, <1>2, LineMapped, PoolSeen
<1>4. S \in SUBSET Pool!InLine
  BY <1>1, PoolSeen
<1> HIDE DEF S
<1> QED
  BY <1>3, <1>4 DEF PoolMoves, Pool!PoolNext, Pool!Withdraw

(* A job takes a slot that nobody waits for.                               *)
LEMMA Seated ==
  ASSUME InvL, NEW j \in Jobs, pc[j] = "idle", NEW where \in HoldingPC,
         ~Locked(cancelReq'), TakeSlot(j, where), cancelReq \subseteq cancelReq'
  PROVE  PoolMoves
<1>1. /\ waiters \in Seq(Jobs) /\ LineIsSuspended /\ waiters' = waiters
      /\ pc \in [Jobs -> PCs] /\ pc' = [pc EXCEPT ![j] = where]
      /\ free \in Nat /\ SlotConservation
  BY DEF InvL, IInv, PoolOK, LineInv, TakeSlot
<1>2. j \notin StillWaiting \cup Holders
  BY DEF StillWaiting, Holders, HoldingPC
<1>3. Holders' = Holders \cup {j}
  BY <1>1 DEF Holders
<1>4. StillWaiting' = {}
  <2> SUFFICES ASSUME NEW k \in StillWaiting' PROVE FALSE
    OBVIOUS
  <2>1. k \in StillWaiting /\ k \notin cancelReq'
    BY <1>1 DEF StillWaiting, HoldingPC
  <2>2. PICK i \in DOMAIN waiters : waiters[i] = k
    BY <1>1, <2>1, PoolSeen
  <2> QED BY <2>1, <2>2 DEF Locked
<1>5. LineOrder' = {}
  BY <1>1, <1>4, LineMapped DEF OrderOf
<1>6. Pool!Cardinality(Holders) < MaxConcurrent
  <2>1. free # 0
    BY DEF Locked
  <2> QED
    BY <1>1, <2>1, HoldersFinite, SameCount, SlotsAssumption DEF SlotConservation
<1>7. Pool!Request(j, Pool!InLine)
  BY <1>1, <1>2, <1>3, <1>5, <1>6, PoolSeen DEF Pool!Request
<1> QED
  BY <1>7 DEF PoolMoves, Pool!PoolNext

(* A job joins the line.                                                   *)
LEMMA Joined ==
  ASSUME InvL, NEW j \in Jobs, pc[j] = "idle", JoinLine(j),
         cancelReq \subseteq cancelReq'
  PROVE  PoolMoves
<1> DEFINE S == StillWaiting \ StillWaiting'
<1>1. /\ waiters \in Seq(Jobs) /\ LineIsSuspended /\ waiters' = Append(waiters, j)
      /\ pc \in [Jobs -> PCs] /\ pc' = [pc EXCEPT ![j] = "queued"]
      /\ waiters' \in Seq(Jobs)
  BY DEF InvL, IInv, PoolOK, LineInv, JoinLine
<1>2. j \notin StillWaiting \cup Holders /\ Holders' = Holders
  BY <1>1 DEF StillWaiting, Holders, HoldingPC
<1>3. S \in SUBSET Pool!InLine /\ Pool!InLine = StillWaiting
  BY <1>1, PoolSeen
<1>4. StillWaiting' \subseteq StillWaiting \cup {j}
  BY <1>1 DEF StillWaiting
<1>5. StillWaiting \ S = StillWaiting' \ {j}
  BY <1>2, <1>4
<1>6. CASE j \in StillWaiting'
  <2> DEFINE Q == StillWaiting \ S
  <2>1. Q \cup {j} = StillWaiting' /\ j \notin Q
    BY <1>5, <1>6
  <2>2. /\ \A k \in Q : \E i \in DOMAIN waiters : waiters[i] = k
        /\ \A i \in DOMAIN waiters : waiters[i] # j
    BY <1>1, PoolSeen DEF LineIsSuspended
  <2> HIDE DEF Q
  <2>3. OrderOf(waiters', StillWaiting')
          = OrderOf(waiters, Q) \cup ((Q \cup {j}) \X {j})
    BY <1>1, <2>1, <2>2, OrderJoined
  <2>4. LineOrder' = Pool!LineWithout(S) \cup (((Pool!InLine \ S) \cup {j}) \X {j})
    BY <1>1, <1>3, <2>3, LineMapped, PoolSeen DEF Q
  <2>5. Pool!Request(j, S)
    BY <1>2, <1>3, <2>4 DEF Pool!Request
  <2> HIDE DEF S
  <2> QED BY <1>3, <2>5 DEF PoolMoves, Pool!PoolNext
<1>7. CASE j \notin StillWaiting'
  <2>1. StillWaiting \ S = StillWaiting'
    BY <1>5, <1>7
  <2>2. LineOrder' = Pool!LineWithout(S)
    BY <1>1, <1>7, <2>1, OrderAppended, LineMapped, PoolSeen
  <2> HIDE DEF S
  <2> QED BY <1>2, <1>3, <2>2 DEF PoolMoves, Pool!PoolNext, Pool!Withdraw
<1> QED
  BY <1>6, <1>7

(* Nothing moves, and at most more jobs are told to stop.                  *)
LEMMA PoolUntouched ==
  ASSUME InvL, IInv', UNCHANGED <<poolVars, pc>>, cancelReq \subseteq cancelReq'
  PROVE  PoolMoves
  BY Withdrawn DEF poolVars, Holders, StillWaiting

(* The moves of a job that does not join the line, together.               *)
LEMMA JobMovesInPool ==
  ASSUME InvL, IInv', NEW j \in Jobs, NEW where, where # "queued",
         j \notin StillWaiting, cancelReq' \ {j} = cancelReq \ {j},
         j \in Holders \/ where \notin HoldingPC
  PROVE  /\ Resume(j, where) => PoolMoves
         /\ ResumeAndRelease(j) => PoolMoves
         /\ EndAndRelease(j) /\ UNCHANGED waiters => PoolMoves
         /\ pc[j] # "queued" /\ where \in HoldingPC /\ UNCHANGED poolVars
              /\ pc' = [pc EXCEPT ![j] = where] => PoolMoves
<1>1. free \in Nat /\ free + 1 \in Nat /\ "idle" \notin HoldingPC
      /\ pc \in [Jobs -> PCs]
  BY DEF InvL, IInv, PoolOK, HoldingPC
<1>2. ASSUME Resume(j, where) PROVE PoolMoves
  BY <1>1, <1>2, Served DEF Resume
<1>3. ASSUME ResumeAndRelease(j) PROVE PoolMoves
  <2>1. PICK n \in Nat : n = free + 1
    BY <1>1
  <2>2. LeaveLine(j) /\ MoveAndWake(j, "idle", n, n)
    BY <1>3, <2>1 DEF ResumeAndRelease
  <2> QED BY <1>1, <2>2, Served
<1>4. ASSUME EndAndRelease(j), UNCHANGED waiters PROVE PoolMoves
  <2>1. PICK v \in Nat, n \in Nat : v = free + 1 /\ n = 1
    BY <1>1
  <2>2. MoveAndWake(j, "idle", v, n)
    BY <1>4, <2>1 DEF EndAndRelease
  <2> QED BY <1>1, <1>4, <2>2, Served
<1>5. ASSUME pc[j] # "queued", where \in HoldingPC, UNCHANGED poolVars,
             pc' = [pc EXCEPT ![j] = where]
      PROVE  PoolMoves
  <2>1. Holders' = Holders /\ StillWaiting' \subseteq StillWaiting
        /\ UNCHANGED waiters
    BY <1>1, <1>5 DEF Holders, StillWaiting, HoldingPC, poolVars
  <2> QED BY <2>1, Withdrawn
<1> QED
  BY <1>2, <1>3, <1>4, <1>5

-----------------------------------------------------------------------------
(* Every step is a step of the pool.                                       *)

(* What a job that moves inside the semaphore owns, and who does not wait. *)
LEMMA OwnersAndWaiters ==
  ASSUME NEW j \in Jobs
  PROVE  /\ pc[j] \in HoldingPC => j \in Holders
         /\ pc[j] # "queued" \/ j \in cancelReq => j \notin StillWaiting
         /\ {"granted", "connecting", "reading", "closing", "cooldown",
             "polling"} \subseteq HoldingPC
         /\ "idle" \notin HoldingPC /\ "queued" \notin HoldingPC
  BY DEF Holders, StillWaiting, HoldingPC

LEMMA ProbeDeviceServes ==
  ASSUME InvL, IInv', NEW j \in Jobs,
         ConnectSucceeds(j) \/ ConnectFails(j) \/ ReadDone(j)
  PROVE  PoolMoves
<1>1. /\ pc[j] \in {"connecting", "reading"} /\ UNCHANGED poolVars
      /\ cancelReq' \ {j} = cancelReq \ {j}
  BY DEF ConnectSucceeds, ConnectFails, ReadDone
<1>2. \E w \in {"reading", "closing"} : pc' = [pc EXCEPT ![j] = w]
  BY DEF ConnectSucceeds, ConnectFails, ReadDone
<1> QED
  BY <1>1, <1>2, JobMovesInPool, OwnersAndWaiters

LEMMA ProbeStepServes ==
  ASSUME InvL, IInv', NEW t \in Probes, ProbeStep(t) \/ ProbeTimeout(t)
  PROVE  PoolMoves
<1> USE JobTypes
<1> DEFINE Others == cancelReq' \ {t} = cancelReq \ {t}
<1>1. UNCHANGED cancelReq \/ cancelReq' = cancelReq \ {t} => Others
  OBVIOUS
<1>2. ASSUME NEW where \in {"idle", "connecting", "closing", "cooldown"},
             t \in Holders, t \notin StillWaiting, Others
      PROVE  /\ Resume(t, where) => PoolMoves
             /\ ResumeAndRelease(t) => PoolMoves
             /\ EndAndRelease(t) /\ UNCHANGED waiters => PoolMoves
             /\ pc[t] # "queued" /\ where # "idle" /\ UNCHANGED poolVars
                  /\ pc' = [pc EXCEPT ![t] = where] => PoolMoves
  BY <1>2, JobMovesInPool, OwnersAndWaiters
<1>3. CASE ProbeStarts(t)
  BY <1>1, <1>2, <1>3, OwnersAndWaiters DEF ProbeStarts
<1>4. CASE ConnectSucceeds(t) \/ ConnectFails(t) \/ ReadDone(t)
  BY <1>4, ProbeDeviceServes
<1>5. CASE TimeoutFires(t)
  BY <1>1, <1>2, <1>5, OwnersAndWaiters DEF TimeoutFires
<1>6. ASSUME CloseAndCool(t), Others PROVE PoolMoves
  BY <1>2, <1>6, OwnersAndWaiters DEF CloseAndCool
<1>7. ASSUME NEW o, Returned(t, o), Others PROVE PoolMoves
  BY <1>2, <1>6, <1>7, OwnersAndWaiters DEF Returned
<1>8. CASE ProbeSupported(t) \/ ProbeErrored(t) \/ ProbeUnsupported(t)
  <2>1. Others /\ \E o : Returned(t, o)
    BY <1>1, <1>8 DEF ProbeSupported, ProbeErrored, ProbeUnsupported, Settle
  <2> HIDE DEF Others
  <2> QED BY <1>7, <2>1
<1>9. CASE ProbeTimedOut(t)
  BY <1>1, <1>6, <1>9 DEF ProbeTimedOut, Settle
<1>10. CASE CooldownDone(t)
  BY <1>1, <1>2, <1>10, OwnersAndWaiters DEF CooldownDone
<1>11. CASE CancelledInLine(t)
  <2>1. t \notin StillWaiting /\ Others
    BY <1>1, <1>11, OwnersAndWaiters DEF CancelledInLine
  <2>2. CASE pc[t] = "granted" /\ ResumeAndRelease(t)
    BY <1>2, <2>1, <2>2, OwnersAndWaiters
  <2>3. CASE Resume(t, "idle")
    BY <2>1, <2>3, JobMovesInPool, OwnersAndWaiters
  <2> QED BY <1>11, <2>2, <2>3 DEF CancelledInLine
<1>12. CASE CancelledConnected(t)
  BY <1>1, <1>2, <1>12, OwnersAndWaiters DEF CancelledConnected
<1>13. CASE CancelledUnwinds(t) \/ CancelledInCooldown(t)
  BY <1>1, <1>2, <1>13, OwnersAndWaiters
     DEF CancelledUnwinds, CancelledInCooldown
<1> QED
  BY <1>3, <1>4, <1>5, <1>8, <1>9, <1>10, <1>11, <1>12, <1>13
     DEF ProbeStep, ProbeTimeout

(* What a poll does with its slot keeps it, or nothing is done.            *)
LEMMA PollWorkHolds ==
  ASSUME InvL, NEW a \in Addrs
  PROVE  PollWork(a) = "idle" \/ PollWork(a) \in HoldingPC
  BY DEF PollWork, HoldingPC, InvL, IInv, RestOK, Results

LEMMA PollStepServes ==
  ASSUME InvL, IInv', NEW p \in Polls, PollStep(p)
  PROVE  PoolMoves
<1> USE JobTypes
<1>1. ASSUME NEW where, where = "idle" \/ where \in HoldingPC,
             pc[p] \in HoldingPC, UNCHANGED cancelReq
      PROVE  /\ Resume(p, where) => PoolMoves
             /\ ResumeAndRelease(p) => PoolMoves
             /\ EndAndRelease(p) /\ UNCHANGED waiters => PoolMoves
             /\ where \in HoldingPC /\ UNCHANGED poolVars
                  /\ pc' = [pc EXCEPT ![p] = where] => PoolMoves
  <2>1. /\ p \in Holders /\ p \notin StillWaiting /\ where # "queued"
        /\ pc[p] # "queued" /\ cancelReq' \ {p} = cancelReq \ {p}
    BY <1>1, OwnersAndWaiters
  <2> QED BY <2>1, JobMovesInPool
<1>2. CASE PollResumes(p)
  BY <1>1, <1>2, PollWorkHolds, OwnersAndWaiters DEF PollResumes
<1>3. CASE ConnectSucceeds(p) \/ ConnectFails(p) \/ ReadDone(p)
  BY <1>3, ProbeDeviceServes
<1>4. CASE PollProbeDone(p)
  BY <1>1, <1>4, OwnersAndWaiters DEF PollProbeDone, poolVars
<1>5. CASE PollReadDone(p)
  BY <1>1, <1>5, OwnersAndWaiters DEF PollReadDone
<1> QED
  BY <1>2, <1>3, <1>4, <1>5 DEF PollStep

LEMMA EnvironmentServes ==
  ASSUME InvL, IInv', NEW a \in Addrs, Environment(a)
  PROVE  PoolMoves
<1> USE JobTypes
<1>1. ASSUME NEW t \in Probes, ScheduleProbe(t, a) PROVE PoolMoves
  <2>1. cancelReq' = cancelReq /\ pc[t] = "idle"
    BY <1>1 DEF ScheduleProbe
  <2>2. CASE ~Locked(cancelReq) /\ TakeSlot(t, "connecting")
    BY <2>1, <2>2, Seated, OwnersAndWaiters
  <2>3. CASE JoinLine(t)
    BY <2>1, <2>3, Joined
  <2> QED BY <1>1, <2>2, <2>3 DEF ScheduleProbe
<1>2. ASSUME NEW t \in Probes, ScheduleProbeFailsAtOnce(t, a) PROVE PoolMoves
  <2>1. /\ cancelReq' = cancelReq /\ pc[t] = "idle"
        /\ ~Locked(cancelReq) /\ TakeSlot(t, "cooldown")
    BY <1>2 DEF ScheduleProbeFailsAtOnce
  <2> QED BY <2>1, Seated, OwnersAndWaiters
<1>3. CASE ForgetDevices({a})
  BY <1>3, PoolUntouched DEF ForgetDevices
<1>4. CASE EntryAdded(a)
  BY <1>4, PoolUntouched DEF EntryAdded
<1> QED
  BY <1>1, <1>2, <1>3, <1>4 DEF Environment

LEMMA PollBeginsServes ==
  ASSUME InvL, IInv', NEW p \in Polls, PollBegins(p)
  PROVE  PoolMoves
<1> USE JobTypes
<1>1. CASE PollFromCache(p)
  BY <1>1, PoolUntouched DEF PollFromCache
<1>2. CASE PollStarts(p)
  <2> DEFINE work == PollWork(PollOf[p])
  <2>1. cancelReq \subseteq cancelReq' /\ pc[p] = "idle"
    BY <1>2 DEF PollStarts, Preempt
  <2>2. CASE JoinLine(p)
    BY <2>1, <2>2, Joined
  <2>3. CASE ~Locked(cancelReq') /\ work # "idle" /\ TakeSlot(p, work)
    BY <2>1, <2>3, Seated, PollWorkHolds
  <2>4. CASE UNCHANGED <<poolVars, pc>>
    BY <2>1, <2>4, PoolUntouched
  <2> QED BY <1>2, <2>2, <2>3, <2>4 DEF PollStarts
<1> QED
  BY <1>1, <1>2 DEF PollBegins

LEMMA StepServes ==
  ASSUME InvL, IInv', [Next]_vars
  PROVE  PoolMoves
<1>1. CASE StopBegins
  BY <1>1, PoolUntouched DEF StopBegins
<1>2. CASE StopReturns
  BY <1>2, PoolUntouched DEF StopReturns
<1>3. ASSUME NEW a \in Addrs, EntryRemoved(a) PROVE PoolMoves
  BY <1>3, PoolUntouched DEF EntryRemoved
<1>4. CASE UNCHANGED vars
  BY <1>4, PoolUntouched DEF vars
<1> QED
  BY <1>1, <1>2, <1>3, <1>4, ProbeStepServes, PollStepServes, PollBeginsServes,
     EnvironmentServes DEF Next, NextButRemoval

(* Nobody holds a slot and nobody waits when the manager is created.       *)
LEMMA PoolStartsEmpty == Init => Pool!PoolInit
<1> SUFFICES ASSUME Init PROVE Pool!PoolInit
  OBVIOUS
<1>1. Holders = {} /\ PlacesInLine = {}
  BY DEF Init, Holders, HoldingPC, PlacesInLine
<1> QED BY <1>1 DEF Pool!PoolInit, LineOrder

-----------------------------------------------------------------------------
(* The theorems.                                                           *)

(* The semaphore's queue holds the futures of the jobs suspended in        *)
(* acquire(), each once, wherever a cancellation meets them.               *)
THEOREM LineSuspended == Spec => []LineIsSuspended
<1>1. InvL => LineIsSuspended
  BY DEF InvL, LineInv
<1> QED
  BY <1>1, InvLHolds, PTL

(* No wake-up is lost: while a slot is free, whoever waits has somebody    *)
(* ahead who was woken and has not run yet, so no slot lies idle with a    *)
(* job in line for ever.                                                   *)
THEOREM NoWakeupLost == Spec => []NoLostWakeup
<1>1. InvL => NoLostWakeup
  BY DEF InvL, LineInv
<1> QED
  BY <1>1, InvLHolds, PTL

(* The semaphore is a slot pool: through every cancellation, timeout and   *)
(* preemption it hands out no more slots than there are, in the order in   *)
(* which the jobs that still wait came, and to nobody else.                *)
THEOREM SlotPoolImplemented == Spec => PoolImplemented
<1>1. InvL /\ InvL' /\ [Next]_vars => PoolMoves
  BY StepServes DEF InvL
<1> QED
  BY PoolStartsEmpty, <1>1, InvLHolds, PTL DEF Spec, PoolImplemented, Pool!PoolSpec, PoolMoves
=============================================================================
