--------------------------- MODULE EntitiesProofs ---------------------------
(***************************************************************************)
(* The sensors of a device and its readings, for every set of              *)
(* characteristics, all bodies their readings may have and any number of   *)
(* changes.                                                                *)
(***************************************************************************)
EXTENDS EntitiesProps, SequenceTheorems, TLAPS

(* The device and its jobs.                                                *)
JobsOK ==
  /\ DOMAIN reading = Chars
  /\ \A c \in Chars : /\ reading[c].version \in 0..MaxVersion
                      /\ reading[c].body \in Bodies[c]
  /\ loaded \in BOOLEAN /\ probed \in BOOLEAN
  /\ DOMAIN job = JobNames
  /\ job["probe"] \in {"idle", "waiting", "reading"}
  /\ job["poll"] \in {"idle", "connecting", "reading", "discovering"}
  /\ todo \in [JobNames -> Seq(Readable)]
  /\ DOMAIN got = JobNames
  /\ DOMAIN cache \subseteq Readable
  /\ \A j \in JobNames : DOMAIN got[j] \subseteq Readable

(* Every key that has a value was described and published.                 *)
ViewOK ==
  /\ \A k \in described : k[1] \in Paths /\ k[2] \in Chars
  /\ DOMAIN data \subseteq described
  /\ \A k \in DOMAIN data : /\ k = <<k[1], k[2], k[3]>>
                             /\ k[2] \in DOMAIN latest[k[1]]
  /\ StaleOnlyIfReshaped

EInv == JobsOK /\ ViewOK

-----------------------------------------------------------------------------
(* Publishing.                                                             *)

(* What gets a value is described.                                         *)
LEMMA DataDescribed ==
  \A p, body : DataNames(p, body) \subseteq DescribedNames(p, body)
  BY DEF DataNames, DescribedNames

(* A described name without a value is a special value in service data.    *)
LEMMA DescribedWithoutData ==
  \A p, body : \A n \in DescribedNames(p, body) \ DataNames(p, body) :
    p = "service" /\ body.kind = "special"
  BY DEF DataNames, DescribedNames

LEMMA PublishKeeps ==
  ASSUME ViewOK, NEW rs, NEW ps, DOMAIN rs \subseteq Chars,
         \A c \in DOMAIN rs : ps[c] \in Paths, Publish(rs, ps)
  PROVE  ViewOK'
<1> DEFINE new == DataKeys(rs, ps)
           part(p) == {d \in DOMAIN rs : ps[d] = p}
<1>1. /\ DOMAIN data' = new \cup DOMAIN data
      /\ \A k \in new : data'[k] = NativeValue(rs[k[2]])
      /\ \A k \in DOMAIN data \ new : data'[k] = data[k]
  BY DEF Publish, Updated
<1>2. \A p \in Paths :
        /\ DOMAIN latest'[p] = part(p) \cup DOMAIN latest[p]
        /\ \A c \in part(p) : latest'[p][c] = rs[c]
        /\ \A c \in DOMAIN latest[p] \ part(p) : latest'[p][c] = latest[p][c]
  BY DEF Publish, Updated
<1>3. \A k \in new : /\ k[2] \in DOMAIN rs /\ ps[k[2]] = k[1]
                     /\ k[1] \in Paths /\ k[2] \in Chars
                     /\ k[3] \in DataNames(k[1], rs[k[2]].body)
                     /\ k = <<k[1], k[2], k[3]>>
  BY DEF DataKeys
<1>4. \A k \in DescribedKeys(rs, ps) : k[1] \in Paths /\ k[2] \in Chars
  BY DEF DescribedKeys
<1>5. new \subseteq DescribedKeys(rs, ps)
  BY DataDescribed DEF DataKeys, DescribedKeys
<1>6. ASSUME NEW k \in DOMAIN data'
      PROVE  /\ k \in described' /\ k[2] \in DOMAIN latest'[k[1]]
             /\ k = <<k[1], k[2], k[3]>>
  <2>1. CASE k \in new
    BY <1>2, <1>3, <1>5, <2>1 DEF Publish
  <2>2. CASE k \in DOMAIN data \ new
    BY <1>2, <2>2 DEF ViewOK, Publish
  <2> QED BY <1>1, <1>6, <2>1, <2>2
<1>7. ASSUME NEW k \in DOMAIN data'
      PROVE  LET last == latest'[k[1]][k[2]]
             IN  \/ data'[k] = NativeValue(last)
                 \/ k[3] \notin DescribedNames(k[1], last.body)
                 \/ k[1] = "service" /\ last.body.kind = "special"
  <2>1. CASE k \in new
    <3>1. latest'[k[1]][k[2]] = rs[k[2]]
      BY <1>2, <1>3, <2>1
    <3> QED BY <1>1, <2>1, <3>1
  <2>2. CASE k \in DOMAIN data \ new
    <3>1. /\ data'[k] = data[k] /\ k[1] \in Paths
          /\ k[2] \in DOMAIN latest[k[1]]
      BY <1>1, <2>2 DEF ViewOK
    <3>2. CASE k[2] \in part(k[1])
      <4>1. latest'[k[1]][k[2]] = rs[k[2]] /\ k[2] \in DOMAIN rs /\ ps[k[2]] = k[1]
        BY <1>2, <3>1, <3>2
(* The key is that of another shape, or of a special value.                *)
      <4>2. k = <<ps[k[2]], k[2], k[3]>>
        BY <2>2, <4>1 DEF ViewOK
      <4>3. k[3] \notin DataNames(k[1], rs[k[2]].body)
        BY <2>2, <4>1, <4>2 DEF DataKeys
      <4> QED BY <4>1, <4>3, DescribedWithoutData
    <3>3. CASE k[2] \notin part(k[1])
      <4>1. latest'[k[1]][k[2]] = latest[k[1]][k[2]]
        BY <1>2, <3>1, <3>3
      <4> QED BY <2>2, <3>1, <4>1 DEF ViewOK, StaleOnlyIfReshaped
    <3> QED BY <3>2, <3>3
  <2> QED BY <1>1, <1>7, <2>1, <2>2
<1>8. StaleOnlyIfReshaped'
  BY <1>7 DEF StaleOnlyIfReshaped
<1>9. \A k \in described' : k[1] \in Paths /\ k[2] \in Chars
  BY <1>4 DEF Publish, ViewOK
<1> QED
  BY <1>6, <1>8, <1>9 DEF ViewOK

LEMMA PublishReadKeeps ==
  ASSUME ViewOK, NEW rs, DOMAIN rs \subseteq Chars, PublishRead(rs)
  PROVE  ViewOK'
<1> DEFINE ps == [c \in DOMAIN rs |-> "gatt"]
<1>1. \A c \in DOMAIN rs : ps[c] \in Paths
  BY DEF Paths
<1> QED BY <1>1, PublishKeeps DEF PublishRead

LEMMA ViewStays ==
  ASSUME ViewOK, UNCHANGED viewVars
  PROVE  ViewOK'
  BY DEF ViewOK, viewVars, StaleOnlyIfReshaped

-----------------------------------------------------------------------------
(* The jobs.                                                               *)

LEMMA StartReadingOK ==
  ASSUME JobsOK, NEW j \in JobNames, NEW where, StartReading(j, where),
         \/ where = "reading"
         \/ j = "poll" /\ where \in {"connecting", "discovering"},
         UNCHANGED reading, loaded' \in BOOLEAN, probed' \in BOOLEAN,
         DOMAIN cache' \subseteq Readable
  PROVE  JobsOK'
  BY OrderAssumption DEF JobsOK, StartReading, JobNames, Nothing

LEMMA EndReadingOK ==
  ASSUME JobsOK, NEW j \in JobNames, EndReading(j),
         UNCHANGED reading, loaded' \in BOOLEAN, probed' \in BOOLEAN,
         DOMAIN cache' \subseteq Readable
  PROVE  JobsOK'
<1>1. << >> \in Seq(Readable)
  OBVIOUS
<1> QED BY <1>1 DEF JobsOK, EndReading, JobNames, Nothing

LEMMA ReadOneOK ==
  ASSUME JobsOK, NEW j \in JobNames, ReadOne(j)
  PROVE  JobsOK'
<1> DEFINE c == Head(todo[j])
<1>1. c \in Readable /\ Tail(todo[j]) \in Seq(Readable)
  BY DEF JobsOK, ReadOne
<1>2. todo' \in [JobNames -> Seq(Readable)]
  BY <1>1 DEF JobsOK, ReadOne
<1>3. DOMAIN got' = JobNames /\ \A i \in JobNames : DOMAIN got'[i] \subseteq Readable
  BY <1>1 DEF JobsOK, ReadOne, Updated
<1> QED BY <1>2, <1>3 DEF JobsOK, ReadOne

LEMMA SkipOneOK ==
  ASSUME JobsOK, NEW j \in JobNames, SkipOne(j)
  PROVE  JobsOK'
<1>1. todo' \in [JobNames -> Seq(Readable)]
  BY DEF JobsOK, SkipOne
<1> QED BY <1>1 DEF JobsOK, SkipOne

(* Whatever the step, an empty dict has no key that is not readable.       *)
LEMMA EmptyDict == DOMAIN Nothing \subseteq Readable
  BY DEF Nothing

LEMMA JobsStep ==
  ASSUME JobsOK, EntitiesNext
  PROVE  JobsOK'
<1> USE DEF JobNames
<1>1. ASSUME NEW c \in Chars, Changes(c) PROVE JobsOK'
  <2>1. reading[c].version + 1 \in 0..MaxVersion
    BY <1>1, VersionAssumption DEF JobsOK, Changes
  <2>2. PICK b \in Bodies[c] :
          reading' = [reading EXCEPT ![c] = [version |-> @.version + 1, body |-> b]]
    BY <1>1 DEF Changes
  <2> QED BY <1>1, <2>1, <2>2 DEF JobsOK, Changes, jobVars
<1>2. ASSUME NEW first, NEW parsed, Advertises(first, parsed) PROVE JobsOK'
  BY <1>2 DEF JobsOK, Advertises, jobVars
<1>3. CASE ProbeStep
  <2>1. CASE ProbeConnects
    BY <2>1, StartReadingOK DEF JobsOK, ProbeConnects
  <2>2. CASE ReadOne("probe") BY <2>2, ReadOneOK
  <2>3. CASE SkipOne("probe") BY <2>3, SkipOneOK
  <2>4. CASE ProbeDone
    BY <2>4, EndReadingOK DEF JobsOK, ProbeDone
  <2>5. CASE ProbeTimesOut
    BY <2>5, EndReadingOK DEF JobsOK, ProbeTimesOut
  <2>6. CASE ProbeScheduled
    BY <2>6 DEF JobsOK, ProbeScheduled
  <2>7. CASE ProbeGivesUp
    BY <2>7, EndReadingOK DEF JobsOK, ProbeGivesUp
  <2> QED BY <1>3, <2>1, <2>2, <2>3, <2>4, <2>5, <2>6, <2>7 DEF ProbeStep
<1>4. CASE PollStep
  <2>1. CASE PollFromCache
    BY <2>1, EmptyDict DEF JobsOK, PollFromCache, CacheTaken
  <2>2. CASE PollConnects
    <3>1. CASE probed
      BY <2>2, <3>1, StartReadingOK DEF JobsOK, PollConnects
    <3>2. CASE ~probed
      BY <2>2, <3>2 DEF JobsOK, PollConnects
    <3> QED BY <3>1, <3>2
  <2>3. CASE ServicesFound
    BY <2>3, StartReadingOK DEF JobsOK, ServicesFound
  <2>4. CASE ReadOne("poll") BY <2>4, ReadOneOK
  <2>5. CASE SkipOne("poll") BY <2>5, SkipOneOK
  <2>6. CASE PollDone
    BY <2>6, EndReadingOK DEF JobsOK, PollDone
  <2>7. CASE PollDiscovered
    <3>1. EndReading("poll") \/ StartReading("poll", "reading")
      BY <2>7 DEF PollDiscovered
    <3>2. /\ UNCHANGED <<reading, loaded, probed>>
          /\ DOMAIN cache' \subseteq Readable
      BY <2>7, EmptyDict DEF PollDiscovered
    <3>3. CASE EndReading("poll")
      BY <3>2, <3>3, EndReadingOK DEF JobsOK
    <3>4. CASE StartReading("poll", "reading")
      BY <3>2, <3>4, StartReadingOK DEF JobsOK
    <3> QED BY <3>1, <3>3, <3>4
  <2>8. CASE PollFails
    BY <2>8, EndReadingOK DEF JobsOK, PollFails
  <2> QED BY <1>4, <2>1, <2>2, <2>3, <2>4, <2>5, <2>6, <2>7, <2>8 DEF PollStep
<1>5. CASE SetUpEntry
  BY <1>5 DEF JobsOK, SetUpEntry, jobVars
<1>6. CASE Cleanup
  <2>1. CASE job["probe"] = "idle"
    BY <1>6, <2>1, EmptyDict DEF JobsOK, Cleanup
  <2>2. CASE job["probe"] # "idle"
    BY <1>6, <2>2, EmptyDict, EndReadingOK DEF JobsOK, Cleanup
  <2> QED BY <2>1, <2>2
<1> QED BY <1>1, <1>2, <1>3, <1>4, <1>5, <1>6 DEF EntitiesNext

LEMMA ViewStep ==
  ASSUME EInv, EntitiesNext
  PROVE  ViewOK'
<1> USE DEF EInv
<1>0. Readable \subseteq Chars /\ Broadcast \subseteq Chars
  BY DEF Chars
<1>1. ASSUME NEW first \in SUBSET Broadcast, NEW parsed \in SUBSET Broadcast,
             Advertises(first, parsed)
      PROVE  ViewOK'
  <2> DEFINE rs == [c \in first \cup parsed |-> reading[c]]
             ps == [c \in first \cup parsed |->
                      IF c \in first THEN "interpreted" ELSE "service"]
  <2>1. DOMAIN rs \subseteq Chars /\ \A c \in DOMAIN rs : ps[c] \in Paths
    BY <1>0 DEF Paths
  <2>2. Publish(rs, ps)
    BY <1>1 DEF Advertises
  <2> HIDE DEF rs, ps
  <2> QED BY <2>1, <2>2, PublishKeeps
<1>2. CASE PollFromCache
  BY <1>0, <1>2, PublishReadKeeps DEF JobsOK, PollFromCache
<1>3. CASE PollDone
  <2>1. DOMAIN got["poll"] \subseteq Chars
    BY <1>0 DEF JobsOK, JobNames
  <2>2. UNCHANGED viewVars \/ PublishRead(got["poll"])
    BY <1>3 DEF PollDone
  <2> QED BY <2>1, <2>2, PublishReadKeeps, ViewStays
<1>4. CASE PollDiscovered
  <2>1. DOMAIN got["poll"] \subseteq Chars /\ DOMAIN cache \subseteq Chars
    BY <1>0 DEF JobsOK, JobNames
  <2>2. UNCHANGED viewVars \/ PublishRead(got["poll"]) \/ PublishRead(cache)
    BY <1>4 DEF PollDiscovered
  <2> QED BY <2>1, <2>2, PublishReadKeeps, ViewStays
<1>5. CASE \E c \in Chars : Changes(c)
  BY <1>5, ViewStays DEF Changes
<1>6. CASE ProbeStep
  BY <1>6, ViewStays DEF ProbeStep, ProbeScheduled, ProbeConnects, ProbeGivesUp,
                         ReadOne, SkipOne, ProbeDone, ProbeTimesOut
<1>7. CASE PollConnects \/ ServicesFound \/ ReadOne("poll") \/ SkipOne("poll")
           \/ PollFails
  BY <1>7, ViewStays DEF PollConnects, ServicesFound, ReadOne, SkipOne, PollFails
<1>8. CASE SetUpEntry \/ Cleanup
  BY <1>8, ViewStays DEF SetUpEntry, Cleanup
<1> QED
  BY <1>1, <1>2, <1>3, <1>4, <1>5, <1>6, <1>7, <1>8 DEF EntitiesNext, PollStep

LEMMA EntitiesInvariant == EntitiesSpec => []EInv
<1>1. EntitiesInit => EInv
  <2> SUFFICES ASSUME EntitiesInit PROVE EInv OBVIOUS
  <2>1. JobsOK
    <3>1. << >> \in Seq(Readable) OBVIOUS
    <3>2. \A c \in Chars : reading[c].version \in 0..MaxVersion
      BY VersionAssumption DEF EntitiesInit
    <3> QED BY <3>1, <3>2, EmptyDict DEF EntitiesInit, JobsOK, JobNames
  <2>2. DOMAIN data = {}
    BY DEF EntitiesInit, Nothing
  <2>3. ViewOK
    BY <2>2 DEF EntitiesInit, ViewOK, StaleOnlyIfReshaped
  <2> QED BY <2>1, <2>3 DEF EInv
<1>2. EInv /\ [EntitiesNext]_entityVars => EInv'
  <2> SUFFICES ASSUME EInv, [EntitiesNext]_entityVars PROVE EInv' OBVIOUS
  <2>1. CASE EntitiesNext
    BY <2>1, JobsStep, ViewStep DEF EInv
  <2>2. CASE UNCHANGED entityVars
    <3>1. ViewOK' BY <2>2, ViewStays DEF EInv, entityVars
    <3>2. JobsOK' BY <2>2 DEF EInv, JobsOK, entityVars, jobVars
    <3> QED BY <3>1, <3>2 DEF EInv
  <2> QED BY <2>1, <2>2
<1> QED BY <1>1, <1>2, PTL DEF EntitiesSpec

-----------------------------------------------------------------------------
(* Whatever is read, cached, advertised or cleaned up, the jobs stay in    *)
(* their states and every value belongs to an entity the framework knows   *)
(* of (gatt_poller.py, entity_builder.py).                                 *)
THEOREM EntitiesTyped == EntitiesSpec => []EntitiesTypeOK
<1>1. EInv => EntitiesTypeOK
  BY DEF EInv, JobsOK, ViewOK, EntitiesTypeOK
<1> QED BY <1>1, EntitiesInvariant, PTL

(* A sensor lags behind the last reading of its path only when that        *)
(* reading has no such entity, or is a special value in service data       *)
(* (entity_builder.py, add_sig_characteristic_entity).                     *)
THEOREM StaleOnlyReshaped == EntitiesSpec => []StaleOnlyIfReshaped
<1>1. EInv => StaleOnlyIfReshaped
  BY DEF EInv, ViewOK
<1> QED BY <1>1, EntitiesInvariant, PTL
=============================================================================
