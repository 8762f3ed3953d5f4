----------------------------- MODULE LinksProofs -----------------------------
(***************************************************************************)
(* No link is left open and none is borrowed while the jobs of a device    *)
(* come one after another, for every set of addresses and of tasks, every  *)
(* number of slots and however many adapters and links there are.          *)
(***************************************************************************)
EXTENDS LinksProps, GattTaskProofs

(* Where a job has nothing to do with an adapter.                          *)
RestPC == {"idle", "queued", "granted", "cooldown"}

(* Where a job stands in the adapter's methods fits where it stands in the *)
(* manager, and it has an adapter just as long as it is in one of them.    *)
StageFits(j) ==
  /\ user[j] = NoAdapter <=> stage[j] = "none"
  /\ pc[j] \in RestPC => stage[j] = "none"
  /\ pc[j] = "connecting" => stage[j] \in {"stale", "establish", "online"}
  /\ pc[j] = "reading" => stage[j] = "online"
  /\ pc[j] = "closing" => stage[j] \in {"none", "close"}
StagesFit == \A j \in Jobs : StageFits(j)

(* An address that is crowded is on record, and one that is not there has  *)
(* at most one link standing.                                              *)
CrowdedSeen == \A a \in Addrs : Crowded(a) => a \in tangled
OneLink ==
  \A l, m \in Standing :
    l[1][1] = m[1][1] /\ l[1][1] \notin tangled => l = m

LinkFacts == CrowdedSeen /\ OneLink /\ NoLinkLeftOpen /\ NoBorrowedLink

LInv == BInv /\ LinksTypeOK /\ StagesFit /\ LinkFacts

(* The record of crowded addresses after a step.                           *)
Watched ==
  tangled' = {a \in Addrs : Crowded(a)' \/ (a \in tangled /\ ~Quiet(a)')}

DevicesTyped == devices' \in [Addrs -> Adapters \cup {NoAdapter}]

-----------------------------------------------------------------------------
(* Adapters, links and crowds.                                             *)

(* A link has an adapter, an adapter an address.                           *)
LEMMA Shapes ==
  /\ NoAdapter \notin Adapters
  /\ \A d \in Adapters : d[1] \in Addrs
  /\ \A l \in LinkIds : l[1] \in Adapters /\ l[2] \in 1..MaxLinks
                          /\ l = <<l[1], l[2]>> /\ l[1][1] \in Addrs
  /\ \A d \in Adapters, k \in 1..MaxLinks : <<d, k>> \in LinkIds
  BY NoTaskAssumption DEF Adapters, LinkIds, NoAdapter

(* What the invariant says of an address that is not on record.            *)
LEMMA OneByOne ==
  ASSUME LInv, NEW a \in Addrs, a \notin tangled
  PROVE  /\ \A i, j \in Jobs : user[i][1] = a /\ user[j][1] = a => i = j
         /\ \A l \in Standing, j \in Jobs :
              l[1][1] = a /\ user[j][1] = a
                => stage[j] # "stale" /\ stage[j] # "establish"
         /\ \A l, m \in Standing : l[1][1] = a /\ m[1][1] = a => l = m
<1>1. ~Crowded(a)
  BY DEF LInv, LinkFacts, CrowdedSeen
<1>2. \A i, j \in Jobs : user[i][1] = a /\ user[j][1] = a => i = j
  BY <1>1 DEF Crowded, Using
<1>3. \A l \in Standing, j \in Jobs :
        l[1][1] = a /\ user[j][1] = a
          => stage[j] # "stale" /\ stage[j] # "establish"
  BY <1>1 DEF Crowded, Using, LinksOf
<1> QED
  BY <1>2, <1>3 DEF LInv, LinkFacts, OneLink

(* The record holds whoever is crowded now, and whoever was as long as a   *)
(* link to it stands.                                                      *)
LEMMA Recorded ==
  ASSUME LInv, Watched
  PROVE  /\ tangled' \subseteq Addrs /\ CrowdedSeen'
         /\ up' \subseteq Standing'
         /\ \A l \in Standing' : l[1][1] \notin tangled' => l[1][1] \notin tangled
         /\ \A d \in Adapters :
              LinksTypeOK' /\ client'[d] # 0 /\ d[1] \notin tangled'
                => d[1] \notin tangled
<1>1. tangled \subseteq Addrs
  BY DEF LInv, LinksTypeOK
<1>2. ASSUME NEW l \in Standing', l[1][1] \in tangled
      PROVE  l[1][1] \in tangled'
  <2>1. l \in LinksOf(l[1][1])'
    BY <1>2 DEF LinksOf
  <2>2. ~Quiet(l[1][1])'
    BY <2>1 DEF Quiet
  <2> QED BY <1>1, <1>2, <2>2 DEF Watched
<1>3. ASSUME NEW d \in Adapters, LinksTypeOK', client'[d] # 0, d[1] \in tangled
      PROVE  d[1] \in tangled'
  <2>1. <<d, client'[d]>> \in Standing' /\ <<d, client'[d]>>[1][1] = d[1]
    BY <1>3 DEF LinksTypeOK
  <2> QED BY <1>2, <1>3, <2>1
<1> QED
  BY <1>2, <1>3 DEF Watched, CrowdedSeen, Standing

(* The types, in the form that is needed here.                             *)
LEMMA LinkTypes ==
  ASSUME LInv
  PROVE  /\ user \in [Jobs -> Adapters \cup {NoAdapter}]
         /\ stage \in [Jobs -> Stages]
         /\ client \in [Adapters -> 0..MaxLinks]
         /\ \A d \in Adapters : client[d] # 0 => <<d, client[d]>> \in Standing
         /\ up \subseteq LinkIds /\ ending \subseteq LinkIds
         /\ up \cap ending = {} /\ Standing \subseteq LinkIds
         /\ \A j \in Jobs : user[j] = NoAdapter <=> stage[j] = "none"
         /\ \A j \in Jobs : user[j] \in Adapters <=> stage[j] # "none"
         /\ pc \in [Jobs -> PCs]
  BY Shapes DEF LInv, BInv, IInv, PoolOK, LinksTypeOK, Standing, StagesFit,
                StageFits

-----------------------------------------------------------------------------
(* What the adapter's methods do to the links.                             *)

(* A job leaves the adapter it worked with, or enters one, or both.        *)
Passes(j) ==
  /\ stage[j] \in {"none", "close"}
  /\ \E d \in Adapters \cup {NoAdapter}, s \in {"none", "stale", "online"} :
       /\ d = NoAdapter <=> s = "none"
       /\ user' = [user EXCEPT ![j] = d] /\ stage' = [stage EXCEPT ![j] = s]
  /\ client' = ClientsAfterClose(j)
  /\ UNCHANGED <<up, ending>>

(* The client of an adapter goes with the job that leaves it, and entering *)
(* opens no link.                                                          *)
LEMMA PassesKeeps ==
  ASSUME LInv, Watched, DevicesTyped, NEW j \in Jobs, Passes(j)
  PROVE  LinksTypeOK' /\ LinkFacts'
<1>1. /\ up' = up /\ ending' = ending /\ Standing' = Standing
      /\ stage[j] \in {"none", "close"}
      /\ \A k \in Jobs : k # j => user'[k] = user[k] /\ stage'[k] = stage[k]
      /\ user' \in [Jobs -> Adapters \cup {NoAdapter}]
      /\ stage' \in [Jobs -> Stages]
      /\ stage'[j] # "none" => user'[j] # NoAdapter
  BY LinkTypes DEF Passes, Standing, Stages
<1>2. /\ client' \in [Adapters -> 0..MaxLinks]
      /\ \A d \in Adapters : client'[d] # 0 => client'[d] = client[d]
      /\ \A d \in Adapters : d # user[j] => client'[d] = client[d]
      /\ \A d \in Adapters : client'[d] # 0 => user[j] # d
  BY <1>1, LinkTypes, Shapes, LinksAssumption DEF Passes, ClientsAfterClose
<1>3. LinksTypeOK'
  BY <1>1, <1>2, LinkTypes, Recorded DEF LinksTypeOK, DevicesTyped
<1>4. OneLink'
  BY <1>1, Recorded DEF OneLink, LInv, LinkFacts
<1>5. NoLinkLeftOpen'
  <2> SUFFICES ASSUME NEW l \in up, l[1][1] \notin tangled'
               PROVE  \E k \in Jobs : WorksOver(k, l)'
    BY <1>1 DEF NoLinkLeftOpen
  <2>1. l[1][1] \notin tangled /\ l[1] \in Adapters /\ l[1][1] \in Addrs
    BY <1>1, LinkTypes, Shapes, Recorded
  <2>2. PICK i \in Jobs : user[i] = l[1] /\ client[l[1]] = l[2] /\ stage[i] = "online"
    BY <2>1 DEF LInv, LinkFacts, NoLinkLeftOpen, WorksOver
  <2>3. i # j
    BY <1>1, <2>2
  <2>4. l[1] # user[j]
    BY <2>1, <2>2, <2>3, OneByOne
  <2> QED BY <1>1, <1>2, <2>1, <2>2, <2>3, <2>4 DEF WorksOver
<1>6. NoBorrowedLink'
  <2> SUFFICES ASSUME NEW d \in Adapters, client'[d] # 0, d[1] \notin tangled'
               PROVE  \E k \in Jobs : user'[k] = d
    BY DEF NoBorrowedLink
  <2>1. PICK i \in Jobs : user[i] = d
    BY <1>2, <1>3, Recorded DEF LInv, LinkFacts, NoBorrowedLink
  <2>2. i # j
    BY <1>2, <2>1
  <2> QED BY <1>1, <2>1, <2>2
<1> QED
  BY <1>3, <1>4, <1>5, <1>6, Recorded DEF LinkFacts

(* Nobody moves between stages and no link changes.                        *)
LEMMA LinksSame ==
  ASSUME LInv, Watched, DevicesTyped,
         UNCHANGED <<user, stage, client, up, ending>>
  PROVE  LinksTypeOK' /\ LinkFacts'
<1>1. Standing' = Standing
  BY DEF Standing
<1>2. LinksTypeOK'
  BY <1>1, Recorded DEF LInv, LinksTypeOK, DevicesTyped
<1>3. OneLink' /\ NoBorrowedLink'
  BY <1>1, <1>2, Recorded DEF OneLink, NoBorrowedLink, LInv, LinkFacts
<1>4. NoLinkLeftOpen'
  BY Recorded DEF NoLinkLeftOpen, WorksOver, LInv, LinkFacts
<1> QED
  BY <1>2, <1>3, <1>4, Recorded DEF LinkFacts

(* Closing the stale links of an address takes their clients along; no     *)
(* link of another address is touched.                                     *)
LEMMA CloseStaleKeeps ==
  ASSUME LInv, Watched, NEW j \in Jobs, CloseStale(j)
  PROVE  LinksTypeOK' /\ LinkFacts'
<1>1. /\ user' = user /\ devices' = devices /\ stage[j] = "stale"
      /\ stage' = [stage EXCEPT ![j] = "establish"]
      /\ user[j] \in Adapters
  BY LinkTypes DEF CloseStale
<1>2. /\ up' \subseteq up /\ ending' \subseteq ending /\ Standing' \subseteq Standing
      /\ client' \in [Adapters -> 0..MaxLinks]
      /\ \A d \in Adapters : client'[d] # 0 => client'[d] = client[d]
      /\ \A d \in Adapters : client'[d] # 0 => <<d, client[d]>> \in Standing'
      /\ \A l \in up' : client'[l[1]] = client[l[1]]
  <2>1. CASE UNCHANGED <<client, up, ending>>
    BY <2>1, LinkTypes DEF Standing
  <2>2. CASE LET stale == LinksOf(user[j][1])
             IN  /\ up' = up \ stale /\ ending' = ending \ stale
                 /\ client' = [d \in Adapters |->
                                 IF \E l \in stale : l[1] = d THEN 0 ELSE client[d]]
    <3> DEFINE stale == LinksOf(user[j][1])
    <3>1. /\ up' = up \ stale /\ ending' = ending \ stale
          /\ client' = [d \in Adapters |->
                          IF \E l \in stale : l[1] = d THEN 0 ELSE client[d]]
      BY <2>2
    <3>2. \A l \in LinkIds : l \in stale <=> l \in Standing /\ l[1][1] = user[j][1]
      BY DEF LinksOf
    <3>3. stale \subseteq Standing
      BY DEF LinksOf
    <3> HIDE DEF stale
    <3>4. Standing' = Standing \ stale
      BY <3>1 DEF Standing
    <3>5. client' \in [Adapters -> 0..MaxLinks]
      BY <3>1, LinkTypes, LinksAssumption
    <3>6. ASSUME NEW d \in Adapters, client'[d] # 0
          PROVE  client'[d] = client[d] /\ <<d, client[d]>> \in Standing'
      <4>1. client'[d] = client[d] /\ ~\E l \in stale : l[1] = d
        BY <3>1, <3>6
      <4>2. <<d, client[d]>> \in Standing /\ <<d, client[d]>>[1] = d
        BY <3>6, <4>1, LinkTypes
      <4> QED BY <3>4, <4>1, <4>2
    <3>7. ASSUME NEW l \in up' PROVE client'[l[1]] = client[l[1]]
      <4>1. l \in up /\ l \notin stale /\ l \in LinkIds /\ l \in Standing
            /\ l[1] \in Adapters
        BY <3>1, <3>7, LinkTypes, Shapes DEF Standing
      <4>2. l[1][1] # user[j][1]
        BY <3>2, <4>1
      <4>3. ~\E m \in stale : m[1] = l[1]
        BY <3>2, <3>3, <4>2, LinkTypes
      <4> QED BY <3>1, <4>1, <4>3
    <3> QED BY <3>1, <3>4, <3>5, <3>6, <3>7
  <2> QED BY <2>1, <2>2 DEF CloseStale
<1>3. /\ stage' \in [Jobs -> Stages] /\ \A k \in Jobs : k # j => stage'[k] = stage[k]
      /\ \A k \in Jobs : stage'[k] # "none" => user[k] # NoAdapter
  BY <1>1, LinkTypes DEF Stages
<1>4. LinksTypeOK'
  BY <1>1, <1>2, <1>3, LinkTypes, Recorded DEF LInv, LinksTypeOK
<1>5. OneLink'
  BY <1>2, Recorded DEF OneLink, LInv, LinkFacts
<1>6. NoLinkLeftOpen'
  <2> SUFFICES ASSUME NEW l \in up', l[1][1] \notin tangled'
               PROVE  \E k \in Jobs : WorksOver(k, l)'
    BY DEF NoLinkLeftOpen
  <2>1. PICK i \in Jobs : user[i] = l[1] /\ client[l[1]] = l[2] /\ stage[i] = "online"
    BY <1>2, Recorded DEF LInv, LinkFacts, NoLinkLeftOpen, WorksOver
  <2> QED BY <1>1, <1>2, <1>3, <2>1 DEF WorksOver
<1>7. NoBorrowedLink'
  BY <1>1, <1>2, <1>4, Recorded DEF NoBorrowedLink, LInv, LinkFacts
<1> QED
  BY <1>4, <1>5, <1>6, <1>7, Recorded DEF LinkFacts

(* A link is established for an address with no link standing, or the      *)
(* address is crowded.                                                     *)
LEMMA EstablishKeeps ==
  ASSUME LInv, Watched, NEW j \in Jobs, Establish(j)
  PROVE  LinksTypeOK' /\ LinkFacts'
<1>1. /\ user' = user /\ devices' = devices /\ stage[j] = "establish"
      /\ stage' = [stage EXCEPT ![j] = "online"] /\ ending' = ending
      /\ user[j] \in Adapters
  BY LinkTypes DEF Establish
<1>2. PICK k \in 1..MaxLinks :
        /\ <<user[j], k>> \notin Standing
        /\ client' = [client EXCEPT ![user[j]] = k]
        /\ up' = up \cup {<<user[j], k>>}
  BY DEF Establish
<1> DEFINE new == <<user[j], k>>
<1>3. /\ new \in LinkIds /\ new[1] = user[j] /\ new[2] = k /\ new \notin ending
      /\ up' = up \cup {new} /\ Standing' = Standing \cup {new} /\ k # 0
  BY <1>1, <1>2, Shapes DEF Standing
<1>4. /\ stage' \in [Jobs -> Stages]
      /\ \A i \in Jobs : i # j => stage'[i] = stage[i]
      /\ \A i \in Jobs : stage'[i] # "none" => user[i] # NoAdapter
      /\ client' \in [Adapters -> 0..MaxLinks]
      /\ \A d \in Adapters : d # user[j] => client'[d] = client[d]
      /\ client'[user[j]] = k /\ stage'[j] = "online"
  BY <1>1, <1>2, LinkTypes DEF Stages
<1> HIDE DEF new
<1>5. ASSUME NEW d \in Adapters, client'[d] # 0
      PROVE  <<d, client'[d]>> \in Standing'
  BY <1>3, <1>4, <1>5, LinkTypes DEF new
<1>6. LinksTypeOK'
  BY <1>1, <1>3, <1>4, <1>5, LinkTypes, Recorded DEF LInv, LinksTypeOK
<1>7. ASSUME NEW l \in Standing, l[1][1] \notin tangled'
      PROVE  l[1][1] # user[j][1]
  <2>1. l \in Standing' /\ l[1][1] \notin tangled /\ l[1][1] \in Addrs
    BY <1>3, <1>7, Recorded, LinkTypes, Shapes
  <2> QED BY <1>1, <1>7, <2>1, OneByOne
<1>8. OneLink'
  BY <1>3, <1>7, Recorded DEF OneLink, LInv, LinkFacts
<1>9. NoLinkLeftOpen'
  <2> SUFFICES ASSUME NEW l \in up', l[1][1] \notin tangled'
               PROVE  \E i \in Jobs : WorksOver(i, l)'
    BY DEF NoLinkLeftOpen
  <2>1. CASE l = new
    BY <1>1, <1>3, <1>4, <2>1 DEF WorksOver
  <2>2. CASE l # new
    <3>1. l \in up /\ l \in Standing /\ l[1][1] # user[j][1] /\ l[1] \in Adapters
      BY <1>3, <1>7, <2>2, LinkTypes, Shapes DEF Standing
    <3>2. PICK i \in Jobs :
            user[i] = l[1] /\ client[l[1]] = l[2] /\ stage[i] = "online"
      BY <3>1, Recorded DEF LInv, LinkFacts, NoLinkLeftOpen, WorksOver
    <3> QED BY <1>1, <1>4, <3>1, <3>2 DEF WorksOver
  <2> QED BY <2>1, <2>2
<1>10. NoBorrowedLink'
  <2> SUFFICES ASSUME NEW d \in Adapters, client'[d] # 0, d[1] \notin tangled'
               PROVE  \E i \in Jobs : user'[i] = d
    BY DEF NoBorrowedLink
  <2> QED
    BY <1>1, <1>4, <1>6, Recorded DEF NoBorrowedLink, LInv, LinkFacts
<1> QED
  BY <1>6, <1>8, <1>9, <1>10, Recorded DEF LinkFacts

(* disconnect() asks the one link of the adapter, and nobody else's.       *)
LEMMA DisconnectKeeps ==
  ASSUME LInv, Watched, NEW j \in Jobs, user[j] \in Adapters, Disconnect(j)
  PROVE  LinksTypeOK' /\ LinkFacts'
<1> DEFINE d == user[j]
           l0 == <<d, client[d]>>
<1>1. /\ devices' = devices /\ client' = client
      /\ \A k \in Jobs : k # j => stage'[k] = stage[k] /\ user'[k] = user[k]
      /\ user' \in [Jobs -> Adapters \cup {NoAdapter}]
      /\ stage' \in [Jobs -> Stages]
      /\ \A k \in Jobs : stage'[k] # "none" => user'[k] # NoAdapter
      /\ client[d] # 0 => user'[j] = d
  BY LinkTypes DEF Disconnect, Stages
<1>2. /\ up' \subseteq up /\ Standing' = Standing /\ ending' \subseteq LinkIds
      /\ up' \cap ending' = {}
      /\ client[d] # 0 => l0 \notin up'
  <2>1. CASE client[d] = 0
    BY <2>1, LinkTypes DEF Disconnect, Standing
  <2>2. CASE client[d] # 0
    <3>1. l0 \in Standing
      BY <2>2, LinkTypes
    <3> HIDE DEF l0
    <3>2. up' = up \ {l0} /\ ending' = ending \cup {l0}
      BY <2>2 DEF Disconnect, l0
    <3> QED BY <3>1, <3>2, LinkTypes DEF Standing
  <2> QED BY <2>1, <2>2
<1>3. LinksTypeOK'
  BY <1>1, <1>2, LinkTypes, Recorded DEF LInv, LinksTypeOK
<1>4. OneLink'
  BY <1>2, Recorded DEF OneLink, LInv, LinkFacts
<1>5. NoLinkLeftOpen'
  <2> SUFFICES ASSUME NEW l \in up', l[1][1] \notin tangled'
               PROVE  \E k \in Jobs : WorksOver(k, l)'
    BY DEF NoLinkLeftOpen
  <2>1. l \in up /\ l[2] # 0 /\ l = <<l[1], l[2]>>
    BY <1>2, LinkTypes, Shapes
  <2>2. PICK i \in Jobs : user[i] = l[1] /\ client[l[1]] = l[2] /\ stage[i] = "online"
    BY <2>1, Recorded DEF LInv, LinkFacts, NoLinkLeftOpen, WorksOver
  <2>3. i # j
    BY <1>2, <2>1, <2>2
  <2> QED BY <1>1, <2>2, <2>3 DEF WorksOver
<1>6. NoBorrowedLink'
  <2> SUFFICES ASSUME NEW e \in Adapters, client[e] # 0, e[1] \notin tangled'
               PROVE  \E i \in Jobs : user'[i] = e
    BY <1>1 DEF NoBorrowedLink
  <2>1. PICK i \in Jobs : user[i] = e
    BY <1>1, <1>3, Recorded DEF NoBorrowedLink, LInv, LinkFacts
  <2> QED BY <1>1, <2>1
<1> QED
  BY <1>3, <1>4, <1>5, <1>6, Recorded DEF LinkFacts

(* A BleakError of establish_connection: the client goes with the job.     *)
LEMMA FailureKeeps ==
  ASSUME LInv, Watched, NEW j \in Jobs, user[j] \in Adapters,
         DisconnectAfterFailure(j)
  PROVE  LinksTypeOK' /\ LinkFacts'
<1>1. CASE Disconnect(j)
  BY <1>1, DisconnectKeeps
<1>2. CASE /\ stage[j] = "establish"
           /\ client' = [client EXCEPT ![user[j]] = 0]
           /\ stage' = [stage EXCEPT ![j] = "none"]
           /\ user' = [user EXCEPT ![j] = NoAdapter]
           /\ UNCHANGED <<devices, up, ending>>
  <2>1. /\ \A k \in Jobs : k # j => stage'[k] = stage[k] /\ user'[k] = user[k]
        /\ user' \in [Jobs -> Adapters \cup {NoAdapter}]
        /\ stage' \in [Jobs -> Stages]
        /\ \A k \in Jobs : stage'[k] # "none" => user'[k] # NoAdapter
        /\ client' \in [Adapters -> 0..MaxLinks] /\ client'[user[j]] = 0
        /\ \A d \in Adapters : d # user[j] => client'[d] = client[d]
        /\ Standing' = Standing
    BY <1>2, LinkTypes, LinksAssumption DEF Stages, Standing
  <2>2. LinksTypeOK'
    BY <1>2, <2>1, LinkTypes, Recorded DEF LInv, LinksTypeOK
  <2>3. OneLink'
    BY <2>1, Recorded DEF OneLink, LInv, LinkFacts
  <2>4. NoLinkLeftOpen'
    <3> SUFFICES ASSUME NEW l \in up, l[1][1] \notin tangled'
                 PROVE  \E k \in Jobs : WorksOver(k, l)'
      BY <1>2 DEF NoLinkLeftOpen
    <3>1. l \in Standing /\ l[1] \in Adapters /\ l[1][1] \in Addrs
      BY LinkTypes, Shapes DEF Standing
    <3>2. PICK i \in Jobs :
            user[i] = l[1] /\ client[l[1]] = l[2] /\ stage[i] = "online"
      BY <1>2, Recorded DEF LInv, LinkFacts, NoLinkLeftOpen, WorksOver
    <3>3. i # j /\ l[1] # user[j]
      BY <1>2, <3>1, <3>2, OneByOne, Recorded
    <3> QED BY <2>1, <3>1, <3>2, <3>3 DEF WorksOver
  <2>5. NoBorrowedLink'
    <3> SUFFICES ASSUME NEW e \in Adapters, client'[e] # 0, e[1] \notin tangled'
                 PROVE  \E i \in Jobs : user'[i] = e
      BY DEF NoBorrowedLink
    <3>1. PICK i \in Jobs : user[i] = e
      BY <2>1, <2>2, Recorded DEF NoBorrowedLink, LInv, LinkFacts
    <3> QED BY <2>1, <3>1
  <2> QED
    BY <2>2, <2>3, <2>4, <2>5, Recorded DEF LinkFacts
<1> QED
  BY <1>1, <1>2 DEF DisconnectAfterFailure

(* The only link of an address that is not on record takes its client away *)
(* when it ends.                                                           *)
LEMMA LinkEndsKeeps ==
  ASSUME LInv, Watched, NEW l0 \in LinkIds, LinkEnds(l0)
  PROVE  LinksTypeOK' /\ LinkFacts'
<1>1. /\ l0 \in Standing /\ l0[1] \in Adapters /\ l0[1][1] \in Addrs
      /\ up' = up \ {l0} /\ ending' = ending \ {l0}
      /\ Standing' = Standing \ {l0}
      /\ client' = [client EXCEPT ![l0[1]] = 0]
      /\ UNCHANGED <<devices, user, stage>>
  BY Shapes DEF LinkEnds, Standing
<1>2. /\ client' \in [Adapters -> 0..MaxLinks]
      /\ \A d \in Adapters : client'[d] # 0 => d # l0[1] /\ client'[d] = client[d]
      /\ \A d \in Adapters : d # l0[1] => client'[d] = client[d]
  BY <1>1, LinkTypes, LinksAssumption
<1>3. ASSUME NEW d \in Adapters, client'[d] # 0
      PROVE  <<d, client'[d]>> \in Standing'
  <2>1. <<d, client[d]>> \in Standing /\ <<d, client[d]>>[1] = d
    BY <1>2, <1>3, LinkTypes
  <2> QED BY <1>1, <1>2, <1>3, <2>1
<1>4. LinksTypeOK'
  BY <1>1, <1>2, <1>3, LinkTypes, Recorded DEF LInv, LinksTypeOK
<1>5. OneLink'
  BY <1>1, Recorded DEF OneLink, LInv, LinkFacts
<1>6. NoLinkLeftOpen'
  <2> SUFFICES ASSUME NEW l \in up', l[1][1] \notin tangled'
               PROVE  \E k \in Jobs : WorksOver(k, l)'
    BY DEF NoLinkLeftOpen
  <2>1. l \in up /\ l # l0 /\ l \in Standing /\ l[1] \in Adapters
    BY <1>1, LinkTypes, Shapes DEF Standing
  <2>2. l[1] # l0[1]
    BY <1>1, <2>1, OneByOne, Recorded
  <2>3. PICK i \in Jobs : user[i] = l[1] /\ client[l[1]] = l[2] /\ stage[i] = "online"
    BY <2>1, Recorded DEF LInv, LinkFacts, NoLinkLeftOpen, WorksOver
  <2> QED BY <1>1, <1>2, <2>1, <2>2, <2>3 DEF WorksOver
<1>7. NoBorrowedLink'
  BY <1>1, <1>2, <1>4, Recorded DEF NoBorrowedLink, LInv, LinkFacts
<1> QED
  BY <1>4, <1>5, <1>6, <1>7, Recorded DEF LinkFacts

-----------------------------------------------------------------------------
(* The manager's steps.                                                    *)

(* Only job j changes its stage.                                           *)
LEMMA StagesMove ==
  ASSUME LInv, NEW j \in Jobs, OthersWait(j), StageFits(j)',
         \A k \in Jobs : k # j => user'[k] = user[k] /\ stage'[k] = stage[k]
  PROVE  StagesFit'
  BY DEF LInv, StagesFit, StageFits, OthersWait, RestPC

(* A job passes from one adapter to another on its way in the manager.     *)
LEMMA PassesStep ==
  ASSUME LInv, Watched, [Next]_vars, DevicesTyped, NEW j \in Jobs,
         OthersWait(j), Passes(j), pc'[j] \notin {"reading", "closing"},
         pc'[j] \in RestPC => stage'[j] = "none",
         pc'[j] = "connecting" => stage'[j] # "none"
  PROVE  LInv'
<1>1. /\ \A k \in Jobs : k # j => user'[k] = user[k] /\ stage'[k] = stage[k]
      /\ user'[j] = NoAdapter <=> stage'[j] = "none"
      /\ stage'[j] \in {"none", "stale", "online"}
  BY LinkTypes, Shapes DEF Passes
<1>2. StageFits(j)'
  BY <1>1 DEF StageFits, RestPC
<1> QED
  BY <1>1, <1>2, StagesMove, PassesKeeps, BInvStep DEF LInv

(* A step of the manager that leaves every job with its adapter.           *)
LEMMA ApartStep ==
  ASSUME LInv, Watched, [Next]_vars, DevicesTyped,
         UNCHANGED <<user, stage, client, up, ending>>,
         \/ UNCHANGED pc
         \/ \E j \in Jobs : OthersWait(j) /\ StageFits(j)'
  PROVE  LInv'
<1>1. StagesFit'
  BY StagesMove DEF LInv, StagesFit, StageFits
<1> QED
  BY <1>1, LinksSame, BInvStep DEF LInv

(* A probe enters the adapter of its address, made if need be.             *)
LEMMA ProbeConnectsPasses ==
  ASSUME LInv, NEW j \in Jobs, NEW a \in Addrs, stage[j] = "none",
         ProbeConnects(j, a)
  PROVE  Passes(j) /\ DevicesTyped /\ stage'[j] # "none"
<1>1. PICK d \in Adapters :
        /\ devices' = [devices EXCEPT ![a] = d] /\ Connect(j, d, client)
        /\ UNCHANGED <<client, up, ending>>
  BY DEF ProbeConnects
<1>2. DevicesTyped
  BY <1>1 DEF DevicesTyped, LInv, LinksTypeOK
<1> QED
  BY <1>1, <1>2, LinkTypes, Shapes DEF Connect, Passes, ClientsAfterClose

(* A poll enters the adapter in the table, if there is one.                *)
LEMMA PollConnectsPasses ==
  ASSUME LInv, NEW p \in Polls, stage[p] \in {"none", "close"},
         PollConnects(p, ClientsAfterClose(p))
  PROVE  Passes(p) /\ DevicesTyped
<1>1. DevicesTyped
  BY DEF DevicesTyped, PollConnects, LInv, LinksTypeOK
<1>2. devices[PollOf[p]] # NoAdapter => devices[PollOf[p]] \in Adapters
  BY JobTypes DEF LInv, LinksTypeOK
<1> QED
  BY <1>1, <1>2, Shapes DEF PollConnects, Connect, Passes

(* A job leaves its adapter.                                               *)
LEMMA DisconnectedPasses ==
  ASSUME LInv, NEW j \in Jobs, stage[j] \in {"none", "close"}, Disconnected(j)
  PROVE  Passes(j) /\ DevicesTyped /\ stage'[j] = "none"
<1>1. DevicesTyped
  BY DEF DevicesTyped, Disconnected, LInv, LinksTypeOK
<1> QED
  BY <1>1, LinkTypes DEF Disconnected, Passes

(* A probe that is scheduled connects, waits in line or fails at once.     *)
LEMMA SchedulesStep ==
  ASSUME LInv, Watched, NEW t \in Probes, NEW a \in Addrs, Schedules(t, a)
  PROVE  LInv'
<1>1. /\ t \in Jobs /\ pc[t] = "idle" /\ stage[t] = "none" /\ user[t] = NoAdapter
      /\ pc \in [Jobs -> PCs]
  BY JobTypes, LinkTypes
     DEF Schedules, ScheduleProbe, ScheduleProbeFailsAtOnce, LInv, StagesFit,
         StageFits, RestPC
<1>2. Next
  BY DEF Schedules, Next, NextButRemoval, Environment
<1>3. CASE /\ ScheduleProbe(t, a)
           /\ IF pc'[t] = "connecting" THEN ProbeConnects(t, a)
                                       ELSE UNCHANGED linkVars
  <2>1. pc' = [pc EXCEPT ![t] = "connecting"] \/ pc' = [pc EXCEPT ![t] = "queued"]
    BY <1>3 DEF ScheduleProbe, TakeSlot, JoinLine
  <2>2. OthersWait(t) /\ pc'[t] \in {"connecting", "queued"}
    BY <1>1, <2>1 DEF OthersWait
  <2>3. CASE pc'[t] = "connecting" /\ ProbeConnects(t, a)
    BY <1>1, <1>2, <2>2, <2>3, ProbeConnectsPasses, PassesStep DEF RestPC
  <2>4. CASE pc'[t] = "queued" /\ UNCHANGED linkVars
    <3>1. StageFits(t)'
      BY <1>1, <2>4 DEF StageFits, linkVars
    <3>2. DevicesTyped
      BY <2>4 DEF DevicesTyped, linkVars, LInv, LinksTypeOK
    <3> QED BY <1>1, <1>2, <2>2, <2>4, <3>1, <3>2, ApartStep DEF linkVars
  <2> QED
    BY <1>3, <2>2, <2>3, <2>4
<1>4. CASE /\ ScheduleProbeFailsAtOnce(t, a)
           /\ \E d \in Adapters : devices' = [devices EXCEPT ![a] = d]
           /\ UNCHANGED <<user, stage, client, up, ending>>
  <2>1. pc' = [pc EXCEPT ![t] = "cooldown"]
    BY <1>4 DEF ScheduleProbeFailsAtOnce, TakeSlot
  <2>2. OthersWait(t) /\ pc'[t] = "cooldown"
    BY <1>1, <2>1 DEF OthersWait
  <2>3. StageFits(t)'
    BY <1>1, <1>4, <2>2 DEF StageFits
  <2>4. DevicesTyped
    BY <1>4 DEF DevicesTyped, LInv, LinksTypeOK
  <2> QED BY <1>1, <1>2, <1>4, <2>2, <2>3, <2>4, ApartStep
<1> QED
  BY <1>3, <1>4 DEF Schedules

(* A woken probe connects.                                                 *)
LEMMA ProbeEntersStep ==
  ASSUME LInv, Watched, NEW t \in Probes, ProbeEnters(t)
  PROVE  LInv'
<1>1. /\ t \in Jobs /\ pc[t] = "granted" /\ target[t] \in Addrs
      /\ Resume(t, "connecting") /\ ProbeConnects(t, target[t])
  BY JobTypes, TaskTypes DEF ProbeEnters, ProbeStarts, LInv, BInv
<1>2. stage[t] = "none"
  BY <1>1 DEF LInv, StagesFit, StageFits, RestPC
<1>3. Next
  BY DEF ProbeEnters, Next, NextButRemoval, ProbeStep
<1>4. OthersWait(t) /\ pc'[t] = "connecting"
  BY <1>1, Moves DEF LInv, BInv
<1> QED
  BY <1>1, <1>2, <1>3, <1>4, ProbeConnectsPasses, PassesStep DEF RestPC

(* A poll that gets its slot at once or is woken.                          *)
LEMMA PollEntersStep ==
  ASSUME LInv, Watched, NEW p \in Polls, PollEnters(p)
  PROVE  LInv'
<1>1. /\ p \in Jobs /\ pc[p] \in {"idle", "granted"} /\ pc \in [Jobs -> PCs]
      /\ stage[p] = "none" /\ user[p] = NoAdapter
  BY JobTypes, LinkTypes
     DEF PollEnters, PollStarts, PollResumes, LInv, StagesFit, StageFits, RestPC
<1>2. Next
  BY DEF PollEnters, Next, NextButRemoval, PollBegins, PollStep
<1>3. PollWork(PollOf[p]) \in {"connecting", "polling", "idle"}
  BY JobTypes DEF PollWork, LInv, BInv, IInv, RestOK, Results
<1>4. OthersWait(p) /\ pc'[p] \in {"connecting", "polling", "idle", "queued"}
  <2>1. CASE PollResumes(p)
    <3>1. ResumeAndRelease(p) \/ Resume(p, PollWork(PollOf[p]))
      BY <2>1 DEF PollResumes
    <3> QED BY <1>1, <1>3, <3>1, Moves DEF LInv, BInv
  <2>2. CASE PollStarts(p)
    <3>1. \/ pc' = [pc EXCEPT ![p] = "queued"]
          \/ pc' = pc /\ pc[p] = "idle"
          \/ pc' = [pc EXCEPT ![p] = PollWork(PollOf[p])]
      BY <2>2 DEF PollStarts, JoinLine, TakeSlot
    <3> QED BY <1>1, <1>3, <3>1 DEF OthersWait
  <2> QED BY <2>1, <2>2 DEF PollEnters
<1>5. CASE pc'[p] = "connecting"
  <2>1. ProbeConnects(p, PollOf[p])
    BY <1>5 DEF PollEnters
  <2>2. Passes(p) /\ DevicesTyped /\ stage'[p] # "none"
    BY <1>1, <2>1, JobTypes, ProbeConnectsPasses
  <2> QED
    BY <1>1, <1>2, <1>4, <1>5, <2>2, PassesStep DEF RestPC
<1>6. CASE pc'[p] = "polling"
  <2>1. PollConnects(p, ClientsAfterClose(p))
    BY <1>1, <1>6 DEF PollEnters, ClientsAfterClose
  <2> QED
    BY <1>1, <1>2, <1>4, <1>6, <2>1, PollConnectsPasses, PassesStep DEF RestPC
<1>7. CASE pc'[p] \in {"idle", "queued"}
  <2>1. UNCHANGED linkVars
    BY <1>7 DEF PollEnters
  <2>2. StageFits(p)' /\ DevicesTyped
    BY <1>1, <1>7, <2>1 DEF StageFits, linkVars, DevicesTyped, LInv, LinksTypeOK
  <2> QED BY <1>1, <1>2, <1>4, <2>1, <2>2, ApartStep DEF linkVars
<1> QED
  BY <1>4, <1>5, <1>6, <1>7

(* A job on its way out of an adapter that is connected.                   *)
LEMMA DisconnectStep ==
  ASSUME LInv, Watched, [Next]_vars, NEW j \in Jobs, stage[j] # "none",
         OthersWait(j), pc'[j] \in {"closing", "polling"},
         DisconnectAfterFailure(j)
  PROVE  LInv'
<1>1. user[j] \in Adapters
  BY LinkTypes
<1>2. /\ \A k \in Jobs : k # j => user'[k] = user[k] /\ stage'[k] = stage[k]
      /\ user'[j] = NoAdapter <=> stage'[j] = "none"
      /\ stage'[j] \in {"none", "close"}
  BY <1>1, LinkTypes, Shapes DEF DisconnectAfterFailure, Disconnect
<1>3. StageFits(j)'
  BY <1>2 DEF StageFits, RestPC
<1> QED
  BY <1>1, <1>2, <1>3, StagesMove, FailureKeeps, BInvStep DEF LInv

(* The steps of async_probe_device.                                        *)
LEMMA DeviceStep ==
  ASSUME LInv, Watched, NEW j \in Jobs,
         Discovered(j) \/ ConnectBreaks(j) \/ Unwinds(j)
  PROVE  LInv'
<1>1. /\ pc[j] \in {"connecting", "reading"} /\ pc \in [Jobs -> PCs]
      /\ stage[j] \in {"stale", "establish", "online"} /\ user[j] # NoAdapter
  BY LinkTypes
     DEF Discovered, ConnectBreaks, Unwinds, ConnectSucceeds, ConnectFails,
         ReadDone, TimeoutFires, CancelledConnected, LInv, StagesFit, StageFits
<1>2. Next
  <2>1. CASE ConnectSucceeds(j) \/ ConnectFails(j) \/ ReadDone(j)
    BY <2>1 DEF Next, NextButRemoval, ProbeStep, PollStep, Jobs
  <2>2. CASE j \in Probes /\ (TimeoutFires(j) \/ CancelledConnected(j))
    BY <2>2 DEF Next, NextButRemoval, ProbeStep, ProbeTimeout
  <2> QED BY <2>1, <2>2 DEF Discovered, ConnectBreaks, Unwinds
<1>3. \E w \in {"reading", "closing"} : pc' = [pc EXCEPT ![j] = w]
  BY DEF Discovered, ConnectBreaks, Unwinds, ConnectSucceeds, ConnectFails,
         ReadDone, TimeoutFires, CancelledConnected
<1>4. OthersWait(j) /\ pc'[j] \in {"reading", "closing"}
  BY <1>1, <1>3 DEF OthersWait
<1>5. CASE pc'[j] = "closing"
  <2>1. DisconnectAfterFailure(j)
    BY <1>5 DEF Discovered, ConnectBreaks, Unwinds, DisconnectAfterFailure
  <2> QED BY <1>1, <1>2, <1>4, <1>5, <2>1, DisconnectStep
<1>6. CASE pc'[j] = "reading"
  <2>1. stage[j] = "online" /\ UNCHANGED linkVars
    BY <1>1, <1>6
       DEF Discovered, ConnectBreaks, Unwinds, ConnectFails, ReadDone,
           TimeoutFires, CancelledConnected
  <2>2. StageFits(j)' /\ DevicesTyped
    BY <1>1, <1>6, <2>1
       DEF StageFits, RestPC, linkVars, DevicesTyped, LInv, LinksTypeOK
  <2> QED BY <1>2, <1>4, <2>1, <2>2, ApartStep DEF linkVars
<1> QED
  BY <1>4, <1>5, <1>6

(* A probe leaves async_probe_device.                                      *)
LEMMA ProbeClosesStep ==
  ASSUME LInv, Watched, NEW t \in Probes, ProbeCloses(t)
  PROVE  LInv'
<1>1. t \in Jobs
  BY JobTypes
<1>2. Next
  BY DEF ProbeCloses, Next, NextButRemoval, ProbeStep, ProbeTimeout
<1>3. /\ pc[t] \in {"closing", "granted"} /\ OthersWait(t)
      /\ pc'[t] \in {"cooldown", "idle"}
  <2>1. CASE CancelledUnwinds(t)
    <3>1. pc[t] = "closing" /\ EndAndRelease(t)
      BY <2>1 DEF CancelledUnwinds
    <3> QED BY <1>1, <3>1, Moves DEF LInv, BInv
  <2>2. CASE ProbeSupported(t) \/ ProbeErrored(t) \/ ProbeTimedOut(t)
               \/ ProbeUnsupported(t)
    <3>1. \/ CloseAndCool(t)
          \/ pc[t] = "granted" /\ Resume(t, "cooldown")
      BY <2>2 DEF ProbeSupported, ProbeErrored, ProbeTimedOut,
                  ProbeUnsupported, Returned
    <3>2. CASE CloseAndCool(t)
      BY <3>2, ReturnedMoves DEF LInv
    <3>3. CASE pc[t] = "granted" /\ Resume(t, "cooldown")
      BY <1>1, <3>3, Moves DEF LInv, BInv
    <3> QED BY <3>1, <3>2, <3>3
  <2> QED BY <2>1, <2>2 DEF ProbeCloses
<1>4. stage[t] \in {"none", "close"}
  BY <1>1, <1>3 DEF LInv, StagesFit, StageFits, RestPC
<1>5. Passes(t) /\ DevicesTyped /\ stage'[t] = "none"
  BY <1>1, <1>4, DisconnectedPasses DEF ProbeCloses
<1> QED
  BY <1>1, <1>2, <1>3, <1>5, PassesStep

(* The probe inside a poll is over: a second connection, or the end.       *)
LEMMA PollGoesOnStep ==
  ASSUME LInv, Watched, NEW p \in Polls, PollGoesOn(p)
  PROVE  LInv'
<1>1. /\ p \in Jobs /\ pc[p] = "closing" /\ pc \in [Jobs -> PCs]
      /\ stage[p] \in {"none", "close"}
  BY JobTypes, LinkTypes
     DEF PollGoesOn, PollProbeDone, LInv, StagesFit, StageFits
<1>2. Next
  BY DEF PollGoesOn, Next, NextButRemoval, PollStep
<1>3. OthersWait(p) /\ pc'[p] \in {"polling", "idle"}
  <2>1. pc' = [pc EXCEPT ![p] = "polling"] \/ EndAndRelease(p)
    BY DEF PollGoesOn, PollProbeDone
  <2> QED BY <1>1, <2>1, Moves DEF LInv, BInv
<1>4. CASE pc'[p] = "polling"
  <2>1. Passes(p) /\ DevicesTyped
    BY <1>1, <1>4, PollConnectsPasses DEF PollGoesOn
  <2> QED BY <1>1, <1>2, <1>3, <1>4, <2>1, PassesStep DEF RestPC
<1>5. CASE pc'[p] = "idle"
  <2>1. Passes(p) /\ DevicesTyped /\ stage'[p] = "none"
    BY <1>1, <1>5, DisconnectedPasses DEF PollGoesOn
  <2> QED BY <1>1, <1>2, <1>3, <1>5, <2>1, PassesStep
<1> QED
  BY <1>3, <1>4, <1>5

(* Inside poll_gatt_characteristics.                                       *)
LEMMA PollReadsStep ==
  ASSUME LInv, Watched, NEW p \in Polls, PollUnwinds(p) \/ PollCloses(p)
  PROVE  LInv'
<1>1. p \in Jobs
  BY JobTypes
<1>2. CASE PollUnwinds(p)
  <2>1. /\ pc[p] = "polling" /\ pc' = pc /\ stage[p] # "none"
        /\ DisconnectAfterFailure(p)
    BY <1>2 DEF PollUnwinds, vars
  <2>2. OthersWait(p) /\ [Next]_vars
    BY <1>2, <2>1 DEF OthersWait, PollUnwinds
  <2> QED BY <1>1, <2>1, <2>2, DisconnectStep
<1>3. CASE PollCloses(p)
  <2>1. Next
    BY <1>3 DEF PollCloses, Next, NextButRemoval, PollStep
  <2>2. OthersWait(p) /\ pc'[p] = "idle"
    BY <1>1, <1>3, Moves DEF PollCloses, PollReadDone, LInv, BInv
  <2>3. Passes(p) /\ DevicesTyped /\ stage'[p] = "none"
    BY <1>1, <1>3, DisconnectedPasses DEF PollCloses
  <2> QED BY <1>1, <2>1, <2>2, <2>3, PassesStep
<1> QED
  BY <1>2, <1>3

(* The awaits of connect().                                                *)
LEMMA AdapterStepKeeps ==
  ASSUME LInv, Watched, NEW j \in Jobs, AdapterStep(j)
  PROVE  LInv'
<1>1. /\ pc[j] \in {"connecting", "polling"} /\ UNCHANGED vars /\ pc' = pc
      /\ CloseStale(j) \/ Establish(j)
  BY DEF AdapterStep, vars
<1>2. /\ user' = user /\ stage[j] # "none"
      /\ \A k \in Jobs : k # j => user'[k] = user[k] /\ stage'[k] = stage[k]
      /\ stage'[j] \in {"establish", "online"}
  BY <1>1, LinkTypes DEF CloseStale, Establish
<1>3. user[j] # NoAdapter
  BY <1>2, LinkTypes
<1>4. StageFits(j)' /\ OthersWait(j)
  BY <1>1, <1>2, <1>3 DEF StageFits, RestPC, OthersWait
<1>5. LinksTypeOK' /\ LinkFacts'
  BY <1>1, CloseStaleKeeps, EstablishKeeps
<1> QED
  BY <1>1, <1>2, <1>4, <1>5, StagesMove, BInvStep DEF LInv

(* A link ends by itself or because it was asked to.                       *)
LEMMA LinkLostStep ==
  ASSUME LInv, Watched, NEW l \in LinkIds, LinkLost(l)
  PROVE  LInv'
<1>1. UNCHANGED vars /\ pc' = pc /\ user' = user /\ stage' = stage /\ LinkEnds(l)
  BY DEF LinkLost, LinkEnds, vars
<1>2. StagesFit'
  BY <1>1 DEF LInv, StagesFit, StageFits
<1> QED
  BY <1>1, <1>2, LinkEndsKeeps, BInvStep DEF LInv

(* coordinator.devices changes and nothing is connected.                   *)
LEMMA DevicesStep ==
  ASSUME LInv, Watched,
         Stops \/ \E a \in Addrs : Advertised(a) \/ Forgets(a)
  PROVE  LInv'
<1>1. [Next]_vars /\ UNCHANGED pc
  BY DEF Stops, Advertised, Forgets, StopBegins, StopReturns, ForgetDevices,
         Next, NextButRemoval, Environment, vars
<1>2. UNCHANGED <<user, stage, client, up, ending>>
  BY DEF Stops, Advertised, Forgets
<1>3. DevicesTyped
  <2>1. devices \in [Addrs -> Adapters \cup {NoAdapter}]
    BY DEF LInv, LinksTypeOK
  <2>2. ASSUME NEW a \in Addrs, NEW d \in Adapters \cup {NoAdapter},
               devices' = [devices EXCEPT ![a] = d]
        PROVE  DevicesTyped
    BY <2>1, <2>2 DEF DevicesTyped
  <2>3. CASE Stops
    BY <2>1, <2>3 DEF Stops, DevicesTyped
  <2>4. ASSUME NEW a \in Addrs, Advertised(a) \/ Forgets(a) PROVE DevicesTyped
    BY <2>1, <2>2, <2>4 DEF Advertised, Forgets, DevicesTyped
  <2> QED BY <2>3, <2>4
<1> QED
  BY <1>1, <1>2, <1>3, ApartStep

(* The steps that concern no adapter find the job without one.             *)
LEMMA ElsewhereStep ==
  ASSUME LInv, Watched, Elsewhere
  PROVE  LInv'
<1>1. UNCHANGED <<user, stage, client, up, ending>> /\ DevicesTyped
  BY DEF Elsewhere, linkVars, DevicesTyped, LInv, LinksTypeOK
<1>2. ASSUME NEW t \in Probes,
             CooldownDone(t) \/ CancelledInLine(t) \/ CancelledInCooldown(t)
      PROVE  LInv'
  <2>1. t \in Jobs /\ Next
    BY <1>2, JobTypes DEF Next, NextButRemoval, ProbeStep
  <2>2. /\ pc[t] \in {"cooldown", "granted", "queued"}
        /\ \/ EndAndRelease(t) \/ ResumeAndRelease(t) \/ Resume(t, "idle")
    BY <1>2 DEF CooldownDone, CancelledInLine, CancelledInCooldown
  <2>3. pc'[t] = "idle" /\ OthersWait(t)
    BY <2>1, <2>2, Moves DEF LInv, BInv
  <2>4. stage[t] = "none" /\ user[t] = NoAdapter
    BY <2>1, <2>2, LinkTypes DEF LInv, StagesFit, StageFits, RestPC
  <2>5. StageFits(t)'
    BY <1>1, <2>3, <2>4 DEF StageFits
  <2> QED BY <1>1, <2>1, <2>3, <2>5, ApartStep
<1>3. ASSUME NEW a \in Addrs,
             EntryAdded(a) \/ EntryRemoved(a)
      PROVE  LInv'
  <2>1. Next /\ UNCHANGED pc
    BY <1>3 DEF Next, NextButRemoval, Environment, EntryAdded, EntryRemoved
  <2> QED BY <1>1, <2>1, ApartStep
<1>4. ASSUME NEW p \in Polls, PollFromCache(p) PROVE LInv'
  <2>1. Next /\ UNCHANGED pc
    BY <1>4 DEF Next, NextButRemoval, PollBegins, PollFromCache
  <2> QED BY <1>1, <2>1, ApartStep
<1> QED
  BY <1>2, <1>3, <1>4 DEF Elsewhere

-----------------------------------------------------------------------------
(* The theorems.                                                           *)

(* The invariant is inductive.                                             *)
LEMMA LInvStep == LInv /\ [LinksNext]_allLinkVars => LInv'
<1> SUFFICES ASSUME LInv, [LinksNext]_allLinkVars PROVE LInv'
  OBVIOUS
<1>1. CASE LinksNext
  <2>1. Watched /\ LinksStep
    BY <1>1 DEF LinksNext, Watched
  <2> QED
    BY <2>1, SchedulesStep, ProbeEntersStep, PollEntersStep, DeviceStep,
       ProbeClosesStep, PollGoesOnStep, PollReadsStep, AdapterStepKeeps,
       LinkLostStep, DevicesStep, ElsewhereStep
       DEF LinksStep
<1>2. CASE UNCHANGED allLinkVars
  <2>1. UNCHANGED vars /\ UNCHANGED linkVars /\ tangled' = tangled /\ pc' = pc
    BY <1>2 DEF allLinkVars, vars
  <2>2. BInv'
    BY <2>1, BInvStep DEF LInv
  <2>3. LinksTypeOK' /\ StagesFit'
    BY <2>1 DEF LInv, LinksTypeOK, StagesFit, StageFits, linkVars, Standing
  <2>4. LinkFacts'
    BY <2>1 DEF LInv, LinkFacts, CrowdedSeen, Crowded, Using, LinksOf,
                OneLink, Standing, NoLinkLeftOpen, NoBorrowedLink, WorksOver,
                linkVars
  <2> QED BY <2>2, <2>3, <2>4 DEF LInv
<1> QED
  BY <1>1, <1>2

(* It holds before anything is connected.                                  *)
LEMMA InitLInv == WatchedInit => LInv
<1> SUFFICES ASSUME WatchedInit PROVE LInv
  OBVIOUS
<1>1. BInv
  BY InitIInv, InitBooks DEF WatchedInit, LinksInit, BInv
<1>2. LinksTypeOK
  BY LinksAssumption DEF WatchedInit, LinksInit, LinksTypeOK, Stages, Standing
<1>3. StagesFit
  BY DEF WatchedInit, LinksInit, Init, StagesFit, StageFits
<1>4. \A a \in Addrs : Using(a) = {} /\ LinksOf(a) = {}
  BY NoTaskAssumption
     DEF WatchedInit, LinksInit, Using, LinksOf, Standing, NoAdapter
<1>5. LinkFacts
  BY <1>4 DEF WatchedInit, LinksInit, LinkFacts, CrowdedSeen, Crowded, OneLink,
              Standing, NoLinkLeftOpen, NoBorrowedLink
<1> QED
  BY <1>1, <1>2, <1>3, <1>5 DEF LInv

(* So it holds in every reachable state.                                   *)
LEMMA LInvHolds == LinksSpec => []LInv
  BY InitLInv, LInvStep, PTL DEF LinksSpec

(* A job inside a method of an adapter has that adapter, and no adapter    *)
(* keeps a client whose link has ended.                                    *)
THEOREM LinksTyped == LinksSpec => []LinksTypeOK
<1>1. LInv => LinksTypeOK
  BY DEF LInv
<1> QED
  BY <1>1, LInvHolds, PTL

(* Whatever fails, times out, is cancelled or lost: while the jobs of a    *)
(* device come one after another, an open link that nobody asked to        *)
(* disconnect is the link of a job that will.                              *)
THEOREM LinksGetClosed == LinksSpec => []NoLinkLeftOpen
<1>1. LInv => NoLinkLeftOpen
  BY DEF LInv, LinkFacts
<1> QED
  BY <1>1, LInvHolds, PTL

(* And no job finds the client of an earlier one.                          *)
THEOREM ClientsNotBorrowed == LinksSpec => []NoBorrowedLink
<1>1. LInv => NoBorrowedLink
  BY DEF LInv, LinkFacts
<1> QED
  BY <1>1, LInvHolds, PTL

(* With what the adapters do spelled out, the GATT manager takes no step   *)
(* that it could not take without: what is proved of the manager holds     *)
(* above its links.                                                        *)
THEOREM ManagerAboveLinks == LinksSpec => Spec
<1>1. LinksStep => [Next]_vars
  <2> USE DEF Next, NextButRemoval, ProbeStep, ProbeTimeout, PollStep,
              Environment
  <2>1. ASSUME NEW t \in Probes, ProbeEnters(t) \/ ProbeCloses(t)
        PROVE  Next
    BY <2>1 DEF ProbeEnters, ProbeCloses
  <2>2. ASSUME NEW a \in Addrs, NEW t \in Probes, Schedules(t, a) PROVE Next
    BY <2>2 DEF Schedules
  <2>3. /\ \A p \in Polls :
              PollEnters(p) \/ PollGoesOn(p) \/ PollCloses(p) => Next
        /\ \A a \in Addrs : Forgets(a) => Next
    BY DEF PollBegins, PollEnters, PollGoesOn, PollCloses, Forgets
  <2>4. /\ \A p \in Polls : PollUnwinds(p) => UNCHANGED vars
        /\ \A a \in Addrs : Advertised(a) => UNCHANGED vars
    BY DEF PollUnwinds, Advertised
  <2>5. ASSUME NEW j \in Jobs, Discovered(j) \/ ConnectBreaks(j) \/ Unwinds(j)
        PROVE  Next
    BY <2>5 DEF Discovered, ConnectBreaks, Unwinds, Jobs
  <2>6. ASSUME NEW j \in Jobs, AdapterStep(j) PROVE UNCHANGED vars
    BY <2>6 DEF AdapterStep
  <2>7. ASSUME NEW l \in LinkIds, LinkLost(l) PROVE UNCHANGED vars
    BY <2>7 DEF LinkLost
  <2>8. Stops \/ Elsewhere => Next
    BY DEF Stops, Elsewhere, PollBegins
  <2> HIDE DEF Next, NextButRemoval, ProbeStep, ProbeTimeout, PollStep,
               Environment
  <2> QED
    BY <2>1, <2>2, <2>3, <2>4, <2>5, <2>6, <2>7, <2>8 DEF LinksStep
<1>2. [LinksNext]_allLinkVars => [Next]_vars
  BY <1>1 DEF LinksNext, allLinkVars
<1>3. WatchedInit => Init
  BY DEF WatchedInit, LinksInit
<1> QED
  BY <1>2, <1>3, PTL DEF LinksSpec, Spec
=============================================================================
