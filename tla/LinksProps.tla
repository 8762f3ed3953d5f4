----------------------------- MODULE LinksProps -----------------------------
(***************************************************************************)
(* What holds of the BLE links, and what the documentation claims.         *)
(***************************************************************************)
EXTENDS Links

(* History: the addresses for which a job connected while another job used *)
(* the device, or while an earlier link to it was still standing, until no *)
(* job uses the device and no link to it stands any more.                  *)
VARIABLE tangled

Crowded(a) ==
  \/ \E i, j \in Using(a) : i # j
  \/ LinksOf(a) # {} /\ \E j \in Using(a) : stage[j] \in {"stale", "establish"}

Quiet(a) == Using(a) = {} /\ LinksOf(a) = {}

LinksNext ==
  /\ LinksStep
  /\ tangled' = {a \in Addrs : Crowded(a)' \/ (a \in tangled /\ ~Quiet(a)')}

allLinkVars == <<vars, linkVars, tangled>>

WatchedInit == LinksInit /\ tangled = {}

LinksSpec == WatchedInit /\ [][LinksNext]_allLinkVars

(* Every variable has its type; a job inside a method of an adapter has    *)
(* that adapter, and a client is never that of a link that has ended.      *)
LinksTypeOK ==
  /\ devices \in [Addrs -> Adapters \cup {NoAdapter}]
  /\ user \in [Jobs -> Adapters \cup {NoAdapter}]
  /\ stage \in [Jobs -> Stages]
  /\ \A j \in Jobs : stage[j] # "none" => user[j] # NoAdapter
  /\ client \in [Adapters -> 0..MaxLinks]
  /\ \A d \in Adapters : client[d] # 0 => <<d, client[d]>> \in Standing
  /\ up \subseteq LinkIds /\ ending \subseteq LinkIds /\ up \cap ending = {}
  /\ tangled \subseteq Addrs

(* A job that works over a link which its adapter can still disconnect.    *)
WorksOver(j, l) ==
  user[j] = l[1] /\ client[l[1]] = l[2] /\ stage[j] = "online"

(* Whatever fails, times out, is cancelled or lost, and wherever: as long  *)
(* as the jobs of a device come one after another, a link that is open and *)
(* was not asked to disconnect has a job at work that will ask it to.      *)
NoLinkLeftOpen ==
  \A l \in up : l[1][1] \in tangled \/ \E j \in Jobs : WorksOver(j, l)

(* And a job finds no client of an earlier one, whose link it would take   *)
(* for its own ("Already connected") while that is being closed.           *)
NoBorrowedLink ==
  \A d \in Adapters :
    client[d] # 0 => d[1] \in tangled \/ \E j \in Jobs : user[j] = d

(* "Each poll: ... 4. Disconnects" (data-paths.md:56): no link is open to  *)
(* a device that no job works with.                                        *)
OpenOnlyWhileUsed == \A l \in up : \E j \in Jobs : user[j] = l[1]
=============================================================================
