--------------------------- MODULE DiscoveryProps ---------------------------
(***************************************************************************)
(* What discovery guarantees, and what its comments and docs claim.        *)
(***************************************************************************)
EXTENDS Discovery, GattManagerProps

(* The times of the keys are a total order.                                *)
TimesOrdered(order) ==
  LET keys == KeysOf(order)
  IN  /\ order \subseteq keys \X keys
      /\ \A a, b, c \in keys :
           <<a, b>> \in order /\ <<b, c>> \in order => <<a, c>> \in order
      /\ \A a, b \in keys : <<a, b>> \in order /\ <<b, a>> \in order => a = b
      /\ \A a, b \in keys : <<a, b>> \in order \/ <<b, a>> \in order

(* Every variable of the tracker has its type, the times order all that    *)
(* were heard, and no flow offers a device that is confirmed.              *)
TrackerTypeOK ==
  /\ seen \subseteq Addrs /\ triggered \subseteq Addrs
  /\ rejected \subseteq Addrs /\ processors \subseteq Addrs
  /\ strays \subseteq Polls /\ \A p \in strays : pc[p] # "idle"
  /\ flows \subseteq Addrs \ confirmed
  /\ TimesOrdered(recency)
  /\ routing \in {<<>>} \cup (Addrs \X Kinds)

(* However many addresses are heard, the tracking sets stay within their   *)
(* caps, and every address in seen_devices has a time, without which the   *)
(* stale cleanup would never let go of it.                                 *)
TrackingBounded ==
  /\ Cardinality(seen) <= MaxSeen /\ Cardinality(rejected) <= MaxRejected
  /\ seen \subseteq Heard

(* Making room never forgets an address that was heard more recently than  *)
(* one that is kept.                                                       *)
OldestEvicted ==
  [][routing' # routing /\ routing' # <<>> =>
       \A a \in seen \cap seen', b \in seen \ seen' :
         <<a, b>> \notin recency]_discoveryVars

(* A device is not given up while the manager has a probe of it in its     *)
(* table, and no such probe is started once it was: a probe at work on a   *)
(* rejected device is only one whose place in the table was taken by the   *)
(* finally block of a task that was cancelled before it                    *)
(* (gatt_manager.py:477).                                                  *)
GivenUpAtRest ==
  \A t \in Probes :
    Working(t) /\ target[t] \in rejected => probeTasks[target[t]] # t

(* "Confirmed devices are never rejected", also when the entry was added   *)
(* while the last probe of its device was failing.                         *)
ConfirmedNeverRejected ==
  [][(rejected' \ rejected) \cap confirmed = {}]_discoveryVars

-----------------------------------------------------------------------------
(* Claims of comments and docs.                                            *)

(* Nobody falls silent for so long that it is forgotten.                   *)
PresentSpec ==
  DiscoveryInit /\ [][DiscoveryNext /\ (Heard \subseteq Heard'
                                       \/ phase' = "stopped")]_discoveryVars

(* "Allow re-discovery if a device's config entry is removed"              *)
(* (discovery_tracker.py:217): once remove_device has run for the entry of *)
(* a device, the tracker does not hold the device back.                    *)
RediscoverableAfterRemoval ==
  [][\A a \in processors \ processors' :
       a \notin rejected' \cup triggered']_discoveryVars

-----------------------------------------------------------------------------
(* Liveness, for devices that keep advertising and are not forgotten.      *)

(* Probes and polls are resumed; that an advertisement is being routed may *)
(* only come between because its one step is written as two.  The devices  *)
(* advertise again and again.                                              *)
DiscoveryFairness ==
  /\ \A t \in Probes : SF_discoveryVars(ProbeReports(t) \/ ProbeProceeds(t))
  /\ \A p \in Polls : SF_discoveryVars(DevicePoll(p) /\ pc[p] # "idle")
  /\ \A a \in Addrs :
       /\ WF_discoveryVars(\E kind \in Kinds : Route(a, kind))
       /\ \A kind \in Sends[a] : SF_discoveryVars(Sighting(a, kind))

(* Entries and the coordinator stay as they are, nobody falls silent.      *)
SteadySpec ==
  /\ DiscoveryInit
  /\ [][/\ DiscoveryNext /\ UNCHANGED <<confirmed, phase>>
        /\ Heard \subseteq Heard']_discoveryVars
  /\ DiscoveryFairness

(* A candidate: heard, but neither found, given up nor looked into.        *)
Candidate(a) == a \in Heard \ (confirmed \cup triggered \cup rejected)
                /\ result[a] = "none"

(* Without confirmed devices, discovery reaches a verdict on every device. *)
VerdictReached ==
  confirmed = {} => \A a \in Addrs : Candidate(a) ~> ~Candidate(a)

(* "Discovery resumes when slots are available" (limitations.md:46), as    *)
(* far as it does: while the cap leaves discovery a slot at all, no        *)
(* candidate is left alone for ever with all slots free.  It leaves none   *)
(* when there is one slot (configuration.md:23 allows it) and a confirmed  *)
(* device; then discovery stops for good.                                  *)
DiscoveryResumes ==
  \A a \in Addrs :
    ~<>[](/\ Candidate(a) /\ UnconfirmedProbeCap > 0
          /\ free = MaxConcurrent)
=============================================================================
