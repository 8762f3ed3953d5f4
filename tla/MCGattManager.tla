--------------------------- MODULE MCGattManager ---------------------------
(* Bounds and symmetry for the runs of the GATT manager.                   *)
EXTENDS GattManagerProps, TLC

CONSTANT Polled

(* All polls are polls of one device.                                      *)
OneDevicePolled == [p \in Polls |-> Polled]

Symmetry == Permutations(Probes) \cup Permutations(Polls)

(* At first one device, that one, is discovered, and its probe goes well.  *)
(* When the probe is over the device is confirmed.  A reading kept for its *)
(* first poll is used up before the others are discovered, and it stays    *)
(* confirmed from then on, until async_stop has returned.                  *)
FirstDiscovery ==
  /\ confirmed = {} /\ phase = "running" /\ cancelReq = {}
  /\ \A a \in Addrs : failures[a] = 0 /\ result[a] # "nosupport"
  /\ \A a \in Addrs \ {Polled} : result[a] = "none"
  /\ \A p \in Polls : pc[p] = "idle"
  /\ \A t, u \in Probes : pc[t] # "idle" /\ pc[u] # "idle" => t = u
  /\ \A t \in Probes : /\ target[t] \in {Polled, NoAddr}
                       /\ outcome[t] # "timeout"

OneConfirmed ==
  \/ FirstDiscovery
  \/ /\ confirmed = {Polled} /\ phase # "stopped"
     /\ \A t \in Probes : target[t] # Polled
     /\ (\E t \in Probes : pc[t] # "idle") =>
          Polled \notin initialCache \/ \E p \in Polls : pc[p] # "idle"

(* For liveness: the polled device is confirmed, entries stay, and what is *)
(* known of the polled device is not forgotten.                            *)
SteadySpec ==
  /\ Init /\ confirmed = {Polled}
  /\ [][/\ NextButRemoval /\ UNCHANGED confirmed
        /\ result[Polled] # "none" => result'[Polled] # "none"]_vars
  /\ Fairness
=============================================================================
