------------------------------- MODULE Links -------------------------------
(***************************************************************************)
(* The BLE links behind the GATT manager: the adapter of each device       *)
(* (device_adapter.py) under the probes and polls that share it.           *)
(*                                                                         *)
(* coordinator.devices maps an address to a library Device, which wraps    *)
(* one HomeAssistantBluetoothAdapter; a job keeps the Device it found      *)
(* there.  An adapter is <<address, number>>, a link <<adapter, number>>:  *)
(* a link calls back the adapter that established it.  Each step of the    *)
(* GATT manager is joined with what it does to the links, and the awaits   *)
(* inside connect() get steps of their own.                                *)
(***************************************************************************)
EXTENDS GattManagerProps

CONSTANTS
  MaxAdapters,   \* bound: adapters of one address alive at a time
  MaxLinks       \* bound: links of one adapter alive at a time

ASSUME AdaptersAssumption == MaxAdapters \in Nat \ {0}
ASSUME LinksAssumption    == MaxLinks \in Nat \ {0}

Adapters  == Addrs \X (1..MaxAdapters)
NoAdapter == <<NoAddr, 0>>
LinkIds   == Adapters \X (1..MaxLinks)

VARIABLES
  devices,   \* coordinator.devices
  user,      \* the adapter a job works with
  stage,     \* where the job is suspended inside connect, read, disconnect
  client,    \* adapter._client: the number of its link, 0 for None
  up,        \* links in use
  ending     \* links that were asked to disconnect and still stand

linkVars == <<devices, user, stage, client, up, ending>>

Stages == {"none", "stale", "establish", "online", "close"}

Standing == up \cup ending
LinksOf(a) == {l \in Standing : l[1][1] = a}
Using(a)   == {j \in Jobs : user[j][1] = a}

-----------------------------------------------------------------------------
(* coordinator.devices.                                                    *)

(* Numbers not taken by an adapter that a table, a job or a link refers to.*)
Spare(a) ==
  {d \in {a} \X (1..MaxAdapters) :
     /\ devices[a] # d /\ \A j \in Jobs : user[j] # d
     /\ \A l \in Standing : l[1] # d}

(* The adapter of address a, made when the table has none.                 *)
IsDevice(d, a) ==
  IF devices[a] # NoAdapter THEN d = devices[a]
  ELSE Spare(a) # {} /\ d = CHOOSE e \in Spare(a) : TRUE

-----------------------------------------------------------------------------
(* The adapter's methods, up to their next await.                          *)

(* connect(): returns at once if there is a client, and it is connected.   *)
Connect(j, d, clients) ==
  /\ user' = [user EXCEPT ![j] = d]
  /\ stage' = [stage EXCEPT ![j] = IF clients[d] # 0 THEN "online" ELSE "stale"]

(* close_stale_connections_by_address: on a local adapter every link to    *)
(* the address is closed, whoever uses it; through a proxy none is.        *)
CloseStale(j) ==
  /\ stage[j] = "stale" /\ stage' = [stage EXCEPT ![j] = "establish"]
  /\ \/ UNCHANGED <<client, up, ending>>
     \/ LET stale == LinksOf(user[j][1])
        IN  /\ stale # {}
            /\ up' = up \ stale /\ ending' = ending \ stale
            /\ client' = [d \in Adapters |->
                            IF \E l \in stale : l[1] = d THEN 0 ELSE client[d]]
  /\ UNCHANGED <<devices, user>>

(* establish_connection returns: its link replaces whatever client the     *)
(* adapter has by then.                                                    *)
Establish(j) ==
  /\ stage[j] = "establish" /\ stage' = [stage EXCEPT ![j] = "online"]
  /\ LET spare == {k \in 1..MaxLinks : <<user[j], k>> \notin Standing}
     IN  /\ spare # {}
         /\ LET k == CHOOSE m \in spare : TRUE
            IN  /\ client' = [client EXCEPT ![user[j]] = k]
                /\ up' = up \cup {<<user[j], k>>}
  /\ UNCHANGED <<devices, user, ending>>

(* disconnect(): asks the client the adapter has now to disconnect, and    *)
(* does nothing when there is none.                                        *)
Disconnect(j) ==
  LET d == user[j]
      l == <<d, client[d]>>
  IN  /\ IF client[d] = 0
         THEN /\ stage' = [stage EXCEPT ![j] = "none"]
              /\ user' = [user EXCEPT ![j] = NoAdapter]
              /\ UNCHANGED <<up, ending>>
         ELSE /\ stage' = [stage EXCEPT ![j] = "close"]
              /\ up' = up \ {l} /\ ending' = ending \cup {l}
              /\ UNCHANGED user
      /\ UNCHANGED <<devices, client>>

(* Mutant: any failure takes the client away, after connect() as well.     *)
DropClientOnFailure(j) ==
  /\ client' = [client EXCEPT ![user[j]] = 0]
  /\ stage' = [stage EXCEPT ![j] = "none"]
  /\ user' = [user EXCEPT ![j] = NoAdapter]
  /\ UNCHANGED <<devices, up, ending>>

(* A connection attempt that fails: a BleakError takes the client away     *)
(* before disconnect() looks for one, another error does not.              *)
DisconnectAfterFailure(j) ==
  \/ Disconnect(j)
  \/ /\ stage[j] = "establish"
     /\ client' = [client EXCEPT ![user[j]] = 0]
     /\ stage' = [stage EXCEPT ![j] = "none"]
     /\ user' = [user EXCEPT ![j] = NoAdapter]
     /\ UNCHANGED <<devices, up, ending>>

(* Mutant: the finally block is missing.                                   *)
ClientsKept(j) == client

(* The finally block of disconnect(), after the link ended, after an error *)
(* or a cancellation: it drops the client the adapter has by now.          *)
ClientsAfterClose(j) ==
  IF stage[j] = "close" THEN [client EXCEPT ![user[j]] = 0] ELSE client

Disconnected(j) ==
  /\ client' = ClientsAfterClose(j)
  /\ stage' = [stage EXCEPT ![j] = "none"]
  /\ user' = [user EXCEPT ![j] = NoAdapter]
  /\ UNCHANGED <<devices, up, ending>>

(* Mutant: nobody listens to the end of a link.                            *)
LinkEndsUnnoticed(l) ==
  /\ l \in Standing
  /\ up' = up \ {l} /\ ending' = ending \ {l}
  /\ UNCHANGED <<devices, user, stage, client>>

(* A link ends, asked to or lost: _on_disconnect of its adapter forgets    *)
(* the client, whichever link that is.                                     *)
LinkEnds(l) ==
  /\ l \in Standing
  /\ up' = up \ {l} /\ ending' = ending \ {l}
  /\ client' = [client EXCEPT ![l[1]] = 0]
  /\ UNCHANGED <<devices, user, stage>>

-----------------------------------------------------------------------------
(* The GATT manager's steps with their effect on the links.                *)

(* async_probe_device up to its first await.                               *)
ProbeConnects(j, a) ==
  \E d \in Adapters :
    /\ IsDevice(d, a)
    /\ devices' = [devices EXCEPT ![a] = d]
    /\ Connect(j, d, client)
    /\ UNCHANGED <<client, up, ending>>

(* poll_gatt_characteristics up to its first await; without a Device there *)
(* is nothing to poll.                                                     *)
PollConnects(p, clients) ==
  /\ IF devices[PollOf[p]] = NoAdapter
     THEN /\ user' = [user EXCEPT ![p] = NoAdapter]
          /\ stage' = [stage EXCEPT ![p] = "none"]
     ELSE Connect(p, devices[PollOf[p]], clients)
  /\ client' = clients
  /\ UNCHANGED <<devices, up, ending>>

Schedules(t, a) ==
  \/ /\ ScheduleProbe(t, a)
     /\ IF pc'[t] = "connecting" THEN ProbeConnects(t, a)
                                 ELSE UNCHANGED linkVars
  \/ /\ ScheduleProbeFailsAtOnce(t, a)
     /\ \E d \in Adapters :
          /\ IsDevice(d, a) /\ client[d] = 0
          /\ devices' = [devices EXCEPT ![a] = d]
     /\ UNCHANGED <<user, stage, client, up, ending>>

ProbeEnters(t) == ProbeStarts(t) /\ ProbeConnects(t, target[t])

PollEnters(p) ==
  /\ PollStarts(p) \/ PollResumes(p)
  /\ CASE pc'[p] = "connecting" -> ProbeConnects(p, PollOf[p])
       [] pc'[p] = "polling"    -> PollConnects(p, client)
       [] OTHER                 -> UNCHANGED linkVars

Discovered(j) ==
  /\ stage[j] = "online" /\ ConnectSucceeds(j)
  /\ IF pc'[j] = "closing" THEN Disconnect(j) ELSE UNCHANGED linkVars

ConnectBreaks(j) == ConnectFails(j) /\ DisconnectAfterFailure(j)

(* The reads are over, or the deadline passed, or the task was cancelled:  *)
(* the finally block of async_probe_device.                                *)
Unwinds(j) ==
  /\ \/ ReadDone(j)
     \/ j \in Probes /\ (TimeoutFires(j) \/ CancelledConnected(j))
  /\ Disconnect(j)

(* A probe leaves async_probe_device, or finds the address already probed. *)
ProbeCloses(t) ==
  /\ \/ ProbeSupported(t) \/ ProbeErrored(t) \/ ProbeTimedOut(t)
     \/ ProbeUnsupported(t) \/ CancelledUnwinds(t)
  /\ Disconnected(t)

(* A poll that goes on from its probe connects once more.                  *)
PollGoesOn(p) ==
  /\ PollProbeDone(p)
  /\ IF pc'[p] = "polling" THEN PollConnects(p, ClientsAfterClose(p))
                           ELSE Disconnected(p)

(* Inside poll_gatt_characteristics.                                       *)
PollUnwinds(p) ==
  /\ pc[p] = "polling" /\ stage[p] \in {"stale", "establish", "online"}
  /\ DisconnectAfterFailure(p)
  /\ UNCHANGED vars

PollCloses(p) ==
  /\ stage[p] \in {"none", "close"} /\ PollReadDone(p) /\ Disconnected(p)

(* The awaits of connect().                                                *)
AdapterStep(j) ==
  /\ pc[j] \in {"connecting", "polling"} /\ j \notin cancelReq
  /\ CloseStale(j) \/ Establish(j)
  /\ UNCHANGED vars

LinkLost(l) == LinkEnds(l) /\ UNCHANGED vars

(* update_device makes the Device of a confirmed device when none is there.*)
Advertised(a) ==
  /\ a \in confirmed /\ devices[a] = NoAdapter
  /\ \E d \in Adapters :
       IsDevice(d, a) /\ devices' = [devices EXCEPT ![a] = d]
  /\ UNCHANGED <<user, stage, client, up, ending, vars>>

(* remove_device keeps the Device, cleanup_cached_device drops it; neither *)
(* looks at its link.                                                      *)
Forgets(a) ==
  /\ ForgetDevices({a})
  /\ devices' \in {devices, [devices EXCEPT ![a] = NoAdapter]}
  /\ UNCHANGED <<user, stage, client, up, ending>>

(* async_stop clears coordinator.devices at its end.                       *)
Stops ==
  /\ StopBegins \/ StopReturns
  /\ devices' = IF phase' = "stopped" THEN [a \in Addrs |-> NoAdapter]
                                      ELSE devices
  /\ UNCHANGED <<user, stage, client, up, ending>>

(* Steps that open and close nothing.                                      *)
Elsewhere ==
  /\ \/ \E t \in Probes : CooldownDone(t) \/ CancelledInLine(t)
                          \/ CancelledInCooldown(t)
     \/ \E p \in Polls : PollFromCache(p)
     \/ \E a \in Addrs : EntryAdded(a) \/ EntryRemoved(a)
  /\ UNCHANGED linkVars

-----------------------------------------------------------------------------
LinksInit ==
  /\ Init
  /\ devices = [a \in Addrs |-> NoAdapter]
  /\ user = [j \in Jobs |-> NoAdapter]
  /\ stage = [j \in Jobs |-> "none"]
  /\ client = [d \in Adapters |-> 0]
  /\ up = {} /\ ending = {}

LinksStep ==
  \/ \E t \in Probes : ProbeEnters(t) \/ ProbeCloses(t)
  \/ \E a \in Addrs, t \in Probes : Schedules(t, a)
  \/ \E p \in Polls : \/ PollEnters(p) \/ PollGoesOn(p) \/ PollUnwinds(p)
                      \/ PollCloses(p)
  \/ \E a \in Addrs : Advertised(a) \/ Forgets(a)
  \/ \E j \in Jobs : \/ Discovered(j) \/ ConnectBreaks(j) \/ Unwinds(j)
                     \/ AdapterStep(j)
  \/ \E l \in LinkIds : LinkLost(l)
  \/ Stops \/ Elsewhere
=============================================================================
