---------------------------- MODULE EntitiesProps ----------------------------
(***************************************************************************)
(* How the sensors of a device follow its readings.                        *)
(***************************************************************************)
EXTENDS Entities

EntitiesSpec == EntitiesInit /\ [][EntitiesNext]_entityVars

(* Readings have versions in bounds, and every key that has a value was    *)
(* described, without which the framework makes no sensor for it.          *)
EntitiesTypeOK ==
  /\ \A c \in Chars : /\ reading[c].version \in 0..MaxVersion
                      /\ reading[c].body \in Bodies[c]
  /\ loaded \in BOOLEAN /\ probed \in BOOLEAN
  /\ job["probe"] \in {"idle", "waiting", "reading"}
  /\ job["poll"] \in {"idle", "connecting", "reading", "discovering"}
  /\ DOMAIN cache \subseteq Readable
  /\ \A j \in JobNames : DOMAIN got[j] \subseteq Readable
  /\ \A k \in described : k[1] \in Paths /\ k[2] \in Chars
  /\ DOMAIN data \subseteq described

(* A sensor lags behind the last reading of its characteristic on its path *)
(* in two cases only: that reading has no such entity, because a sequence  *)
(* has another length now or a special value came in place of a structure; *)
(* or it was a special value in service data.                              *)
StaleOnlyIfReshaped ==
  \A k \in DOMAIN data :
    LET last == latest[k[1]][k[2]]
    IN  \/ data[k] = NativeValue(last)
        \/ k[3] \notin DescribedNames(k[1], last.body)
        \/ k[1] = "service" /\ last.body.kind = "special"

(* Polls of a device entry that is loaded go on, and every characteristic  *)
(* can be read again and again: connections and reads do not fail for ever.*)
PollFairness ==
  /\ WF_entityVars(PollStep) /\ SF_entityVars(ServicesFound)
  /\ \A c \in Readable :
       SF_entityVars(ReadOne("poll") /\ Head(todo["poll"]) = c)

(* The user has confirmed the device, so that its entry is set up.         *)
FairEntitiesSpec ==
  EntitiesSpec /\ WF_entityVars(SetUpEntry) /\ PollFairness

(* The sensors of what is read over a connection come to show what the     *)
(* device says when it no longer changes, whatever reads of it failed or   *)
(* were cached, and however often its state was cleaned up.                *)
Converges ==
  \A c \in Readable :
    <>[](\A n \in Names(reading[c].body) :
           LET k == <<"gatt", c, n>>
           IN  k \in DOMAIN data /\ data[k] = NativeValue(reading[c]))
=============================================================================
