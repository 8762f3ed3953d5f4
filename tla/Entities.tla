------------------------------ MODULE Entities ------------------------------
(***************************************************************************)
(* What the sensors of one device show: the readings that advertisements   *)
(* carry (data_pipeline.py, entity_builder.py) and those that its probe    *)
(* and its polls read over a connection (gatt_poller.py), merged key by    *)
(* key by the framework's processor.                                       *)
(*                                                                         *)
(* A reading is a version of a characteristic's value and its body: a      *)
(* scalar, a structure, or a special value ("value is not known").  A      *)
(* structure is a set of <<field, number of elements>>, 1 for a field that *)
(* is no sequence; a leaf of a nested structure is a field with a longer   *)
(* name.                                                                   *)
(***************************************************************************)
EXTENDS Integers, Sequences

CONSTANTS
  Broadcast,   \* characteristics that the advertisements carry
  ReadOrder,   \* those that connections read, in order: supported_char_uuids
  Bodies,      \* the bodies that readings of each characteristic may have
  MaxVersion   \* bound: how often a characteristic changes

Readable == {ReadOrder[i] : i \in DOMAIN ReadOrder}
Chars    == Broadcast \cup Readable

ASSUME BodiesAssumption  == DOMAIN Bodies = Chars
ASSUME VersionAssumption == MaxVersion \in Nat
ASSUME OrderAssumption   == ReadOrder \in Seq(Readable)

Scalar     == [kind |-> "scalar", fields |-> {}]
Special    == [kind |-> "special", fields |-> {}]
Struct(fs) == [kind |-> "struct", fields |-> fs]

Unknown == -1      \* a native value of None; other values are versions
Nothing == << >>   \* a dict without keys

VARIABLES
  reading,    \* what the device has to say now
  loaded,     \* the device entry is set up and its processor listens
  probed,     \* probe_results has an entry, with support
  cache,      \* _initial_gatt_cache: readings by characteristic
  job,        \* where the probe task and the poll are
  todo,       \* characteristics a job still has to read
  got,        \* readings it has so far
  described,  \* keys of the processor's entity_descriptions
  data,       \* the processor's entity_data: native values by key
  latest      \* history: the readings published last, by path

jobVars    == <<probed, cache, job, todo, got>>
viewVars   == <<described, data, latest>>
entityVars == <<reading, loaded, jobVars, viewVars>>

JobNames == {"probe", "poll"}
Paths    == {"interpreted", "service", "gatt"}

-----------------------------------------------------------------------------
(* entity_builder.py: the keys of a reading.                               *)

(* A sequence of one element gets no index, an empty one no entity.        *)
FieldNames(f, n) ==
  IF n = 1 THEN {<<f>>} ELSE {<<f, i>> : i \in 0..(n - 1)}

Names(body) ==
  IF body.kind = "struct"
  THEN UNION {FieldNames(x[1], x[2]) : x \in body.fields}
  ELSE {<< >>}

(* Mutant: the elements of a sequence share one description.               *)
DescribedUnindexed(p, body) ==
  IF p # "service" /\ body.kind = "struct" THEN {<<x[1]>> : x \in body.fields}
                                           ELSE {<< >>}

(* The entities of a characteristic read by path p.  Service data has one, *)
(* whatever the body.                                                      *)
DescribedNames(p, body) == IF p = "service" THEN {<< >>} ELSE Names(body)

(* Mutant: no data for a special value, on any path.                       *)
DataNamesIfKnown(p, body) ==
  IF body.kind = "special" THEN {} ELSE IF p = "service" THEN {<< >>}
                                        ELSE Names(body)

(* The entities that get a value: a special value in service data sets     *)
(* none, over a connection it sets None.                                   *)
DataNames(p, body) ==
  IF p # "service" THEN Names(body)
  ELSE IF body.kind = "special" THEN {} ELSE {<< >>}

NativeValue(r) == IF r.body.kind = "special" THEN Unknown ELSE r.version

(* dict.update()                                                           *)
Updated(old, new) ==
  [k \in DOMAIN old \cup DOMAIN new |->
     IF k \in DOMAIN new THEN new[k] ELSE old[k]]

(* The keys of the readings rs, of the paths ps, by kind of name.          *)
DescribedKeys(rs, ps) ==
  UNION {{<<ps[c], c, n>> : n \in DescribedNames(ps[c], rs[c].body)} :
           c \in DOMAIN rs}

DataKeys(rs, ps) ==
  UNION {{<<ps[c], c, n>> : n \in DataNames(ps[c], rs[c].body)} :
           c \in DOMAIN rs}

(* The processor merges an update: no key is ever taken away.              *)
Publish(rs, ps) ==
  /\ described' = described \cup DescribedKeys(rs, ps)
  /\ data' = Updated(data, [k \in DataKeys(rs, ps) |-> NativeValue(rs[k[2]])])
  /\ latest' = [p \in Paths |->
       Updated(latest[p], [c \in {d \in DOMAIN rs : ps[d] = p} |-> rs[c]])]

PublishRead(rs) == Publish(rs, [c \in DOMAIN rs |-> "gatt"])

-----------------------------------------------------------------------------
(* The device.                                                             *)

Changes(c) ==
  /\ reading[c].version < MaxVersion
  /\ \E b \in Bodies[c] :
       reading' = [reading EXCEPT ![c] = [version |-> @.version + 1, body |-> b]]
  /\ UNCHANGED <<loaded, jobVars, viewVars>>

(* update_device: of the service data S at most one characteristic, first, *)
(* is interpreted (parsed_results[0]); the rest becomes service-data       *)
(* entities, but for what cannot be parsed.                                *)
Advertises(first, parsed) ==
  /\ loaded
  /\ \A c, d \in first : c = d /\ reading[c].body.kind # "special"
  /\ first \cap parsed = {}
  /\ Publish([c \in first \cup parsed |-> reading[c]],
             [c \in first \cup parsed |->
                IF c \in first THEN "interpreted" ELSE "service"])
  /\ UNCHANGED <<reading, loaded, jobVars>>

-----------------------------------------------------------------------------
(* gatt_poller.py, under the coroutines of the GATT manager.               *)

StartReading(j, where) ==
  /\ job' = [job EXCEPT ![j] = where]
  /\ todo' = [todo EXCEPT ![j] = ReadOrder]
  /\ got' = [got EXCEPT ![j] = Nothing]

EndReading(j) ==
  /\ job' = [job EXCEPT ![j] = "idle"]
  /\ todo' = [todo EXCEPT ![j] = << >>]
  /\ got' = [got EXCEPT ![j] = Nothing]

(* A probe is scheduled for a device that is not confirmed.  By the time   *)
(* that it has a slot and has found the services, the device may be.       *)
ProbeScheduled ==
  /\ ~loaded /\ ~probed /\ job["probe"] = "idle"
  /\ job' = [job EXCEPT !["probe"] = "waiting"]
  /\ UNCHANGED <<reading, loaded, probed, cache, todo, got, viewVars>>

ProbeConnects ==
  /\ job["probe"] = "waiting"
  /\ probed' = TRUE /\ StartReading("probe", "reading")
  /\ UNCHANGED <<reading, loaded, cache, viewVars>>

(* Cancelled, failed, or the device was probed meanwhile.                  *)
ProbeGivesUp ==
  /\ job["probe"] = "waiting" /\ EndReading("probe")
  /\ UNCHANGED <<reading, loaded, probed, cache, viewVars>>

(* build_gatt_entities, one characteristic at a time: read, or skipped     *)
(* after an error or its own timeout.                                      *)
ReadOne(j) ==
  LET c == Head(todo[j])
  IN  /\ todo[j] # << >> /\ todo' = [todo EXCEPT ![j] = Tail(@)]
      /\ got' = [got EXCEPT ![j] = Updated(@, [d \in {c} |-> reading[d]])]
      /\ UNCHANGED <<reading, loaded, probed, cache, job, viewVars>>

SkipOne(j) ==
  /\ todo[j] # << >> /\ todo' = [todo EXCEPT ![j] = Tail(@)]
  /\ UNCHANGED <<reading, loaded, probed, cache, job, got, viewVars>>

(* The probe keeps what it read for the first poll.                        *)
ProbeDone ==
  /\ job["probe"] = "reading" /\ todo["probe"] = << >>
  /\ cache' = IF got["probe"] = Nothing THEN cache ELSE got["probe"]
  /\ EndReading("probe")
  /\ UNCHANGED <<reading, loaded, probed, viewVars>>

(* The deadline passes: what was read so far is lost.                      *)
ProbeTimesOut ==
  /\ job["probe"] = "reading" /\ EndReading("probe")
  /\ UNCHANGED <<reading, loaded, probed, cache, viewVars>>

(* Mutant: the cached read is returned by every poll.                      *)
CacheKept == cache

(* async_poll_gatt_with_semaphore: the cached read is returned once.       *)
CacheTaken == Nothing

PollFromCache ==
  /\ loaded /\ job["poll"] = "idle" /\ cache # Nothing
  /\ PublishRead(cache) /\ cache' = CacheTaken
  /\ UNCHANGED <<reading, loaded, probed, job, todo, got>>

(* Otherwise it connects: to read, or, when the device has no result, to   *)
(* discover its services first.                                            *)
PollConnects ==
  /\ loaded /\ job["poll"] = "idle" /\ cache = Nothing
  /\ IF probed THEN StartReading("poll", "reading")
               ELSE /\ job' = [job EXCEPT !["poll"] = "connecting"]
                    /\ UNCHANGED <<todo, got>>
  /\ UNCHANGED <<reading, loaded, probed, cache, viewVars>>

ServicesFound ==
  /\ job["poll"] = "connecting"
  /\ probed' = TRUE /\ StartReading("poll", "discovering")
  /\ UNCHANGED <<reading, loaded, cache, viewVars>>

(* A poll that could read nothing raises, and publishes nothing.           *)
PollDone ==
  /\ job["poll"] = "reading" /\ todo["poll"] = << >>
  /\ IF got["poll"] = Nothing THEN UNCHANGED viewVars
                              ELSE PublishRead(got["poll"])
  /\ EndReading("poll")
  /\ UNCHANGED <<reading, loaded, probed, cache>>

(* The probe inside a poll: its read goes through the cache, or that of    *)
(* another probe is found there; without either the poll connects again if *)
(* the result is still there.                                              *)
PollDiscovered ==
  LET found == IF got["poll"] # Nothing THEN got["poll"] ELSE cache
  IN  /\ job["poll"] = "discovering" /\ todo["poll"] = << >>
      /\ IF found # Nothing
         THEN PublishRead(found) /\ EndReading("poll")
         ELSE /\ IF probed THEN StartReading("poll", "reading")
                           ELSE EndReading("poll")
              /\ UNCHANGED viewVars
      /\ cache' = Nothing
      /\ UNCHANGED <<reading, loaded, probed>>

(* The connection fails, or there is no Device to connect to.              *)
PollFails ==
  /\ \/ job["poll"] = "connecting"
     \/ job["poll"] = "reading" /\ todo["poll"] = ReadOrder
  /\ EndReading("poll")
  /\ UNCHANGED <<reading, loaded, probed, cache, viewVars>>

-----------------------------------------------------------------------------
SetUpEntry ==
  /\ ~loaded /\ loaded' = TRUE
  /\ UNCHANGED <<reading, jobVars, viewVars>>

(* cleanup_cached_device for a device that fell silent, confirmed or not.  *)
Cleanup ==
  /\ probed' = FALSE /\ cache' = Nothing
  /\ IF job["probe"] = "idle" THEN UNCHANGED <<job, todo, got>>
                              ELSE EndReading("probe")
  /\ UNCHANGED <<reading, loaded, viewVars>>

EntitiesInit ==
  /\ reading \in [Chars -> [version : {0}, body : UNION {Bodies[c] : c \in Chars}]]
  /\ \A c \in Chars : reading[c].body \in Bodies[c]
  /\ loaded = FALSE /\ probed = FALSE /\ cache = Nothing
  /\ job = [j \in JobNames |-> "idle"]
  /\ todo = [j \in JobNames |-> << >>] /\ got = [j \in JobNames |-> Nothing]
  /\ described = {} /\ data = Nothing /\ latest = [p \in Paths |-> Nothing]

ProbeStep == ProbeScheduled \/ ProbeConnects \/ ProbeGivesUp
             \/ ReadOne("probe") \/ SkipOne("probe")
             \/ ProbeDone \/ ProbeTimesOut

PollStep == PollFromCache \/ PollConnects \/ ServicesFound \/ ReadOne("poll")
            \/ SkipOne("poll") \/ PollDone \/ PollDiscovered \/ PollFails

EntitiesNext ==
  \/ \E c \in Chars : Changes(c)
  \/ \E first, parsed \in SUBSET Broadcast : Advertises(first, parsed)
  \/ ProbeStep \/ PollStep \/ SetUpEntry \/ Cleanup
=============================================================================
