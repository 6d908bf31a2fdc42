--------------------------- MODULE CachedRegistry ---------------------------
(***************************************************************************)
(* The registries of resources and of hospitals behind the Redis cache.    *)
(* One row is followed, and the table it is listed in; what a row says is  *)
(* its version.  Readers go to the cache, on a miss to the database, and   *)
(* store what they found; writers change the row and then delete the keys. *)
(* No two of these steps are atomic.  Redis may be out of reach at any of  *)
(* them: then the step is skipped and nobody is told.                      *)
(*                                                                         *)
(* The lists are cached per query, under keys that one pattern deletes:    *)
(* one of them stands for all.  Readers with the role OPERATOR pass the    *)
(* list cache by, and "resource:list" and "hospital:list" themselves are   *)
(* deleted but never written.                                              *)
(***************************************************************************)
EXTENDS Naturals

CONSTANTS
    CacheReaders,    \* requests that read
    CacheWriters,    \* requests that write
    DefaultTtl,      \* CACHE_DEFAULT_TTL_SECONDS
    MaxChanges       \* bound: changes of the table

ASSUME CachedRegistryAssumption == MaxChanges \in Nat /\ DefaultTtl \in Nat \ {0}

CacheKeys == {"byId", "availability", "list"}

VARIABLES
    registry,     \* which of the two registries this behaviour is about
    version,      \* of the row, and of the table
    cache,        \* the version behind each key; 0 for no entry
    redis,        \* whether Redis can be reached
    reader,       \* where each reader stands
    writer,       \* where each writer stands
    poisoned      \* history: keys whose entry was left old by a step nobody repairs

crVars == <<registry, version, cache, redis, reader, writer, poisoned>>

Versions == 1 .. MaxChanges + 1
\* What an entry is a copy of.
Source(key) == IF key = "list" THEN "table" ELSE "row"
Stale(key) == cache[key] # 0 /\ cache[key] # version[Source(key)]

AtRest == [step |-> "idle", key |-> "list", seen |-> 0]
WriterAtRest == [step |-> "idle", keys |-> {}]

CRTypeOK ==
    /\ registry \in {"resource", "hospital"}
    /\ version \in [{"row", "table"} -> Versions]
    /\ cache \in [CacheKeys -> Versions \union {0}]
    /\ redis \in BOOLEAN
    /\ reader \in [CacheReaders -> [step : {"idle", "query", "fill"}, key : CacheKeys,
                                    seen : Versions \union {0}]]
    /\ writer \in [CacheWriters -> [step : {"idle", "update", "clear", "clearLists"},
                                    keys : SUBSET CacheKeys]]
    /\ poisoned \subseteq CacheKeys

CRInit ==
    /\ registry \in {"resource", "hospital"}
    /\ version = [s \in {"row", "table"} |-> 1]
    /\ cache = [k \in CacheKeys |-> 0]
    /\ redis = TRUE
    /\ reader = [r \in CacheReaders |-> AtRest]
    /\ writer = [w \in CacheWriters |-> WriterAtRest]
    /\ poisoned = {}

-----------------------------------------------------------------------------
(* The cache service *)

\* RedisCacheService.set: an entry replaces any other, unless it cannot.
Store(key, value) ==
    \/ redis /\ cache' = [cache EXCEPT ![key] = value]
    \/ UNCHANGED cache

\* RedisCacheService.del and delPattern, likewise.
Clear(keys) ==
    \/ redis /\ cache' = [k \in CacheKeys |-> IF k \in keys THEN 0 ELSE cache[k]]
    \/ UNCHANGED cache

\* An entry that is gone or current again is no longer anybody's fault.
Blame(keys) ==
    poisoned' = {k \in poisoned \union keys : cache'[k] # 0 /\ cache'[k] # version[Source(k)]}

\* Mutant: lists are stored without a time to live.
TimeToLiveOfRows(key) == IF key = "list" THEN 0 ELSE DefaultTtl

\* The time to live each service gives its entries, in seconds.
TimeToLive(key) ==
    CASE key = "list"  -> 300
      [] key = "byId" -> DefaultTtl
      [] OTHER         -> IF DefaultTtl = 1 THEN 1 ELSE DefaultTtl \div 2

\* The time to live of an entry is over; without one an entry stays.
Expire(key) ==
    /\ cache[key] # 0
    /\ TimeToLive(key) > 0
    /\ cache' = [cache EXCEPT ![key] = 0]
    /\ poisoned' = poisoned \ {key}
    /\ UNCHANGED <<registry, version, redis, reader, writer>>

\* The connection is lost, or back: with the entries as they were.
Connection ==
    /\ redis' = ~redis
    /\ UNCHANGED <<registry, version, cache, reader, writer, poisoned>>

-----------------------------------------------------------------------------
(* Readers *)

\* cache.get finds nothing, or cannot ask.  A hit is answered at once and
\* changes nothing.
Miss(r, key) ==
    /\ reader[r] = AtRest
    /\ redis => cache[key] = 0
    /\ reader' = [reader EXCEPT ![r] = [step |-> "query", key |-> key, seen |-> 0]]
    /\ UNCHANGED <<registry, version, cache, redis, writer, poisoned>>

GetResources(r) == registry = "resource" /\ Miss(r, "list")
GetResourceById(r) == registry = "resource" /\ Miss(r, "byId")
GetHospitals(r) == registry = "hospital" /\ Miss(r, "list")
GetHospitalById(r) == registry = "hospital" /\ Miss(r, "byId")
GetHospitalAvailability(r) == registry = "hospital" /\ Miss(r, "availability")

Query(r) ==
    /\ reader[r].step = "query"
    /\ reader' = [reader EXCEPT ![r].step = "fill", ![r].seen = version[Source(reader[r].key)]]
    /\ UNCHANGED <<registry, version, cache, redis, writer, poisoned>>

\* The answer goes into the cache, however old it has become by now.
Fill(r) ==
    LET key == reader[r].key
    IN  /\ reader[r].step = "fill"
        /\ Store(key, reader[r].seen)
        /\ Blame(IF cache' # cache THEN {key} ELSE {})
        /\ reader' = [reader EXCEPT ![r] = AtRest]
        /\ UNCHANGED <<registry, version, redis, writer>>

-----------------------------------------------------------------------------
(* Writers *)

Begin(w, step, keys) ==
    /\ writer[w] = WriterAtRest
    /\ writer' = [writer EXCEPT ![w] = [step |-> step, keys |-> keys]]
    /\ UNCHANGED <<registry, version, cache, redis, reader, poisoned>>

ResourceKeys == {"byId", "list"}

\* Mutant: a key that nothing is stored under.
HospitalKeysMisspelt == {"byId", "beds", "list"}

\* Mutant: the availability is forgotten.
HospitalKeysOfRow == {"byId", "list"}

HospitalKeys == {"byId", "availability", "list"}

\* updateResource, assignOperator, removeOperator and deactivateResource, and
\* the same four of hospitals: checks on the row as it is read decide whether
\* the request goes on, and every change then clears the same keys.
ChangeResource(w) == registry = "resource" /\ Begin(w, "update", ResourceKeys)
ChangeHospital(w) == registry = "hospital" /\ Begin(w, "update", HospitalKeys)

\* createResource and createHospital: a new row changes the lists alone.
Insert(w) ==
    /\ writer[w] = WriterAtRest
    /\ version["table"] <= MaxChanges
    /\ version' = [version EXCEPT !["table"] = @ + 1]
    /\ writer' = [writer EXCEPT ![w] = [step |-> "clearLists", keys |-> {"list"}]]
    /\ UNCHANGED <<registry, cache, redis, reader, poisoned>>

CreateResource(w) == registry = "resource" /\ Insert(w)
CreateHospital(w) == registry = "hospital" /\ Insert(w)

\* The row is new in the table it is listed in, too.
ChangeRow ==
    /\ version["table"] <= MaxChanges
    /\ version' = [s \in DOMAIN version |-> version[s] + 1]

Update(w) ==
    /\ writer[w].step = "update"
    /\ ChangeRow
    /\ writer' = [writer EXCEPT ![w].step = "clear"]
    /\ UNCHANGED <<registry, cache, redis, reader, poisoned>>

\* cache.del of the keys of the row.
ClearRow(w) ==
    LET keys == writer[w].keys \ {"list"}
    IN  /\ writer[w].step = "clear"
        /\ Clear(keys)
        /\ Blame(keys)
        /\ writer' = [writer EXCEPT ![w].step = "clearLists", ![w].keys = {"list"}]
        /\ UNCHANGED <<registry, version, redis, reader>>

\* cache.delPattern.  A list that is stored while the pattern is scanned may
\* be missed, as one that is stored just after.
ClearLists(w) ==
    /\ writer[w].step = "clearLists"
    /\ Clear({"list"})
    /\ Blame({"list"})
    /\ writer' = [writer EXCEPT ![w] = WriterAtRest]
    /\ UNCHANGED <<registry, version, redis, reader>>

\* The process of a writer ends, or its update fails.
WriterDies(w) ==
    /\ writer[w] # WriterAtRest
    /\ UNCHANGED cache
    /\ Blame(IF writer[w].step = "update" THEN {} ELSE writer[w].keys)
    /\ writer' = [writer EXCEPT ![w] = WriterAtRest]
    /\ UNCHANGED <<registry, version, redis, reader>>

\* createAssignment and its kin set the status of a resource in transactions
\* of their own, which know nothing of the cache.
DispatchWrites ==
    /\ registry = "resource"
    /\ ChangeRow
    /\ UNCHANGED cache
    /\ poisoned' = {k \in ResourceKeys : cache[k] # 0}
    /\ UNCHANGED <<registry, redis, reader, writer>>

CRNext ==
    \/ Connection
    \/ DispatchWrites
    \/ \E k \in CacheKeys : Expire(k)
    \/ \E r \in CacheReaders :
          \/ GetResources(r) \/ GetResourceById(r)
          \/ GetHospitals(r) \/ GetHospitalById(r) \/ GetHospitalAvailability(r)
          \/ Query(r) \/ Fill(r)
    \/ \E w \in CacheWriters :
          \/ ChangeResource(w) \/ CreateResource(w)
          \/ ChangeHospital(w) \/ CreateHospital(w)
          \/ Update(w) \/ ClearRow(w) \/ ClearLists(w) \/ WriterDies(w)

\* Redis counts down the time to live of every entry.
CRFairness == \A k \in CacheKeys : WF_crVars(Expire(k))

CRSpec == CRInit /\ [][CRNext]_crVars /\ CRFairness

-----------------------------------------------------------------------------
(* Properties *)

\* An entry is older than the database only while a writer that changed the
\* row is on its way to delete it, or after one of the steps that nobody
\* repairs: an answer stored late, a deletion that Redis never got, a writer
\* that died, a status written by the dispatch.
StaleExcused ==
    \A k \in CacheKeys :
        Stale(k) =>
            \/ k \in poisoned
            \/ \E w \in CacheWriters :
                  writer[w].step \in {"clear", "clearLists"} /\ k \in writer[w].keys

\* Once nothing is written any more, the cache tells the truth for good: the
\* time to live ends what no deletion did, and the readers that still hold an
\* old answer can store it only once.
FreshInTheEnd == <>[](\A k \in CacheKeys : ~Stale(k))

=============================================================================
