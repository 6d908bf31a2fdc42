---------------------------- MODULE RecordsProofs ----------------------------
(***************************************************************************)
(* Proofs about the records kept outside the dispatch core, for any number *)
(* of editors, readers, writers, workers and revisions.                    *)
(***************************************************************************)
EXTENDS MCRecords, FiniteSetTheorems, TLAPS

-----------------------------------------------------------------------------
(* Beds *)

\* An edit that no other has crossed would still pass its check.
CheckHolds ==
    \A e \in BedEditors :
        bedEdit[e] # NoBedEdit =>
            /\ bedEdit[e] \in [active : {TRUE}, input : Input, current : BOOLEAN]
            /\ bedEdit[e].current = TRUE => FitsCapacity(beds[bedEdit[e].input.pool], bedEdit[e].input)

BedsOK ==
    /\ beds \in [Pools -> Pool]
    /\ DOMAIN bedEdit = BedEditors
    /\ crossed \subseteq Pools
    /\ CheckHolds
    /\ OverbookedExcused

\* A write by an edit that passed its check keeps the beds within the
\* capacity, and tells the others that their check is out of date.
LEMMA WriteBedsStep ==
  ASSUME BedsOK, NEW e \in BedEditors, WriteBeds(e)
  PROVE  BedsOK'
<1>0. bedEdit[e].input \in Input
  BY DEF WriteBeds, BedsOK, CheckHolds
<1>1. PICK input \in Input, pool \in Pools : input = bedEdit[e].input /\ pool = input.pool
  BY <1>0 DEF Input
<1>2. PICK new \in Pool : new = Edited(beds[pool], input)
  <2>1. /\ beds[pool].capacity \in Counts /\ beds[pool].available \in Counts
        /\ input.capacity \in Counts \union {Unset} /\ input.available \in Counts \union {Unset}
    BY <1>1 DEF BedsOK, Pool, Input
  <2>2. Given(input.capacity, beds[pool].capacity) \in Counts
        /\ Given(input.available, beds[pool].available) \in Counts
    BY <2>1 DEF Given
  <2> QED  BY <2>2 DEF Edited, Pool
<1>3. /\ beds' = [beds EXCEPT ![pool] = new]
      /\ crossed' = IF bedEdit[e].current THEN crossed \ {pool} ELSE crossed \union {pool}
  BY <1>1, <1>2 DEF WriteBeds
<1>4. \A x \in BedEditors : bedEdit'[x] # NoBedEdit =>
         /\ bedEdit[x] # NoBedEdit
         /\ bedEdit'[x].input = bedEdit[x].input
         /\ bedEdit'[x] \in [active : {TRUE}, input : Input, current : BOOLEAN]
         /\ bedEdit'[x].current = TRUE =>
               bedEdit[x].current = TRUE /\ (bedEdit[x].input.pool # pool \/ beds' = beds)
  <2> SUFFICES ASSUME NEW x \in BedEditors, bedEdit'[x] # NoBedEdit
               PROVE  /\ bedEdit[x] # NoBedEdit
                      /\ bedEdit'[x].input = bedEdit[x].input
                      /\ bedEdit'[x] \in [active : {TRUE}, input : Input, current : BOOLEAN]
                      /\ bedEdit'[x].current = TRUE =>
                            /\ bedEdit[x].current = TRUE
                            /\ bedEdit[x].input.pool # pool \/ beds' = beds
    OBVIOUS
  <2>1. bedEdit[x] # NoBedEdit /\ bedEdit[x] \in [active : {TRUE}, input : Input, current : BOOLEAN]
    BY DEF WriteBeds, BedsOK, CheckHolds
  <2>2. bedEdit'[x] = IF bedEdit[x].input.pool = pool /\ beds' # beds
                      THEN [bedEdit[x] EXCEPT !.current = FALSE] ELSE bedEdit[x]
    BY <1>1, <2>1 DEF WriteBeds
  <2>3. CASE bedEdit[x].input.pool = pool /\ beds' # beds
    BY <2>1, <2>2, <2>3
  <2>4. CASE ~(bedEdit[x].input.pool = pool /\ beds' # beds)
    BY <2>1, <2>2, <2>4
  <2> QED  BY <2>3, <2>4
<1>5. beds' \in [Pools -> Pool] /\ DOMAIN bedEdit' = BedEditors /\ crossed' \subseteq Pools
  BY <1>1, <1>2, <1>3 DEF BedsOK, WriteBeds
<1>6. CheckHolds'
  <2> SUFFICES ASSUME NEW x \in BedEditors, bedEdit'[x] # NoBedEdit
               PROVE  /\ bedEdit'[x] \in [active : {TRUE}, input : Input, current : BOOLEAN]
                      /\ bedEdit'[x].current = TRUE =>
                            FitsCapacity(beds'[bedEdit'[x].input.pool], bedEdit'[x].input)
    BY DEF CheckHolds
  <2>1. PICK given \in Input : given = bedEdit[x].input /\ given = bedEdit'[x].input
    BY <1>4 DEF BedsOK, CheckHolds
  <2>2. given.pool \in Pools
    BY DEF Input
  <2>3. bedEdit'[x].current = TRUE =>
           FitsCapacity(beds[given.pool], given) /\ beds'[given.pool] = beds[given.pool]
    BY <1>3, <1>4, <2>1, <2>2 DEF BedsOK, CheckHolds
  <2>4. bedEdit'[x] \in [active : {TRUE}, input : Input, current : BOOLEAN]
    BY <1>4 DEF BedsOK, CheckHolds
  <2> QED  BY <2>1, <2>3, <2>4
<1>7. OverbookedExcused'
  <2>1. bedEdit[e].current = TRUE => new.available <= new.capacity
    BY <1>1, <1>2 DEF BedsOK, CheckHolds, FitsCapacity, WriteBeds
  <2>2. new.available \in Nat /\ new.capacity \in Nat
    BY HospitalBedsAssumption DEF Pool, Counts
  <2>3. bedEdit[e].current \in BOOLEAN
    BY DEF WriteBeds, BedsOK, CheckHolds
  <2>4. bedEdit[e].current = FALSE => pool \in crossed'
    BY <1>3
  <2>5. \A p \in Pools \ {pool} : beds'[p] = beds[p] /\ (p \in crossed => p \in crossed')
    BY <1>3 DEF BedsOK
  <2>6. beds'[pool] = new
    BY <1>3 DEF BedsOK
  <2> QED  BY <2>1, <2>2, <2>3, <2>4, <2>5, <2>6 DEF BedsOK, OverbookedExcused
<1> QED  BY <1>5, <1>6, <1>7 DEF BedsOK

\* What an edit has checked holds throughout, and the types with it.
LEMMA BedsInvariance == HBSpec => []BedsOK
<1>1. HBInit => BedsOK
  <2> SUFFICES ASSUME HBInit  PROVE BedsOK
    OBVIOUS
  <2>1. \A p \in Pools : beds[p] \in Pool /\ beds[p].available <= beds[p].capacity
    BY DEF HBInit
  <2>2. \A p \in Pools : beds[p].available \in Nat /\ beds[p].capacity \in Nat
    BY <2>1, HospitalBedsAssumption DEF Pool, Counts
  <2>3. OverbookedExcused
    BY <2>1, <2>2 DEF OverbookedExcused
  <2> QED  BY <2>3 DEF HBInit, BedsOK, CheckHolds, Pool
<1>2. BedsOK /\ [HBNext]_hbVars => BedsOK'
  <2> SUFFICES ASSUME BedsOK, [HBNext]_hbVars  PROVE BedsOK'
    OBVIOUS
  <2>1. ASSUME NEW e \in BedEditors, NEW input \in Input, BeginBedEdit(e, input)
        PROVE  BedsOK'
    BY <2>1 DEF BeginBedEdit, BedsOK, CheckHolds, OverbookedExcused
  <2>2. ASSUME NEW e \in BedEditors, DropBedEdit(e)  PROVE BedsOK'
    BY <2>2 DEF DropBedEdit, BedsOK, CheckHolds, OverbookedExcused
  <2>3. CASE UNCHANGED hbVars
    BY <2>3 DEF hbVars, BedsOK, CheckHolds, OverbookedExcused
  <2> QED  BY <2>1, <2>2, <2>3, WriteBedsStep DEF HBNext
<1> QED  BY <1>1, <1>2, PTL DEF HBSpec

\* Whatever the number of edits and of beds: more beds are available than
\* there are only after an edit that another one crossed.
THEOREM BedsWithinCapacity == HBSpec => []OverbookedExcused
<1>1. BedsOK => OverbookedExcused
  BY DEF BedsOK
<1> QED  BY <1>1, BedsInvariance, PTL

-----------------------------------------------------------------------------
(* The cache *)

\* The keys a writer clears after it has changed the row.
KeysOf(which) == IF which = "resource" THEN ResourceKeys ELSE HospitalKeys

CacheShape ==
    /\ DOMAIN cache = CacheKeys
    /\ version \in [{"row", "table"} -> Versions]
    /\ version["row"] <= version["table"]
    /\ reader \in [CacheReaders -> [step : {"idle", "query", "fill"}, key : CacheKeys,
                                    seen : Versions \union {0}]]
    /\ writer \in [CacheWriters -> [step : {"idle", "update", "clear", "clearLists"},
                                    keys : SUBSET CacheKeys]]
    /\ registry \in {"resource", "hospital"}

\* A writer that changed the row knows all keys that may hold it: no reader
\* stores the availability of a resource.
KeysKnown ==
    /\ \A w \in CacheWriters :
          /\ writer[w].step \in {"update", "clear"} => writer[w].keys = KeysOf(registry)
          /\ writer[w].step = "clearLists" => writer[w].keys = {"list"}
    /\ registry = "resource" =>
          /\ cache["availability"] = 0
          /\ \A r \in CacheReaders : reader[r].key # "availability"

CacheOK == CacheShape /\ KeysKnown /\ StaleExcused

Awaited(k) ==
    \E w \in CacheWriters : writer[w].step \in {"clear", "clearLists"} /\ k \in writer[w].keys

\* A step that leaves the rows alone leaves an old entry old, or answers for it.
LEMMA Excuse ==
  ASSUME CacheOK, NEW keys, Blame(keys), UNCHANGED version, NEW k \in CacheKeys,
         cache'[k] = cache[k] \/ cache'[k] = 0 \/ k \in keys,
         Awaited(k) => Awaited(k)' \/ k \in keys
  PROVE  Stale(k)' => k \in poisoned' \/ Awaited(k)'
<1> SUFFICES ASSUME Stale(k)'  PROVE k \in poisoned' \/ Awaited(k)'
  OBVIOUS
<1>1. k \in poisoned \union keys => k \in poisoned'
  BY DEF Blame, Stale
<1>2. k \notin keys => Stale(k)
  BY DEF Stale
<1>3. Stale(k) => k \in poisoned \/ Awaited(k)
  BY DEF CacheOK, StaleExcused, Awaited
<1> QED  BY <1>1, <1>2, <1>3

\* Readers take no writer's place, and what they store too late they answer for.
LEMMA ReaderStep ==
  ASSUME CacheOK, NEW r \in CacheReaders,
         \/ GetResources(r) \/ GetResourceById(r)
         \/ GetHospitals(r) \/ GetHospitalById(r) \/ GetHospitalAvailability(r)
         \/ Query(r) \/ Fill(r)
  PROVE  CacheOK'
<1>1. ASSUME NEW key \in CacheKeys, Miss(r, key), key = "availability" => registry = "hospital"
      PROVE  CacheOK'
  <2>1. /\ reader' = [reader EXCEPT ![r] = [step |-> "query", key |-> key, seen |-> 0]]
        /\ UNCHANGED <<registry, version, cache, writer, poisoned>>
    BY <1>1 DEF Miss
  <2>2. CacheShape'
    BY <2>1 DEF CacheOK, CacheShape
  <2>3. KeysKnown'
    BY <1>1, <2>1 DEF CacheOK, CacheShape, KeysKnown
  <2> QED  BY <2>1, <2>2, <2>3 DEF CacheOK, StaleExcused, Stale
<1>2. CASE \/ GetResources(r) \/ GetResourceById(r)
           \/ GetHospitals(r) \/ GetHospitalById(r) \/ GetHospitalAvailability(r)
  BY <1>1, <1>2 DEF GetResources, GetResourceById, GetHospitals, GetHospitalById,
                    GetHospitalAvailability, CacheKeys, CacheOK, CacheShape
<1>3. CASE Query(r)
  <2>1. PICK seen : seen = version[Source(reader[r].key)]
    OBVIOUS
  <2>2. seen \in Versions \union {0}
    BY <2>1 DEF CacheOK, CacheShape, Source
  <2>3. /\ reader' = [reader EXCEPT ![r] = [step |-> "fill", key |-> reader[r].key, seen |-> seen]]
        /\ UNCHANGED <<registry, version, cache, writer, poisoned>>
    <3>1. /\ reader[r] \in [step : {"idle", "query", "fill"}, key : CacheKeys,
                            seen : Versions \union {0}]
          /\ DOMAIN reader = CacheReaders
      BY DEF CacheOK, CacheShape
    <3>2. /\ reader' = [reader EXCEPT ![r].step = "fill", ![r].seen = seen]
          /\ UNCHANGED <<registry, version, cache, writer, poisoned>>
      BY <1>3, <2>1 DEF Query
    <3>3. PICK key \in CacheKeys, old \in Versions \union {0} :
             reader[r] = [step |-> "query", key |-> key, seen |-> old]
      BY <1>3, <3>1 DEF Query
    <3>4. [[reader[r] EXCEPT !.step = "fill"] EXCEPT !.seen = seen]
             = [step |-> "fill", key |-> reader[r].key, seen |-> seen]
      <4>1. PICK once : once = [reader[r] EXCEPT !.step = "fill"]
        OBVIOUS
      <4>2. once = [step |-> "fill", key |-> key, seen |-> old]
        BY <3>3, <4>1
      <4>3. [once EXCEPT !.seen = seen] = [step |-> "fill", key |-> key, seen |-> seen]
        BY <4>2
      <4>4. reader[r].key = key
        BY <3>3
      <4> QED  BY <4>1, <4>3, <4>4
    <3>5. reader' = [reader EXCEPT ![r] = [[reader[r] EXCEPT !.step = "fill"] EXCEPT !.seen = seen]]
      BY <3>1, <3>2
    <3> QED  BY <3>2, <3>4, <3>5
  <2>4. CacheShape'
    BY <2>2, <2>3 DEF CacheOK, CacheShape
  <2>5. KeysKnown'
    BY <2>3 DEF CacheOK, CacheShape, KeysKnown
  <2> QED  BY <2>3, <2>4, <2>5 DEF CacheOK, StaleExcused, Stale
<1>4. CASE Fill(r)
  <2>1. PICK key, seen : key \in CacheKeys /\ key = reader[r].key /\ seen = reader[r].seen
    BY DEF CacheOK, CacheShape
  <2>2. /\ cache' = cache \/ cache' = [cache EXCEPT ![key] = seen]
        /\ Blame(IF cache' # cache THEN {key} ELSE {})
        /\ reader' = [reader EXCEPT ![r] = AtRest]
        /\ UNCHANGED <<registry, version, writer>>
    BY <1>4, <2>1 DEF Fill, Store
  <2>3. CacheShape'
    BY <2>2 DEF CacheOK, CacheShape, AtRest, CacheKeys
  <2>4. KeysKnown'
    <3>1. registry = "resource" => key # "availability"
      BY <2>1 DEF CacheOK, KeysKnown
    <3>2. registry = "resource" => cache'["availability"] = 0
      <4>1. "availability" \in CacheKeys /\ DOMAIN cache = CacheKeys
        BY DEF CacheKeys, CacheOK, CacheShape
      <4>2. registry = "resource" => cache["availability"] = 0
        BY DEF CacheOK, KeysKnown
      <4> QED  BY <2>2, <3>1, <4>1, <4>2
    <3>3. registry = "resource" => \A x \in CacheReaders : reader'[x].key # "availability"
      BY <2>2 DEF CacheOK, CacheShape, KeysKnown, AtRest
    <3> QED  BY <2>2, <3>2, <3>3 DEF CacheOK, KeysKnown
  <2>5. ASSUME NEW k \in CacheKeys  PROVE Stale(k)' => k \in poisoned' \/ Awaited(k)'
    <3>1. Awaited(k) => Awaited(k)'
      BY <2>2 DEF Awaited
    <3>2. cache' = cache \/ cache'[k] = cache[k] \/ k = key
      BY <2>2 DEF CacheOK, CacheShape
    <3>3. cache' = cache => cache'[k] = cache[k]
      OBVIOUS
    <3> DEFINE late == IF cache' # cache THEN {key} ELSE {}
    <3>4. Blame(late) /\ UNCHANGED version
      BY <2>2
    <3>5. cache'[k] = cache[k] \/ k \in late
      BY <3>2, <3>3
    <3> QED  BY <3>1, <3>4, <3>5, Excuse
  <2> QED  BY <2>3, <2>4, <2>5 DEF CacheOK, StaleExcused, Awaited
<1> QED  BY <1>2, <1>3, <1>4

\* A change of the row or of the table stays within the versions there are.
LEMMA NextVersion ==
  ASSUME CacheShape, version["table"] <= MaxChanges
  PROVE  /\ ChangeRow => version' \in [{"row", "table"} -> Versions]
                         /\ version'["row"] <= version'["table"]
         /\ version' = [version EXCEPT !["table"] = @ + 1] =>
               version' \in [{"row", "table"} -> Versions]
               /\ version'["row"] <= version'["table"]
<1>1. PICK row \in Versions, table \in Versions :
         version = [s \in {"row", "table"} |-> IF s = "row" THEN row ELSE table]
  <2>1. version["row"] \in Versions /\ version["table"] \in Versions
        /\ version = [s \in {"row", "table"} |-> version[s]]
    BY DEF CacheShape
  <2> QED  BY <2>1
<1>2. row <= table /\ table <= MaxChanges
  BY <1>1 DEF CacheShape
<1>3. /\ row + 1 \in Versions /\ table + 1 \in Versions
      /\ row + 1 <= table + 1 /\ row <= table + 1
  BY <1>2, CachedRegistryAssumption DEF Versions
<1>4. ChangeRow =>
         version' = [s \in {"row", "table"} |-> IF s = "row" THEN row + 1 ELSE table + 1]
  BY <1>1 DEF ChangeRow
<1>5. version' = [version EXCEPT !["table"] = @ + 1] =>
         version' = [s \in {"row", "table"} |-> IF s = "row" THEN row ELSE table + 1]
  BY <1>1
<1> QED  BY <1>3, <1>4, <1>5

\* Whoever writes clears, after the change, every key that may hold the row.
LEMMA WriterStep ==
  ASSUME CacheOK, NEW w \in CacheWriters,
         \/ ChangeResource(w) \/ CreateResource(w)
         \/ ChangeHospital(w) \/ CreateHospital(w)
         \/ Update(w) \/ ClearRow(w) \/ ClearLists(w) \/ WriterDies(w)
  PROVE  CacheOK'
<1> DEFINE Standing == [step : {"idle", "update", "clear", "clearLists"}, keys : SUBSET CacheKeys]
<1>0. /\ writer \in [CacheWriters -> Standing]
      /\ DOMAIN cache = CacheKeys
      /\ registry \in {"resource", "hospital"}
      /\ KeysOf(registry) \subseteq CacheKeys
      /\ "list" \in CacheKeys
  BY DEF CacheOK, CacheShape, KeysOf, ResourceKeys, HospitalKeys, CacheKeys
\* What a step that takes one writer on has to keep.
<1>1. ASSUME NEW mine \in Standing, writer' = [writer EXCEPT ![w] = mine],
             mine.step \in {"update", "clear"} => mine.keys = KeysOf(registry),
             mine.step = "clearLists" => mine.keys = {"list"},
             UNCHANGED <<registry, reader>>, DOMAIN cache' = CacheKeys,
             \A k \in CacheKeys : cache'[k] = cache[k] \/ cache'[k] = 0,
             version' \in [{"row", "table"} -> Versions], version'["row"] <= version'["table"]
      PROVE  CacheShape' /\ KeysKnown'
  <2>1. CacheShape'
    BY <1>0, <1>1 DEF CacheOK, CacheShape
  <2>2. registry = "resource" => cache'["availability"] = 0
    BY <1>1 DEF CacheKeys, CacheOK, KeysKnown
  <2>3. \A x \in CacheWriters :
           /\ writer'[x].step \in {"update", "clear"} => writer'[x].keys = KeysOf(registry)
           /\ writer'[x].step = "clearLists" => writer'[x].keys = {"list"}
    BY <1>0, <1>1 DEF CacheOK, KeysKnown
  <2> QED  BY <1>1, <2>1, <2>2, <2>3 DEF CacheOK, KeysKnown
<1>2. ASSUME writer[w].step \notin {"clear", "clearLists"},
             writer' = [writer EXCEPT ![w] = writer'[w]]
      PROVE  \A k \in CacheKeys : Awaited(k) => Awaited(k)'
  BY <1>0, <1>2 DEF Awaited
<1>3. ASSUME NEW step \in {"update"}, NEW keys, keys = KeysOf(registry), Begin(w, step, keys)
      PROVE  CacheOK'
  <2> DEFINE mine == [step |-> step, keys |-> keys]
  <2>1. /\ mine \in Standing /\ mine.step = "update" /\ mine.keys = KeysOf(registry)
        /\ writer' = [writer EXCEPT ![w] = mine] /\ writer'[w] = mine
        /\ writer[w].step = "idle"
        /\ UNCHANGED <<registry, version, cache, reader, poisoned>>
    BY <1>0, <1>3 DEF Begin, WriterAtRest
  <2>2. CacheShape' /\ KeysKnown'
    BY <1>0, <1>1, <2>1 DEF CacheOK, CacheShape
  <2>3. \A k \in CacheKeys : Awaited(k) => Awaited(k)'
    BY <1>2, <2>1
  <2>4. \A k \in CacheKeys : Stale(k)' => Stale(k)
    BY <2>1 DEF Stale
  <2> QED  BY <2>1, <2>2, <2>3, <2>4 DEF CacheOK, StaleExcused, Awaited
<1>4. CASE ChangeResource(w)
  BY <1>3, <1>4 DEF ChangeResource, KeysOf
<1>5. CASE ChangeHospital(w)
  BY <1>3, <1>5 DEF ChangeHospital, KeysOf
<1>6. CASE CreateResource(w) \/ CreateHospital(w)
  <2> DEFINE mine == [step |-> "clearLists", keys |-> {"list"}]
  <2>1. /\ mine \in Standing /\ mine.step = "clearLists" /\ mine.keys = {"list"}
        /\ writer' = [writer EXCEPT ![w] = mine] /\ writer'[w] = mine
        /\ writer[w].step = "idle"
        /\ version["table"] <= MaxChanges
        /\ version' = [version EXCEPT !["table"] = @ + 1]
        /\ UNCHANGED <<registry, cache, reader, poisoned>>
    <3>1. Insert(w)
      BY <1>6 DEF CreateResource, CreateHospital
    <3>2. /\ mine \in Standing /\ mine.step = "clearLists" /\ mine.keys = {"list"}
          /\ writer[w].step = "idle"
      BY <1>0, <3>1 DEF Insert, WriterAtRest
    <3>3. writer' = [writer EXCEPT ![w] = mine] /\ writer'[w] = mine
      BY <1>0, <3>1 DEF Insert
    <3> QED  BY <3>1, <3>2, <3>3 DEF Insert
  <2>2. version' \in [{"row", "table"} -> Versions] /\ version'["row"] <= version'["table"]
    BY <2>1, NextVersion DEF CacheOK
  <2>3. CacheShape' /\ KeysKnown'
    BY <1>0, <1>1, <2>1, <2>2
  <2>4. \A k \in CacheKeys : Awaited(k) => Awaited(k)'
    BY <1>2, <2>1
  <2>5. Awaited("list")'
    BY <2>1 DEF Awaited
  <2>6. \A k \in CacheKeys : k # "list" => Source(k) = "row"
    BY DEF Source
  <2>7. version'["row"] = version["row"]
    BY <2>1 DEF CacheOK, CacheShape
  <2>8. \A k \in CacheKeys : k # "list" /\ Stale(k)' => Stale(k)
    BY <2>1, <2>6, <2>7 DEF Stale
  <2> QED  BY <2>1, <2>3, <2>4, <2>5, <2>8 DEF CacheOK, StaleExcused, Awaited
<1>7. CASE Update(w)
  <2> DEFINE mine == [step |-> "clear", keys |-> KeysOf(registry)]
  <2>1. /\ writer[w].step = "update" /\ writer[w].keys = KeysOf(registry)
        /\ version["table"] <= MaxChanges /\ ChangeRow
        /\ writer' = [writer EXCEPT ![w] = [writer[w] EXCEPT !.step = "clear"]]
        /\ UNCHANGED <<registry, cache, reader, poisoned>>
    BY <1>7 DEF Update, ChangeRow, CacheOK, KeysKnown
  <2>2. mine \in Standing /\ writer' = [writer EXCEPT ![w] = mine] /\ writer'[w] = mine
    <3>1. writer[w] = [step |-> "update", keys |-> KeysOf(registry)]
      <4>1. PICK st \in {"idle", "update", "clear", "clearLists"}, held \in SUBSET CacheKeys :
               writer[w] = [step |-> st, keys |-> held]
        BY <1>0
      <4> QED  BY <2>1, <4>1
    <3>2. [writer[w] EXCEPT !.step = "clear"] = mine
      BY <3>1
    <3>3. mine \in Standing
      BY <1>0
    <3> QED  BY <1>0, <2>1, <3>2, <3>3
  <2>3. version' \in [{"row", "table"} -> Versions] /\ version'["row"] <= version'["table"]
    BY <2>1, NextVersion DEF CacheOK
  <2>4. CacheShape' /\ KeysKnown'
    BY <1>0, <1>1, <2>1, <2>2, <2>3
  <2>5. \A k \in CacheKeys : Stale(k)' => k \in KeysOf(registry)
    BY <2>1 DEF Stale, CacheOK, KeysKnown, CacheShape, CacheKeys, KeysOf, ResourceKeys, HospitalKeys
  <2>6. \A k \in KeysOf(registry) : Awaited(k)'
    BY <2>2 DEF Awaited
  <2> QED  BY <2>4, <2>5, <2>6 DEF CacheOK, StaleExcused, Awaited
<1>8. ASSUME NEW keys \in SUBSET CacheKeys, NEW mine \in Standing,
             writer' = [writer EXCEPT ![w] = mine],
             mine = WriterAtRest \/ mine = [step |-> "clearLists", keys |-> {"list"}],
             \A k \in writer[w].keys :
                writer[w].step \in {"clear", "clearLists"} =>
                   k \in keys \/ (mine.step = "clearLists" /\ k = "list"),
             cache' = cache \/ cache' = [k \in CacheKeys |-> IF k \in keys THEN 0 ELSE cache[k]],
             Blame(keys), UNCHANGED <<registry, version, reader>>
      PROVE  CacheOK'
  <2>1. DOMAIN cache' = CacheKeys /\ \A k \in CacheKeys : cache'[k] = cache[k] \/ cache'[k] = 0
    BY <1>0, <1>8
  <2>2. CacheShape' /\ KeysKnown'
    <3>1. /\ mine.step \in {"update", "clear"} => mine.keys = KeysOf(registry)
          /\ mine.step = "clearLists" => mine.keys = {"list"}
      BY <1>8 DEF WriterAtRest
    <3>2. version' \in [{"row", "table"} -> Versions] /\ version'["row"] <= version'["table"]
      BY <1>8 DEF CacheOK, CacheShape
    <3> QED  BY <1>1, <1>8, <2>1, <3>1, <3>2
  <2>3. writer'[w] = mine /\ \A x \in CacheWriters \ {w} : writer'[x] = writer[x]
    BY <1>0, <1>8
  <2>4. mine.step = "clearLists" => mine.keys = {"list"}
    BY <1>8 DEF WriterAtRest
  <2>5. ASSUME NEW k \in CacheKeys  PROVE Stale(k)' => k \in poisoned' \/ Awaited(k)'
    <3>1. Awaited(k) => Awaited(k)' \/ k \in keys
      BY <1>8, <2>3, <2>4 DEF Awaited
    <3> QED  BY <1>8, <2>1, <3>1, Excuse
  <2> QED  BY <2>2, <2>5 DEF CacheOK, StaleExcused, Awaited
<1>9. CASE ClearRow(w)
  <2> DEFINE mine == [step |-> "clearLists", keys |-> {"list"}]
             keys == writer[w].keys \ {"list"}
  <2>1. writer[w].step = "clear" /\ writer[w].keys \in SUBSET CacheKeys
    BY <1>0, <1>9 DEF ClearRow
  <2>2. mine \in Standing /\ writer' = [writer EXCEPT ![w] = mine]
    <3>1. PICK held \in SUBSET CacheKeys : writer[w] = [step |-> "clear", keys |-> held]
      BY <1>0, <2>1
    <3>2. [[writer[w] EXCEPT !.step = "clearLists"] EXCEPT !.keys = {"list"}] = mine
      <4>1. PICK once : once = [writer[w] EXCEPT !.step = "clearLists"]
        OBVIOUS
      <4>2. once = [step |-> "clearLists", keys |-> held]
        BY <3>1, <4>1
      <4>3. [once EXCEPT !.keys = {"list"}] = mine
        BY <4>2
      <4> QED  BY <4>1, <4>3
    <3>3. writer' = [writer EXCEPT ![w] = [[writer[w] EXCEPT !.step = "clearLists"] EXCEPT !.keys = {"list"}]]
      BY <1>0, <1>9 DEF ClearRow
    <3> QED  BY <1>0, <3>2, <3>3
  <2>3. /\ cache' = cache \/ cache' = [k \in CacheKeys |-> IF k \in keys THEN 0 ELSE cache[k]]
        /\ Blame(keys) /\ UNCHANGED <<registry, version, reader>>
    BY <1>9 DEF ClearRow, Clear
  <2>4. keys \in SUBSET CacheKeys /\ \A k \in writer[w].keys : k \in keys \/ k = "list"
    BY <2>1
  <2> QED  BY <1>8, <2>2, <2>3, <2>4
<1>10. CASE ClearLists(w)
  <2>1. /\ WriterAtRest \in Standing /\ {"list"} \in SUBSET CacheKeys
        /\ writer' = [writer EXCEPT ![w] = WriterAtRest]
        /\ writer[w].step = "clearLists" /\ writer[w].keys = {"list"}
    BY <1>0, <1>10 DEF ClearLists, WriterAtRest, CacheOK, KeysKnown
  <2>2. /\ \/ cache' = cache
           \/ cache' = [k \in CacheKeys |-> IF k \in {"list"} THEN 0 ELSE cache[k]]
        /\ Blame({"list"}) /\ UNCHANGED <<registry, version, reader>>
    BY <1>10 DEF ClearLists, Clear
  <2> QED  BY <1>8, <2>1, <2>2
<1>11. CASE WriterDies(w)
  <2> DEFINE keys == IF writer[w].step = "update" THEN {} ELSE writer[w].keys
  <2>1. /\ WriterAtRest \in Standing /\ keys \in SUBSET CacheKeys
        /\ writer' = [writer EXCEPT ![w] = WriterAtRest]
        /\ writer[w].step \in {"clear", "clearLists"} => keys = writer[w].keys
    BY <1>0, <1>11 DEF WriterDies, WriterAtRest
  <2>2. cache' = cache /\ Blame(keys) /\ UNCHANGED <<registry, version, reader>>
    BY <1>11 DEF WriterDies
  <2> QED  BY <1>8, <2>1, <2>2
<1> QED  BY <1>4, <1>5, <1>6, <1>7, <1>9, <1>10, <1>11

\* Old entries are answered for throughout, and writers know their keys.
LEMMA CacheInvariance == CRSpec => []CacheOK
<1>1. CRInit => CacheOK
  BY CachedRegistryAssumption DEF CRInit, CacheOK, CacheShape, KeysKnown, StaleExcused, Stale,
     AtRest, WriterAtRest, Versions, CacheKeys
<1>2. CacheOK /\ [CRNext]_crVars => CacheOK'
  <2> SUFFICES ASSUME CacheOK, [CRNext]_crVars  PROVE CacheOK'
    OBVIOUS
  <2>1. CASE Connection
    BY <2>1 DEF Connection, CacheOK, CacheShape, KeysKnown, StaleExcused, Stale
  <2>2. CASE DispatchWrites
    <3>1. /\ registry = "resource" /\ ChangeRow /\ version["table"] <= MaxChanges
          /\ poisoned' = {k \in ResourceKeys : cache[k] # 0}
          /\ UNCHANGED <<registry, cache, reader, writer>>
      BY <2>2 DEF DispatchWrites, ChangeRow
    <3>2. version' \in [{"row", "table"} -> Versions] /\ version'["row"] <= version'["table"]
      BY <3>1, NextVersion DEF CacheOK
    <3>3. CacheShape'
      BY <3>1, <3>2 DEF CacheOK, CacheShape
    <3>4. KeysKnown'
      BY <3>1 DEF CacheOK, KeysKnown
    <3>5. \A k \in CacheKeys : Stale(k)' => k \in poisoned'
      BY <3>1 DEF Stale, CacheOK, KeysKnown, CacheKeys, ResourceKeys
    <3> QED  BY <3>3, <3>4, <3>5 DEF CacheOK, StaleExcused
  <2>3. ASSUME NEW key \in CacheKeys, Expire(key)  PROVE CacheOK'
    <3>1. /\ cache' = [cache EXCEPT ![key] = 0] /\ poisoned' = poisoned \ {key}
          /\ UNCHANGED <<registry, version, reader, writer>>
      BY <2>3 DEF Expire
    <3>2. CacheShape'
      BY <3>1 DEF CacheOK, CacheShape
    <3>3. KeysKnown'
      <4>1. registry = "resource" => cache'["availability"] = 0
        BY <3>1 DEF CacheOK, CacheShape, KeysKnown, CacheKeys
      <4> QED  BY <3>1, <4>1 DEF CacheOK, KeysKnown
    <3>4. \A k \in CacheKeys : Stale(k)' => Stale(k) /\ k # key
      BY <3>1 DEF Stale, CacheOK, CacheShape
    <3> QED  BY <3>1, <3>2, <3>3, <3>4 DEF CacheOK, StaleExcused
  <2>4. CASE UNCHANGED crVars
    BY <2>4 DEF crVars, CacheOK, CacheShape, KeysKnown, StaleExcused, Stale
  <2> QED  BY <2>1, <2>2, <2>3, <2>4, ReaderStep, WriterStep DEF CRNext
<1> QED  BY <1>1, <1>2, PTL DEF CRSpec

\* Whatever the number of readers, of writers and of changes: an entry of the
\* cache is older than the database only while a writer is about to clear it,
\* or after one of the steps that nobody repairs.
THEOREM StaleEntriesExplained == CRSpec => []StaleExcused
<1>1. CacheOK => StaleExcused
  BY DEF CacheOK
<1> QED  BY <1>1, CacheInvariance, PTL

-----------------------------------------------------------------------------
(* The priority *)

Steps == {"idle", "write", "review", "read", "save", "announce"}

TaskRecord == [step : Steps,
               role : EditRoles \union {"nobody"}, rev : Nat]

\* What a task has read is a revision there has been, and a worker announces
\* only a score that was saved.
TasksSane ==
    /\ task \in [Tasks -> TaskRecord]
    /\ \A t \in Tasks :
          /\ task[t].step # "idle" => report # 0
          /\ task[t].step = "save" => task[t].rev # 0 /\ task[t].rev <= report
          /\ task[t].step = "announce" => score # 0
          /\ task[t].step = "write" => task[t].role # "nobody"

\* The edit that wrote the current revision is still to save its score.
EditorDue ==
    \E c \in Callers :
        /\ task[c].role # "nobody"
        /\ task[c].step = "read" \/ (task[c].step = "save" /\ task[c].rev = report)

\* The score of the first revision is the handler's to save, those of later
\* ones are their edits', but for one that a rejection wrote, which is nobody's:
\* who else saves may be early, late or gone.
ScoreOK ==
    /\ report \in Nat /\ score \in Nat /\ score <= report
    /\ overtaken \in BOOLEAN /\ lost \in BOOLEAN
    /\ DOMAIN authors = Revisions
    /\ report = 0 => created = "none"
    /\ TasksSane
    /\ report > 1 /\ report # score => EditorDue \/ overtaken \/ lost \/ Annotated
    /\ report = 1 /\ score = 0 => created \in {"unwritten", "queued"} \/ lost

\* What is still due, was lost or was overtaken, and what a rejection wrote, is
\* all that ScoreOK leaves.
LEMMA ScoreOKSuffices == ScoreOK => ScoreExcused
<1> SUFFICES ASSUME ScoreOK, report # score  PROVE Due \/ overtaken \/ lost \/ Annotated
  BY DEF ScoreExcused
<1>1. CASE report > 1
  <2>1. EditorDue => Due
    BY DEF EditorDue, Due, Tasks
  <2> QED  BY <1>1, <2>1 DEF ScoreOK
<1>2. CASE report = 1
  <2>1. score = 0
    BY <1>2 DEF ScoreOK
  <2>2. ASSUME created = "queued"  PROVE Due
    <3>1. CASE \A w \in ScoreWorkers : task[w].step \notin {"save", "announce"}
      BY <2>2, <3>1 DEF Due
    <3>2. ASSUME NEW w \in ScoreWorkers, task[w].step \in {"save", "announce"}  PROVE Due
      <4>1. w \in Tasks /\ task[w].step = "save"
        BY <2>1, <3>2 DEF ScoreOK, TasksSane, Tasks
      <4>2. task[w].rev \in Nat /\ task[w].rev # 0 /\ task[w].rev <= report
        BY <4>1 DEF ScoreOK, TasksSane, TaskRecord, Steps
      <4>3. task[w].rev = report
        BY <1>2, <4>2
      <4> QED  BY <4>1, <4>3 DEF Due
    <3> QED  BY <3>1, <3>2
  <2> QED  BY <1>2, <2>1, <2>2 DEF ScoreOK, Due
<1> QED  BY <1>1, <1>2 DEF ScoreOK

\* A task that goes on without writing leaves the others as they are.
LEMMA TaskGoesOn ==
  ASSUME ScoreOK, NEW t \in Tasks, NEW mine \in TaskRecord,
         task' = [task EXCEPT ![t] = mine], UNCHANGED <<report, score, created, authors>>,
         overtaken' \in BOOLEAN, lost' \in BOOLEAN, overtaken => overtaken', lost => lost',
         mine.step # "idle" => report # 0,
         mine.step = "save" => mine.rev = report,
         mine.step = "announce" => score # 0,
         mine.step = "write" => mine.role # "nobody",
         \/ task[t].role = "nobody" \/ task[t].step \notin {"read", "save"}
         \/ mine.role # "nobody" /\ mine.step = "save"
         \/ score # report => lost'
  PROVE  ScoreOK'
<1>1. /\ task'[t] = mine /\ task' \in [Tasks -> TaskRecord]
      /\ \A x \in Tasks \ {t} : task'[x] = task[x]
  BY DEF ScoreOK, TasksSane
<1>2. report \in Nat
  BY DEF ScoreOK
<1>3. mine.step = "save" => mine.rev # 0 /\ mine.rev <= report
  BY <1>2
<1>4. TasksSane'
  <2>1. \A x \in Tasks :
          /\ task'[x].step # "idle" => report # 0
          /\ task'[x].step = "save" => task'[x].rev # 0 /\ task'[x].rev <= report
          /\ task'[x].step = "announce" => score # 0
          /\ task'[x].step = "write" => task'[x].role # "nobody"
    BY <1>1, <1>3 DEF ScoreOK, TasksSane
  <2> QED  BY <1>1, <2>1 DEF TasksSane
<1>5. EditorDue /\ report # score => EditorDue' \/ lost'
  <2> SUFFICES ASSUME report # score, NEW c \in Callers, task[c].role # "nobody",
                      task[c].step = "read" \/ (task[c].step = "save" /\ task[c].rev = report)
               PROVE  EditorDue' \/ lost'
    BY DEF EditorDue
  <2>1. c \in Tasks
    BY DEF Tasks
  <2>2. CASE c = t
    BY <1>1, <2>2 DEF EditorDue
  <2>3. CASE c # t
    BY <1>1, <2>1, <2>3 DEF EditorDue
  <2> QED  BY <2>2, <2>3
<1>6. Annotated' <=> Annotated
  BY DEF Annotated
<1> QED  BY <1>4, <1>5, <1>6 DEF ScoreOK

\* The actions of a task that write neither the report nor the score.
LEMMA QuietTasks ==
  ASSUME ScoreOK, NEW t \in Tasks,
         \/ t \in ScoreWorkers /\ TakeCreated(t)
         \/ t \in Callers /\ (BeginEdit(t) \/ AskForPriority(t) \/ RequestDies(t) \/ BeginReview(t))
         \/ ReadReport(t)
  PROVE  ScoreOK'
<1>0. PICK st \in Steps,
           role \in EditRoles \union {"nobody"}, rev \in Nat :
              task[t] = [step |-> st, role |-> role, rev |-> rev]
  BY DEF ScoreOK, TasksSane, TaskRecord, Steps
<1>1. report \in Nat /\ lost \in BOOLEAN /\ overtaken \in BOOLEAN /\ DOMAIN task = Tasks
  BY DEF ScoreOK, TasksSane
<1>2. TakeCreated(t) => report # 0
  BY DEF ScoreOK, TakeCreated
<1>3. CASE (t \in ScoreWorkers /\ TakeCreated(t))
           \/ (t \in Callers /\ AskForPriority(t))
  <2> DEFINE mine == [step |-> "read", role |-> "nobody", rev |-> 0]
  <2>1. mine \in TaskRecord
    BY DEF TaskRecord, Steps
  <2>2. task[t] = Resting
    BY <1>3 DEF TakeCreated, AskForPriority
  <2>3. [Resting EXCEPT !.step = "read"] = mine
    BY DEF Resting
  <2>4. /\ task' = [task EXCEPT ![t] = mine] /\ report # 0
        /\ UNCHANGED <<report, score, created, authors, overtaken, lost>>
    BY <1>1, <1>2, <1>3, <2>2, <2>3 DEF TakeCreated, AskForPriority, Enter
  <2>5. task[t].role = "nobody"
    BY <2>2 DEF Resting
  <2> QED  BY <1>1, <2>1, <2>4, <2>5, TaskGoesOn
<1>4. CASE t \in Callers /\ BeginEdit(t)
  <2>1. PICK by \in EditRoles :
           /\ task' = [task EXCEPT ![t] = [step |-> "write", role |-> by, rev |-> 0]]
           /\ report # 0 /\ task[t] = Resting
           /\ UNCHANGED <<report, score, created, authors, overtaken, lost>>
    BY <1>4 DEF BeginEdit
  <2> DEFINE mine == [step |-> "write", role |-> by, rev |-> 0]
  <2>2. mine \in TaskRecord /\ mine.role # "nobody" /\ mine.step = "write" /\ task[t].role = "nobody"
    BY <2>1 DEF TaskRecord, Steps, EditRoles, Resting
  <2> QED  BY <1>1, <2>1, <2>2, TaskGoesOn
<1>5. CASE t \in Callers /\ RequestDies(t)
  <2>1. Resting \in TaskRecord /\ Resting.step = "idle"
    BY DEF Resting, TaskRecord, Steps
  <2>2. /\ task' = [task EXCEPT ![t] = Resting]
        /\ lost' = (lost \/ (task[t].role # "nobody" /\ task[t].step \in {"read", "save"} /\ score # report))
        /\ UNCHANGED <<report, score, created, authors, overtaken>>
    BY <1>5 DEF RequestDies, Rest, GiveUp
  <2> QED  BY <1>1, <2>1, <2>2, TaskGoesOn
<1>6. CASE ReadReport(t)
  <2> DEFINE mine == [step |-> "save", role |-> role, rev |-> report]
  <2>1. task[t].step = "read" /\ report # 0
    BY <1>6 DEF ReadReport, ScoreOK, TasksSane
  <2>2. [[task[t] EXCEPT !.step = "save"] EXCEPT !.rev = report] = mine
    <3>1. PICK once : once = [task[t] EXCEPT !.step = "save"]
      OBVIOUS
    <3>2. once = [step |-> "save", role |-> role, rev |-> rev]
      BY <1>0, <3>1
    <3>3. [once EXCEPT !.rev = report] = mine
      BY <3>2
    <3> QED  BY <3>1, <3>3
  <2>3. task' = [task EXCEPT ![t] = [[task[t] EXCEPT !.step = "save"] EXCEPT !.rev = report]]
    BY <1>1, <1>6 DEF ReadReport
  <2>4. mine \in TaskRecord /\ mine.step = "save" /\ mine.rev = report /\ task[t].role = mine.role
    BY <1>0, <1>1 DEF TaskRecord, Steps
  <2>5. UNCHANGED <<report, score, created, authors, overtaken, lost>>
    BY <1>6 DEF ReadReport
  <2> QED  BY <1>1, <2>1, <2>2, <2>3, <2>4, <2>5, TaskGoesOn
<1>7. CASE t \in Callers /\ BeginReview(t)
  <2> DEFINE mine == [step |-> "review", role |-> "ADMIN", rev |-> 0]
  <2>1. /\ task' = [task EXCEPT ![t] = mine]
        /\ report # 0 /\ task[t] = Resting
        /\ UNCHANGED <<report, score, created, authors, overtaken, lost>>
    BY <1>7 DEF BeginReview
  <2>2. mine \in TaskRecord /\ mine.step = "review" /\ task[t].role = "nobody"
    BY <2>1 DEF TaskRecord, Steps, EditRoles, Resting
  <2> QED  BY <1>1, <2>1, <2>2, TaskGoesOn
<1> QED  BY <1>3, <1>4, <1>5, <1>6, <1>7

\* A worker that ends its job, well or badly: the score of a later revision
\* is none of its business.
LEMMA WorkerEnds ==
  ASSUME ScoreOK, NEW w \in ScoreWorkers, AnnounceScore(w) \/ HandlerThrows(w)
  PROVE  ScoreOK'
<1>1. /\ w \in Tasks /\ w \notin Callers
      /\ Resting \in TaskRecord /\ Resting.step = "idle"
  BY PriorityScoreAssumption DEF Tasks, Resting, TaskRecord, Steps
<1>2. /\ task' = [task EXCEPT ![w] = Resting]
      /\ UNCHANGED <<report, score, authors, overtaken>>
  BY DEF AnnounceScore, HandlerThrows, Rest
<1>3. /\ task'[w] = Resting /\ task' \in [Tasks -> TaskRecord]
      /\ \A x \in Tasks \ {w} : task'[x] = task[x]
  BY <1>1, <1>2 DEF ScoreOK, TasksSane
<1>4. TasksSane'
  BY <1>1, <1>2, <1>3 DEF ScoreOK, TasksSane
<1>5. EditorDue => EditorDue'
  BY <1>1, <1>2, <1>3 DEF EditorDue, Tasks
<1>6. lost' \in BOOLEAN /\ (lost => lost')
  BY DEF AnnounceScore, HandlerThrows, GiveUp, ScoreOK
<1>7. report = 1 /\ score = 0 => created' \in {"unwritten", "queued"} \/ lost'
  <2>1. CASE AnnounceScore(w)
    BY <1>1, <2>1 DEF AnnounceScore, ScoreOK, TasksSane
  <2>2. CASE HandlerThrows(w)
    <3>1. created = "queued" /\ (created' = created \/ lost' = (lost \/ score # report))
      BY <2>2 DEF HandlerThrows, GiveUp
    <3>2. report = 1 /\ score = 0 => score # report
      OBVIOUS
    <3>3. (lost' = (lost \/ score # report)) /\ score # report => lost'
      OBVIOUS
    <3> QED  BY <3>1, <3>2, <3>3
  <2> QED  BY <2>1, <2>2
<1>8. report = 0 => created' = "none"
  BY DEF AnnounceScore, HandlerThrows, ScoreOK
<1>9. Annotated' <=> Annotated
  BY <1>2 DEF Annotated
<1> QED  BY <1>2, <1>4, <1>5, <1>6, <1>7, <1>8, <1>9 DEF ScoreOK

\* A review of the report: a rejection's reason is nobody's to calculate.
LEMMA ReviewStep ==
  ASSUME ScoreOK, NEW c \in Callers, ApproveReport(c) \/ RejectReport(c)
  PROVE  ScoreOK'
<1>1. /\ c \in Tasks /\ task[c].step = "review"
      /\ Resting \in TaskRecord /\ Resting.step = "idle"
      /\ task' = [task EXCEPT ![c] = Resting]
      /\ UNCHANGED <<score, created, overtaken, lost>>
      /\ DOMAIN authors' = DOMAIN authors
  BY DEF ApproveReport, RejectReport, Rest, Tasks, Resting, TaskRecord, Steps
<1>2. /\ report # 0 /\ report \in Nat /\ score \in Nat /\ score <= report
  BY <1>1 DEF ScoreOK, TasksSane
<1>3. \/ report' = report /\ authors' = authors
      \/ /\ report < MaxRevisions /\ report' = report + 1
         /\ authors' = [authors EXCEPT ![report + 1] = "rejection"]
  BY DEF ApproveReport, RejectReport
<1>4. /\ report' \in Nat /\ report' # 0 /\ score <= report'
      /\ \A n \in Nat : n <= report => n <= report'
  BY <1>2, <1>3
<1>5. /\ task'[c] = Resting /\ task' \in [Tasks -> TaskRecord]
      /\ \A x \in Tasks \ {c} : task'[x] = task[x]
  BY <1>1 DEF ScoreOK, TasksSane
<1>6. TasksSane'
  <2>1. \A x \in Tasks : task[x].rev \in Nat
    BY DEF ScoreOK, TasksSane, TaskRecord, Steps
  <2>2. \A x \in Tasks :
          /\ task'[x].step = "save" => task'[x].rev # 0 /\ task'[x].rev <= report'
          /\ task'[x].step = "announce" => score # 0
          /\ task'[x].step = "write" => task'[x].role # "nobody"
    BY <1>1, <1>4, <1>5, <2>1 DEF ScoreOK, TasksSane
  <2> QED  BY <1>1, <1>4, <1>5, <2>2 DEF TasksSane
<1>7. CASE report' = report /\ authors' = authors
  <2>1. EditorDue => EditorDue'
    BY <1>1, <1>5, <1>7 DEF EditorDue, Tasks
  <2>2. Annotated' <=> Annotated
    BY <1>7 DEF Annotated
  <2> QED  BY <1>1, <1>2, <1>6, <1>7, <2>1, <2>2 DEF ScoreOK
<1>8. CASE /\ report < MaxRevisions /\ report' = report + 1
           /\ authors' = [authors EXCEPT ![report + 1] = "rejection"]
  <2>1. report + 1 \in Revisions
    BY <1>2, <1>8, PriorityScoreAssumption DEF Revisions
  <2>2. authors'[report'] = "rejection"
    BY <1>8, <2>1 DEF ScoreOK
  <2>3. Annotated'
    BY <1>4, <2>2 DEF Annotated
  <2>4. report' # 1
    BY <1>2, <1>8
  <2> QED  BY <1>1, <1>4, <1>6, <2>3, <2>4 DEF ScoreOK
<1> QED  BY <1>3, <1>7, <1>8

\* A new revision leaves its editor with the score to save.
LEMMA WriteReportStep ==
  ASSUME ScoreOK, NEW c \in Callers, WriteReport(c)
  PROVE  ScoreOK'
<1> DEFINE mine == [step |-> "read", role |-> task[c].role, rev |-> 0]
<1>1. /\ c \in Tasks /\ task[c].step = "write"
      /\ report' = report + 1
      /\ task' = [task EXCEPT ![c] = mine]
      /\ UNCHANGED <<score, created, overtaken, lost>>
      /\ DOMAIN authors' = DOMAIN authors
  BY DEF WriteReport, AfterEdit, Tasks
<1>2. /\ report # 0 /\ report \in Nat /\ score \in Nat /\ score <= report
      /\ task[c].role # "nobody" /\ task[c] \in TaskRecord
  BY <1>1 DEF ScoreOK, TasksSane
<1>3. /\ report' \in Nat /\ report' > 1 /\ report' # 0 /\ score <= report'
      /\ \A n \in Nat : n <= report => n <= report'
  BY <1>1, <1>2
<1>4. mine \in TaskRecord
  BY <1>2 DEF TaskRecord, Steps
<1>5. /\ task'[c] = mine /\ task' \in [Tasks -> TaskRecord]
      /\ \A x \in Tasks \ {c} : task'[x] = task[x]
  BY <1>1, <1>4 DEF ScoreOK, TasksSane
<1>6. TasksSane'
  <2>1. \A x \in Tasks : task[x].rev \in Nat
    BY DEF ScoreOK, TasksSane, TaskRecord, Steps
  <2>2. \A x \in Tasks :
          /\ task'[x].step = "save" => task'[x].rev # 0 /\ task'[x].rev <= report'
          /\ task'[x].step = "announce" => score # 0
          /\ task'[x].step = "write" => task'[x].role # "nobody"
    BY <1>3, <1>5, <2>1 DEF ScoreOK, TasksSane
  <2> QED  BY <1>1, <1>3, <1>5, <2>2 DEF TasksSane
<1>7. EditorDue'
  BY <1>2, <1>5 DEF EditorDue
<1>8. report' # 1 /\ report' # 0
  BY <1>3
<1> QED  BY <1>1, <1>2, <1>3, <1>6, <1>7, <1>8 DEF ScoreOK

\* Whose score is saved last over a newer one is remembered.
LEMMA SaveScoreStep ==
  ASSUME ScoreOK, NEW t \in Tasks, SaveScore(t)
  PROVE  ScoreOK'
<1>1. PICK saved \in Nat : saved = task[t].rev
  BY DEF ScoreOK, TasksSane, TaskRecord, Steps
<1>2. /\ task[t].step = "save" /\ score' = saved
      /\ overtaken' = (saved # report /\ (overtaken \/ saved < score))
      /\ lost' = (saved # report /\ lost)
      /\ UNCHANGED <<report, created, authors>>
  BY <1>1 DEF SaveScore, Scored
<1>3. saved # 0 /\ saved <= report /\ report # 0 /\ report \in Nat /\ score \in Nat /\ score <= report
  BY <1>1, <1>2 DEF ScoreOK, TasksSane
<1>4. PICK mine \in TaskRecord :
         /\ task' = [task EXCEPT ![t] = mine]
         /\ mine.step = "idle" \/ mine.step = "announce"
  <2>1. PICK st \in Steps,
             role \in EditRoles \union {"nobody"}, rev \in Nat :
                task[t] = [step |-> st, role |-> role, rev |-> rev]
    BY DEF ScoreOK, TasksSane, TaskRecord, Steps
  <2>2. [task[t] EXCEPT !.step = "announce"] = [step |-> "announce", role |-> role, rev |-> rev]
    BY <2>1
  <2>3. /\ Resting \in TaskRecord /\ Resting.step = "idle"
        /\ [step |-> "announce", role |-> role, rev |-> rev] \in TaskRecord
    BY <2>1 DEF Resting, TaskRecord, Steps
  <2>4. \/ task' = [task EXCEPT ![t] = Resting]
        \/ task' = [task EXCEPT ![t] = [task[t] EXCEPT !.step = "announce"]]
    <3>1. DOMAIN task = Tasks
      BY DEF ScoreOK, TasksSane
    <3> QED  BY <3>1 DEF SaveScore, Rest, Enter
  <2> QED  BY <2>2, <2>3, <2>4
<1>5. /\ task'[t] = mine /\ task' \in [Tasks -> TaskRecord]
      /\ \A x \in Tasks \ {t} : task'[x] = task[x]
  BY <1>4 DEF ScoreOK, TasksSane
<1>6. TasksSane'
  <2>1. \A x \in Tasks :
          /\ task'[x].step # "idle" => report # 0
          /\ task'[x].step = "save" => task'[x].rev # 0 /\ task'[x].rev <= report
          /\ task'[x].step = "write" => task'[x].role # "nobody"
    BY <1>3, <1>4, <1>5 DEF ScoreOK, TasksSane
  <2> QED  BY <1>2, <1>3, <1>5, <2>1 DEF TasksSane
<1>7. CASE saved = report
  BY <1>2, <1>3, <1>6, <1>7 DEF ScoreOK
<1>8. CASE saved # report
  <2>1. EditorDue => EditorDue'
    BY <1>1, <1>2, <1>5, <1>8 DEF EditorDue, Tasks
  <2>2. overtaken \in BOOLEAN /\ lost \in BOOLEAN
    BY DEF ScoreOK
  <2>3. score = report => saved < score
    BY <1>3, <1>8
  <2>4. (overtaken => overtaken') /\ (lost => lost') /\ (score = report => overtaken')
    BY <1>2, <1>8, <2>2, <2>3
  <2>5. Annotated' <=> Annotated
    BY <1>2 DEF Annotated
  <2> QED  BY <1>2, <1>3, <1>6, <2>1, <2>4, <2>5 DEF ScoreOK
<1> QED  BY <1>7, <1>8

\* The inductive invariant of the score holds at every moment.
LEMMA ScoreInvariance == PSSpec => []ScoreOK
<1>1. PSInit => ScoreOK
  <2> SUFFICES ASSUME PSInit  PROVE ScoreOK
    OBVIOUS
  <2>1. Resting \in TaskRecord /\ Resting.step = "idle"
    BY DEF TaskRecord, Steps, Resting
  <2>2. TasksSane
    BY <2>1 DEF PSInit, TasksSane
  <2>3. /\ report \in Nat /\ score \in Nat /\ score <= report
        /\ ~(report > 1) /\ report # 1
    BY DEF PSInit
  <2>4. /\ overtaken \in BOOLEAN /\ lost \in BOOLEAN /\ created = "none"
        /\ DOMAIN authors = Revisions
    BY DEF PSInit
  <2> QED  BY <2>2, <2>3, <2>4 DEF ScoreOK
<1>2. ScoreOK /\ [PSNext]_psVars => ScoreOK'
  <2> SUFFICES ASSUME ScoreOK, [PSNext]_psVars  PROVE ScoreOK'
    OBVIOUS
  <2>1. CASE ReportIncident
    <3>1. /\ report = 0 /\ score = 0 /\ report' = 1 /\ created' = "unwritten"
          /\ UNCHANGED <<score, task, overtaken, lost>>
          /\ DOMAIN authors' = DOMAIN authors
      BY <2>1 DEF ReportIncident, ScoreOK
    <3>2. TasksSane'
      BY <3>1 DEF ScoreOK, TasksSane
    <3> QED  BY <3>1, <3>2 DEF ScoreOK
  <2>2. CASE TellCreated
    <3>1. /\ report # 0 /\ created = "unwritten"
          /\ UNCHANGED <<report, score, task, authors, overtaken>>
      BY <2>2 DEF TellCreated, ScoreOK
    <3>2. /\ lost' \in BOOLEAN /\ (lost => lost')
          /\ created' = "queued" \/ (score # report => lost')
      BY <2>2 DEF TellCreated, GiveUp, ScoreOK
    <3>3. TasksSane' /\ (EditorDue => EditorDue') /\ (Annotated' <=> Annotated)
      BY <3>1 DEF ScoreOK, TasksSane, EditorDue, Annotated
    <3> QED  BY <3>1, <3>2, <3>3 DEF ScoreOK
  <2>4. CASE UNCHANGED psVars
    BY <2>4 DEF psVars, ScoreOK, TasksSane, EditorDue, Annotated
  <2>5. ASSUME NEW w \in ScoreWorkers, TakeCreated(w)  PROVE ScoreOK'
    BY <2>5, QuietTasks DEF Tasks
  <2>6. ASSUME NEW c \in Callers,
               BeginEdit(c) \/ AskForPriority(c) \/ RequestDies(c) \/ BeginReview(c)
        PROVE  ScoreOK'
    BY <2>6, QuietTasks DEF Tasks
  <2> QED  BY <2>1, <2>2, <2>4, <2>5, <2>6, QuietTasks, WorkerEnds, WriteReportStep,
              ReviewStep, SaveScoreStep DEF PSNext
<1> QED  BY <1>1, <1>2, PTL DEF PSSpec

\* Whatever the number of workers, of requests and of revisions: the stored
\* priority is that of the report, unless the calculation of it is due, was
\* lost, one of an older report was saved last, or a rejection has written its
\* reason into the report.
THEOREM ScoreExplained == PSSpec => []ScoreExcused
  BY ScoreInvariance, ScoreOKSuffices, PTL

-----------------------------------------------------------------------------
(* The approval *)

\* The citizens' edits since the approval, and those still to be written.
EditsAfter == {v \in approvedAt + 1 .. report : authors[v] = "CITIZEN"}
EditsUnderWay == {c \in Callers : task[c].step = "write" /\ task[c].role = "CITIZEN"}

\* An approval stands for what the coordinator saw because no citizen's edit
\* passes its check after it: those that are still to come were counted.
ReviewOK ==
    /\ PSTypeOK
    /\ approvedAt # 0 =>
          /\ review # "PENDING"
          /\ Cardinality(EditsAfter) + Cardinality(EditsUnderWay) <= racing

\* The bound and the numbers of edits are what they are.
LEMMA EditsCounted ==
  ASSUME PSTypeOK
  PROVE  /\ MaxRevisions \in Nat /\ MaxRevisions >= 1
         /\ report \in Nat /\ report <= MaxRevisions
         /\ approvedAt \in Nat /\ racing \in Nat
         /\ IsFiniteSet(EditsAfter) /\ Cardinality(EditsAfter) \in Nat
         /\ IsFiniteSet(EditsUnderWay) /\ Cardinality(EditsUnderWay) \in Nat
         /\ Cardinality(Callers) \in Nat /\ Cardinality(EditsUnderWay) <= Cardinality(Callers)
<1>1. MaxRevisions \in Nat /\ MaxRevisions # 0
  BY PriorityScoreAssumption
<1>2. Cardinality(Callers) \in Nat
  BY PriorityScoreAssumption, FS_CardinalityType
<1>3. report \in Nat /\ report <= MaxRevisions /\ approvedAt \in Nat /\ racing \in Nat
  BY <1>1, <1>2 DEF PSTypeOK
<1>4. IsFiniteSet(EditsAfter) /\ Cardinality(EditsAfter) \in Nat
  <2>1. EditsAfter \subseteq approvedAt + 1 .. report
    BY DEF EditsAfter
  <2>2. IsFiniteSet(approvedAt + 1 .. report)
    BY <1>3, FS_Interval
  <2> QED  BY <2>1, <2>2, FS_Subset, FS_CardinalityType
<1>5. /\ IsFiniteSet(EditsUnderWay) /\ Cardinality(EditsUnderWay) \in Nat
      /\ Cardinality(EditsUnderWay) <= Cardinality(Callers)
  <2>1. EditsUnderWay \subseteq Callers
    BY DEF EditsUnderWay
  <2> QED  BY <2>1, PriorityScoreAssumption, FS_Subset, FS_CardinalityType
<1> QED  BY <1>1, <1>2, <1>3, <1>4, <1>5

\* With no more edits after the approval or under way, the count stays right.
LEMMA NoMoreEdits ==
  ASSUME ReviewOK, PSTypeOK', UNCHANGED <<approvedAt, review, racing>>,
         approvedAt # 0 => EditsAfter' \subseteq EditsAfter /\ EditsUnderWay' \subseteq EditsUnderWay
  PROVE  ReviewOK'
<1>1. ASSUME approvedAt # 0
      PROVE  /\ Cardinality(EditsAfter') <= Cardinality(EditsAfter)
             /\ Cardinality(EditsUnderWay') <= Cardinality(EditsUnderWay)
             /\ Cardinality(EditsAfter') \in Nat /\ Cardinality(EditsUnderWay') \in Nat
  <2>1. IsFiniteSet(EditsAfter) /\ IsFiniteSet(EditsUnderWay)
    BY EditsCounted DEF ReviewOK
  <2>2. EditsAfter' \subseteq EditsAfter /\ EditsUnderWay' \subseteq EditsUnderWay
    BY <1>1
  <2> QED  BY <2>1, <2>2, FS_Subset, FS_CardinalityType
<1>2. PSTypeOK
  BY DEF ReviewOK
<1>3. Cardinality(EditsAfter) \in Nat /\ Cardinality(EditsUnderWay) \in Nat /\ racing \in Nat
  BY <1>2, EditsCounted
<1> QED  BY <1>1, <1>3 DEF ReviewOK

\* What each step makes of the task it is a step of: a record of its type,
\* and a citizen's edit to be written only while nobody has approved.
LEMMA TaskMoves ==
  ASSUME ReviewOK, ScoreOK, NEW t \in Tasks,
         \/ t \in ScoreWorkers /\ (TakeCreated(t) \/ AnnounceScore(t) \/ HandlerThrows(t))
         \/ t \in Callers /\ (BeginEdit(t) \/ WriteReport(t) \/ AskForPriority(t) \/ RequestDies(t))
         \/ t \in Callers /\ (BeginReview(t) \/ ApproveReport(t) \/ RejectReport(t))
         \/ ReadReport(t)
         \/ SaveScore(t)
  PROVE  \E mine \in Task :
            /\ task' = [task EXCEPT ![t] = mine]
            /\ mine.step = "write" /\ mine.role = "CITIZEN" => review = "PENDING"
<1>0. PSTypeOK /\ MaxRevisions \in Nat /\ report \in 0 .. MaxRevisions
  BY EditsCounted DEF ReviewOK, PSTypeOK
<1>1. PICK st \in Steps,
           role \in EditRoles \union {"nobody"}, rev \in 0 .. MaxRevisions :
              task[t] = [step |-> st, role |-> role, rev |-> rev]
  BY <1>0 DEF PSTypeOK, Task, Steps
<1>2. Resting \in Task /\ Resting.step = "idle"
  BY <1>0 DEF Resting, Task
<1>3. CASE \/ AnnounceScore(t) \/ HandlerThrows(t) \/ (SaveScore(t) /\ t \notin ScoreWorkers)
           \/ RequestDies(t) \/ ApproveReport(t) \/ RejectReport(t)
  BY <1>2, <1>3 DEF AnnounceScore, HandlerThrows, RequestDies, SaveScore, ApproveReport,
                    RejectReport, Rest
<1>4. CASE TakeCreated(t) \/ AskForPriority(t)
  <2> DEFINE mine == [step |-> "read", role |-> "nobody", rev |-> 0]
  <2>1. [Resting EXCEPT !.step = "read"] = mine
    BY DEF Resting
  <2>2. task' = [task EXCEPT ![t] = mine]
    BY <1>0, <1>4, <2>1 DEF TakeCreated, AskForPriority, Enter, PSTypeOK
  <2>3. mine \in Task /\ mine.step = "read"
    BY <1>0 DEF Task
  <2> QED  BY <2>2, <2>3
<1>5. CASE BeginEdit(t)
  <2>1. PICK by \in EditRoles :
           /\ MayEdit(by, review, authors[1])
           /\ task' = [task EXCEPT ![t] = [step |-> "write", role |-> by, rev |-> 0]]
    BY <1>5 DEF BeginEdit
  <2>2. [step |-> "write", role |-> by, rev |-> 0] \in Task
    BY <1>0 DEF Task
  <2>3. by = "CITIZEN" => review = "PENDING"
    BY <2>1 DEF MayEdit
  <2> QED  BY <2>1, <2>2, <2>3
<1>6. CASE WriteReport(t)
  <2> DEFINE mine == [step |-> "read", role |-> role, rev |-> 0]
  <2>1. task[t].role = role
    BY <1>1
  <2>2. AfterEdit(task[t].role) = mine
    BY <2>1 DEF AfterEdit
  <2>3. task' = [task EXCEPT ![t] = mine]
    BY <1>6, <2>2 DEF WriteReport
  <2>4. mine \in Task /\ mine.step = "read"
    BY <1>0 DEF Task
  <2> QED  BY <2>3, <2>4
<1>7. CASE ReadReport(t)
  <2>1. PICK once : once = [task[t] EXCEPT !.step = "save"]
    OBVIOUS
  <2>2. once = [step |-> "save", role |-> role, rev |-> rev]
    BY <1>1, <2>1
  <2>3. PICK twice : twice = [once EXCEPT !.rev = report]
    OBVIOUS
  <2>4. twice = [step |-> "save", role |-> role, rev |-> report]
    BY <2>2, <2>3
  <2>5. twice \in Task /\ twice.step = "save"
    BY <1>0, <2>4 DEF Task
  <2>6. task' = [task EXCEPT ![t] = twice]
    BY <1>0, <1>7, <2>1, <2>3 DEF ReadReport, PSTypeOK
  <2> QED  BY <2>5, <2>6
<1>8. CASE SaveScore(t) /\ t \in ScoreWorkers
  <2> DEFINE mine == [step |-> "announce", role |-> role, rev |-> rev]
  <2>1. [task[t] EXCEPT !.step = "announce"] = mine
    BY <1>1
  <2>2. task' = [task EXCEPT ![t] = mine]
    BY <1>0, <1>8, <2>1 DEF SaveScore, Enter, PSTypeOK
  <2>3. mine \in Task /\ mine.step = "announce"
    BY <1>0 DEF Task
  <2> QED  BY <2>2, <2>3
<1>9. CASE BeginReview(t)
  <2>1. [step |-> "review", role |-> "ADMIN", rev |-> 0] \in Task
    BY <1>0 DEF Task, EditRoles
  <2> QED  BY <1>9, <2>1 DEF BeginReview
<1> QED  BY <1>3, <1>4, <1>5, <1>6, <1>7, <1>8, <1>9

\* The steps that move a task and write no report: the types hold after them,
\* and no edit of a citizen is added to those under way once it is approved.
LEMMA OtherTasks ==
  ASSUME ReviewOK, ScoreOK, ScoreOK', NEW t \in Tasks,
         \/ t \in ScoreWorkers /\ (TakeCreated(t) \/ AnnounceScore(t) \/ HandlerThrows(t))
         \/ t \in Callers /\ (BeginEdit(t) \/ AskForPriority(t) \/ RequestDies(t) \/ BeginReview(t))
         \/ ReadReport(t)
         \/ SaveScore(t)
  PROVE  ReviewOK'
<1>0. PSTypeOK
  BY DEF ReviewOK
<1>1. PICK mine \in Task :
         /\ task' = [task EXCEPT ![t] = mine]
         /\ mine.step = "write" /\ mine.role = "CITIZEN" => review = "PENDING"
  BY TaskMoves
<1>2. UNCHANGED <<report, review, authors, approvedAt, racing>>
  BY DEF TakeCreated, AnnounceScore, HandlerThrows, BeginEdit, AskForPriority, RequestDies,
         BeginReview, ReadReport, SaveScore
<1>3. PSTypeOK'
  <2>1. task' \in [Tasks -> Task]
    BY <1>0, <1>1 DEF PSTypeOK
  <2>2. score' \in 0 .. MaxRevisions
    <3>1. CASE SaveScore(t)
      <4>1. score' = task[t].rev
        BY <3>1 DEF SaveScore, Scored
      <4> QED  BY <1>0, <4>1 DEF PSTypeOK, Task
    <3>2. CASE ~SaveScore(t)
      <4>1. score' = score
        BY <3>2 DEF TakeCreated, AnnounceScore, HandlerThrows, BeginEdit, AskForPriority,
                    RequestDies, BeginReview, ReadReport
      <4> QED  BY <1>0, <4>1 DEF PSTypeOK
    <3> QED  BY <3>1, <3>2
  <2>3. created' \in {"none", "unwritten", "queued", "handled", "abandoned", "lost"}
    BY <1>0 DEF PSTypeOK, TakeCreated, AnnounceScore, HandlerThrows, BeginEdit, AskForPriority,
                RequestDies, BeginReview, ReadReport, SaveScore
  <2>4. tries' \in 0 .. MaxTries
    <3>1. CASE HandlerThrows(t)
      BY <1>0, <3>1, PriorityScoreAssumption DEF PSTypeOK, HandlerThrows
    <3>2. CASE ~HandlerThrows(t)
      <4>1. tries' = tries
        BY <3>2 DEF TakeCreated, AnnounceScore, SaveScore, BeginEdit, AskForPriority,
                    RequestDies, BeginReview, ReadReport
      <4> QED  BY <1>0, <4>1 DEF PSTypeOK
    <3> QED  BY <3>1, <3>2
  <2>5. overtaken' \in BOOLEAN /\ lost' \in BOOLEAN
    BY DEF ScoreOK
  <2> QED  BY <1>0, <1>2, <2>1, <2>2, <2>3, <2>4, <2>5 DEF PSTypeOK
<1>4. EditsAfter' = EditsAfter
  BY <1>2 DEF EditsAfter
<1>5. ASSUME approvedAt # 0
      PROVE  EditsUnderWay' \subseteq EditsUnderWay
  <2>1. ~(mine.step = "write" /\ mine.role = "CITIZEN")
    BY <1>1, <1>5 DEF ReviewOK
  <2>2. task'[t] = mine /\ \A c \in Callers \ {t} : task'[c] = task[c]
    BY <1>0, <1>1 DEF PSTypeOK, Tasks
  <2> QED  BY <2>1, <2>2 DEF EditsUnderWay
<1> QED  BY <1>2, <1>3, <1>4, <1>5, NoMoreEdits

\* The report gets a new revision: a citizen's was under way, and now counts
\* as an edit after the approval.
LEMMA RevisionCounted ==
  ASSUME ReviewOK, ScoreOK, ScoreOK', NEW c \in Callers, WriteReport(c)
  PROVE  ReviewOK'
<1> DEFINE by == task[c].role
<1>0. PSTypeOK /\ c \in Tasks
  BY DEF ReviewOK, Tasks
<1>1. PICK mine \in Task :
         /\ task' = [task EXCEPT ![c] = mine]
         /\ mine.step = "write" /\ mine.role = "CITIZEN" => review = "PENDING"
  BY <1>0, TaskMoves
<1>2. /\ report \in Nat /\ report + 1 \in 1 .. MaxRevisions /\ report' = report + 1
      /\ MaxRevisions \in Nat
      /\ approvedAt \in Nat /\ racing \in Nat
      /\ IsFiniteSet(EditsAfter) /\ Cardinality(EditsAfter) \in Nat
      /\ IsFiniteSet(EditsUnderWay) /\ Cardinality(EditsUnderWay) \in Nat
  BY <1>0, EditsCounted DEF WriteReport
<1>3. /\ authors' = [authors EXCEPT ![report + 1] = by]
      /\ task[c].step = "write"
      /\ UNCHANGED <<review, score, created, tries, approvedAt, racing, overtaken, lost>>
  BY DEF WriteReport
<1>4. PSTypeOK'
  <2>1. task' \in [Tasks -> Task]
    BY <1>0, <1>1 DEF PSTypeOK
  <2>2. by \in Authors
    BY <1>0 DEF PSTypeOK, Task, Authors
  <2>3. authors' \in [Revisions -> Authors]
    BY <1>0, <1>3, <2>2 DEF PSTypeOK
  <2>4. report' \in 0 .. MaxRevisions
    BY <1>2
  <2> QED  BY <1>0, <1>3, <2>1, <2>3, <2>4 DEF PSTypeOK
<1>5. /\ \A v \in Revisions : v # report + 1 => authors'[v] = authors[v]
      /\ authors'[report + 1] = by
  BY <1>0, <1>2, <1>3 DEF PSTypeOK, Revisions
<1>6. task'[c].step # "write" /\ \A d \in Callers \ {c} : task'[d] = task[d]
  BY <1>0, <1>3 DEF WriteReport, AfterEdit, PSTypeOK, Tasks
<1>7. ASSUME approvedAt # 0
      PROVE  EditsAfter' \subseteq EditsAfter \union (IF by = "CITIZEN" THEN {report + 1} ELSE {})
  <2>1. ASSUME NEW v \in approvedAt + 1 .. report + 1, authors'[v] = "CITIZEN", v # report + 1
        PROVE  v \in EditsAfter
    <3>1. v \in approvedAt + 1 .. report /\ v \in Revisions
      BY <1>2, <2>1 DEF Revisions
    <3> QED  BY <1>5, <2>1, <3>1 DEF EditsAfter
  <2>2. EditsAfter' = {v \in approvedAt + 1 .. report + 1 : authors'[v] = "CITIZEN"}
    BY <1>2, <1>3 DEF EditsAfter
  <2> QED  BY <1>5, <2>1, <2>2
<1>8. CASE by # "CITIZEN"
  <2>1. EditsUnderWay' \subseteq EditsUnderWay
    BY <1>6 DEF EditsUnderWay
  <2>2. approvedAt # 0 => EditsAfter' \subseteq EditsAfter
    BY <1>7, <1>8
  <2> QED  BY <1>3, <1>4, <2>1, <2>2, NoMoreEdits
<1>9. CASE by = "CITIZEN"
  <2>1. c \in EditsUnderWay /\ EditsUnderWay' = EditsUnderWay \ {c}
    BY <1>3, <1>6, <1>9 DEF EditsUnderWay
  <2>2. Cardinality(EditsUnderWay') = Cardinality(EditsUnderWay) - 1
    BY <1>2, <2>1, FS_RemoveElement
  <2>3. ASSUME approvedAt # 0
        PROVE  Cardinality(EditsAfter') \in Nat /\ Cardinality(EditsAfter') <= Cardinality(EditsAfter) + 1
    <3>1. EditsAfter' \subseteq EditsAfter \union {report + 1}
      BY <1>7, <1>9, <2>3
    <3>2. /\ IsFiniteSet(EditsAfter \union {report + 1})
          /\ \/ Cardinality(EditsAfter \union {report + 1}) = Cardinality(EditsAfter)
             \/ Cardinality(EditsAfter \union {report + 1}) = Cardinality(EditsAfter) + 1
      BY <1>2, FS_AddElement
    <3>3. /\ Cardinality(EditsAfter') \in Nat
          /\ Cardinality(EditsAfter') <= Cardinality(EditsAfter \union {report + 1})
      BY <3>1, <3>2, FS_Subset, FS_CardinalityType
    <3> QED  BY <1>2, <3>2, <3>3
  <2>4. approvedAt # 0 => Cardinality(EditsAfter') + Cardinality(EditsUnderWay') <= racing
    <3>1. approvedAt # 0 => Cardinality(EditsAfter) + Cardinality(EditsUnderWay) <= racing
      BY DEF ReviewOK
    <3> QED  BY <1>2, <2>2, <2>3, <3>1
  <2> QED  BY <1>3, <1>4, <2>4 DEF ReviewOK
<1> QED  BY <1>8, <1>9

\* Reporting and approving: nothing has been edited since.
LEMMA ReviewBegins ==
  ASSUME ReviewOK, ScoreOK, ScoreOK',
         ReportIncident \/ (\E c \in Callers : ApproveReport(c)) \/ TellCreated
  PROVE  ReviewOK'
<1>0. PSTypeOK
  BY DEF ReviewOK
<1>1. /\ MaxRevisions \in Nat /\ MaxRevisions >= 1
      /\ report \in Nat /\ report <= MaxRevisions
      /\ approvedAt \in Nat /\ racing \in Nat
      /\ Cardinality(EditsUnderWay) \in Nat
      /\ Cardinality(Callers) \in Nat /\ Cardinality(EditsUnderWay) <= Cardinality(Callers)
  BY <1>0, EditsCounted
<1>2. ASSUME approvedAt' = report'
      PROVE  Cardinality(EditsAfter') = 0
  <2>1. report' \in Nat
    BY DEF ScoreOK
  <2>2. EditsAfter' = {}
    BY <1>2, <2>1 DEF EditsAfter
  <2> QED  BY <2>2, FS_EmptySet
<1>3. CASE ReportIncident
  <2>1. PICK role \in {"CITIZEN", "COORDINATOR", "ADMIN"} :
           /\ authors' = [authors EXCEPT ![1] = role]
           /\ review' = IF role = "ADMIN" THEN "APPROVED" ELSE "PENDING"
           /\ approvedAt' = IF role = "ADMIN" THEN 1 ELSE 0
    BY <1>3 DEF ReportIncident
  <2>2. /\ report = 0 /\ report' = 1 /\ created' = "unwritten"
        /\ UNCHANGED <<score, tries, task, racing, overtaken, lost>>
    BY <1>3 DEF ReportIncident
  <2>3. authors' \in [Revisions -> Authors]
    BY <1>0, <2>1 DEF PSTypeOK, Authors, EditRoles
  <2>4. report' \in 0 .. MaxRevisions /\ approvedAt' \in 0 .. MaxRevisions
    BY <1>1, <2>1, <2>2
  <2>5. PSTypeOK'
    BY <1>0, <2>1, <2>2, <2>3, <2>4 DEF PSTypeOK
  <2>6. \A t \in Tasks : task[t].step = "idle"
    BY <2>2 DEF ScoreOK, TasksSane
  <2>7. EditsUnderWay' = {}
    BY <2>2, <2>6 DEF EditsUnderWay, Tasks
  <2>8. Cardinality(EditsUnderWay') = 0
    BY <2>7, FS_EmptySet
  <2> QED  BY <1>1, <1>2, <2>1, <2>2, <2>5, <2>8 DEF ReviewOK
<1>4. ASSUME NEW c \in Callers, ApproveReport(c)  PROVE ReviewOK'
  <2>1. /\ review' = "APPROVED" /\ approvedAt' = report
        /\ racing' = Cardinality(EditsUnderWay)
        /\ task[c].step = "review" /\ task' = [task EXCEPT ![c] = Resting]
        /\ UNCHANGED <<report, score, created, tries, authors, overtaken, lost>>
    BY <1>4 DEF ApproveReport, Rest, EditsUnderWay
  <2>2. PSTypeOK'
    <3>1. approvedAt' \in 0 .. MaxRevisions /\ racing' \in 0 .. Cardinality(Callers)
      BY <1>1, <2>1
    <3>2. Resting \in Task
      BY <1>1 DEF Resting, Task
    <3>3. task' \in [Tasks -> Task]
      BY <1>0, <2>1, <3>2 DEF PSTypeOK
    <3> QED  BY <1>0, <2>1, <3>1, <3>3 DEF PSTypeOK
  <2>3. EditsUnderWay' = EditsUnderWay
    BY <1>0, <2>1 DEF EditsUnderWay, Resting, PSTypeOK, Tasks
  <2>4. Cardinality(EditsAfter') + Cardinality(EditsUnderWay') <= racing'
    BY <1>1, <1>2, <2>1, <2>3
  <2> QED  BY <2>1, <2>2, <2>4 DEF ReviewOK
<1>5. CASE TellCreated
  <2>1. UNCHANGED <<report, review, score, tries, task, authors, approvedAt, racing, overtaken>>
    BY <1>5 DEF TellCreated
  <2>2. created' \in {"queued", "lost"} /\ lost' \in BOOLEAN
    BY <1>5 DEF TellCreated, ScoreOK
  <2>3. PSTypeOK'
    BY <1>0, <2>1, <2>2 DEF PSTypeOK
  <2>4. EditsAfter' = EditsAfter /\ EditsUnderWay' = EditsUnderWay
    BY <2>1 DEF EditsAfter, EditsUnderWay
  <2> QED  BY <2>1, <2>3, <2>4, NoMoreEdits
<1> QED  BY <1>3, <1>4, <1>5

\* A rejection leaves no approval to come, and its reason is no citizen's edit.
LEMMA ReviewEnds ==
  ASSUME ReviewOK, ScoreOK', NEW c \in Callers, RejectReport(c)
  PROVE  ReviewOK'
<1>0. PSTypeOK /\ c \in Tasks
  BY DEF ReviewOK, Tasks
<1>1. /\ MaxRevisions \in Nat /\ report \in Nat /\ report <= MaxRevisions
      /\ approvedAt \in Nat /\ racing \in Nat
      /\ IsFiniteSet(EditsAfter) /\ Cardinality(EditsAfter) \in Nat
      /\ IsFiniteSet(EditsUnderWay) /\ Cardinality(EditsUnderWay) \in Nat
  BY <1>0, EditsCounted
<1>2. /\ task[c].step = "review" /\ task' = [task EXCEPT ![c] = Resting]
      /\ review' = "REJECTED"
      /\ \/ report' = report /\ authors' = authors
         \/ /\ report < MaxRevisions /\ report' = report + 1
            /\ authors' = [authors EXCEPT ![report + 1] = "rejection"]
      /\ UNCHANGED <<score, created, tries, approvedAt, racing, overtaken, lost>>
  BY DEF RejectReport, Rest
<1>3. report' \in 0 .. MaxRevisions
  BY <1>1, <1>2
<1>4. authors' \in [Revisions -> Authors]
  <2>1. authors \in [Revisions -> Authors] /\ "rejection" \in Authors
    BY <1>0 DEF PSTypeOK, Authors
  <2>2. CASE authors' = authors
    BY <2>1, <2>2
  <2>3. CASE authors' = [authors EXCEPT ![report + 1] = "rejection"]
    <3>1. PICK new : new = report + 1
      OBVIOUS
    <3>2. authors' = [authors EXCEPT ![new] = "rejection"]
      BY <2>3, <3>1
    <3> QED  BY <2>1, <3>2
  <2> QED  BY <1>2, <2>2, <2>3
<1>5. task' \in [Tasks -> Task]
  <2>1. Resting \in Task
    BY <1>1 DEF Resting, Task
  <2> QED  BY <1>0, <1>2, <2>1 DEF PSTypeOK
<1>6. PSTypeOK'
  BY <1>0, <1>2, <1>3, <1>4, <1>5 DEF PSTypeOK
<1>7. EditsUnderWay' = EditsUnderWay
  BY <1>0, <1>2 DEF EditsUnderWay, Resting, PSTypeOK, Tasks
<1>8. EditsAfter' \subseteq EditsAfter
  <2>1. CASE report' = report /\ authors' = authors
    BY <1>2, <2>1 DEF EditsAfter
  <2>2. CASE /\ report < MaxRevisions /\ report' = report + 1
             /\ authors' = [authors EXCEPT ![report + 1] = "rejection"]
    <3>1. report + 1 \in Revisions /\ authors \in [Revisions -> Authors]
      BY <1>0, <1>1, <2>2 DEF PSTypeOK, Revisions
    <3>2. authors'[report + 1] = "rejection" /\ \A v \in Revisions \ {report + 1} : authors'[v] = authors[v]
      BY <2>2, <3>1
    <3>3. \A v \in approvedAt + 1 .. report + 1 : v = report + 1 \/ v \in (approvedAt + 1 .. report) \intersect Revisions
      BY <1>1 DEF Revisions
    <3> QED  BY <1>2, <2>2, <3>2, <3>3 DEF EditsAfter
  <2> QED  BY <1>2, <2>1, <2>2
<1>9. approvedAt # 0 => Cardinality(EditsAfter') + Cardinality(EditsUnderWay') <= racing'
  <2>1. Cardinality(EditsAfter') \in Nat /\ Cardinality(EditsAfter') <= Cardinality(EditsAfter)
    BY <1>1, <1>8, FS_Subset, FS_CardinalityType
  <2>2. approvedAt # 0 => Cardinality(EditsAfter) + Cardinality(EditsUnderWay) <= racing
    BY DEF ReviewOK
  <2> QED  BY <1>1, <1>2, <1>7, <2>1, <2>2
<1> QED  BY <1>2, <1>6, <1>9 DEF ReviewOK

\* The types and the count of edits hold throughout, next to what holds of the
\* scores.
LEMMA ReviewInvariance == PSSpec => []ReviewOK
<1>1. PSInit => ReviewOK
  <2> SUFFICES ASSUME PSInit  PROVE ReviewOK
    OBVIOUS
  <2>1. /\ MaxRevisions \in Nat /\ MaxTries \in Nat /\ Cardinality(Callers) \in Nat
    BY PriorityScoreAssumption, FS_CardinalityType
  <2>2. 0 \in 0 .. MaxRevisions /\ 0 \in 0 .. MaxTries /\ 0 \in 0 .. Cardinality(Callers)
    BY <2>1
  <2>3. Resting \in Task
    BY <2>2 DEF Resting, Task
  <2>4. /\ task \in [Tasks -> Task]
        /\ authors \in [Revisions -> Authors]
    BY <2>3 DEF PSInit, Authors
  <2>5. overtaken \in BOOLEAN /\ lost \in BOOLEAN
    BY DEF PSInit
  <2>6. PSTypeOK
    BY <2>2, <2>4, <2>5 DEF PSInit, PSTypeOK
  <2> QED  BY <2>6 DEF PSInit, ReviewOK
<1>2. ReviewOK /\ ScoreOK /\ ScoreOK' /\ [PSNext]_psVars => ReviewOK'
  <2> SUFFICES ASSUME ReviewOK, ScoreOK, ScoreOK', [PSNext]_psVars  PROVE ReviewOK'
    OBVIOUS
  <2>1. ASSUME NEW w \in ScoreWorkers, TakeCreated(w) \/ AnnounceScore(w) \/ HandlerThrows(w)
        PROVE  ReviewOK'
    BY <2>1, OtherTasks DEF Tasks
  <2>2. ASSUME NEW c \in Callers,
               BeginEdit(c) \/ AskForPriority(c) \/ RequestDies(c) \/ BeginReview(c)
        PROVE  ReviewOK'
    BY <2>2, OtherTasks DEF Tasks
  <2>3. ASSUME NEW t \in Tasks, ReadReport(t) \/ SaveScore(t)
        PROVE  ReviewOK'
    BY <2>3, OtherTasks
  <2>4. CASE UNCHANGED psVars
    <3>1. PSTypeOK' /\ EditsAfter' = EditsAfter /\ EditsUnderWay' = EditsUnderWay
      BY <2>4 DEF psVars, PSTypeOK, ReviewOK, EditsAfter, EditsUnderWay
    <3> QED  BY <2>4, <3>1, NoMoreEdits DEF psVars
  <2> QED  BY <2>1, <2>2, <2>3, <2>4, ReviewBegins, ReviewEnds, RevisionCounted
       DEF PSNext
<1> QED  BY <1>1, <1>2, ScoreInvariance, PTL DEF PSSpec

\* However edits and approvals race, a citizen changes an approved report at
\* most as often as there were edits past their check when it was approved.
THEOREM Reviewed == PSSpec => []ApprovedAsReviewed
<1>1. ReviewOK => ApprovedAsReviewed
  <2> SUFFICES ASSUME ReviewOK, approvedAt # 0
               PROVE  Cardinality(EditsAfter) <= racing
    BY DEF ApprovedAsReviewed, EditsAfter
  <2>1. /\ Cardinality(EditsAfter) \in Nat /\ Cardinality(EditsUnderWay) \in Nat
        /\ racing \in Nat
    BY EditsCounted DEF ReviewOK
  <2> QED  BY <2>1 DEF ReviewOK
<1> QED  BY <1>1, ReviewInvariance, PTL

-----------------------------------------------------------------------------
(* The types *)

\* What the proof about old entries does not need: what the entries are.
EntriesTyped ==
    /\ cache \in [CacheKeys -> Versions \union {0}]
    /\ redis \in BOOLEAN
    /\ poisoned \subseteq CacheKeys

\* Only known keys are ever blamed, and only versions that there are stored.
LEMMA EntriesStep ==
  ASSUME CacheOK, EntriesTyped, [CRNext]_crVars
  PROVE  EntriesTyped'
<1>1. ASSUME NEW keys \in SUBSET CacheKeys, Blame(keys)  PROVE poisoned' \subseteq CacheKeys
  BY <1>1 DEF Blame, EntriesTyped
<1>2. ASSUME NEW keys \in SUBSET CacheKeys, Clear(keys)
      PROVE  cache' \in [CacheKeys -> Versions \union {0}]
  BY <1>2 DEF Clear, EntriesTyped
<1>3. ASSUME NEW w \in CacheWriters  PROVE writer[w].keys \in SUBSET CacheKeys
  BY DEF CacheOK, CacheShape
<1>4. CASE Connection
  BY <1>4 DEF Connection, EntriesTyped
<1>5. CASE DispatchWrites
  BY <1>5 DEF DispatchWrites, EntriesTyped, ResourceKeys, CacheKeys
<1>6. ASSUME NEW k \in CacheKeys, Expire(k)  PROVE EntriesTyped'
  BY <1>6 DEF Expire, EntriesTyped
<1>7. ASSUME NEW r \in CacheReaders,
             \/ GetResources(r) \/ GetResourceById(r)
             \/ GetHospitals(r) \/ GetHospitalById(r) \/ GetHospitalAvailability(r)
             \/ Query(r)
      PROVE  EntriesTyped'
  BY <1>7 DEF GetResources, GetResourceById, GetHospitals, GetHospitalById,
              GetHospitalAvailability, Miss, Query, EntriesTyped
<1>8. ASSUME NEW r \in CacheReaders, Fill(r)  PROVE EntriesTyped'
  <2>1. PICK key \in CacheKeys, seen \in Versions \union {0} :
           key = reader[r].key /\ seen = reader[r].seen
    BY DEF CacheOK, CacheShape
  <2>2. cache' = cache \/ cache' = [cache EXCEPT ![key] = seen]
    BY <1>8, <2>1 DEF Fill, Store
  <2>3. Blame(IF cache' # cache THEN {key} ELSE {}) /\ redis' = redis
    BY <1>8, <2>1 DEF Fill
  <2>4. poisoned' \subseteq CacheKeys
    BY <1>1, <2>3
  <2> QED  BY <2>2, <2>3, <2>4 DEF EntriesTyped
<1>9. ASSUME NEW w \in CacheWriters,
             \/ ChangeResource(w) \/ CreateResource(w)
             \/ ChangeHospital(w) \/ CreateHospital(w)
             \/ Update(w)
      PROVE  EntriesTyped'
  BY <1>9 DEF ChangeResource, CreateResource, ChangeHospital, CreateHospital, Begin, Insert,
              Update, EntriesTyped
<1>10. ASSUME NEW w \in CacheWriters, ClearRow(w)  PROVE EntriesTyped'
  <2>1. PICK keys \in SUBSET CacheKeys : Clear(keys) /\ Blame(keys)
    BY <1>3, <1>10 DEF ClearRow
  <2> QED  BY <1>1, <1>2, <1>10, <2>1 DEF ClearRow, EntriesTyped
<1>11. ASSUME NEW w \in CacheWriters, ClearLists(w)  PROVE EntriesTyped'
  <2>1. {"list"} \in SUBSET CacheKeys
    BY DEF CacheKeys
  <2> QED  BY <1>1, <1>2, <1>11, <2>1 DEF ClearLists, EntriesTyped
<1>12. ASSUME NEW w \in CacheWriters, WriterDies(w)  PROVE EntriesTyped'
  <2>1. PICK keys \in SUBSET CacheKeys : Blame(keys)
    BY <1>3, <1>12 DEF WriterDies
  <2> QED  BY <1>1, <1>12, <2>1 DEF WriterDies, EntriesTyped
<1>13. CASE UNCHANGED crVars
  BY <1>13 DEF crVars, EntriesTyped
<1> QED
  BY <1>4, <1>5, <1>6, <1>7, <1>8, <1>9, <1>10, <1>11, <1>12, <1>13 DEF CRNext

\* The registries keep their types.
LEMMA CacheTypes == CRSpec => []CRTypeOK
<1>1. CRInit => EntriesTyped
  BY DEF CRInit, EntriesTyped
<1>2. CacheOK /\ EntriesTyped /\ [CRNext]_crVars => EntriesTyped'
  BY EntriesStep
<1>3. CacheOK /\ EntriesTyped => CRTypeOK
  BY DEF CacheOK, CacheShape, EntriesTyped, CRTypeOK
<1> QED  BY <1>1, <1>2, <1>3, CacheInvariance, PTL DEF CRSpec

\* A behaviour of the three services together is one of each of them.
LEMMA EachService == Spec => PSSpec /\ CRSpec /\ HBSpec
<1>1. Init => PSInit /\ CRInit /\ HBInit
  BY DEF Init
<1>2. [Next]_<<service, psVars, crVars, hbVars>> =>
         [PSNext]_psVars /\ [CRNext]_crVars /\ [HBNext]_hbVars
  BY DEF Next
<1> QED  BY <1>1, <1>2, PTL DEF Spec, PSSpec, CRSpec, HBSpec

\* Reports, registries and beds keep their types, for any number of requests
\* and within any of the bounds.
THEOREM RecordsTyped == Spec => []RecordsTypeOK
<1>1. ReviewOK => PSTypeOK
  BY DEF ReviewOK
<1>2. BedsOK => HBTypeOK
  BY DEF BedsOK, CheckHolds, HBTypeOK
<1>3. PSTypeOK /\ CRTypeOK /\ HBTypeOK => RecordsTypeOK
  BY DEF RecordsTypeOK
<1> QED  BY <1>1, <1>2, <1>3, EachService, ReviewInvariance, CacheTypes, BedsInvariance, PTL

=============================================================================
