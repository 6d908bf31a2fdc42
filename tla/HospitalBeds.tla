---------------------------- MODULE HospitalBeds ----------------------------
(***************************************************************************)
(* The beds of one hospital, as updateHospital keeps them: an edit reads   *)
(* the row, checks what the row would be with the new values, and writes   *)
(* the values it was given by id, in a statement of its own.  General and  *)
(* intensive care beds are two pools of the same kind.                     *)
(***************************************************************************)
EXTENDS Naturals

CONSTANTS
    BedEditors,    \* requests that edit the hospital
    MaxBeds,       \* bound: beds in a pool
    Unset          \* a value the request does not give

ASSUME HospitalBedsAssumption == MaxBeds \in Nat /\ Unset \notin Nat

VARIABLES
    beds,       \* capacity and available beds of each pool
    bedEdit,    \* where each edit stands, with what it was given
    crossed     \* history: pools that were last edited past an edit of another

hbVars == <<beds, bedEdit, crossed>>

Pools == {"general", "icu"}
Counts == 0 .. MaxBeds
Pool == [capacity : Counts, available : Counts]
\* The values a request gives for one pool; it gives none for the other.
Input == [pool : Pools, capacity : Counts \union {Unset}, available : Counts \union {Unset}]

NoBedEdit == [active |-> FALSE]

HBTypeOK ==
    /\ beds \in [Pools -> Pool]
    /\ \A e \in BedEditors :
          \/ bedEdit[e] = NoBedEdit
          \/ bedEdit[e] \in [active : {TRUE}, input : Input, current : BOOLEAN]
    /\ crossed \subseteq Pools

\* createHospital takes no hospital with more beds available than it has.
HBInit ==
    /\ beds \in [Pools -> {p \in Pool : p.available <= p.capacity /\ p.capacity > 0}]
    /\ bedEdit = [e \in BedEditors |-> NoBedEdit]
    /\ crossed = {}

-----------------------------------------------------------------------------
\* input.x ?? hospital.x
Given(value, old) == IF value = Unset THEN old ELSE value

\* What becomes of a pool.
Edited(pool, input) ==
    [capacity |-> Given(input.capacity, pool.capacity),
     available |-> Given(input.available, pool.available)]

\* Mutant: only values of the request are compared.
FitsAmongInputs(pool, input) ==
    input.capacity # Unset /\ input.available # Unset => input.available <= input.capacity

\* The capacity rule of updateHospital.
FitsCapacity(pool, input) ==
    Edited(pool, input).available <= Edited(pool, input).capacity

\* updateHospital, up to its checks; one that is refused changes nothing.
BeginBedEdit(e, input) ==
    /\ bedEdit[e] = NoBedEdit
    /\ FitsCapacity(beds[input.pool], input)
    /\ bedEdit' = [bedEdit EXCEPT ![e] = [active |-> TRUE, input |-> input, current |-> TRUE]]
    /\ UNCHANGED <<beds, crossed>>

\* updateHospital, the update by id.  Edits of the same pool that have passed
\* their checks have read a row that is no longer current.
WriteBeds(e) ==
    LET input == bedEdit[e].input
        pool == input.pool
    IN  /\ bedEdit[e] # NoBedEdit
        /\ beds' = [beds EXCEPT ![pool] = Edited(@, input)]
        /\ crossed' = IF bedEdit[e].current THEN crossed \ {pool} ELSE crossed \union {pool}
        /\ bedEdit' = [x \in BedEditors |->
                CASE x = e -> NoBedEdit
                  [] x # e /\ bedEdit[x] # NoBedEdit ->
                        IF bedEdit[x].input.pool = pool /\ beds' # beds
                        THEN [bedEdit[x] EXCEPT !.current = FALSE]
                        ELSE bedEdit[x]
                  [] OTHER -> bedEdit[x]]

\* The request or its process ends before the update.
DropBedEdit(e) ==
    /\ bedEdit[e] # NoBedEdit
    /\ bedEdit' = [bedEdit EXCEPT ![e] = NoBedEdit]
    /\ UNCHANGED <<beds, crossed>>

HBNext ==
    \E e \in BedEditors :
        \/ \E input \in Input : BeginBedEdit(e, input)
        \/ WriteBeds(e)
        \/ DropBedEdit(e)

HBSpec == HBInit /\ [][HBNext]_hbVars

-----------------------------------------------------------------------------
(* Properties *)

\* A pool has more beds available than it has beds only if the edit that
\* wrote it last had been checked against a row that another edit has changed
\* since: edits one after the other never overbook, and the first edit that
\* is not crossed by another puts it right.
OverbookedExcused ==
    \A p \in Pools : beds[p].available > beds[p].capacity => p \in crossed

=============================================================================
