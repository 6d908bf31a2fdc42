------------------------------ MODULE Shutdown ------------------------------
(***************************************************************************)
(* The end of a process: the server, which runs the API, the event worker  *)
(* and the two timers in one, or the separate worker.  Every SIGINT or     *)
(* SIGTERM starts a shutdown of its own, so two of them may run at once.   *)
(* A shutdown waits for the requests and for the job, and stops the timers *)
(* without waiting for a tick that is under way.                           *)
(***************************************************************************)
EXTENDS Naturals

CONSTANTS
    Signals,        \* signals the process may receive
    MaxRequests     \* bound: requests in flight

ASSUME ShutdownAssumption == MaxRequests \in Nat

VARIABLES
    entry,        \* "server" (index.ts) or "worker" (worker.ts)
    phase,        \* what the shutdown of each signal is waiting for
    requests,     \* HTTP requests in flight
    job,          \* whether the event worker handles a job
    taking,       \* whether the event worker takes jobs
    polling,      \* whether the timers of the outbox and of the cleanup run
    tick,         \* whether a tick of theirs is under way
    closed,       \* what has been closed
    failed,       \* history: what could not be closed
    exit          \* the exit status, "none" while the process runs

sdVars == <<entry, phase, requests, job, taking, polling, tick, closed, failed, exit>>

Services == {"server", "worker", "queue", "cache", "database"}

SDTypeOK ==
    /\ entry \in {"server", "worker"}
    /\ phase \in [Signals -> Services \cup {"idle"}]
    /\ requests \in 0 .. MaxRequests
    /\ {job, taking, polling, tick} \subseteq BOOLEAN
    /\ closed \subseteq Services
    /\ failed \subseteq Services
    /\ exit \in {"none", "0", "1"}

\* The server goes on when its background services cannot start.
SDInit ==
    /\ entry \in {"server", "worker"}
    /\ phase = [s \in Signals |-> "idle"]
    /\ requests = 0
    /\ taking \in IF entry = "server" THEN BOOLEAN ELSE {TRUE}
    /\ polling = taking
    /\ job = FALSE
    /\ tick = FALSE
    /\ closed = {}
    /\ failed = {}
    /\ exit = "none"

-----------------------------------------------------------------------------
(* The work *)

\* A request comes in, on a connection that is still open when the server is closing.
RequestArrives ==
    /\ entry = "server"
    /\ requests < MaxRequests
    /\ "server" \notin closed
    /\ requests > 0 \/ \A s \in Signals : phase[s] = "idle"
    /\ requests' = requests + 1
    /\ UNCHANGED <<entry, phase, job, taking, polling, tick, closed, failed, exit>>

RequestEnds ==
    /\ requests > 0
    /\ requests' = requests - 1
    /\ UNCHANGED <<entry, phase, job, taking, polling, tick, closed, failed, exit>>

JobStarts ==
    /\ taking
    /\ ~job
    /\ job' = TRUE
    /\ UNCHANGED <<entry, phase, requests, taking, polling, tick, closed, failed, exit>>

JobEnds ==
    /\ job
    /\ job' = FALSE
    /\ UNCHANGED <<entry, phase, requests, taking, polling, tick, closed, failed, exit>>

TickStarts ==
    /\ polling
    /\ ~tick
    /\ tick' = TRUE
    /\ UNCHANGED <<entry, phase, requests, job, taking, polling, closed, failed, exit>>

TickEnds ==
    /\ tick
    /\ tick' = FALSE
    /\ UNCHANGED <<entry, phase, requests, job, taking, polling, closed, failed, exit>>

-----------------------------------------------------------------------------
(* The shutdown *)

\* The timers are stopped when the wait for the worker is over.
StopsTimers(p) == p = "worker"

\* What is waited for next.
After(p) ==
    CASE p = "server" -> "worker"
      [] p = "worker" -> "queue"
      [] p = "queue" -> IF entry = "server" THEN "cache" ELSE "database"
      [] p = "cache" -> "database"
      [] p = "database" -> "idle"

\* Mutant: closing the worker does not wait for its job.
CanCloseNow(p) == p = "server" => requests = 0

\* server.close waits for the requests, worker.close for the job.
CanClose(p) == (p = "server" => requests = 0) /\ (p = "worker" => ~job)

\* shutdown, up to its first wait.
Signal(s) ==
    /\ phase[s] = "idle"
    /\ phase' = [phase EXCEPT ![s] = entry]
    /\ taking' = (taking /\ entry = "server")
    /\ UNCHANGED <<entry, requests, job, polling, tick, closed, failed, exit>>

\* The wait p of a shutdown is over, and the shutdown goes on to the next one.
GoesOn(s, p) ==
    /\ phase' = [phase EXCEPT ![s] = After(p)]
    /\ taking' = (taking /\ p # "server")
    /\ polling' = (polling /\ ~StopsTimers(p))
    /\ exit' = IF p = "database" THEN "0" ELSE exit

Closes(s) ==
    LET p == phase[s]
    IN  /\ p # "idle"
        /\ CanClose(p)
        /\ closed' = closed \cup {p}
        /\ GoesOn(s, p)
        /\ UNCHANGED <<entry, requests, job, tick, failed>>

\* A close throws: the server logs it and goes on, and the worker's process
\* ends on the unhandled rejection.
Throws(s) ==
    LET p == phase[s]
    IN  /\ p \notin {"idle", "server"}
        /\ failed' = failed \cup {p}
        /\ IF entry = "server"
           THEN GoesOn(s, p)
           ELSE exit' = "1" /\ UNCHANGED <<phase, taking, polling>>
        /\ UNCHANGED <<entry, requests, job, tick, closed>>

\* The shutdown took longer than shutdownTimeoutMs.
ForceExit(s) ==
    /\ phase[s] # "idle"
    /\ exit' = "1"
    /\ UNCHANGED <<entry, phase, requests, job, taking, polling, tick, closed, failed>>

SDNext ==
    /\ exit = "none"
    /\ \/ RequestArrives \/ RequestEnds
       \/ JobStarts \/ JobEnds
       \/ TickStarts \/ TickEnds
       \/ \E s \in Signals : Signal(s) \/ Closes(s) \/ Throws(s) \/ ForceExit(s)

SDSpec == SDInit /\ [][SDNext]_sdVars

-----------------------------------------------------------------------------
(* Properties *)

\* Nothing that a request or a job uses is closed, and the process does not
\* end well, while one is under way, whichever of two shutdowns is ahead;
\* unless closing the worker failed, and then only for a job.
WorkKeepsItsServices ==
    \/ closed \cap {"queue", "cache", "database"} = {} /\ exit # "0"
    \/ requests = 0 /\ (job => "worker" \in failed)

=============================================================================
