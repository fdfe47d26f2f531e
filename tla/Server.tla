-------------------------------- MODULE Server --------------------------------
(***************************************************************************)
(* One process of the Node server:                                         *)
(*                                                                         *)
(*   its pool of connections, batches and transactions                     *)
(*                               app/infrastructure/db/mariadb.ts          *)
(*   the scheduled job and who asks for it      server/jobs.ts             *)
(*   the shutdown                               server/index.ts            *)
(*                                                                         *)
(* A request here is one batch or one interactive transaction of some      *)
(* statements.  The database is external: it keeps a transaction open until *)
(* it is committed or rolled back or the connection goes, a deadlock rolls  *)
(* the victim back, and beginning a transaction commits one left open.      *)
(***************************************************************************)
EXTENDS Naturals, FiniteSets

CONSTANTS
    Batch,          \* requests that send a batch
    Interactive,    \* requests that run an interactive transaction
    Connection,     \* as many as the pool may open
    Statements,     \* statements of one request
    Retries,        \* how often a transaction is tried again (2 in the code)
    JobCaller,      \* POSTs to /api/jobs/run
    None

ASSUME ServerAssumption ==
    /\ Batch \cap Interactive = {}
    /\ None \notin Batch \cup Interactive \cup Connection
    /\ Statements \in Nat \ {0}
    /\ Retries \in Nat

Request == Batch \cup Interactive

VARIABLES
    phase,      \* serving, draining, closing, drained (exit 0) or cut (exit 1)
    req,        \* req[r]: where a request is
    on,         \* on[r]: the connection it holds
    ran,        \* ran[r]: statements run in this attempt
    tries,      \* tries[r]: attempts that did not get a lock
    open,       \* open[k]: whose transaction connection k has open, or None
    saved,      \* saved[r]: statements of r that are committed
    unsure,     \* requests whose COMMIT failed: nobody knows
    job,        \* job[j]: new, asked or answered
    runs        \* runs of the job under way

serverVars == <<phase, req, on, ran, tries, open, saved, unsure, job, runs>>
database   == <<open, saved, unsure>>

Up == phase \in {"serving", "draining"}

ServerInit ==
    /\ phase = "serving"
    /\ req = [r \in Request |-> "new"]
    /\ on = [r \in Request |-> None]
    /\ ran = [r \in Request |-> 0]
    /\ tries = [r \in Request |-> 0]
    /\ open = [k \in Connection |-> None]
    /\ saved = [r \in Request |-> 0]
    /\ unsure = {}
    /\ job = [j \in JobCaller |-> "new"]
    /\ runs = 0

--------------------------------------------------------------------------------
(* Batches and transactions.                                                 *)

Arrive(r) ==
    /\ phase = "serving" /\ req[r] = "new"
    /\ req' = [req EXCEPT ![r] = "waiting"]
    /\ UNCHANGED <<phase, on, ran, tries, database, job, runs>>

Idle(k) == \A r \in Request : on[r] # k

\* waitForConnections: the queue has no limit.
BeginTransaction(r, k) ==
    /\ Up /\ req[r] = "waiting" /\ Idle(k)
    /\ req' = [req EXCEPT ![r] = "running"]
    /\ on' = [on EXCEPT ![r] = k]
    /\ ran' = [ran EXCEPT ![r] = 0]
    /\ open' = [open EXCEPT ![k] = r]
    /\ saved' = IF open[k] = None THEN saved ELSE [saved EXCEPT ![open[k]] = ran[open[k]]]
    /\ UNCHANGED <<phase, tries, unsure, job, runs>>

Execute(r) ==
    /\ Up /\ req[r] = "running" /\ ran[r] < Statements
    /\ ran' = [ran EXCEPT ![r] = @ + 1]
    /\ UNCHANGED <<phase, req, on, tries, database, job, runs>>

\* A constraint: the statement is undone, the earlier ones are not.
FailStatement(r) ==
    /\ Up /\ req[r] = "running" /\ ran[r] < Statements
    /\ req' = [req EXCEPT ![r] = "failed"]
    /\ UNCHANGED <<phase, on, ran, tries, database, job, runs>>

Deadlock(r) ==
    /\ Up /\ req[r] = "running" /\ ran[r] < Statements
    /\ req' = [req EXCEPT ![r] = "deadlocked"]
    /\ open' = [open EXCEPT ![on[r]] = None]
    /\ UNCHANGED <<phase, on, ran, tries, saved, unsure, job, runs>>

\* Another transaction keeps a row too long: only the statement is undone, and
\* the transaction stays open with the earlier ones in it.
TimeOutOnLock(r) ==
    /\ Up /\ req[r] = "running" /\ ran[r] < Statements
    /\ req' = [req EXCEPT ![r] = "stalled"]
    /\ UNCHANGED <<phase, on, ran, tries, database, job, runs>>

\* The connection goes back to the pool whatever happened: finally.
Released_OnlyAfterCommit(r) == IF req[r] = "running" THEN [on EXCEPT ![r] = None] ELSE on
Released(r) == [on EXCEPT ![r] = None]

Commit(r) ==
    /\ Up /\ req[r] = "running" /\ ran[r] = Statements
    /\ saved' = [saved EXCEPT ![r] = Statements]
    /\ open' = [open EXCEPT ![on[r]] = None]
    /\ on' = Released(r)
    /\ req' = [req EXCEPT ![r] = "succeeded"]
    /\ UNCHANGED <<phase, ran, tries, unsure, job, runs>>

\* The answer to COMMIT is lost: it may have happened.
FailCommit(r) ==
    /\ Up /\ req[r] = "running" /\ ran[r] = Statements
    /\ saved' \in {saved, [saved EXCEPT ![r] = Statements]}
    /\ open' = [open EXCEPT ![on[r]] = None]
    /\ unsure' = unsure \cup {r}
    /\ req' = [req EXCEPT ![r] = "failed"]
    /\ UNCHANGED <<phase, on, ran, tries, job, runs>>

\* What is open on the connection after the rollback, or after its destruction:
\* a destroyed connection is replaced by a new one.
AfterRollback_Left(r) == open
AfterRollback(r) == [open EXCEPT ![on[r]] = None]

\* Only an interactive transaction that did not get a lock is tried again.
Retriable(r) == r \in Interactive /\ req[r] \in {"deadlocked", "stalled"} /\ tries[r] < Retries

RollBack(r) ==
    /\ Up /\ req[r] \in {"failed", "deadlocked", "stalled"}
    /\ open' = AfterRollback(r)
    /\ on' = Released(r)
    /\ IF Retriable(r)
       THEN /\ req' = [req EXCEPT ![r] = "waiting"]
            /\ tries' = [tries EXCEPT ![r] = @ + 1]
       ELSE /\ req' = [req EXCEPT ![r] = "refused"]
            /\ UNCHANGED tries
    /\ UNCHANGED <<phase, ran, saved, unsure, job, runs>>

--------------------------------------------------------------------------------
(* The job: a caller joins the run that is under way.                        *)

JoinsRun_Never == FALSE
JoinsRun == runs > 0

AskForJob(j) ==
    /\ phase = "serving" /\ job[j] = "new"
    /\ job' = [job EXCEPT ![j] = "asked"]
    /\ runs' = IF JoinsRun THEN runs ELSE runs + 1
    /\ UNCHANGED <<phase, req, on, ran, tries, database>>

\* The run ends well or in an error; everybody who waits is told.
JobEnds ==
    /\ Up /\ runs > 0
    /\ runs' = runs - 1
    /\ job' = [j \in JobCaller |-> IF job[j] = "asked" THEN "answered" ELSE job[j]]
    /\ UNCHANGED <<phase, req, on, ran, tries, database>>

--------------------------------------------------------------------------------
(* Shutting down.                                                            *)

Answered == {"new", "succeeded", "refused"}
NothingInFlight == /\ \A r \in Request : req[r] \in Answered
                   /\ \A j \in JobCaller : job[j] # "asked"

\* SIGTERM, SIGINT or an unhandled rejection; a second one is ignored.
Signal ==
    /\ phase = "serving"
    /\ phase' = "draining"
    /\ UNCHANGED <<req, on, ran, tries, database, job, runs>>

\* server.close() resolves when every request has its answer.
CloseServer ==
    /\ phase = "draining" /\ NothingInFlight
    /\ phase' = "closing"
    /\ UNCHANGED <<req, on, ran, tries, database, job, runs>>

EndPools ==
    /\ phase = "closing"
    /\ phase' = "drained"
    /\ UNCHANGED <<req, on, ran, tries, database, job, runs>>

\* Fifteen seconds: the process goes, and every open transaction with it.
Deadline ==
    /\ phase \in {"draining", "closing"}
    /\ phase' = "cut"
    /\ open' = [k \in Connection |-> None]
    /\ UNCHANGED <<req, on, ran, tries, saved, unsure, job, runs>>

--------------------------------------------------------------------------------
Connect(r) == \E k \in Connection : BeginTransaction(r, k)

Proceed(r) ==
    \/ Execute(r) \/ FailStatement(r) \/ Deadlock(r) \/ TimeOutOnLock(r)
    \/ Commit(r) \/ FailCommit(r) \/ RollBack(r)

ServerNext ==
    \/ \E r \in Request : Arrive(r) \/ Connect(r) \/ Proceed(r)
    \/ \E j \in JobCaller : AskForJob(j)
    \/ JobEnds
    \/ Signal \/ CloseServer \/ EndPools \/ Deadline

\* Queries and jobs end, a free connection is given to whoever waits, and the
\* shutdown takes its steps; nobody has to send a signal.
ServerFairness ==
    /\ \A r \in Request : SF_serverVars(Connect(r)) /\ WF_serverVars(Proceed(r))
    /\ WF_serverVars(JobEnds)
    /\ WF_serverVars(CloseServer \/ EndPools)
    /\ WF_serverVars(Deadline)

ServerSpec == ServerInit /\ [][ServerNext]_serverVars
ServerLiveSpec == ServerSpec /\ ServerFairness

--------------------------------------------------------------------------------
(* Properties.                                                               *)

ServerTypeOK ==
    /\ phase \in {"serving", "draining", "closing", "drained", "cut"}
    /\ req \in [Request -> {"new", "waiting", "running", "failed", "deadlocked", "stalled",
                            "succeeded", "refused"}]
    /\ on \in [Request -> Connection \cup {None}]
    /\ ran \in [Request -> 0..Statements]
    /\ tries \in [Request -> 0..Retries]
    /\ open \in [Connection -> Request \cup {None}]
    /\ saved \in [Request -> 0..Statements]
    /\ unsure \subseteq Request
    /\ job \in [JobCaller -> {"new", "asked", "answered"}]
    /\ runs \in Nat

\* The contract every handler of the repository relies on: a batch is saved
\* whole or not at all, and its caller is told which, through failed statements,
\* deadlocks, lock timeouts, retries, failed rollbacks and connections that other
\* requests use next.  Only a lost answer to COMMIT leaves the caller in doubt.
AllOrNothing ==
    \A r \in Request :
       /\ saved[r] \in {0, Statements}
       /\ req[r] = "succeeded" => saved[r] = Statements
       /\ req[r] \in {"waiting", "refused"} /\ r \notin unsure => saved[r] = 0

\* A process that exits cleanly has answered everybody, and in one process no
\* run of the job overlaps the next.
CleanExit == /\ phase \in {"closing", "drained"} => NothingInFlight
             /\ runs <= 1

\* Every request is answered, however few the connections, or the process was
\* cut; and a signal always ends the process.
RequestsEnd == \A r \in Request : req[r] = "waiting" ~> (req[r] \in Answered \/ phase = "cut")
JobCallersEnd == \A j \in JobCaller : job[j] = "asked" ~> (job[j] = "answered" \/ phase = "cut")
ShutdownEnds == phase = "draining" ~> phase \in {"drained", "cut"}
ServerLive == RequestsEnd /\ JobCallersEnd /\ ShutdownEnds
================================================================================
