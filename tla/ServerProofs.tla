------------------------------ MODULE ServerProofs ------------------------------
(***************************************************************************)
(* Proofs about Server, for any number of requests, statements, retries,   *)
(* connections and callers of the job, and about the instance MCServer,    *)
(* which has the server or the caches of several workers.                  *)
(***************************************************************************)
EXTENDS MCServer, CacheProofs

\* A transaction is open only on the connection its request still holds, and
\* a request without a connection is not in one.
ConnectionsOwned ==
    /\ \A k \in Connection : open[k] # None => on[open[k]] = k
    /\ \A r \in Request : req[r] \in {"new", "waiting", "succeeded", "refused"} => on[r] = None

\* What is saved follows from where the request is, unless its COMMIT is lost.
SavedFollows ==
    \A r \in Request :
       /\ saved[r] \in {0, Statements}
       /\ req[r] = "succeeded" => saved[r] = Statements
       /\ req[r] # "succeeded" /\ r \notin unsure => saved[r] = 0
       /\ r \in unsure => req[r] \in {"failed", "refused"}

ServerInv == ServerTypeOK /\ ConnectionsOwned /\ SavedFollows

LEMMA ServerInit_Inv == ServerInit => ServerInv /\ CleanExit
<1>. SUFFICES ASSUME ServerInit
              PROVE  ServerInv /\ CleanExit
  OBVIOUS
<1>. USE ServerAssumption DEF ServerAssumption, ServerInit
<1>1. ServerTypeOK
  BY DEF ServerTypeOK
<1>2. ConnectionsOwned
  BY DEF ConnectionsOwned
<1>3. SavedFollows
  BY DEF SavedFollows
<1>. QED
  BY <1>1, <1>2, <1>3 DEF ServerInv, CleanExit

--------------------------------------------------------------------------------
(* One lemma for each step of a request.                                     *)

\* Steps that touch neither a request nor the database.
LEMMA OthersKeepInv ==
    ASSUME ServerInv, UNCHANGED <<req, on, ran, tries, saved, unsure>>,
           phase' \in {"serving", "draining", "closing", "drained", "cut"},
           open' = open \/ open' = [k \in Connection |-> None],
           job' \in [JobCaller -> {"new", "asked", "answered"}], runs' \in Nat
    PROVE  ServerInv'
BY DEF ServerInv, ServerTypeOK, ConnectionsOwned, SavedFollows

LEMMA ArriveKeepsInv ==
    ASSUME ServerInv, NEW r \in Request, Arrive(r)
    PROVE  ServerInv'
BY DEF Arrive, database, ServerInv, ServerTypeOK, ConnectionsOwned, SavedFollows

LEMMA ExecuteKeepsInv ==
    ASSUME ServerInv, NEW r \in Request, Execute(r) \/ FailStatement(r) \/ TimeOutOnLock(r)
    PROVE  ServerInv'
<1>. USE ServerAssumption DEF ServerAssumption, ServerInv, ServerTypeOK, database
<1>1. ServerTypeOK'
  BY DEF Execute, FailStatement, TimeOutOnLock
<1>2. ConnectionsOwned'
  BY DEF ConnectionsOwned, Execute, FailStatement, TimeOutOnLock
<1>3. SavedFollows'
  BY DEF SavedFollows, Execute, FailStatement, TimeOutOnLock
<1>. QED
  BY <1>1, <1>2, <1>3

\* The pool gives an idle connection, and an idle one has no transaction open:
\* BEGIN commits nothing of somebody else's.
LEMMA BeginKeepsInv ==
    ASSUME ServerInv, NEW r \in Request, NEW k \in Connection, BeginTransaction(r, k)
    PROVE  ServerInv'
<1>. USE ServerAssumption DEF ServerAssumption, ServerInv, ServerTypeOK
<1>1. open[k] = None
  BY DEF BeginTransaction, Idle, ConnectionsOwned
<1>2. saved' = saved
  BY <1>1 DEF BeginTransaction
<1>3. ServerTypeOK'
  BY <1>2 DEF BeginTransaction
<1>4. \A j \in Connection : open[j] # r
  <2>1. on[r] = None /\ r # None
    BY DEF BeginTransaction, ConnectionsOwned, Request
  <2>. QED
    BY <2>1 DEF ConnectionsOwned
<1>5. ConnectionsOwned'
  BY <1>4 DEF ConnectionsOwned, BeginTransaction
<1>6. SavedFollows'
  BY <1>2 DEF SavedFollows, BeginTransaction
<1>. QED
  BY <1>3, <1>5, <1>6

LEMMA DeadlockKeepsInv ==
    ASSUME ServerInv, NEW r \in Request, Deadlock(r)
    PROVE  ServerInv'
<1>. USE ServerAssumption DEF ServerAssumption, ServerInv, ServerTypeOK, Deadlock
<1>1. ServerTypeOK'
  OBVIOUS
<1>2. ConnectionsOwned'
  BY DEF ConnectionsOwned
<1>3. SavedFollows'
  BY DEF SavedFollows
<1>. QED
  BY <1>1, <1>2, <1>3

LEMMA CommitKeepsInv ==
    ASSUME ServerInv, NEW r \in Request, Commit(r) \/ FailCommit(r)
    PROVE  ServerInv'
<1>. USE ServerAssumption DEF ServerAssumption, ServerInv, ServerTypeOK, Released
<1>1. CASE Commit(r)
  <2>1. ServerTypeOK'
    BY <1>1 DEF Commit
  <2>2. ConnectionsOwned'
    BY <1>1 DEF ConnectionsOwned, Commit
  <2>3. SavedFollows'
    BY <1>1 DEF SavedFollows, Commit
  <2>. QED
    BY <2>1, <2>2, <2>3
<1>2. CASE FailCommit(r)
  <2>1. ServerTypeOK'
    BY <1>2 DEF FailCommit
  <2>2. ConnectionsOwned'
    BY <1>2 DEF ConnectionsOwned, FailCommit
  <2>3. SavedFollows'
    BY <1>2 DEF SavedFollows, FailCommit
  <2>. QED
    BY <2>1, <2>2, <2>3
<1>. QED
  BY <1>1, <1>2

\* Rolled back or destroyed, the connection carries nothing over; only a
\* request that did not get a lock goes back to waiting, and nothing of it was saved.
LEMMA RollBackKeepsInv ==
    ASSUME ServerInv, NEW r \in Request, RollBack(r)
    PROVE  ServerInv'
<1>. USE ServerAssumption DEF ServerAssumption, ServerInv, ServerTypeOK, Released, AfterRollback
<1>1. CASE Retriable(r)
  <2>1. /\ req' = [req EXCEPT ![r] = "waiting"]
        /\ tries' = [tries EXCEPT ![r] = @ + 1]
        /\ tries[r] < Retries /\ req[r] \in {"deadlocked", "stalled"}
    BY <1>1 DEF RollBack, Retriable
  <2>5. tries' \in [Request -> 0..Retries]
    <3>1. tries[r] + 1 \in 0..Retries
      BY <2>1
    <3>. QED
      BY <2>1, <3>1
  <2>2. ServerTypeOK'
    BY <2>1, <2>5 DEF RollBack
  <2>3. ConnectionsOwned'
    BY <2>1 DEF ConnectionsOwned, RollBack
  <2>4. SavedFollows'
    BY <2>1 DEF SavedFollows, RollBack
  <2>. QED
    BY <2>2, <2>3, <2>4
<1>2. CASE ~Retriable(r)
  <2>1. req' = [req EXCEPT ![r] = "refused"] /\ UNCHANGED tries
    BY <1>2 DEF RollBack
  <2>2. ServerTypeOK'
    BY <2>1 DEF RollBack
  <2>3. ConnectionsOwned'
    BY <2>1 DEF ConnectionsOwned, RollBack
  <2>4. SavedFollows'
    BY <2>1 DEF SavedFollows, RollBack
  <2>. QED
    BY <2>2, <2>3, <2>4
<1>. QED
  BY <1>1, <1>2

LEMMA JobKeepsInv ==
    ASSUME ServerInv, JobEnds \/ \E j \in JobCaller : AskForJob(j)
    PROVE  ServerInv'
<1>1. job' \in [JobCaller -> {"new", "asked", "answered"}]
  BY DEF ServerInv, ServerTypeOK, JobEnds, AskForJob
<1>2. runs' \in Nat
  BY DEF ServerInv, ServerTypeOK, JobEnds, AskForJob
<1>. QED
  BY <1>1, <1>2, OthersKeepInv DEF JobEnds, AskForJob, database, ServerInv, ServerTypeOK

LEMMA ShutdownKeepsInv ==
    ASSUME ServerInv, Signal \/ CloseServer \/ EndPools \/ Deadline
    PROVE  ServerInv'
BY OthersKeepInv DEF Signal, CloseServer, EndPools, Deadline, database, ServerInv, ServerTypeOK

LEMMA NextKeepsInv ==
    ASSUME ServerInv, [ServerNext]_serverVars
    PROVE  ServerInv'
<1>1. CASE UNCHANGED serverVars
  BY <1>1, OthersKeepInv DEF serverVars, ServerInv, ServerTypeOK
<1>2. ASSUME NEW r \in Request, Connect(r)
      PROVE  ServerInv'
  BY <1>2, BeginKeepsInv DEF Connect
<1>3. ASSUME NEW r \in Request, Proceed(r)
      PROVE  ServerInv'
  BY <1>3, ExecuteKeepsInv, DeadlockKeepsInv, CommitKeepsInv, RollBackKeepsInv DEF Proceed
<1>. QED
  BY <1>1, <1>2, <1>3, ArriveKeepsInv, JobKeepsInv, ShutdownKeepsInv DEF ServerNext

\* Whatever fails, deadlocks, is retried or is cut, a batch is saved whole or
\* not at all and its caller knows which, but for a lost answer to COMMIT
\* (mariadb.ts: batch, transaction).
THEOREM BatchesAtomic == ServerSpec => []AllOrNothing
<1>1. ServerInv => AllOrNothing
  BY DEF ServerInv, SavedFollows, AllOrNothing
<1>2. ServerInit => ServerInv
  BY ServerInit_Inv
<1>3. ServerInv /\ [ServerNext]_serverVars => ServerInv'
  BY NextKeepsInv
<1>. QED
  BY <1>1, <1>2, <1>3, PTL DEF ServerSpec

--------------------------------------------------------------------------------
(* Shutting down.                                                            *)

LEMMA NextKeepsExit ==
    ASSUME ServerTypeOK, CleanExit, [ServerNext]_serverVars
    PROVE  CleanExit'
<1>. USE DEF ServerTypeOK, CleanExit, NothingInFlight, Answered
<1>1. CASE UNCHANGED serverVars \/ Signal \/ CloseServer \/ EndPools \/ Deadline
  BY <1>1 DEF serverVars, Signal, CloseServer, EndPools, Deadline
<1>2. CASE JobEnds
  BY <1>2 DEF JobEnds, Up
<1>3. ASSUME NEW j \in JobCaller, AskForJob(j)
      PROVE  CleanExit'
  BY <1>3 DEF AskForJob, JoinsRun
<1>4. ASSUME NEW r \in Request, Arrive(r) \/ Connect(r) \/ Proceed(r)
      PROVE  CleanExit'
  <2>1. phase' = phase /\ Up /\ runs' = runs
    BY <1>4 DEF Arrive, Connect, BeginTransaction, Proceed, Execute, FailStatement, Deadlock, TimeOutOnLock, Commit,
       FailCommit, RollBack, Up
  <2>. QED
    BY <2>1 DEF Up
<1>. QED
  BY <1>1, <1>2, <1>3, <1>4 DEF ServerNext

\* A process that exits cleanly has answered every request and every caller of
\* the job, and two runs of the job never overlap in one process
\* (server/index.ts: installShutdown; server/jobs.ts: runJob).
THEOREM ExitsClean == ServerSpec => []CleanExit
<1>1. ServerInv /\ [ServerNext]_serverVars => ServerInv'
  BY NextKeepsInv
<1>2. ServerInv /\ CleanExit /\ [ServerNext]_serverVars => CleanExit'
  BY NextKeepsExit DEF ServerInv
<1>3. ServerInit => ServerInv /\ CleanExit
  BY ServerInit_Inv
<1>. QED
  BY <1>1, <1>2, <1>3, PTL DEF ServerSpec

--------------------------------------------------------------------------------
(* The instance of the caches and the server.                                *)

\* What the instance does is what the caches do, or what the server does, and
\* nothing else: so what is proved of either holds of the instance.
THEOREM NodeHasParts == NodeSpec => CacheSpec /\ ServerSpec
<1>1. NodeInit => CacheInit /\ ServerInit
  BY DEF NodeInit
<1>2. [NodeNext]_nodeVars => [CacheNext]_cacheVars /\ [ServerNext]_serverVars
  BY DEF NodeNext, nodeVars
<1>. QED
  BY <1>1, <1>2, PTL DEF NodeSpec, CacheSpec, ServerSpec

\* Every variable of the caches and of the server has its type: requests,
\* connections and retries stay within what the pool and deadlockRetries allow
\* (mariadb.ts), the stores within maxEntries, a key once (response-cache.ts).
THEOREM NodeTypes == NodeSpec => []NodeTypeOK
<1>1. ServerInv => ServerTypeOK
  BY DEF ServerInv
<1>2. ServerInit => ServerInv
  BY ServerInit_Inv
<1>3. ServerInv /\ [ServerNext]_serverVars => ServerInv'
  BY NextKeepsInv
<1>4. ServerSpec => []ServerTypeOK
  BY <1>1, <1>2, <1>3, PTL DEF ServerSpec
<1>. QED
  BY <1>4, NodeHasParts, StoresBounded, PTL DEF NodeTypeOK
===============================================================================
