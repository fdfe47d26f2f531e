-------------------------------- MODULE MCServer --------------------------------
(***************************************************************************)
(* The cache of several workers, or the pool, job and shutdown of one.     *)
(* They share no state: part chooses one at the start, the other stays as  *)
(* it is, and what is fair is fair only where it may happen.               *)
(***************************************************************************)
EXTENDS ResponseCache, Server

VARIABLE part

nodeVars == <<part, cacheVars, serverVars>>

NodeInit == part \in {"cache", "server"} /\ CacheInit /\ ServerInit

NodeNext ==
    \/ part = "cache" /\ CacheNext /\ UNCHANGED <<part, serverVars>>
    \/ part = "server" /\ ServerNext /\ UNCHANGED <<part, cacheVars>>

InCache(A)  == part = "cache" /\ A
InServer(A) == part = "server" /\ A

\* CacheFairness and ServerFairness, each in its part.
NodeFairness ==
    /\ \A w \in CacheWorker : /\ WF_cacheVars(InCache(FinishRefresh(w)))
                              /\ SF_cacheVars(InCache(SomebodyAsks(w)))
    /\ \A v \in Visit : WF_cacheVars(InCache(AnswerVisit(v)))
    /\ \A m \in Mutation : /\ WF_cacheVars(InCache(BumpVersion(m)))
                           /\ WF_cacheVars(InCache(WriteVersion(m)))
    /\ \A r \in Request : /\ SF_serverVars(InServer(Connect(r)))
                          /\ WF_serverVars(InServer(Proceed(r)))
    /\ WF_serverVars(InServer(JobEnds))
    /\ WF_serverVars(InServer(CloseServer \/ EndPools))
    /\ WF_serverVars(InServer(Deadline))

NodeSpec == NodeInit /\ [][NodeNext]_nodeVars /\ NodeFairness

\* Every variable of the cache and of the server has its type.
NodeTypeOK == CacheTypeOK /\ ServerTypeOK
================================================================================
