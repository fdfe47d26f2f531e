---------------------------- MODULE ResponseCache ----------------------------
(***************************************************************************)
(* The cache of anonymous pages: server/response-cache.ts and              *)
(* server/cache-middleware.ts.                                             *)
(*                                                                         *)
(* Several worker processes of one application; each has its own store and *)
(* its own idea of the version, and they share one file.  A version is the *)
(* time of a bump.  Only requests that may use the cache appear as visits. *)
(* Pages are worth one byte each; "content" counts the mutations a page    *)
(* was rendered after.                                                     *)
(***************************************************************************)
EXTENDS Naturals, SequencesExt, FiniteSetsExt

CONSTANTS
    CacheWorker,
    Url,
    Visit,          \* requests in flight; a visit that is answered may come again
    Mutation,       \* successful, credentialed requests that are not GETs
    MaxEntries,     \* entries a store may hold
    MaxMs,          \* bound: the clock, in milliseconds that matter
    MaxRestarts     \* bound: restarts of workers

ASSUME CacheAssumption ==
    /\ MaxEntries \in Nat \ {0}
    /\ MaxMs \in Nat
    /\ MaxRestarts \in Nat

VARIABLES
    ms,         \* Date.now()
    content,    \* mutations committed so far
    file,       \* the version file; 0 while there is none
    known,      \* known[w]: the version worker w goes by
    looking,    \* looking[w]: a read of the file is due or under way
    store,      \* store[w]: entries, least recently used first
    visit,      \* visit[v]: locals of a request
    mutation,   \* mutation[m]: its worker, its commit, its bump
    restarts,
    muddled     \* history: a version was lost, or two bumps had one value

cacheVars == <<ms, content, file, known, looking, store, visit, mutation, restarts,
               muddled>>

Away == [at |-> "away"]

CacheInit ==
    /\ ms = 1
    /\ content = 0
    /\ file = 0
    /\ known = [w \in CacheWorker |-> 0]
    /\ looking = [w \in CacheWorker |-> FALSE]
    /\ store = [w \in CacheWorker |-> <<>>]
    /\ visit = [v \in Visit |-> Away]
    /\ mutation = [m \in Mutation |-> Away]
    /\ restarts = 0
    /\ muddled = FALSE

--------------------------------------------------------------------------------
(* Time.                                                                     *)

MillisecondPasses ==
    /\ ms < MaxMs
    /\ ms' = ms + 1
    /\ UNCHANGED <<content, file, known, looking, store, visit, mutation, restarts, muddled>>

\* A page grows older than the TTL: it is dropped when somebody asks for it.
MinutePasses(w) ==
    /\ \E i \in DOMAIN store[w] : store' = [store EXCEPT ![w] = RemoveAt(@, i)]
    /\ UNCHANGED <<ms, content, file, known, looking, visit, mutation, restarts, muddled>>

--------------------------------------------------------------------------------
(* The version.                                                              *)

\* current() answers at once and has the file read, at most once a second: the
\* read ends whenever it ends, so that second needs no clock here.
Current(w) == looking' = [looking EXCEPT ![w] = TRUE]

\* A value that is not larger is ignored, so is a file caught half written.
Refreshed_Never(value, now) == now
Refreshed(value, now) == Max({value, now})

FinishRefresh(w) ==
    /\ looking[w]
    /\ known' = [known EXCEPT ![w] = Refreshed(file, @)]
    /\ looking' = [looking EXCEPT ![w] = FALSE]
    /\ UNCHANGED <<ms, content, file, store, visit, mutation, restarts, muddled>>

\* Math.max(now, #value + 1)
NextVersion(w) == Max({ms, known[w] + 1})

--------------------------------------------------------------------------------
(* Visits.                                                                   *)

KeyIs(e, u, version) == e.url = u /\ e.version = version
Found(w, u, version) == {i \in DOMAIN store[w] : KeyIs(store[w][i], u, version)}

Ask(v, w, u) == visit[v] = Away /\ Current(w)

HitCache(v, w, u) ==
    /\ Ask(v, w, u)
    /\ \E i \in Found(w, u, known[w]) :
          store' = [store EXCEPT ![w] = Append(RemoveAt(@, i), store[w][i])]
    /\ UNCHANGED <<ms, content, file, known, visit, mutation, restarts, muddled>>

MissCache(v, w, u) ==
    /\ Ask(v, w, u)
    /\ Found(w, u, known[w]) = {}
    /\ visit' = [visit EXCEPT ![v] = [at |-> "asked", worker |-> w, url |-> u, version |-> known[w]]]
    /\ UNCHANGED <<ms, content, file, known, store, mutation, restarts, muddled>>

\* The render queries the database.
RenderPage(v) ==
    LET j == visit[v] IN
    /\ j.at = "asked"
    /\ visit' = [visit EXCEPT ![v] = [at |-> "rendered", worker |-> j.worker, url |-> j.url,
                                      version |-> j.version, content |-> content]]
    /\ UNCHANGED <<ms, content, file, known, looking, store, mutation, restarts, muddled>>

\* The entry of the same key goes first.
Without(w, u, version) ==
    IF Found(w, u, version) = {} THEN store[w]
    ELSE RemoveAt(store[w], CHOOSE i \in Found(w, u, version) : TRUE)

\* The youngest entries, as many as fit.
Evicted_Expired(s) == s
Evicted(s) == IF Len(s) > MaxEntries THEN SubSeq(s, Len(s) - MaxEntries + 1, Len(s)) ELSE s

\* A page whose version moved while it was rendered is thrown away; any
\* other is stored under the key computed before the render.
StoredUnder_Now(v) == {known[visit[v].worker]}
StoredUnder(v) == IF known[visit[v].worker] = visit[v].version THEN {visit[v].version} ELSE {}

\* Not stored: thrown away, or not a 200, not HTML, no-store, too large, or
\* with a cookie.
AnswerOnly(v) ==
    /\ visit[v].at = "rendered"
    /\ Current(visit[v].worker) \/ UNCHANGED looking
    /\ visit' = [visit EXCEPT ![v] = Away]
    /\ UNCHANGED <<ms, content, file, known, store, mutation, restarts, muddled>>

AnswerAndStore(v) ==
    LET w == visit[v].worker
        page(n) == [url |-> visit[v].url, version |-> n, content |-> visit[v].content]
    IN
    /\ visit[v].at = "rendered"
    /\ Current(w)
    /\ \E n \in StoredUnder(v) :
          store' = [store EXCEPT ![w] = Evicted(Append(Without(w, visit[v].url, n), page(n)))]
    /\ visit' = [visit EXCEPT ![v] = Away]
    /\ UNCHANGED <<ms, content, file, known, mutation, restarts, muddled>>

--------------------------------------------------------------------------------
(* Mutations: committed, then answered, and on "finish" the version moves.   *)

CommitMutation(m, w) ==
    /\ mutation[m] = Away
    /\ content' = content + 1
    /\ mutation' = [mutation EXCEPT ![m] = [at |-> "committed", worker |-> w, nr |-> content + 1]]
    /\ UNCHANGED <<ms, file, known, looking, store, visit, restarts, muddled>>

\* Versions the file may still get, and those other workers go by.
Other(w) == {known[x] : x \in CacheWorker \ {w}} \cup {file}
              \cup {mutation[x].version : x \in {y \in Mutation : mutation[y].at = "writing"}}

BumpVersion(m) ==
    LET j == mutation[m]
        new == NextVersion(j.worker)
    IN
    /\ j.at = "committed"
    /\ known' = [known EXCEPT ![j.worker] = new]
    /\ muddled' = (muddled \/ \E x \in Other(j.worker) : x >= new)
    /\ mutation' = [mutation EXCEPT ![m] =
                      [at |-> "writing", worker |-> j.worker, nr |-> j.nr, version |-> new]]
    /\ UNCHANGED <<ms, content, file, looking, store, visit, restarts>>

\* A change nobody bumps for: its client left before the answer, so there was no
\* finish, or a job changed it (POST /api/jobs/run is mounted before the
\* middleware that bumps, and run-job.mjs is another process).
MissBump(m) ==
    /\ mutation[m].at = "committed"
    /\ mutation' = [mutation EXCEPT ![m] =
                      [at |-> "lost", worker |-> mutation[m].worker, nr |-> mutation[m].nr]]
    /\ UNCHANGED <<ms, content, file, known, looking, store, visit, restarts, muddled>>

WriteVersion(m) ==
    /\ mutation[m].at = "writing"
    /\ file' = mutation[m].version
    /\ muddled' = (muddled \/ file > mutation[m].version)
    /\ mutation' = [mutation EXCEPT ![m].at = "done"]
    /\ UNCHANGED <<ms, content, known, looking, store, visit, restarts>>

\* The disk is full: the save that was made is not failed for it.
FailToWrite(m) ==
    /\ mutation[m].at = "writing"
    /\ muddled' = TRUE
    /\ mutation' = [mutation EXCEPT ![m].at = "done"]
    /\ UNCHANGED <<ms, content, file, known, looking, store, visit, restarts>>

\* A worker starts with the file's version and an empty store; what it was
\* doing is lost, a bump included.
RestartWorker(w) ==
    LET Lost(m) == mutation[m].at \in {"committed", "writing"} /\ mutation[m].worker = w IN
    /\ restarts < MaxRestarts
    /\ restarts' = restarts + 1
    /\ known' = [known EXCEPT ![w] = file]
    /\ looking' = [looking EXCEPT ![w] = FALSE]
    /\ store' = [store EXCEPT ![w] = <<>>]
    /\ visit' = [v \in Visit |-> IF visit[v] # Away /\ visit[v].worker = w THEN Away ELSE visit[v]]
    /\ muddled' = (muddled \/ \E m \in Mutation : Lost(m))
    /\ mutation' = [m \in Mutation |->
                      IF Lost(m) THEN [at |-> "lost", worker |-> w, nr |-> mutation[m].nr]
                      ELSE mutation[m]]
    /\ UNCHANGED <<ms, content, file>>

--------------------------------------------------------------------------------
SomebodyAsks(w) == \E v \in Visit, u \in Url : HitCache(v, w, u) \/ MissCache(v, w, u)

AnswerVisit(v) == RenderPage(v) \/ AnswerOnly(v) \/ AnswerAndStore(v)

CacheNext ==
    \/ MillisecondPasses
    \/ \E w \in CacheWorker :
          SomebodyAsks(w) \/ MinutePasses(w) \/ FinishRefresh(w) \/ RestartWorker(w)
    \/ \E v \in Visit : AnswerVisit(v)
    \/ \E m \in Mutation :
          \/ \E w \in CacheWorker : CommitMutation(m, w)
          \/ BumpVersion(m)
          \/ MissBump(m)
          \/ WriteVersion(m)
          \/ FailToWrite(m)

\* File reads and renders end, a mutation is bumped for or has missed its bump,
\* a bump is followed by its write, and visitors keep coming to every worker.
CacheFairness ==
    /\ \A w \in CacheWorker : WF_cacheVars(FinishRefresh(w)) /\ SF_cacheVars(SomebodyAsks(w))
    /\ \A v \in Visit : WF_cacheVars(AnswerVisit(v))
    /\ \A m \in Mutation : WF_cacheVars(BumpVersion(m)) /\ WF_cacheVars(WriteVersion(m))

CacheSpec == CacheInit /\ [][CacheNext]_cacheVars
CacheLiveSpec == CacheSpec /\ CacheFairness

--------------------------------------------------------------------------------
(* Properties.                                                               *)

CacheTypeOK ==
    /\ ms \in Nat /\ content \in Nat /\ file \in Nat /\ restarts \in Nat
    /\ known \in [CacheWorker -> Nat]
    /\ looking \in [CacheWorker -> BOOLEAN]
    /\ \A w \in CacheWorker : /\ Len(store[w]) <= MaxEntries
                              /\ \A i, j \in DOMAIN store[w] :
                                    KeyIs(store[w][i], store[w][j].url, store[w][j].version) => i = j
    /\ \A v \in Visit : visit[v].at \in {"away", "asked", "rendered"}
    /\ \A m \in Mutation : mutation[m].at \in {"away", "committed", "writing", "done", "lost"}
    /\ muddled \in BOOLEAN

Announced(m) == IF mutation[m].at \in {"writing", "done"} THEN mutation[m].version ELSE 0

\* A page that a cache may answer with shows every change whose bump is not newer
\* than the page's version, wherever it was made and however the render, the
\* change and its bump interleaved.
BumpedChangesShow ==
    muddled \/ \A w \in CacheWorker : \A i \in DOMAIN store[w], m \in Mutation :
                  mutation[m].at \in {"writing", "done"} /\ Announced(m) <= store[w][i].version
                    => mutation[m].nr <= store[w][i].content

\* A change becomes visible to every worker's cache within a refresh of the
\* file, unless its version was lost on the way.
ChangesReachAll ==
    \A m \in Mutation, w \in CacheWorker :
       mutation[m].at = "done" ~> (muddled \/ known[w] >= Announced(m))
================================================================================
