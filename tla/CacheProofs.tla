------------------------------ MODULE CacheProofs ------------------------------
(***************************************************************************)
(* Proofs about ResponseCache, for any number of workers, pages, visits    *)
(* and changes, any size of a store and any number of restarts.            *)
(***************************************************************************)
EXTENDS ResponseCache, SequenceTheorems, TLAPS

--------------------------------------------------------------------------------
(* The response cache: a page with a version that a worker has gone by shows *)
(* what was announced by then.                                               *)

Page == [url : Url, version : Nat, content : Nat]
VisitLocal ==
    [at : {"away"}]
      \cup [at : {"asked"}, worker : CacheWorker, url : Url, version : Nat]
      \cup [at : {"rendered"}, worker : CacheWorker, url : Url, version : Nat, content : Nat]
MutationLocal ==
    [at : {"away"}]
      \cup [at : {"committed", "lost"}, worker : CacheWorker, nr : Nat]
      \cup [at : {"writing", "done"}, worker : CacheWorker, nr : Nat, version : Nat]

\* A page with a version that a worker has gone by shows the changes announced
\* by then.
Shows(version, shown) ==
    muddled \/ \A m \in Mutation :
                  mutation[m].at \in {"writing", "done"} /\ mutation[m].version <= version
                    => mutation[m].nr <= shown
SoundPage(w) == {e \in Page : e.version <= known[w] /\ Shows(e.version, e.content)}

CacheTyped ==
    /\ ms \in Nat /\ content \in Nat /\ file \in Nat
    /\ known \in [CacheWorker -> Nat]
    /\ visit \in [Visit -> VisitLocal]
    /\ mutation \in [Mutation -> MutationLocal]
    /\ DOMAIN store = CacheWorker
    /\ muddled \in BOOLEAN

\* Changes are counted as they are committed; a render under way has a version
\* its worker has gone by, and shows what was announced by then.
CacheInv ==
    /\ CacheTyped
    /\ \A m \in Mutation : mutation[m].at # "away" => mutation[m].nr <= content
    /\ \A v \in Visit : visit[v].at # "away" => visit[v].version <= known[visit[v].worker]
    /\ \A v \in Visit : visit[v].at = "rendered" => Shows(visit[v].version, visit[v].content)
    /\ \A w \in CacheWorker : store[w] \in Seq(SoundPage(w))

LEMMA VisitKinds ==
    ASSUME NEW j \in VisitLocal
    PROVE  /\ j.at \in {"away", "asked", "rendered"}
           /\ j.at # "away" => j.worker \in CacheWorker /\ j.url \in Url /\ j.version \in Nat
           /\ j.at = "rendered" => j.content \in Nat
<1>1. CASE j \in [at : {"away"}]
  BY <1>1
<1>2. CASE j \in [at : {"asked"}, worker : CacheWorker, url : Url, version : Nat]
  BY <1>2
<1>3. CASE j \in [at : {"rendered"}, worker : CacheWorker, url : Url, version : Nat, content : Nat]
  BY <1>3
<1>. QED
  BY <1>1, <1>2, <1>3 DEF VisitLocal

LEMMA MutationKinds ==
    ASSUME NEW j \in MutationLocal
    PROVE  /\ j.at \in {"away", "committed", "lost", "writing", "done"}
           /\ j.at # "away" => j.worker \in CacheWorker /\ j.nr \in Nat
           /\ j.at \in {"writing", "done"} =>
                /\ j.version \in Nat /\ [j EXCEPT !.at = "done"] \in MutationLocal
                /\ [j EXCEPT !.at = "done"].at = "done" /\ [j EXCEPT !.at = "done"].nr = j.nr
                /\ [j EXCEPT !.at = "done"].version = j.version
<1>1. CASE j \in [at : {"away"}]
  BY <1>1
<1>2. CASE j \in [at : {"committed", "lost"}, worker : CacheWorker, nr : Nat]
  BY <1>2
<1>3. CASE j \in [at : {"writing", "done"}, worker : CacheWorker, nr : Nat, version : Nat]
  BY <1>3 DEF MutationLocal
<1>. QED
  BY <1>1, <1>2, <1>3 DEF MutationLocal

LEMMA LargerOfTwo ==
    ASSUME NEW a \in Nat, NEW b \in Nat
    PROVE  Max({a, b}) \in Nat /\ Max({a, b}) >= a /\ Max({a, b}) >= b
<1>1. \E x \in {a, b} : \A y \in {a, b} : x >= y
  <2>1. CASE a >= b
    BY <2>1
  <2>2. CASE ~(a >= b)
    <3>1. b >= a /\ b >= b
      BY <2>2
    <3>. QED
      BY <3>1
  <2>. QED
    BY <2>1, <2>2
<1>. QED
  BY <1>1 DEF Max

\* An entry less: what remains was there.
LEMMA OneLess ==
    ASSUME NEW S, NEW s \in Seq(S), NEW i \in DOMAIN s
    PROVE  RemoveAt(s, i) \in Seq(S)
<1>1. i \in 1..Len(s) /\ Len(s) \in Nat
  BY LenProperties
<1>2. SubSeq(s, 1, i - 1) \in Seq(S)
  <2>1. \A k \in 1..(i - 1) : s[k] \in S
    BY <1>1, ElementOfSeq
  <2>. QED
    BY <1>1, <2>1, SubSeqProperties
<1>3. SubSeq(s, i + 1, Len(s)) \in Seq(S)
  <2>1. \A k \in (i + 1)..Len(s) : s[k] \in S
    BY <1>1, ElementOfSeq
  <2>. QED
    BY <1>1, <2>1, SubSeqProperties
<1>. QED
  BY <1>2, <1>3, ConcatProperties DEF RemoveAt

LEMMA FewerOfThem ==
    ASSUME CacheAssumption, NEW S, NEW s \in Seq(S)
    PROVE  Evicted(s) \in Seq(S)
<1>1. Len(s) \in Nat /\ MaxEntries \in Nat \ {0}
  BY LenProperties DEF CacheAssumption
<1>2. ASSUME Len(s) > MaxEntries
      PROVE  SubSeq(s, Len(s) - MaxEntries + 1, Len(s)) \in Seq(S)
  <2>1. \A k \in (Len(s) - MaxEntries + 1)..Len(s) : s[k] \in S
    BY <1>1, <1>2, ElementOfSeq
  <2>. QED
    BY <1>1, <2>1, SubSeqProperties
<1>. QED
  BY <1>2 DEF Evicted

VisitSound(v) ==
    /\ visit[v].at # "away" => visit[v].version <= known[visit[v].worker]
    /\ visit[v].at = "rendered" => Shows(visit[v].version, visit[v].content)

\* Versions only grow, and what a page of an earlier version shows stays enough.
LEMMA OlderPagesStaySound ==
    ASSUME CacheInv, CacheTyped',
           \A w \in CacheWorker : known[w] <= known'[w],
           \A m \in Mutation : mutation'[m].at # "away" => mutation'[m].nr <= content',
           \A w \in CacheWorker : \A version, shown \in Nat :
               version <= known[w] /\ Shows(version, shown) => Shows(version, shown)',
           \A v \in Visit : visit'[v] = visit[v] \/ VisitSound(v)',
           \A w \in CacheWorker : store'[w] \in Seq(SoundPage(w))
    PROVE  CacheInv'
<1>1. known \in [CacheWorker -> Nat] /\ known' \in [CacheWorker -> Nat] /\ visit \in [Visit -> VisitLocal]
  BY DEF CacheInv, CacheTyped
<1>2. ASSUME NEW v \in Visit
      PROVE  VisitSound(v)'
  <2>1. CASE visit'[v] = visit[v]
    <3>1. visit[v].at # "away" =>
            visit[v].worker \in CacheWorker /\ visit[v].version \in Nat /\ visit[v].version <= known[visit[v].worker]
      BY <1>1, VisitKinds DEF CacheInv
    <3>2. visit[v].at # "away" => visit[v].version <= known'[visit[v].worker]
      BY <1>1, <3>1
    <3>3. visit[v].at = "rendered" => visit[v].content \in Nat /\ Shows(visit[v].version, visit[v].content)
      BY <1>1, VisitKinds DEF CacheInv
    <3>4. ASSUME visit[v].at = "rendered"
          PROVE  Shows(visit[v].version, visit[v].content)'
      <4>. DEFINE a == visit[v].version
                  b == visit[v].content
                  w == visit[v].worker
      <4>1. PICK n \in Nat, c \in Nat, x \in CacheWorker : n = a /\ c = b /\ x = w
        BY <3>1, <3>3, <3>4
      <4>2. Shows(n, c)'
        BY <3>1, <3>3, <3>4, <4>1
      <4>3. n = visit'[v].version /\ c = visit'[v].content
        BY <2>1, <4>1
      <4>. QED
        BY <4>2, <4>3 DEF Shows
    <3>. QED
      BY <2>1, <3>2, <3>4 DEF VisitSound
  <2>. QED
    BY <2>1
<1>3. ASSUME NEW w \in CacheWorker
      PROVE  store'[w] \in Seq(SoundPage(w)')
  <2>1. SoundPage(w) \subseteq SoundPage(w)'
    <3>1. ASSUME NEW e \in Page, e.version <= known[w], Shows(e.version, e.content)
          PROVE  e.version <= known'[w] /\ Shows(e.version, e.content)'
      <4>1. e.version \in Nat /\ e.content \in Nat
        BY DEF Page
      <4>. QED
        BY <1>1, <3>1, <4>1
    <3>. QED
      BY <3>1 DEF SoundPage
  <2>. QED
    BY <2>1, SeqMonotonic
<1>. QED
  BY <1>2, <1>3 DEF CacheInv, VisitSound

\* Steps that announce nothing.
LEMMA NothingAnnounced ==
    ASSUME NEW version \in Nat, NEW shown \in Nat, Shows(version, shown), CacheTyped,
           muddled => muddled',
           \A m \in Mutation :
               mutation'[m].at \in {"writing", "done"} =>
                  /\ mutation[m].at \in {"writing", "done"}
                  /\ mutation'[m].version = mutation[m].version /\ mutation'[m].nr = mutation[m].nr
    PROVE  Shows(version, shown)'
BY DEF Shows

LEMMA QuietCache ==
    ASSUME CacheInv, CacheTyped', UNCHANGED <<content, mutation, muddled>>,
           \A w \in CacheWorker : known[w] <= known'[w],
           \A v \in Visit : visit'[v] = visit[v] \/ VisitSound(v)',
           \A w \in CacheWorker : store'[w] \in Seq(SoundPage(w))
    PROVE  CacheInv'
<1>1. \A version, shown \in Nat : Shows(version, shown) => Shows(version, shown)'
  BY NothingAnnounced DEF CacheInv
<1>2. \A m \in Mutation : mutation'[m].at # "away" => mutation'[m].nr <= content'
  BY DEF CacheInv
<1>. QED
  BY <1>1, <1>2, OlderPagesStaySound

LEMMA ClockKeepsSound ==
    ASSUME CacheInv, \/ MillisecondPasses
                     \/ \E w \in CacheWorker : MinutePasses(w) \/ FinishRefresh(w)
    PROVE  CacheInv'
<1>. USE DEF CacheInv
<1>1. CASE MillisecondPasses
  <2>1. CacheTyped' /\ UNCHANGED <<content, mutation, muddled, known, visit, store>>
    BY <1>1 DEF MillisecondPasses, CacheTyped
  <2>. QED
    BY <2>1, QuietCache DEF CacheTyped
<1>2. ASSUME NEW w \in CacheWorker, MinutePasses(w)
      PROVE  CacheInv'
  <2>1. UNCHANGED <<ms, content, file, known, visit, mutation, muddled>>
    BY <1>2 DEF MinutePasses
  <2>2. PICK i \in DOMAIN store[w] : store' = [store EXCEPT ![w] = RemoveAt(store[w], i)]
    BY <1>2 DEF MinutePasses
  <2>3. CacheTyped'
    BY <2>1, <2>2 DEF CacheTyped
  <2>4. RemoveAt(store[w], i) \in Seq(SoundPage(w))
    BY OneLess
  <2>5. \A x \in CacheWorker : store'[x] \in Seq(SoundPage(x))
    BY <2>2, <2>4 DEF CacheTyped
  <2>. QED
    BY <2>1, <2>3, <2>5, QuietCache DEF CacheTyped
<1>3. ASSUME NEW w \in CacheWorker, FinishRefresh(w)
      PROVE  CacheInv'
  <2>1. UNCHANGED <<ms, content, file, visit, mutation, muddled, store>>
        /\ known' = [known EXCEPT ![w] = Refreshed(file, known[w])]
    BY <1>3 DEF FinishRefresh
  <2>2. Refreshed(file, known[w]) \in Nat /\ Refreshed(file, known[w]) >= known[w]
    BY LargerOfTwo DEF CacheTyped, Refreshed
  <2>3. CacheTyped'
    BY <2>1, <2>2 DEF CacheTyped
  <2>4. \A x \in CacheWorker : known[x] <= known'[x]
    BY <2>1, <2>2 DEF CacheTyped
  <2>. QED
    BY <2>1, <2>3, <2>4, QuietCache
<1>. QED
  BY <1>1, <1>2, <1>3

LEMMA AskKeepsSound ==
    ASSUME CacheInv, NEW v \in Visit, NEW w \in CacheWorker, NEW u \in Url, HitCache(v, w, u) \/ MissCache(v, w, u)
    PROVE  CacheInv'
<1>. USE DEF CacheInv
<1>1. CASE HitCache(v, w, u)
  <2>1. UNCHANGED <<ms, content, file, known, visit, mutation, muddled>>
    BY <1>1 DEF HitCache
  <2>2. PICK i \in Found(w, u, known[w]) : store' = [store EXCEPT ![w] = Append(RemoveAt(store[w], i), store[w][i])]
    BY <1>1 DEF HitCache
  <2>3. i \in DOMAIN store[w] /\ store[w] \in Seq(SoundPage(w))
    BY DEF Found
  <2>4. RemoveAt(store[w], i) \in Seq(SoundPage(w)) /\ store[w][i] \in SoundPage(w)
    BY <2>3, OneLess, LenProperties, ElementOfSeq
  <2>5. Append(RemoveAt(store[w], i), store[w][i]) \in Seq(SoundPage(w))
    BY <2>4
  <2>6. CacheTyped'
    BY <2>1, <2>2 DEF CacheTyped
  <2>7. \A x \in CacheWorker : store'[x] \in Seq(SoundPage(x))
    BY <2>2, <2>5 DEF CacheTyped
  <2>. QED
    BY <2>1, <2>6, <2>7, QuietCache DEF CacheTyped
<1>2. CASE MissCache(v, w, u)
  <2>1. /\ UNCHANGED <<ms, content, file, known, store, mutation, muddled>>
        /\ visit' = [visit EXCEPT ![v] = [at |-> "asked", worker |-> w, url |-> u, version |-> known[w]]]
    BY <1>2 DEF MissCache
  <2>2. [at |-> "asked", worker |-> w, url |-> u, version |-> known[w]] \in VisitLocal /\ known[w] \in Nat
    BY DEF VisitLocal, CacheTyped
  <2>3. CacheTyped'
    BY <2>1, <2>2 DEF CacheTyped
  <2>4. visit'[v] = [at |-> "asked", worker |-> w, url |-> u, version |-> known[w]]
    BY <2>1 DEF CacheTyped
  <2>5. VisitSound(v)'
    <3>1. visit'[v].at = "asked" /\ visit'[v].worker = w /\ visit'[v].version = known[w]
      BY <2>4
    <3>. QED
      BY <2>1, <2>2, <3>1 DEF VisitSound
  <2>6. \A x \in Visit : visit'[x] = visit[x] \/ VisitSound(x)'
    BY <2>1, <2>5 DEF CacheTyped
  <2>. QED
    BY <2>1, <2>3, <2>6, QuietCache DEF CacheTyped
<1>. QED
  BY <1>1, <1>2

LEMMA AnswerKeepsSound ==
    ASSUME CacheInv, NEW v \in Visit, AnswerVisit(v)
    PROVE  CacheInv'
<1>. USE DEF CacheInv
<1>. DEFINE j == visit[v]
<1>0. j \in VisitLocal /\ Away \in VisitLocal /\ Away.at = "away" /\ known \in [CacheWorker -> Nat]
  BY DEF CacheTyped, VisitLocal, Away
<1>1. CASE RenderPage(v)
  <2>. DEFINE page == [at |-> "rendered", worker |-> j.worker, url |-> j.url,
                       version |-> j.version, content |-> content]
  <2>1. /\ UNCHANGED <<ms, content, file, known, store, mutation, muddled>> /\ j.at = "asked"
        /\ visit' = [visit EXCEPT ![v] = page]
    BY <1>1 DEF RenderPage
  <2>2. j.worker \in CacheWorker /\ j.url \in Url /\ j.version \in Nat /\ j.version <= known[j.worker]
    BY <1>0, <2>1, VisitKinds
  <2>3. page \in VisitLocal
    BY <2>2 DEF VisitLocal, CacheTyped
  <2>4. CacheTyped'
    BY <2>1, <2>3 DEF CacheTyped
  <2>5. visit'[v].at = "rendered" /\ visit'[v].worker = j.worker /\ visit'[v].version = j.version
        /\ visit'[v].content = content
    BY <2>1 DEF CacheTyped
  <2>6. Shows(visit[v].version, visit[v].content)'
    <3>1. \A m \in Mutation : mutation'[m].at # "away" => mutation'[m].nr <= content
      BY <2>1
    <3>. QED
      BY <2>5, <3>1 DEF Shows
  <2>. HIDE DEF j
  <2>7. VisitSound(v)'
    BY <2>1, <2>2, <2>5, <2>6 DEF VisitSound
  <2>8. \A x \in Visit : visit'[x] = visit[x] \/ VisitSound(x)'
    BY <2>1, <2>7 DEF CacheTyped
  <2>. QED
    BY <2>1, <2>4, <2>8, QuietCache DEF CacheTyped
<1>2. CASE AnswerOnly(v)
  <2>1. /\ UNCHANGED <<ms, content, file, known, store, mutation, muddled>>
        /\ visit' = [visit EXCEPT ![v] = Away]
    BY <1>2 DEF AnswerOnly
  <2>2. CacheTyped'
    BY <1>0, <2>1 DEF CacheTyped
  <2>3. \A x \in Visit : visit'[x] = visit[x] \/ VisitSound(x)'
    BY <1>0, <2>1 DEF CacheTyped, VisitSound
  <2>. QED
    BY <2>1, <2>2, <2>3, QuietCache DEF CacheTyped
<1>3. CASE AnswerAndStore(v)
  <2>. DEFINE w == j.worker
  <2>1. /\ UNCHANGED <<ms, content, file, known, mutation, muddled>> /\ j.at = "rendered"
        /\ visit' = [visit EXCEPT ![v] = Away]
        /\ \E n \in StoredUnder(v) : store' = [store EXCEPT ![w] =
              Evicted(Append(Without(w, j.url, n), [url |-> j.url, version |-> n, content |-> j.content]))]
    BY <1>3 DEF AnswerAndStore
  <2>2. /\ w \in CacheWorker /\ j.url \in Url /\ j.version \in Nat /\ j.content \in Nat
        /\ j.version <= known[w] /\ Shows(j.version, j.content)
    BY <1>0, <2>1, VisitKinds
  <2>. DEFINE page == [url |-> j.url, version |-> j.version, content |-> j.content]
              rest == Without(w, j.url, j.version)
  <2>3. store' = [store EXCEPT ![w] = Evicted(Append(rest, page))]
    BY <2>1 DEF StoredUnder
  <2>4. page \in SoundPage(w)
    BY <2>2 DEF SoundPage, Page
  <2>5. rest \in Seq(SoundPage(w))
    <3>1. CASE Found(w, j.url, j.version) = {}
      BY <2>2, <3>1 DEF Without
    <3>2. CASE Found(w, j.url, j.version) # {}
      <4>1. PICK i \in Found(w, j.url, j.version) : rest = RemoveAt(store[w], i)
        BY <3>2 DEF Without
      <4>2. i \in DOMAIN store[w] /\ store[w] \in Seq(SoundPage(w))
        BY <2>2 DEF Found
      <4>. QED
        BY <4>1, <4>2, OneLess
    <3>. QED
      BY <3>1, <3>2
  <2>. HIDE DEF page, rest, w
  <2>6. Append(rest, page) \in Seq(SoundPage(w))
    BY <2>4, <2>5
  <2>7. Evicted(Append(rest, page)) \in Seq(SoundPage(w))
    BY <2>6, CacheAssumption, FewerOfThem
  <2>8. CacheTyped'
    BY <1>0, <2>1, <2>3 DEF CacheTyped
  <2>9. \A x \in CacheWorker : store'[x] \in Seq(SoundPage(x))
    BY <2>2, <2>3, <2>7 DEF CacheTyped
  <2>10. \A x \in Visit : visit'[x] = visit[x] \/ VisitSound(x)'
    BY <1>0, <2>1 DEF CacheTyped, VisitSound
  <2>. QED
    BY <2>1, <2>8, <2>9, <2>10, QuietCache DEF CacheTyped
<1>. QED
  BY <1>1, <1>2, <1>3 DEF AnswerVisit

LEMMA MutationsKeepSound ==
    ASSUME CacheInv, NEW m \in Mutation, \/ \E w \in CacheWorker : CommitMutation(m, w)
                                        \/ WriteVersion(m) \/ FailToWrite(m) \/ MissBump(m)
    PROVE  CacheInv'
<1>. USE DEF CacheInv
<1>. DEFINE j == mutation[m]
<1>0. j \in MutationLocal /\ mutation \in [Mutation -> MutationLocal] /\ content \in Nat
  BY DEF CacheTyped
<1>1. ASSUME NEW w \in CacheWorker, CommitMutation(m, w)
      PROVE  CacheInv'
  <2>. DEFINE new == [at |-> "committed", worker |-> w, nr |-> content + 1]
  <2>1. /\ UNCHANGED <<ms, file, known, store, visit, muddled>> /\ content' = content + 1
        /\ mutation' = [mutation EXCEPT ![m] = new]
    BY <1>1 DEF CommitMutation
  <2>2. new \in MutationLocal /\ new.at = "committed" /\ new.nr = content + 1
    BY <1>0 DEF MutationLocal
  <2>. HIDE DEF new
  <2>3. mutation'[m] = new /\ \A x \in Mutation : x # m => mutation'[x] = mutation[x]
    BY <1>0, <2>1
  <2>4. CacheTyped'
    <3>1. content' \in Nat
      BY <1>0, <2>1
    <3>2. mutation' \in [Mutation -> MutationLocal]
      BY <1>0, <2>1, <2>2
    <3>. QED
      BY <2>1, <3>1, <3>2 DEF CacheTyped
  <2>5. ASSUME NEW x \in Mutation, mutation'[x].at # "away"
        PROVE  mutation'[x].nr <= content'
    <3>1. CASE x = m
      BY <1>0, <2>1, <2>2, <2>3, <3>1
    <3>2. CASE x # m
      <4>1. mutation[x].nr \in Nat /\ mutation[x].nr <= content
        BY <1>0, <2>3, <2>5, <3>2, MutationKinds
      <4>. QED
        BY <1>0, <2>1, <2>3, <3>2, <4>1
    <3>. QED
      BY <3>1, <3>2
  <2>6. \A x \in Mutation : mutation'[x].at \in {"writing", "done"} => mutation'[x] = mutation[x]
    BY <2>2, <2>3
  <2>7. \A version, shown \in Nat : Shows(version, shown) => Shows(version, shown)'
    BY <2>1, <2>6, NothingAnnounced
  <2>8. \A w1 \in CacheWorker : known[w1] <= known'[w1]
    BY <2>1 DEF CacheTyped
  <2>. QED
    BY <2>1, <2>4, <2>5, <2>7, <2>8, OlderPagesStaySound
<1>2. CASE WriteVersion(m) \/ FailToWrite(m)
  <2>1. /\ UNCHANGED <<ms, content, known, store, visit>> /\ j.at = "writing"
        /\ mutation' = [mutation EXCEPT ![m].at = "done"]
        /\ file' = file \/ file' = j.version
        /\ muddled => muddled'
    BY <1>2 DEF WriteVersion, FailToWrite
  <2>2. /\ j.version \in Nat /\ [j EXCEPT !.at = "done"] \in MutationLocal
        /\ [j EXCEPT !.at = "done"].at = "done" /\ [j EXCEPT !.at = "done"].nr = j.nr
        /\ [j EXCEPT !.at = "done"].version = j.version
    BY <1>0, <2>1, MutationKinds
  <2>3. muddled' \in BOOLEAN
    BY <1>2, Zenon DEF WriteVersion, FailToWrite
  <2>4. /\ mutation'[m] = [j EXCEPT !.at = "done"]
        /\ \A x \in Mutation : x # m => mutation'[x] = mutation[x]
        /\ mutation' \in [Mutation -> MutationLocal]
    BY <1>0, <2>1, <2>2
  <2>5. CacheTyped'
    BY <2>1, <2>2, <2>3, <2>4 DEF CacheTyped
  <2>. HIDE DEF j
  <2>6. \A x \in Mutation : mutation'[x].at # "away" => mutation'[x].nr <= content'
    BY <2>1, <2>2, <2>4 DEF j
  <2>7. \A x \in Mutation :
           mutation'[x].at \in {"writing", "done"} =>
              /\ mutation[x].at \in {"writing", "done"}
              /\ mutation'[x].version = mutation[x].version /\ mutation'[x].nr = mutation[x].nr
    BY <2>1, <2>2, <2>4 DEF j
  <2>8. \A version, shown \in Nat : Shows(version, shown) => Shows(version, shown)'
    BY <2>1, <2>7, NothingAnnounced
  <2>9. \A w \in CacheWorker : known[w] <= known'[w]
    BY <2>1 DEF CacheTyped
  <2>. QED
    BY <2>1, <2>5, <2>6, <2>8, <2>9, OlderPagesStaySound
<1>3. CASE MissBump(m)
  <2>. DEFINE lost == [at |-> "lost", worker |-> j.worker, nr |-> j.nr]
  <2>1. /\ UNCHANGED <<ms, content, file, known, store, visit, muddled>> /\ j.at = "committed"
        /\ mutation' = [mutation EXCEPT ![m] = lost]
    BY <1>3 DEF MissBump
  <2>2. lost \in MutationLocal /\ lost.at = "lost" /\ lost.nr = j.nr
    BY <1>0, <2>1, MutationKinds DEF MutationLocal
  <2>. HIDE DEF lost
  <2>3. /\ mutation'[m] = lost /\ \A x \in Mutation : x # m => mutation'[x] = mutation[x]
        /\ mutation' \in [Mutation -> MutationLocal]
    BY <1>0, <2>1, <2>2
  <2>4. CacheTyped'
    BY <2>1, <2>3 DEF CacheTyped
  <2>5. \A x \in Mutation : mutation'[x].at # "away" => mutation'[x].nr <= content'
    BY <2>1, <2>2, <2>3
  <2>6. \A x \in Mutation : mutation'[x].at \in {"writing", "done"} => mutation'[x] = mutation[x]
    BY <2>2, <2>3
  <2>7. \A version, shown \in Nat : Shows(version, shown) => Shows(version, shown)'
    BY <2>1, <2>6, NothingAnnounced
  <2>8. \A w \in CacheWorker : known[w] <= known'[w]
    BY <2>1 DEF CacheTyped
  <2>. QED
    BY <2>1, <2>4, <2>5, <2>7, <2>8, OlderPagesStaySound
<1>. QED
  BY <1>1, <1>2, <1>3

\* A version that is announced is larger than all a worker goes by, unless two
\* workers announce at once.
LEMMA BumpKeepsSound ==
    ASSUME CacheInv, NEW m \in Mutation, BumpVersion(m)
    PROVE  CacheInv'
<1>. USE DEF CacheInv
<1>. DEFINE j == mutation[m]
            w == j.worker
            new == NextVersion(w)
            mine == [at |-> "writing", worker |-> w, nr |-> j.nr, version |-> new]
<1>0. /\ j \in MutationLocal /\ mutation \in [Mutation -> MutationLocal] /\ content \in Nat
      /\ known \in [CacheWorker -> Nat] /\ ms \in Nat
  BY DEF CacheTyped
<1>1. /\ UNCHANGED <<ms, content, file, store, visit>> /\ j.at = "committed"
      /\ known' = [known EXCEPT ![w] = new]
      /\ mutation' = [mutation EXCEPT ![m] = mine]
      /\ muddled' = (muddled \/ \E x \in Other(w) : x >= new)
  BY DEF BumpVersion
<1>2. w \in CacheWorker /\ j.nr \in Nat /\ j.nr <= content
  BY <1>0, <1>1, MutationKinds
<1>3. new \in Nat /\ new >= known[w] + 1
  <2>1. known[w] + 1 \in Nat
    BY <1>0, <1>2
  <2>. QED
    BY <1>0, <2>1, LargerOfTwo DEF NextVersion
<1>4. mine \in MutationLocal /\ mine.version = new /\ mine.nr = j.nr /\ mine.at = "writing"
  BY <1>2, <1>3 DEF MutationLocal
<1>5. muddled' \in BOOLEAN
  BY <1>1, Zenon
<1>. HIDE DEF j, w, new, mine
<1>6. CacheTyped'
  BY <1>0, <1>1, <1>2, <1>3, <1>4, <1>5 DEF CacheTyped
<1>7. \A x \in CacheWorker : known[x] <= known'[x]
  BY <1>0, <1>1, <1>2, <1>3
<1>8. mutation'[m] = mine /\ \A x \in Mutation : x # m => mutation'[x] = mutation[x]
  BY <1>0, <1>1
<1>9. \A x \in Mutation : mutation'[x].at # "away" => mutation'[x].nr <= content'
  BY <1>1, <1>2, <1>4, <1>8
<1>10. ASSUME NEW x \in CacheWorker, NEW version \in Nat, NEW shown \in Nat,
              version <= known[x], Shows(version, shown)
       PROVE  Shows(version, shown)'
  <2>1. CASE muddled'
    BY <2>1 DEF Shows
  <2>2. CASE ~muddled'
    <3>1. ~muddled /\ \A y \in Other(w) : ~(y >= new)
      BY <1>1, <2>2
    <3>2. x # w => known[x] \in Other(w)
      BY DEF Other
    <3>3. known[x] < new
      BY <1>0, <1>2, <1>3, <3>1, <3>2
    <3>4. ~(new <= version)
      BY <1>0, <1>3, <1>10, <3>3
    <3>5. ASSUME NEW y \in Mutation, mutation'[y].at \in {"writing", "done"}, mutation'[y].version <= version
          PROVE  mutation'[y].nr <= shown
      <4>1. y # m
        BY <1>4, <1>8, <3>4, <3>5
      <4>2. mutation'[y] = mutation[y]
        BY <1>8, <4>1
      <4>. QED
        BY <1>10, <3>1, <3>5, <4>2 DEF Shows
    <3>. QED
      BY <3>5 DEF Shows
  <2>. QED
    BY <2>1, <2>2
<1>. QED
  BY <1>1, <1>6, <1>7, <1>9, <1>10, OlderPagesStaySound

\* A worker that starts again has no pages and no renders.
LEMMA RestartKeepsSound ==
    ASSUME CacheInv, NEW w \in CacheWorker, RestartWorker(w)
    PROVE  CacheInv'
<1>. USE DEF CacheInv
<1>. DEFINE Lost(m) == mutation[m].at \in {"committed", "writing"} /\ mutation[m].worker = w
<1>0. /\ mutation \in [Mutation -> MutationLocal] /\ visit \in [Visit -> VisitLocal]
      /\ known \in [CacheWorker -> Nat] /\ file \in Nat
      /\ Away \in VisitLocal /\ Away.at = "away"
  BY DEF CacheTyped, VisitLocal, Away
<1>1. /\ UNCHANGED <<ms, content, file>> /\ known' = [known EXCEPT ![w] = file]
      /\ store' = [store EXCEPT ![w] = <<>>]
      /\ visit' = [v \in Visit |-> IF visit[v] # Away /\ visit[v].worker = w THEN Away ELSE visit[v]]
      /\ muddled' = (muddled \/ \E m \in Mutation : Lost(m))
      /\ mutation' = [m \in Mutation |-> IF Lost(m) THEN [at |-> "lost", worker |-> w, nr |-> mutation[m].nr]
                                         ELSE mutation[m]]
  BY DEF RestartWorker
<1>2. muddled' \in BOOLEAN
  BY <1>1, Zenon
<1>3. ASSUME NEW m \in Mutation
      PROVE  /\ mutation'[m] \in MutationLocal
             /\ \/ mutation'[m] = mutation[m]
                \/ /\ mutation'[m].at = "lost" /\ mutation[m].at # "away"
                   /\ mutation'[m].nr = mutation[m].nr
  <2>1. CASE Lost(m)
    <3>1. mutation[m].nr \in Nat
      BY <1>0, <2>1, MutationKinds
    <3>2. mutation'[m] = [at |-> "lost", worker |-> w, nr |-> mutation[m].nr]
      BY <1>1, <2>1
    <3>3. [at |-> "lost", worker |-> w, nr |-> mutation[m].nr] \in MutationLocal
      BY <3>1 DEF MutationLocal
    <3>. QED
      BY <2>1, <3>2, <3>3
  <2>2. CASE ~Lost(m)
    BY <1>0, <1>1, <2>2
  <2>. QED
    BY <2>1, <2>2
<1>. HIDE DEF Lost
<1>4. CacheTyped'
  <2>1. mutation' \in [Mutation -> MutationLocal]
    BY <1>1, <1>3
  <2>2. visit' \in [Visit -> VisitLocal]
    BY <1>0, <1>1
  <2>3. known' \in [CacheWorker -> Nat] /\ DOMAIN store' = CacheWorker
    BY <1>0, <1>1 DEF CacheTyped
  <2>. QED
    BY <1>1, <1>2, <2>1, <2>2, <2>3 DEF CacheTyped
<1>5. \A m \in Mutation : mutation'[m].at # "away" => mutation'[m].nr <= content'
  BY <1>1, <1>3
<1>6. \A version, shown \in Nat : Shows(version, shown) => Shows(version, shown)'
  <2>1. \A m \in Mutation : mutation'[m].at \in {"writing", "done"} => mutation'[m] = mutation[m]
    BY <1>3
  <2>2. muddled => muddled'
    BY <1>1
  <2>. QED
    BY <2>1, <2>2, NothingAnnounced
<1>7. ASSUME NEW v \in Visit
      PROVE  VisitSound(v)'
  <2>1. CASE visit'[v] = Away
    BY <1>0, <2>1 DEF VisitSound
  <2>2. CASE visit'[v] # Away
    <3>1. visit'[v] = visit[v] /\ visit[v].worker # w
      BY <1>1, <2>2
    <3>2. visit[v].at # "away" => visit[v].worker \in CacheWorker /\ visit[v].version \in Nat
      BY <1>0, VisitKinds
    <3>3. visit[v].at # "away" => visit[v].version <= known'[visit[v].worker]
      BY <1>0, <1>1, <3>1, <3>2
    <3>4. ASSUME visit[v].at = "rendered"
          PROVE  Shows(visit[v].version, visit[v].content)'
      <4>1. visit[v].content \in Nat
        BY <1>0, <3>4, VisitKinds
      <4>2. PICK n \in Nat, c \in Nat : n = visit[v].version /\ c = visit[v].content
        BY <3>2, <3>4, <4>1
      <4>3. Shows(n, c)'
        BY <1>6, <3>4, <4>2
      <4>. QED
        BY <3>1, <4>2, <4>3 DEF Shows
    <3>. QED
      BY <3>1, <3>3, <3>4 DEF VisitSound
  <2>. QED
    BY <2>1, <2>2
<1>8. ASSUME NEW x \in CacheWorker
      PROVE  store'[x] \in Seq(SoundPage(x)')
  <2>1. CASE x = w
    BY <1>1, <2>1 DEF CacheTyped
  <2>2. CASE x # w
    <3>1. store'[x] = store[x] /\ known'[x] = known[x]
      BY <1>0, <1>1, <2>2 DEF CacheTyped
    <3>2. SoundPage(x) \subseteq SoundPage(x)'
      <4>1. ASSUME NEW e \in Page, e.version <= known[x], Shows(e.version, e.content)
            PROVE  Shows(e.version, e.content)'
        <5>1. e.version \in Nat /\ e.content \in Nat
          BY DEF Page
        <5>. QED
          BY <1>6, <4>1, <5>1
      <4>. QED
        BY <3>1, <4>1 DEF SoundPage
    <3>. QED
      BY <3>1, <3>2, SeqMonotonic
  <2>. QED
    BY <2>1, <2>2
<1>. QED
  BY <1>4, <1>5, <1>7, <1>8 DEF CacheInv, VisitSound

LEMMA CacheInit_Inv == CacheInit => CacheInv
<1>. SUFFICES ASSUME CacheInit
              PROVE  CacheInv
  OBVIOUS
<1>1. Away \in VisitLocal /\ Away \in MutationLocal /\ Away.at = "away"
  BY DEF Away, VisitLocal, MutationLocal
<1>2. CacheTyped
  BY <1>1 DEF CacheInit, CacheTyped
<1>. QED
  BY <1>1, <1>2 DEF CacheInit, CacheInv

LEMMA CacheStep == CacheInv /\ [CacheNext]_cacheVars => CacheInv'
<1>. SUFFICES ASSUME CacheInv, [CacheNext]_cacheVars
              PROVE  CacheInv'
  OBVIOUS
<1>1. CASE UNCHANGED cacheVars
  <2>1. CacheTyped' /\ \A w \in CacheWorker : known[w] <= known'[w]
    BY <1>1 DEF cacheVars, CacheInv, CacheTyped
  <2>. QED
    BY <1>1, <2>1, QuietCache DEF cacheVars, CacheInv
<1>2. CASE CacheNext
  BY <1>2, ClockKeepsSound, AskKeepsSound, AnswerKeepsSound, MutationsKeepSound, BumpKeepsSound,
     RestartKeepsSound DEF CacheNext, SomebodyAsks
<1>. QED
  BY <1>1, <1>2

\* No cache answers with a page that misses a change announced by the page's
\* version, unless a version was lost or announced twice.
THEOREM BumpedShow == CacheSpec => []BumpedChangesShow
<1>1. CacheInit => CacheInv
  BY CacheInit_Inv
<1>2. CacheInv /\ [CacheNext]_cacheVars => CacheInv'
  BY CacheStep
<1>3. CacheInv => BumpedChangesShow
  <2>. SUFFICES ASSUME CacheInv, ~muddled, NEW w \in CacheWorker, NEW i \in DOMAIN store[w], NEW m \in Mutation,
                       mutation[m].at \in {"writing", "done"}, Announced(m) <= store[w][i].version
                PROVE  mutation[m].nr <= store[w][i].content
    BY DEF BumpedChangesShow
  <2>1. store[w][i] \in SoundPage(w)
    BY LenProperties, ElementOfSeq DEF CacheInv
  <2>. QED
    BY <2>1 DEF SoundPage, Shows, Announced
<1>. QED
  BY <1>1, <1>2, <1>3, PTL DEF CacheSpec

--------------------------------------------------------------------------------
(* A store stays within its size and has a key once.                         *)

NoKeyTwice(s) == \A i, j \in DOMAIN s : KeyIs(s[i], s[j].url, s[j].version) => i = j

\* Whatever is put at the end of these entries does not repeat the key.
KeyIsNew(s, e) == \A i \in DOMAIN s : ~KeyIs(s[i], e.url, e.version)

StoresTidy == \A w \in CacheWorker : Len(store[w]) <= MaxEntries /\ NoKeyTwice(store[w])

CacheFields ==
    /\ CacheInv
    /\ looking \in [CacheWorker -> BOOLEAN]
    /\ restarts \in Nat

LEMMA EntryTaken ==
    ASSUME NEW S, NEW s \in Seq(S), NEW i \in DOMAIN s, NoKeyTwice(s)
    PROVE  /\ Len(RemoveAt(s, i)) = Len(s) - 1
           /\ NoKeyTwice(RemoveAt(s, i))
           /\ KeyIsNew(RemoveAt(s, i), s[i])
<1>. DEFINE t == RemoveAt(s, i)
            old(k) == IF k < i THEN k ELSE k + 1
<1>1. i \in 1..Len(s) /\ Len(s) \in Nat /\ DOMAIN s = 1..Len(s)
  BY LenProperties
<1>2. /\ SubSeq(s, 1, i - 1) \in Seq(S) /\ Len(SubSeq(s, 1, i - 1)) = i - 1
      /\ \A k \in 1..(i - 1) : SubSeq(s, 1, i - 1)[k] = s[k]
  <2>1. \A k \in 1..(i - 1) : s[k] \in S
    BY <1>1, ElementOfSeq
  <2>. QED
    BY <1>1, <2>1, SubSeqProperties
<1>3. /\ SubSeq(s, i + 1, Len(s)) \in Seq(S) /\ Len(SubSeq(s, i + 1, Len(s))) = Len(s) - i
      /\ \A k \in 1..(Len(s) - i) : SubSeq(s, i + 1, Len(s))[k] = s[k + i]
  <2>1. \A k \in (i + 1)..Len(s) : s[k] \in S
    BY <1>1, ElementOfSeq
  <2>. QED
    BY <1>1, <2>1, SubSeqProperties
<1>4. /\ t \in Seq(S) /\ Len(t) = Len(s) - 1
      /\ \A k \in 1..Len(t) : t[k] = s[old(k)]
  <2>. DEFINE a == SubSeq(s, 1, i - 1)
              b == SubSeq(s, i + 1, Len(s))
  <2>1. /\ t = a \o b /\ a \in Seq(S) /\ b \in Seq(S) /\ Len(a) = i - 1 /\ Len(b) = Len(s) - i
        /\ \A k \in 1..(i - 1) : a[k] = s[k]
        /\ \A k \in 1..(Len(s) - i) : b[k] = s[k + i]
    BY <1>2, <1>3 DEF RemoveAt
  <2>. HIDE DEF a, b, t
  <2>2. /\ t \in Seq(S) /\ Len(t) = Len(a) + Len(b)
        /\ \A k \in 1..(Len(a) + Len(b)) : t[k] = IF k <= Len(a) THEN a[k] ELSE b[k - Len(a)]
    BY <2>1, ConcatProperties
  <2>3. ASSUME NEW k \in 1..Len(t)
        PROVE  t[k] = s[old(k)]
    <3>1. CASE k < i
      BY <1>1, <2>1, <2>2, <3>1
    <3>2. CASE k >= i
      <4>1. PICK n \in 1..(Len(s) - i) : n = k - (i - 1)
        <5>1. Len(t) = (i - 1) + (Len(s) - i)
          BY <2>1, <2>2
        <5>2. k - (i - 1) \in 1..(Len(s) - i)
          BY <1>1, <3>2, <5>1
        <5>. QED
          BY <5>2
      <4>2. n = k - Len(a) /\ ~(k <= Len(a)) /\ k \in 1..(Len(a) + Len(b))
        BY <1>1, <2>1, <2>2, <3>2, <4>1
      <4>3. t[k] = b[n]
        BY <2>2, <4>2
      <4>4. b[n] = s[n + i]
        BY <2>1, <4>1
      <4>5. k \in Int /\ i \in Int
        BY <1>1, <2>1, <2>2
      <4>6. n + i = k + 1 /\ ~(k < i)
        BY <3>2, <4>1, <4>5
      <4>. QED
        BY <4>3, <4>4, <4>6
    <3>. QED
      BY <1>1, <3>1, <3>2
  <2>. QED
    BY <1>1, <2>1, <2>2, <2>3
<1>5. DOMAIN t = 1..Len(t)
  BY <1>4, LenProperties
<1>6. \A k \in DOMAIN t : old(k) \in DOMAIN s /\ old(k) # i /\ t[k] = s[old(k)]
  BY <1>1, <1>4, <1>5
<1>7. \A k, n \in DOMAIN t : old(k) = old(n) => k = n
  BY <1>1, <1>4, <1>5
<1>. HIDE DEF t, old
<1>8. NoKeyTwice(t)
  BY <1>6, <1>7 DEF NoKeyTwice
<1>9. KeyIsNew(t, s[i])
  BY <1>1, <1>6 DEF NoKeyTwice, KeyIsNew
<1>. QED
  BY <1>4, <1>8, <1>9 DEF t

LEMMA EntryAdded ==
    ASSUME NEW S, NEW s \in Seq(S), NEW e \in S, NoKeyTwice(s), KeyIsNew(s, e)
    PROVE  NoKeyTwice(Append(s, e)) /\ Len(Append(s, e)) = Len(s) + 1
<1>. DEFINE t == Append(s, e)
<1>1. /\ Len(s) \in Nat /\ DOMAIN s = 1..Len(s)
      /\ t \in Seq(S) /\ Len(t) = Len(s) + 1 /\ DOMAIN t = 1..(Len(s) + 1)
      /\ \A k \in 1..Len(s) : t[k] = s[k]
      /\ t[Len(s) + 1] = e
  BY LenProperties, AppendProperties
<1>. HIDE DEF t
<1>2. ASSUME NEW i \in DOMAIN t, NEW j \in DOMAIN t, KeyIs(t[i], t[j].url, t[j].version)
      PROVE  i = j
  <2>1. CASE i \in DOMAIN s /\ j \in DOMAIN s
    BY <1>1, <1>2, <2>1 DEF NoKeyTwice
  <2>2. CASE i \in DOMAIN s /\ j = Len(s) + 1
    BY <1>1, <1>2, <2>2 DEF KeyIsNew
  <2>3. CASE i = Len(s) + 1 /\ j \in DOMAIN s
    BY <1>1, <1>2, <2>3 DEF KeyIsNew, KeyIs
  <2>. QED
    BY <1>1, <2>1, <2>2, <2>3
<1>. QED
  BY <1>1, <1>2 DEF NoKeyTwice, t

LEMMA EldestEvicted ==
    ASSUME CacheAssumption, NEW S, NEW s \in Seq(S), NoKeyTwice(s)
    PROVE  NoKeyTwice(Evicted(s)) /\ Len(Evicted(s)) <= MaxEntries
<1>. DEFINE a == Len(s) - MaxEntries + 1
            t == SubSeq(s, a, Len(s))
<1>1. Len(s) \in Nat /\ DOMAIN s = 1..Len(s) /\ MaxEntries \in Nat \ {0}
  BY LenProperties DEF CacheAssumption
<1>2. CASE Len(s) > MaxEntries
  <2>1. \A k \in a..Len(s) : s[k] \in S
    BY <1>1, <1>2, ElementOfSeq
  <2>2. /\ t \in Seq(S) /\ Len(t) = MaxEntries
        /\ \A k \in 1..MaxEntries : t[k] = s[a + k - 1]
    BY <1>1, <1>2, <2>1, SubSeqProperties
  <2>3. DOMAIN t = 1..MaxEntries
    BY <2>2, LenProperties
  <2>4. \A k \in DOMAIN t : a + k - 1 \in DOMAIN s /\ t[k] = s[a + k - 1]
    BY <1>1, <1>2, <2>2, <2>3
  <2>5. \A i, j \in DOMAIN t : a + i - 1 = a + j - 1 => i = j
    BY <1>1, <2>3
  <2>6. NoKeyTwice(t)
    BY <2>4, <2>5 DEF NoKeyTwice
  <2>. QED
    BY <1>1, <1>2, <2>2, <2>6 DEF Evicted
<1>3. CASE ~(Len(s) > MaxEntries)
  BY <1>1, <1>3 DEF Evicted
<1>. QED
  BY <1>2, <1>3

\* Entries of a store are sound pages, so their keys can be told.
LEMMA TidyStep ==
    ASSUME CacheFields, StoresTidy, [CacheNext]_cacheVars
    PROVE  StoresTidy'
<1>. USE DEF CacheFields, CacheInv
<1>0. DOMAIN store = CacheWorker /\ \A w \in CacheWorker : store[w] \in Seq(SoundPage(w))
  BY DEF CacheTyped
<1>1. ASSUME UNCHANGED store
      PROVE  StoresTidy'
  BY <1>1 DEF StoresTidy
<1>2. ASSUME NEW w \in CacheWorker, NEW new, store' = [store EXCEPT ![w] = new],
             Len(new) <= MaxEntries, NoKeyTwice(new)
      PROVE  StoresTidy'
  BY <1>0, <1>2 DEF StoresTidy
<1>3. ASSUME NEW w \in CacheWorker, NEW i \in DOMAIN store[w]
      PROVE  /\ RemoveAt(store[w], i) \in Seq(SoundPage(w)) /\ store[w][i] \in SoundPage(w)
             /\ Len(RemoveAt(store[w], i)) = Len(store[w]) - 1
             /\ NoKeyTwice(RemoveAt(store[w], i))
             /\ KeyIsNew(RemoveAt(store[w], i), store[w][i])
  BY <1>0, <1>3, OneLess, EntryTaken, LenProperties, ElementOfSeq DEF StoresTidy
<1>4. \A w \in CacheWorker : /\ Len(store[w]) \in Nat /\ MaxEntries \in Nat
                             /\ Len(store[w]) <= MaxEntries /\ NoKeyTwice(store[w])
  BY <1>0, LenProperties, CacheAssumption DEF StoresTidy, CacheAssumption
<1>5. ASSUME NEW w \in CacheWorker, MinutePasses(w)
      PROVE  StoresTidy'
  <2>1. PICK i \in DOMAIN store[w] : store' = [store EXCEPT ![w] = RemoveAt(store[w], i)]
    BY <1>5 DEF MinutePasses
  <2>2. Len(RemoveAt(store[w], i)) <= MaxEntries /\ NoKeyTwice(RemoveAt(store[w], i))
    BY <1>3, <1>4
  <2>. QED
    BY <1>2, <2>1, <2>2
<1>6. ASSUME NEW v \in Visit, NEW w \in CacheWorker, NEW u \in Url, HitCache(v, w, u)
      PROVE  StoresTidy'
  <2>1. PICK i \in Found(w, u, known[w]) :
           store' = [store EXCEPT ![w] = Append(RemoveAt(store[w], i), store[w][i])]
    BY <1>6 DEF HitCache
  <2>2. i \in DOMAIN store[w]
    BY DEF Found
  <2>3. /\ NoKeyTwice(Append(RemoveAt(store[w], i), store[w][i]))
        /\ Len(Append(RemoveAt(store[w], i), store[w][i])) = Len(store[w])
    BY <1>3, <1>4, <2>2, EntryAdded
  <2>. QED
    BY <1>2, <1>4, <2>1, <2>3
<1>7. ASSUME NEW v \in Visit, AnswerAndStore(v)
      PROVE  StoresTidy'
  <2>. DEFINE w == visit[v].worker
              page(n) == [url |-> visit[v].url, version |-> n, content |-> visit[v].content]
  <2>1. visit[v] \in VisitLocal /\ visit[v].at = "rendered"
    BY <1>7 DEF AnswerAndStore, CacheTyped
  <2>2. w \in CacheWorker /\ visit[v].url \in Url /\ visit[v].version \in Nat /\ visit[v].content \in Nat
        /\ visit[v].version <= known[w] /\ Shows(visit[v].version, visit[v].content)
    BY <2>1, VisitKinds
  <2>3. PICK n \in StoredUnder(v) :
           store' = [store EXCEPT ![w] = Evicted(Append(Without(w, visit[v].url, n), page(n)))]
    BY <1>7 DEF AnswerAndStore
  <2>4. n = visit[v].version
    BY DEF StoredUnder
  <2>5. page(n) \in SoundPage(w) /\ page(n).url = visit[v].url /\ page(n).version = n
    BY <2>2, <2>4 DEF SoundPage, Page
  <2>6. /\ Without(w, visit[v].url, n) \in Seq(SoundPage(w))
        /\ NoKeyTwice(Without(w, visit[v].url, n))
        /\ KeyIsNew(Without(w, visit[v].url, n), page(n))
    <3>. DEFINE F == Found(w, visit[v].url, n)
    <3>1. CASE F = {}
      <4>1. \A i \in DOMAIN store[w] : ~KeyIs(store[w][i], visit[v].url, n)
        BY <3>1 DEF Found
      <4>. QED
        BY <1>0, <1>4, <2>2, <2>5, <3>1, <4>1 DEF Without, KeyIsNew
    <3>2. CASE F # {}
      <4>1. PICK i : i = (CHOOSE k \in F : TRUE)
        OBVIOUS
      <4>2. i \in DOMAIN store[w] /\ KeyIs(store[w][i], visit[v].url, n)
        BY <3>2, <4>1 DEF Found
      <4>3. Without(w, visit[v].url, n) = RemoveAt(store[w], i)
        BY <3>2, <4>1 DEF Without
      <4>4. store[w][i].url = page(n).url /\ store[w][i].version = page(n).version
        BY <2>5, <4>2 DEF KeyIs
      <4>5. KeyIsNew(RemoveAt(store[w], i), page(n))
        BY <1>3, <2>2, <4>2, <4>4 DEF KeyIsNew
      <4>. QED
        BY <1>3, <2>2, <4>2, <4>3, <4>5
    <3>. QED
      BY <3>1, <3>2
  <2>7. /\ Append(Without(w, visit[v].url, n), page(n)) \in Seq(SoundPage(w))
        /\ NoKeyTwice(Append(Without(w, visit[v].url, n), page(n)))
    BY <2>5, <2>6, EntryAdded, AppendProperties
  <2>. QED
    BY <1>2, <2>2, <2>3, <2>7, EldestEvicted, CacheAssumption
<1>8. ASSUME NEW w \in CacheWorker, RestartWorker(w)
      PROVE  StoresTidy'
  <2>1. store' = [store EXCEPT ![w] = <<>>]
    BY <1>8 DEF RestartWorker
  <2>2. Len(<<>>) <= MaxEntries /\ NoKeyTwice(<<>>)
    BY CacheAssumption DEF CacheAssumption, NoKeyTwice
  <2>. QED
    BY <1>2, <2>1, <2>2
<1>9. CASE \/ MillisecondPasses \/ UNCHANGED cacheVars
           \/ \E w \in CacheWorker : FinishRefresh(w)
           \/ \E v \in Visit, w \in CacheWorker, u \in Url : MissCache(v, w, u)
           \/ \E v \in Visit : RenderPage(v) \/ AnswerOnly(v)
           \/ \E m \in Mutation : \/ \E w \in CacheWorker : CommitMutation(m, w)
                                  \/ BumpVersion(m) \/ MissBump(m) \/ WriteVersion(m) \/ FailToWrite(m)
  BY <1>1, <1>9 DEF MillisecondPasses, FinishRefresh, MissCache, RenderPage, AnswerOnly,
     CommitMutation, BumpVersion, MissBump, WriteVersion, FailToWrite, cacheVars
<1>. QED
  BY <1>5, <1>6, <1>7, <1>8, <1>9 DEF CacheNext, SomebodyAsks, AnswerVisit

LEMMA FieldsStep ==
    ASSUME CacheFields, CacheInv', [CacheNext]_cacheVars
    PROVE  CacheFields'
<1>. USE DEF CacheFields
<1>1. restarts' \in Nat
  BY DEF CacheNext, cacheVars, MillisecondPasses, SomebodyAsks, HitCache, MissCache, MinutePasses,
     FinishRefresh, RestartWorker, AnswerVisit, RenderPage, AnswerOnly, AnswerAndStore,
     CommitMutation, BumpVersion, MissBump, WriteVersion, FailToWrite
<1>2. \/ UNCHANGED looking
      \/ \E w : looking' = [looking EXCEPT ![w] = TRUE] \/ looking' = [looking EXCEPT ![w] = FALSE]
  BY DEF CacheNext, cacheVars, MillisecondPasses, SomebodyAsks, HitCache, MissCache, MinutePasses,
     FinishRefresh, RestartWorker, AnswerVisit, RenderPage, AnswerOnly, AnswerAndStore,
     CommitMutation, BumpVersion, MissBump, WriteVersion, FailToWrite, Ask, Current
<1>3. looking' \in [CacheWorker -> BOOLEAN]
  BY <1>2
<1>. QED
  BY <1>1, <1>3

\* A store stays within maxEntries and never holds one page of one version twice,
\* in every interleaving of visits, refreshes, bumps and restarts, however late a
\* render is stored (response-cache.ts set and #evict).
THEOREM StoresBounded == CacheSpec => []CacheTypeOK
<1>1. CacheInit => CacheFields /\ StoresTidy
  <2>. SUFFICES ASSUME CacheInit
                PROVE  CacheFields /\ StoresTidy
    OBVIOUS
  <2>1. CacheFields
    BY CacheInit_Inv DEF CacheInit, CacheFields
  <2>2. Len(<<>>) <= MaxEntries /\ NoKeyTwice(<<>>)
    BY CacheAssumption DEF CacheAssumption, NoKeyTwice
  <2>. QED
    BY <2>1, <2>2 DEF CacheInit, StoresTidy
<1>2. CacheFields /\ StoresTidy /\ [CacheNext]_cacheVars => CacheFields' /\ StoresTidy'
  BY TidyStep, FieldsStep, CacheStep DEF CacheFields
<1>3. CacheFields /\ StoresTidy => CacheTypeOK
  <2>. SUFFICES ASSUME CacheFields, StoresTidy
                PROVE  CacheTypeOK
    OBVIOUS
  <2>1. (\A v \in Visit : visit[v] \in VisitLocal) /\ \A m \in Mutation : mutation[m] \in MutationLocal
    BY DEF CacheFields, CacheInv, CacheTyped
  <2>2. /\ \A v \in Visit : visit[v].at \in {"away", "asked", "rendered"}
        /\ \A m \in Mutation : mutation[m].at \in {"away", "committed", "writing", "done", "lost"}
    BY <2>1, VisitKinds, MutationKinds
  <2>. QED
    BY <2>2 DEF CacheFields, CacheInv, CacheTyped, StoresTidy, NoKeyTwice, CacheTypeOK
<1>. QED
  BY <1>1, <1>2, <1>3, PTL DEF CacheSpec
===============================================================================
