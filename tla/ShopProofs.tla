------------------------------- MODULE ShopProofs -------------------------------
(***************************************************************************)
(* Proofs about the instance MCShop: what is proved of each part holds of  *)
(* the shop they make, and every variable of every part has its type.      *)
(***************************************************************************)
EXTENDS MCShop, OfficeProofs, CatalogueProofs, CustomerProofs, CacheProofs

\* What the shop does is what one of its parts does, and nothing else: so what
\* is proved of any part holds of the instance.  The question of Figures is
\* asked at the start, so only where that is the part in play.
THEOREM ShopHasParts ==
    ShopSpec =>
        /\ LedgerSpec /\ CartSpec /\ InstallSpec /\ StaffSpec /\ ProductSpec /\ PricesSpec
        /\ VariantsSpec /\ PhotosSpec /\ FulfilmentSpec /\ CompatSpec /\ HomeSpec
        /\ SearchSpec /\ CacheSpec
        /\ part = "figures" => FiguresSpec
<1>1. ShopInit =>
        /\ LedgerInit /\ CartInit /\ InstallInit /\ StaffInit /\ ProductInit /\ PricesInit
        /\ VariantsInit /\ PhotosInit /\ FulfilmentInit /\ CompatInit /\ HomeInit
        /\ SearchInit /\ CacheInit
        /\ part = "figures" => FiguresInit
  BY DEF ShopInit
<1>2. ASSUME [ShopNext]_shopVars
      PROVE  /\ [LedgerNext]_ledgerVars /\ [CartNext]_cartVars /\ [InstallNext]_installVars
             /\ [StaffNext]_staffVars /\ [ProductNext]_productVars /\ [PricesNext]_pricesVars
             /\ [VariantsNext]_variantsVars /\ [PhotosNext]_photosVars
             /\ [FulfilmentNext]_fulfilmentVars /\ [CompatNext]_compatVars /\ [HomeNext]_homeVars
             /\ [SearchNext]_searchVars /\ [CacheNext]_cacheVars /\ [FiguresNext]_figuresVars
  BY <1>2 DEF ShopNext, shopVars
<1>. QED
  BY <1>1, <1>2, PTL DEF ShopSpec, LedgerSpec, CartSpec, InstallSpec, StaffSpec, ProductSpec,
     PricesSpec, VariantsSpec, PhotosSpec, FulfilmentSpec, CompatSpec, HomeSpec, FiguresSpec,
     SearchSpec, CacheSpec

--------------------------------------------------------------------------------
(* The types of the parts.                                                   *)

LEMMA LedgerTypes == LedgerSpec => []LedgerTypeOK
<1>1. LedgerInit => LedgerInv
  BY LedgerInit_Inv
<1>2. LedgerInv /\ [LedgerNext]_ledgerVars => LedgerInv'
  BY LedgerNextKeepsInv
<1>3. LedgerInv => LedgerTypeOK
  BY DEF LedgerInv
<1>. QED
  BY <1>1, <1>2, <1>3, PTL DEF LedgerSpec

LEMMA InstallTypes == InstallSpec => []InstallTypeOK
<1>1. InstallInv => InstallTypeOK
  BY DEF InstallInv
<1>. QED
  BY <1>1, InstallInductive, PTL

LEMMA ProductTypesHold == ProductSpec => []ProductTypeOK
<1>1. ProductInit => ProductInv
  BY ProductInit_Inv
<1>2. ProductInv /\ [ProductNext]_productVars => ProductInv'
  BY ProductNextKeepsInv
<1>3. ProductInv => ProductTypeOK
  BY DEF ProductInv
<1>. QED
  BY <1>1, <1>2, <1>3, PTL DEF ProductSpec

LEMMA VariantsTypes == VariantsSpec => []VariantsTypeOK
<1>1. VariantsInit => VariantsInv
  BY VariantsInit_Inv
<1>2. VariantsInv /\ [VariantsNext]_variantsVars => VariantsInv'
  BY VariantsNextKeepsInv
<1>3. VariantsInv => VariantsTypeOK
  BY DEF VariantsInv
<1>. QED
  BY <1>1, <1>2, <1>3, PTL DEF VariantsSpec

LEMMA UploadStages == ASSUME NEW j \in UploadLocal PROVE j.at \in InProgress \cup {"new", "over"}
<1>1. CASE j \in [at : {"new", "over"}]
  BY <1>1
<1>2. CASE j \in [at : InProgress, of : Product, key : Key, first : BOOLEAN]
  BY <1>2
<1>. QED
  BY <1>1, <1>2 DEF UploadLocal

LEMMA DeleteStages ==
    ASSUME NEW j \in DeleteLocal
    PROVE  j.at \in {"new", "counted", "unlinking", "unlinked", "promoting", "found", "over"}
<1>1. CASE j \in [at : {"new"}]
  BY <1>1
<1>2. CASE j \in [at : DeleteStage, row : PhotoRow, of : Product, key : Key, primary : BOOLEAN,
                  others : SUBSET PhotoRow]
  BY <1>2 DEF DeleteStage
<1>. QED
  BY <1>1, <1>2 DEF DeleteLocal

LEMMA CopyStages == ASSUME NEW j \in CopyLocal PROVE j.at \in {"new", "read", "over"}
<1>1. CASE j \in [at : {"new", "over"}]
  BY <1>1
<1>2. CASE j \in [at : {"read"}, of : Product, rows : UNION {[S -> PhotoRecord] : S \in SUBSET PhotoRow}]
  BY <1>2
<1>. QED
  BY <1>1, <1>2 DEF CopyLocal

LEMMA PhotosTypesHold == PhotosSpec => []PhotosTypeOK
<1>1. ASSUME PhotosTyped PROVE PhotosTypeOK
  <2>1. \A u \in Uploading : upload[u].at \in InProgress \cup {"new", "over"}
    BY <1>1, UploadStages DEF PhotosTyped
  <2>2. \A d \in Deleting : delete[d].at \in
          {"new", "counted", "unlinking", "unlinked", "promoting", "found", "over"}
    BY <1>1, DeleteStages DEF PhotosTyped
  <2>3. \A c \in Copying : copying[c].at \in {"new", "read", "over"}
    BY <1>1, CopyStages DEF PhotosTyped
  <2>. QED
    BY <1>1, <2>1, <2>2, <2>3 DEF PhotosTyped, PhotosTypeOK, PhotoRecord
<1>. QED
  BY <1>1, PhotosTypesInductive, PTL

LEMMA PricesTypesHold == PricesSpec => []PricesTypeOK
<1>1. ASSUME PricesTyped PROVE PricesTypeOK
  <2>1. import.at \in {"none", "row", "read", "over"}
    <3>1. CASE import \in [at : {"none"}]
      BY <3>1
    <3>2. CASE import \in [at : ImportStage, plan : Seq(PlanRow), left : SUBSET Nat, done : SUBSET Nat,
                           was : PriceOrNone]
      BY <3>2 DEF ImportStage
    <3>. QED
      BY <1>1, <3>1, <3>2 DEF PricesTyped, ImportLocal
  <2>. QED
    BY <1>1, <2>1 DEF PricesTyped, PricesTypeOK, PriceOrNone, PricingLocal
<1>2. PricesInv => PricesTyped
  BY DEF PricesInv
<1>. QED
  BY <1>1, <1>2, PricesInductive, PTL

LEMMA FulfilmentTypes == FulfilmentSpec => []FulfilmentTypeOK
<1>1. FulfilmentInv => FulfilmentTypeOK
  BY DEF FulfilmentInv
<1>. QED
  BY <1>1, FulfilmentInductive, PTL

LEMMA CompatTypesHold == CompatSpec => []CompatTypeOK
<1>1. CompatInv => CompatTypeOK
  BY DEF CompatInv
<1>. QED
  BY <1>1, CompatInductive, PTL

LEMMA HomeTypes == HomeSpec => []HomeTypeOK
<1>1. ASSUME HomeInv PROVE HomeTypeOK
  <2>1. \A e \in Editing : editing[e].at \in {"resting", "adding", "current", "swap"}
    BY <1>1, HomeRow DEF HomeInv
  <2>. QED
    BY <1>1, <2>1 DEF HomeInv, HomeTypeOK
<1>. QED
  BY <1>1, HomeInductive, PTL

\* The step-ups, the lapsed invitations and the sessions nobody asked a profile
\* for, whose types no other proof needs.
StepUpsTyped == confirmed \subseteq Person /\ lapsed \subseteq Invitation /\ unasked \subseteq Person

LEMMA StepUpsStep == StepUpsTyped /\ [StaffNext]_staffVars => StepUpsTyped'
<1>. SUFFICES ASSUME StepUpsTyped, [StaffNext]_staffVars
              PROVE  StepUpsTyped'
  OBVIOUS
<1>. USE DEF StepUpsTyped
<1>1. CASE UNCHANGED <<confirmed, lapsed, unasked>>
  BY <1>1
<1>2. ASSUME NEW p \in Person,
             OpenSession(p) \/ RelaySession(p) \/ AnswerChallenge(p) \/ ConfirmIdentity(p) \/ \E a \in Person : RevokeSessions(a, p)
      PROVE  StepUpsTyped'
  BY <1>2 DEF OpenSession, RelaySession, AnswerChallenge, ConfirmIdentity, RevokeSessions
<1>3. ASSUME NEW q \in StaffRequest,
             \/ \E p \in Person, s \in StaffStatus : JudgeStatus(q, p, s)
             \/ \E p \in Person, rs \in RoleChoice : JudgeRoles(q, p, rs)
             \/ \E a \in Person : AdmitStatus(q, a)
             \/ WeighRoles(q)
      PROVE  StepUpsTyped'
  BY <1>1, <1>3 DEF JudgeStatus, JudgeRoles, Judge, AdmitStatus, WeighRoles, people
<1>4. ASSUME NEW q \in StaffRequest, NEW a \in Person, AdmitRoles(q, a)
      PROVE  StepUpsTyped'
  BY <1>4 DEF AdmitRoles
<1>5. ASSUME NEW q \in StaffRequest, CommitStatus(q) \/ CommitRoles(q)
      PROVE  StepUpsTyped'
  BY <1>5 DEF CommitStatus, CommitRoles
<1>6. ASSUME NEW i \in Invitation,
             \/ \E a, p \in Person, rs \in RoleChoice : CheckInvitation(i, a, p, rs)
             \/ SendInvitation(i) \/ LapseInvitation(i) \/ \E a \in Person : RevokeInvitation(i, a)
      PROVE  StepUpsTyped'
  BY <1>1, <1>6 DEF CheckInvitation, SendInvitation, LapseInvitation, RevokeInvitation, people
<1>7. ASSUME NEW k \in Acceptance,
             \/ \E i \in Invitation : ClaimInvitation(k, i)
             \/ CreateLogin(k) \/ RefuseLogin(k) \/ ReopenInvitation(k) \/ JoinStaff(k) \/ FailToJoin(k)
      PROVE  StepUpsTyped'
  BY <1>7 DEF ClaimInvitation, CreateLogin, RefuseLogin, ReopenInvitation, JoinStaff, FailToJoin, people
<1>8. CASE UNCHANGED staffVars
  BY <1>1, <1>8 DEF staffVars
<1>. QED
  BY <1>2, <1>3, <1>4, <1>5, <1>6, <1>7, <1>8 DEF StaffNext

LEMMA RequestStages ==
    ASSUME NEW j \in RequestLocal
    PROVE  j.at \in {"new", "over", "status", "status admitted", "roles", "roles admitted", "roles weighed"}
<1>0. Fresh.at = "new" /\ Over.at = "over"
  BY DEF Fresh, Over
<1>1. CASE j \in {Fresh, Over}
  BY <1>0, <1>1
<1>2. CASE j \in StatusLocal
  BY <1>2 DEF StatusLocal
<1>3. CASE j \in RolesLocal
  BY <1>3 DEF RolesLocal
<1>4. CASE j \in WeighedLocal
  BY <1>4 DEF WeighedLocal
<1>5. j \in {Fresh, Over} \/ j \in StatusLocal \/ j \in RolesLocal \/ j \in WeighedLocal
  BY Zenon DEF RequestLocal
<1>. QED
  BY <1>1, <1>2, <1>3, <1>4, <1>5

LEMMA InviteStages ==
    ASSUME NEW j \in InviteLocal
    PROVE  j.at \in {"new", "checked", "pending", "accepted", "revoked"}
BY DEF InviteLocal, Fresh

LEMMA AcceptStages ==
    ASSUME NEW j \in AcceptLocal
    PROVE  j.at \in {"new", "over", "claimed", "has account", "refused"}
<1>0. Fresh.at = "new" /\ Over.at = "over"
  BY DEF Fresh, Over
<1>1. CASE j \in {Fresh, Over}
  BY <1>0, <1>1
<1>2. CASE j \in AcceptRow
  BY <1>2 DEF AcceptRow
<1>. QED
  BY <1>1, <1>2 DEF AcceptLocal

LEMMA StaffTypes == StaffSpec => []StaffTypeOK
<1>1. StaffInit => SessionInv /\ StepUpsTyped
  BY DEF StaffInit, SessionInv, SessionsOfTheActive, StepUpsTyped
<1>2. ASSUME StaffInv, SessionInv, StepUpsTyped PROVE StaffTypeOK
  <2>1. PeopleTyped /\ LocalsTyped
    BY <1>2 DEF StaffInv
  <2>2. \A q \in StaffRequest : request[q].at \in
          {"new", "over", "status", "status admitted", "roles", "roles admitted", "roles weighed"}
    BY <2>1, RequestStages DEF LocalsTyped
  <2>3. \A i \in Invitation : invite[i].at \in {"new", "checked", "pending", "accepted", "revoked"}
    BY <2>1, InviteStages DEF LocalsTyped
  <2>4. \A k \in Acceptance : accepting[k].at \in {"new", "over", "claimed", "has account", "refused"}
    BY <2>1, AcceptStages DEF LocalsTyped
  <2>. QED
    BY <1>2, <2>1, <2>2, <2>3, <2>4 DEF StaffTypeOK, PeopleTyped, SessionInv, StepUpsTyped
<1>. QED
  BY <1>1, <1>2, SessionStep, StepUpsStep, StaffInductive, PTL DEF StaffSpec

\* What the types of the proofs of Cart leave out: the bounds of the model.
CartBounded ==
    /\ cart \in {"none", "live", "expired"}
    /\ expiries \in 0..MaxExpiries
    /\ \A v \in Article : item[v] <= CartCap /\ levels[v] <= MaxLevels

LEMMA CartBoundedStep == CartTyped /\ CartBounded /\ [CartNext]_cartVars => CartBounded'
<1>. SUFFICES ASSUME CartTyped, CartBounded, [CartNext]_cartVars
              PROVE  CartBounded'
  OBVIOUS
<1>. USE DEF CartBounded
<1>1. CASE UNCHANGED <<cart, expiries, item, levels>>
  BY <1>1
<1>2. CASE ExpireCart
  BY <1>2, CartAssumption DEF ExpireCart, CartAssumption
<1>3. ASSUME NEW v \in Article, SecondLevel(v)
      PROVE  CartBounded'
  <2>1. levels[v] + 1 <= MaxLevels
    BY <1>3, CartAssumption DEF SecondLevel, CartAssumption, CartTyped
  <2>2. \A u \in Article : levels'[u] = IF u = v THEN levels[v] + 1 ELSE levels[u]
    BY <1>3 DEF SecondLevel, CartTyped
  <2>. QED
    BY <1>3, <2>1, <2>2 DEF SecondLevel
<1>4. ASSUME NEW t \in CartTab, LookUpCart(t) \/ MissCart(t) \/ ReadLines(t) \/ Checkout(t) \/ RefusedCheckout(t)
      PROVE  CartBounded'
  BY <1>1, <1>4 DEF LookUpCart, MissCart, ReadLines, Checkout, RefusedCheckout
<1>5. ASSUME NEW t \in CartTab, InsertCart(t)
      PROVE  CartBounded'
  BY <1>5 DEF InsertCart
<1>6. ASSUME NEW t \in CartTab, ClearCart(t)
      PROVE  CartBounded'
  BY <1>6, CartAssumption DEF ClearCart, Cleared, Empty, CartAssumption
<1>7. ASSUME NEW t \in CartTab, NEW v \in Article, NEW n \in Typed, AddToCart(t, v, n) \/ SetQuantity(t, v, n)
      PROVE  CartBounded'
  <2>1. n <= CartCap /\ WithAdded(v, n) <= CartCap
    BY CartAssumption DEF WithAdded, Smaller, CartAssumption, CartTyped
  <2>2. /\ UNCHANGED <<cart, levels, expiries>>
        /\ item' = [item EXCEPT ![v] = WithAdded(v, n)] \/ item' = [item EXCEPT ![v] = n]
    BY <1>7 DEF AddToCart, SetQuantity
  <2>3. \A u \in Article : item'[u] = item[u] \/ item'[u] = WithAdded(v, n) \/ item'[u] = n
    BY <2>2 DEF CartTyped
  <2>. QED
    BY <2>1, <2>2, <2>3
<1>8. CASE UNCHANGED cartVars
  BY <1>1, <1>8 DEF cartVars
<1>. QED
  BY <1>2, <1>3, <1>4, <1>5, <1>6, <1>7, <1>8 DEF CartNext

LEMMA CartTypesHold == CartSpec => []CartTypeOK
<1>1. ASSUME CartInit PROVE CartTyped /\ CartInv /\ CartBounded
  <2>1. CartTyped /\ CartInv
    BY <1>1, CartInit_Inv
  <2>2. CartBounded
    BY <1>1, CartAssumption DEF CartInit, CartBounded, Empty, CartAssumption
  <2>. QED
    BY <2>1, <2>2
<1>2. CartTyped /\ CartInv /\ [CartNext]_cartVars => CartTyped' /\ CartInv'
  BY CartTypes, CartStep
<1>3. ASSUME CartTyped, CartInv, CartBounded PROVE CartTypeOK
  <2>1. item \in [Article -> 0..CartCap] /\ levels \in [Article -> 1..MaxLevels]
    BY <1>3, CartAssumption DEF CartTyped, CartBounded, CartAssumption
  <2>2. chosen # <<>>
    BY <1>3 DEF CartTyped, Fill
  <2>3. ASSUME NEW t \in CartTab
        PROVE  tab[t] \in [at : {"unsent", "answered", "has cart", "no cart", "wrong id", "placed"}]
                             \cup [at : {"lines"}, lines : [Article -> Nat], of : 1..Fill]
    <3>1. CASE tab[t] \in [at : CartStage]
      BY <3>1 DEF CartStage
    <3>2. CASE tab[t] \in [at : {"lines"}, lines : [Article -> Nat], of : Nat]
      <4>1. tab[t].at = "lines" /\ tab[t].of \in 1..Fill
        BY <1>3, <3>2 DEF CartInv, ChosenFor
      <4>. QED
        BY <3>2, <4>1
    <3>. QED
      BY <1>3, <3>1, <3>2 DEF CartTyped, TabLocal
  <2>4. ASSUME NEW t \in CartTab
        PROVE  bought[t] \in [of : 0..Fill, units : [Article -> Nat]]
    <3>1. bought[t] \in Receipt /\ Fill \in Nat
      BY <1>3 DEF CartTyped
    <3>2. bought[t].of \in 0..Fill
      BY <1>3, <3>1 DEF CartInv, ChosenFor, Receipt
    <3>. QED
      BY <3>1, <3>2 DEF Receipt
  <2>5. tab \in [CartTab -> [at : {"unsent", "answered", "has cart", "no cart", "wrong id", "placed"}]
                             \cup [at : {"lines"}, lines : [Article -> Nat], of : 1..Fill]]
    BY <1>3, <2>3 DEF CartTyped
  <2>6. bought \in [CartTab -> [of : 0..Fill, units : [Article -> Nat]]]
    BY <1>3, <2>4 DEF CartTyped
  <2>. QED
    BY <1>3, <2>1, <2>2, <2>5, <2>6 DEF CartTyped, CartBounded, CartTypeOK
<1>. QED
  BY <1>1, <1>2, <1>3, CartBoundedStep, PTL DEF CartSpec

\* The tables and what a rebuild has loaded hold wordings there have been.
Wording == 0..MaxWordings
TablesBounded ==
    /\ wording \in [1..Items -> [Tongue -> Wording]]
    /\ document \in [1..Items -> [Tongue -> Wording]]
    /\ token \in [1..Items -> [Tongue -> Wording]]
    /\ \A r \in Rebuild : Going(r) => \A n \in 1..Len(rebuild[r].rows) : rebuild[r].rows[n].words \in Wording

LEMMA NothingBounded == Nothing \in [1..Items -> [Tongue -> Wording]]
BY SearchIndexAssumption DEF SearchIndexAssumption, Nothing, Wording

LEMMA WordsInBounded ==
    ASSUME NEW rows, NEW i, NEW g, NEW otherwise \in Wording,
           \A n \in 1..Len(rows) : rows[n].words \in Wording
    PROVE  WordsIn(rows, i, g, otherwise) \in Wording
<1>. DEFINE mine == {n \in 1..Len(rows) : rows[n].item = i /\ rows[n].tongue = g}
<1>1. mine = {} \/ (CHOOSE n \in mine : TRUE) \in mine
  OBVIOUS
<1>2. mine \subseteq 1..Len(rows)
  OBVIOUS
<1>3. WordsIn(rows, i, g, otherwise) = IF mine = {} THEN otherwise ELSE rows[CHOOSE n \in mine : TRUE].words
  BY DEF WordsIn
<1>. HIDE DEF mine
<1>. QED
  BY <1>1, <1>2, <1>3

\* What a batch writes is bounded when its rows are.
LEMMA BatchBounded ==
    ASSUME TablesBounded, NEW batch, \A n \in 1..Len(batch) : batch[n].words \in Wording
    PROVE  /\ Retokened(batch) \in [1..Items -> [Tongue -> Wording]]
           /\ [i \in 1..Items |-> [g \in Tongue |-> WordsIn(batch, i, g, document[i][g])]]
                \in [1..Items -> [Tongue -> Wording]]
<1>1. 0 \in Wording
  BY SearchIndexAssumption DEF SearchIndexAssumption, Wording
<1>2. \A i \in 1..Items, g \in Tongue : WordsIn(batch, i, g, 0) \in Wording
  BY <1>1, WordsInBounded
<1>3. \A i \in 1..Items, g \in Tongue : WordsIn(batch, i, g, document[i][g]) \in Wording
  BY WordsInBounded DEF TablesBounded
<1>4. \A i \in 1..Items : token[i] \in [Tongue -> Wording]
  BY DEF TablesBounded
<1>5. Retokened(batch) \in [1..Items -> [Tongue -> Wording]]
  BY <1>2, <1>4 DEF Retokened
<1>. QED
  BY <1>3, <1>5

\* A step that leaves the loaded rows of the runs that go on.
LEMMA LoadedStay ==
    ASSUME SearchInv, TablesBounded, NEW r \in Rebuild, NEW j \in RebuildLocal,
           rebuild' = [rebuild EXCEPT ![r] = j],
           j.at \in {"loaded", "no tokens", "filling"} => \A n \in 1..Len(j.rows) : j.rows[n].words \in Wording
    PROVE  \A o \in Rebuild : Going(o)' => \A n \in 1..Len(rebuild'[o].rows) : rebuild'[o].rows[n].words \in Wording
<1>1. /\ rebuild' \in [Rebuild -> RebuildLocal] /\ rebuild'[r] = j
      /\ \A o \in Rebuild : o # r => rebuild'[o] = rebuild[o] /\ (Going(o)' <=> Going(o))
  BY RebuildMoves
<1>2. Going(r)' => j.at \in {"loaded", "no tokens", "filling"}
  BY <1>1 DEF Going, RebuildLocal
<1>3. ASSUME NEW o \in Rebuild, Going(o)', o # r
      PROVE  \A n \in 1..Len(rebuild'[o].rows) : rebuild'[o].rows[n].words \in Wording
  BY <1>1, <1>3 DEF TablesBounded
<1>4. Going(r)' => \A n \in 1..Len(rebuild'[r].rows) : rebuild'[r].rows[n].words \in Wording
  BY <1>1, <1>2
<1>. QED
  BY <1>3, <1>4

LEMMA LoadBounded ==
    ASSUME SearchInv, TablesBounded, NEW r \in Rebuild, LoadCatalogue(r)
    PROVE  TablesBounded'
<1>1. PICK full \in LoadedRows : rebuild' = [rebuild EXCEPT ![r] = [at |-> "loaded", rows |-> full]]
  BY DEF LoadCatalogue
<1>2. Lists(full)
  BY LoadedLists DEF SearchInv
<1>3. full \in Seq(IndexRow) /\ \A n \in 1..Len(full) : full[n] \in IndexRow
  BY <1>2 DEF Lists
<1>4. \A n \in 1..Len(full) : full[n].words \in Wording
  BY <1>2, <1>3 DEF Lists, IndexRow, TablesBounded
<1>5. PICK j \in RebuildLocal : j = [at |-> "loaded", rows |-> full]
  BY <1>3 DEF RebuildLocal
<1>6. j.rows = full /\ rebuild' = [rebuild EXCEPT ![r] = j]
  BY <1>1, <1>5
<1>7. \A o \in Rebuild : Going(o)' => \A n \in 1..Len(rebuild'[o].rows) : rebuild'[o].rows[n].words \in Wording
  BY <1>4, <1>6, LoadedStay
<1>. QED
  BY <1>7 DEF TablesBounded, LoadCatalogue

LEMMA EmptyBounded ==
    ASSUME SearchInv, TablesBounded, NEW r \in Rebuild, EmptyTokens(r) \/ EmptyDocuments(r)
    PROVE  TablesBounded'
<1>1. Going(r) /\ rebuild[r] \in [at : {"loaded", "no tokens", "filling"}, rows : Seq(IndexRow)]
  BY IndexTypes DEF SearchInv, EmptyTokens, EmptyDocuments, Going
<1>2. PICK a \in {"no tokens", "filling"} : rebuild' = [rebuild EXCEPT ![r] = [rebuild[r] EXCEPT !.at = a]]
  BY DEF EmptyTokens, EmptyDocuments
<1>3. PICK j \in RebuildLocal : j = [rebuild[r] EXCEPT !.at = a]
  BY <1>1 DEF RebuildLocal
<1>4. j.rows = rebuild[r].rows
  BY <1>1, <1>3
<1>5. \A n \in 1..Len(j.rows) : j.rows[n].words \in Wording
  BY <1>1, <1>4 DEF TablesBounded
<1>6. \A o \in Rebuild : Going(o)' => \A n \in 1..Len(rebuild'[o].rows) : rebuild'[o].rows[n].words \in Wording
  BY <1>2, <1>3, <1>5, LoadedStay
<1>7. UNCHANGED wording /\ (token' = token \/ token' = Nothing) /\ (document' = document \/ document' = Nothing)
  BY DEF EmptyTokens, EmptyDocuments
<1>8. Wording' = Wording
  BY DEF Wording
<1>. QED
  BY <1>6, <1>7, <1>8, NothingBounded DEF TablesBounded

LEMMA FillBounded ==
    ASSUME SearchInv, TablesBounded, NEW r \in Rebuild, FillBatch(r)
    PROVE  TablesBounded'
<1>0. Going(r) /\ rebuild[r] \in [at : {"loaded", "no tokens", "filling"}, rows : Seq(IndexRow)]
  BY NextBatch
<1>1. PICK rows \in Seq(IndexRow), p \in Nat, l \in Nat :
         rows = rebuild[r].rows /\ p = BatchEnd(rows) /\ p >= 1 /\ p <= Len(rows) /\ l = Len(rows)
  BY NextBatch
<1>2. \A n \in 1..l : rows[n].words \in Wording
  BY <1>0, <1>1 DEF TablesBounded
<1>3. PICK left \in Seq(IndexRow) : left = SubSeq(rows, p + 1, l) /\ Len(left) = l - p
                                     /\ \A n \in 1..(l - p) : left[n] = rows[p + n]
  <2>1. /\ SubSeq(rows, p + 1, l) \in Seq(IndexRow) /\ Len(SubSeq(rows, p + 1, l)) = l - p
        /\ \A n \in 1..(l - p) : SubSeq(rows, p + 1, l)[n] = rows[p + n]
    <3>1. rows \in Seq(IndexRow) /\ p \in Nat /\ l \in Nat /\ p <= l /\ l <= Len(rows)
      BY <1>1
    <3>. QED
      BY <3>1, SliceIs
  <2>. QED
    BY <2>1
<1>4. PICK batch \in Seq(IndexRow) : batch = SubSeq(rows, 1, p) /\ Len(batch) = p
                                      /\ \A n \in 1..p : batch[n] = rows[n]
  <2>1. p <= Len(rows) /\ 0 \in Nat /\ 0 <= p
    BY <1>1
  <2>2. /\ SubSeq(rows, 0 + 1, p) \in Seq(IndexRow) /\ Len(SubSeq(rows, 0 + 1, p)) = p - 0
        /\ \A n \in 1..(p - 0) : SubSeq(rows, 0 + 1, p)[n] = rows[0 + n]
    BY <2>1, SliceIs
  <2>3. 0 + 1 = 1 /\ p - 0 = p /\ \A n \in 1..p : 0 + n = n
    OBVIOUS
  <2>4. /\ SubSeq(rows, 1, p) \in Seq(IndexRow) /\ Len(SubSeq(rows, 1, p)) = p
        /\ \A n \in 1..p : SubSeq(rows, 1, p)[n] = rows[n]
    BY <2>2, <2>3
  <2>. QED
    BY <2>4
<1>5. \A n \in 1..Len(left) : left[n].words \in Wording
  <2>1. \A n \in 1..(l - p) : p + n \in 1..l
    BY <1>1
  <2>. QED
    BY <1>2, <1>3, <2>1
<1>6. \A n \in 1..Len(batch) : batch[n].words \in Wording
  <2>1. \A n \in 1..p : n \in 1..l
    BY <1>1
  <2>. QED
    BY <1>2, <1>4, <2>1
<1>7. PICK j \in RebuildLocal : j = [rebuild[r] EXCEPT !.rows = left]
  BY <1>0 DEF RebuildLocal
<1>8. /\ j.rows = left /\ rebuild' = [rebuild EXCEPT ![r] = j] /\ wording' = wording
      /\ token' = Retokened(batch)
      /\ document' = [i \in 1..Items |-> [g \in Tongue |-> WordsIn(batch, i, g, document[i][g])]]
  <2>1. Rest(rows) = left /\ Batch(rows) = batch
    BY <1>1, <1>3, <1>4 DEF Rest, Batch, BatchEnd
  <2>2. j.rows = left
    BY <1>0, <1>7
  <2>. QED
    BY <1>1, <1>7, <2>1, <2>2 DEF FillBatch
<1>9. \A o \in Rebuild : Going(o)' => \A n \in 1..Len(rebuild'[o].rows) : rebuild'[o].rows[n].words \in Wording
  BY <1>5, <1>7, <1>8, LoadedStay
<1>10. token' \in [1..Items -> [Tongue -> Wording]] /\ document' \in [1..Items -> [Tongue -> Wording]]
  BY <1>6, <1>8, BatchBounded
<1>. QED
  BY <1>8, <1>9, <1>10 DEF TablesBounded, Wording

LEMMA SearchTypes == SearchSpec => []SearchTypeOK
<1>1. ASSUME SearchInit PROVE TablesBounded
  <2>1. \A r \in Rebuild : ~Going(r)
    BY <1>1 DEF SearchInit, Waiting, Going
  <2>2. {0, 1} \subseteq Wording
    BY SearchIndexAssumption DEF SearchIndexAssumption, Wording
  <2>3. wording \in [1..Items -> [Tongue -> Wording]]
    <3>. HIDE DEF Wording
    <3>1. wording \in [1..Items -> [Tongue -> {0, 1}]]
      BY <1>1 DEF SearchInit
    <3>. QED
      BY <2>2, <3>1
  <2>. QED
    BY <1>1, <2>1, <2>3, NothingBounded DEF SearchInit, TablesBounded
<1>2. ASSUME SearchInv, TablesBounded, [SearchNext]_searchVars PROVE TablesBounded'
  <2>1. ASSUME NEW i \in 1..Items, NEW g \in Tongue, Reword(i, g)
        PROVE  TablesBounded'
    <3>1. wording[i][g] + 1 \in Wording
      BY <1>2, <2>1, SearchIndexAssumption DEF Reword, TablesBounded, Wording, SearchIndexAssumption
    <3>2. wording' \in [1..Items -> [Tongue -> Wording]]
      BY <1>2, <2>1, <3>1 DEF Reword, TablesBounded
    <3>. QED
      BY <1>2, <2>1, <3>2 DEF Reword, TablesBounded, Wording, Going
  <2>2. ASSUME NEW r \in Rebuild, FinishRebuild(r) \/ StopRebuild(r)
        PROVE  TablesBounded'
    <3>1. PICK j \in RebuildLocal : j.at \in {"done", "stopped"} /\ rebuild' = [rebuild EXCEPT ![r] = j]
      <4>1. [at |-> "done"] \in RebuildLocal /\ [at |-> "stopped"] \in RebuildLocal
        BY DEF RebuildLocal
      <4>. QED
        BY <2>2, <4>1 DEF FinishRebuild, StopRebuild
    <3>2. \A o \in Rebuild : Going(o)' => \A n \in 1..Len(rebuild'[o].rows) : rebuild'[o].rows[n].words \in Wording
      BY <1>2, <3>1, LoadedStay
    <3>. QED
      BY <1>2, <2>2, <3>2 DEF FinishRebuild, StopRebuild, TablesBounded, Wording
  <2>3. CASE UNCHANGED searchVars
    BY <1>2, <2>3 DEF searchVars, TablesBounded, Wording, Going
  <2>. QED
    BY <1>2, <2>1, <2>2, <2>3, LoadBounded, EmptyBounded, FillBounded DEF SearchNext
<1>3. ASSUME SearchInv, TablesBounded PROVE SearchTypeOK
  <2>1. \A r \in Rebuild : rebuild[r].at \in {"waiting", "loaded", "no tokens", "filling", "done", "stopped"}
    BY <1>3, IndexTypes DEF SearchInv
  <2>. QED
    BY <1>3, <2>1 DEF SearchInv, TablesBounded, SearchTypeOK, Wording
<1>. QED
  BY <1>1, <1>2, <1>3, SearchInductive, PTL DEF SearchSpec

LEMMA TotalsAreNumbers ==
    ASSUME NEW q \in TotalsQuestion
    PROVE  Totals(q) \in [subtotal : Nat, discount : Nat, tax : Nat, grand : Nat]
<1>1. q.lines \in Seq(Line) /\ q.off \in Nat /\ q.shipping \in Nat /\ q.rate \in Nat
  BY FiguresAssumption DEF FiguresAssumption, TotalsQuestion
<1>2. PICK offs \in Nat, sub \in Nat : SumOver(LineOff, q.lines) = offs /\ SumOver(LineTotal, q.lines) = sub
  BY <1>1, LinesAddUp
<1>3. PICK off \in Nat : off = OrderDiscount(q.off, sub)
  BY <1>1 DEF OrderDiscount
<1>4. PICK grand \in Nat : grand = Clamp(sub - off) + q.shipping
  BY <1>1 DEF Clamp
<1>5. ExtractVat(grand, q.rate) \in Nat
  <2>1. CASE q.rate = 0
    BY <2>1 DEF ExtractVat
  <2>2. CASE q.rate # 0
    <3>1. PICK exact \in Nat, d \in Nat \ {0} : exact = grand * q.rate /\ d = 10000 + q.rate
      BY <1>1, ProductOfNaturals
    <3>2. ExtractVat(grand, q.rate) = Rounded(exact, d)
      BY <1>1, <2>2, <3>1 DEF ExtractVat
    <3>. QED
      BY <3>2, RoundedNear
  <2>. QED
    BY <2>1, <2>2
<1>6. Totals(q) = [subtotal |-> sub, discount |-> offs + off, tax |-> ExtractVat(grand, q.rate), grand |-> grand]
  BY <1>2, <1>3, <1>4 DEF Totals
<1>. QED
  BY <1>5, <1>6

\* Less than everything is saved, so at most a hundred percent.
LEMMA AtMostAll ==
    ASSUME NEW saving \in Nat, NEW prior \in Nat \ {0}, saving <= prior, NEW n \in Percentages(saving, prior)
    PROVE  n \in Int /\ n <= 100
<1>1. n \in Int
  BY DEF Percentages
<1>2. n * prior <= 100 * saving
  BY PercentageModest
<1>3. ASSUME NEW k \in Nat, n = 101 + k
      PROVE  FALSE
  <2>1. PICK kp \in Nat : kp = k * prior
    BY ProductOfNaturals
  <2>2. n * prior = 101 * prior + kp
    BY <1>3, <2>1
  <2>. QED
    BY <1>2, <2>2
<1>4. n > 100 => n - 101 \in Nat /\ n = 101 + (n - 101)
  BY <1>1
<1>. QED
  BY <1>1, <1>3, <1>4

LEMMA DisplayTyped ==
    ASSUME NEW q \in ReductionQuestion,
           NEW shown \in DiscountDisplay(q.current, q.previous, LowestPriceInWindow(q.history, q.now))
    PROVE  shown \in [strike : BOOLEAN, percentage : 1..100 \cup {Null}]
<1>. DEFINE prior == LowestPriceInWindow(q.history, q.now)
            Said(n) == IF n < 1 THEN Null ELSE n
<1>1. q.history \in SUBSET Point /\ q.current \in Nat /\ q.now \in Nat
  BY ReductionTyped
<1>2. prior # Null => prior \in Nat
  BY <1>1, LowestIsCharged
<1>3. ASSUME prior # Null, ~(prior <= q.current), NEW n \in Percentages(prior - q.current, prior)
      PROVE  Said(n) \in 1..100 \cup {Null}
  <2>. HIDE DEF prior
  <2>1. prior - q.current \in Nat /\ prior \in Nat \ {0} /\ prior - q.current <= prior
    BY <1>1, <1>2, <1>3
  <2>2. n \in Int /\ n <= 100
    BY <2>1, AtMostAll
  <2>. QED
    BY <2>2
<1>4. \/ \E strike \in BOOLEAN : shown = [strike |-> strike, percentage |-> Null]
      \/ /\ prior # Null /\ ~(prior <= q.current)
         /\ \E n \in Percentages(prior - q.current, prior) :
               shown = [strike |-> TRUE, percentage |-> Said(n)]
  BY DEF DiscountDisplay
<1>. HIDE DEF prior, Said
<1>5. \E strike \in BOOLEAN, percentage \in 1..100 \cup {Null} :
         shown = [strike |-> strike, percentage |-> percentage]
  BY <1>3, <1>4
<1>. QED
  BY <1>5

LEMMA FiguresTypes == FiguresSpec => []FiguresTypeOK
<1>1. ASSUME FiguresInv PROVE FiguresTypeOK
  <2>1. CASE said = Null
    BY <1>1, <2>1 DEF FiguresInv, FiguresTypeOK
  <2>2. CASE asked \in TotalsQuestion /\ said = Totals(asked)
    BY <1>1, <2>2, TotalsAreNumbers DEF FiguresInv, FiguresTypeOK
  <2>3. CASE /\ asked \in ReductionQuestion
             /\ said \in DiscountDisplay(asked.current, asked.previous,
                                         LowestPriceInWindow(asked.history, asked.now))
    BY <1>1, <2>3, DisplayTyped DEF FiguresInv, FiguresTypeOK
  <2>. QED
    BY <1>1, <2>1, <2>2, <2>3 DEF FiguresInv
<1>. QED
  BY <1>1, FiguresInductive, PTL

--------------------------------------------------------------------------------
\* Every variable of the part in play has its type in every state of the instance.
THEOREM ShopTypes == ShopSpec => []ShopTypeOK
<1>1. ShopInit => part = "figures" \/ part # "figures"
  OBVIOUS
<1>2. part = "figures" /\ [ShopNext]_shopVars => (part = "figures")'
  BY DEF ShopNext, shopVars
<1>3. part # "figures" /\ [ShopNext]_shopVars => (part # "figures")'
  BY DEF ShopNext, shopVars
<1>4. /\ LedgerTypeOK /\ CartTypeOK /\ InstallTypeOK /\ StaffTypeOK /\ ProductTypeOK /\ PricesTypeOK
      /\ VariantsTypeOK /\ PhotosTypeOK /\ FulfilmentTypeOK /\ CompatTypeOK /\ HomeTypeOK
      /\ SearchTypeOK /\ CacheTypeOK
      /\ FiguresTypeOK \/ part # "figures"
      => ShopTypeOK
  BY DEF ShopTypeOK
<1>. QED
  BY <1>1, <1>2, <1>3, <1>4, ShopHasParts, LedgerTypes, CartTypesHold, InstallTypes, StaffTypes,
     ProductTypesHold, PricesTypesHold, VariantsTypes, PhotosTypesHold, FulfilmentTypes, CompatTypesHold,
     HomeTypes, SearchTypes, StoresBounded, FiguresTypes, PTL DEF ShopSpec
===============================================================================
