----------------------------- MODULE OfficeProofs -----------------------------
(***************************************************************************)
(* Proofs about the back office.  StockLedger: any number of locations,    *)
(* orders, adjustments, transfers and receptions, and any quantities.      *)
(* Installation: any number of submissions of the setup form, any          *)
(* addresses and any limit on failed attempts.  Staff: any people, roles,  *)
(* invitations and submissions.                                            *)
(***************************************************************************)
EXTENDS StockLedger, Installation, Staff, FiniteSums

-------------------------------------------------------------------------------
(* The stock ledger.                                                       *)

Active == {o \in Hold : hold[o] = "active"}

\* The reserved units of the shelf orders are taken from are those of the
\* active holds, nothing is reserved elsewhere, and only a level that exists
\* was opened and has reserved units.
HoldsCounted ==
    /\ promised[FirstLocation] = HoldQty * Cardinality(Active)
    /\ \A l \in Location : l # FirstLocation => promised[l] = 0
    /\ \A l \in Location : ~Has(l) => promised[l] = 0 /\ opened[l] = 0

\* A reception is about goods that are, or were, on the way.
ReceivesSent ==
    \A r \in Reception :
        receiving[r].at \in {"checked", "read"} =>
            transfer[receiving[r].of].at \in {"in_transit", "received"}

LedgerInv == LedgerTypeOK /\ HoldsCounted /\ ReceivesSent /\ ShelfCoversPromises

-------------------------------------------------------------------------------
(* Counting holds.                                                           *)

LEMMA ActiveFinite == IsFiniteSet(Active) /\ Cardinality(Active) \in Nat
BY FS_Subset, FS_CardinalityType, StockLedgerAssumption DEF Active, StockLedgerAssumption

LEMMA Distribute ==
    ASSUME NEW q \in Nat, NEW n \in Nat
    PROVE  /\ q * (n + 1) = q * n + q
           /\ n # 0 => q * (n - 1) = q * n - q /\ q <= q * n
<1>1. q * (n + 1) = q * n + q
  OBVIOUS
<1>2. ASSUME n # 0
      PROVE  q * (n - 1) = q * n - q /\ q <= q * n
  <2>1. PICK m \in Nat : n = m + 1
    BY <1>2
  <2>2. q * n = q * m + q /\ q * m >= 0
    BY <2>1
  <2>. QED
    BY <2>1, <2>2
<1>. QED
  BY <1>1, <1>2

LEMMA OneMoreHold ==
    ASSUME LedgerTypeOK, NEW o \in Hold, hold[o] = "none", hold' = [hold EXCEPT ![o] = "active"]
    PROVE  HoldQty * Cardinality(Active)' = HoldQty * Cardinality(Active) + HoldQty
<1>1. Active' = Active \cup {o} /\ o \notin Active
  BY DEF Active, LedgerTypeOK
<1>2. Cardinality(Active \cup {o}) = Cardinality(Active) + 1
  BY <1>1, ActiveFinite, FS_AddElement
<1>. QED
  BY <1>1, <1>2, ActiveFinite, Distribute, StockLedgerAssumption DEF StockLedgerAssumption

LEMMA OneHoldLess ==
    ASSUME LedgerTypeOK, NEW o \in Hold, hold[o] = "active",
           NEW s \in {"sold", "returned"}, hold' = [hold EXCEPT ![o] = s]
    PROVE  /\ HoldQty * Cardinality(Active)' = HoldQty * Cardinality(Active) - HoldQty
           /\ HoldQty <= HoldQty * Cardinality(Active)
<1>1. Active' = Active \ {o} /\ o \in Active
  BY DEF Active, LedgerTypeOK
<1>2. Cardinality(Active \ {o}) = Cardinality(Active) - 1
  BY <1>1, ActiveFinite, FS_RemoveElement
<1>3. Cardinality(Active) # 0
  BY <1>1, ActiveFinite, FS_EmptySet
<1>. QED
  BY <1>1, <1>2, <1>3, ActiveFinite, Distribute, StockLedgerAssumption DEF StockLedgerAssumption

LEMMA SameHolds ==
    ASSUME UNCHANGED hold
    PROVE  Cardinality(Active)' = Cardinality(Active)
BY DEF Active

LEMMA LedgerInit_Inv == LedgerInit => LedgerInv /\ UnbookedIsSold
<1>. SUFFICES ASSUME LedgerInit
              PROVE  LedgerInv /\ UnbookedIsSold
  OBVIOUS
<1>. USE StockLedgerAssumption DEF StockLedgerAssumption, LedgerInit, Has, Idle
<1>1. LedgerTypeOK
  <2>. HIDE DEF Idle
  <2>1. onShelf \in [Location -> Nat \cup {NoRow}] /\ promised \in [Location -> Nat]
    OBVIOUS
  <2>2. adjusted \in [Location -> Int] /\ carried \in [Location -> Int]
    OBVIOUS
  <2>3. opened \in [Location -> Nat] /\ soldAt \in [Location -> Nat]
    OBVIOUS
  <2>. QED
    BY <2>1, <2>2, <2>3 DEF LedgerTypeOK
<1>2. Active = {}
  BY DEF Active
<1>3. Cardinality(Active) = 0
  BY <1>2, FS_EmptySet
<1>4. HoldsCounted
  BY <1>3 DEF HoldsCounted
<1>5. ReceivesSent /\ ShelfCoversPromises
  BY DEF ReceivesSent, ShelfCoversPromises
<1>6. UnbookedIsSold
  BY DEF UnbookedIsSold, Before
<1>. QED
  BY <1>1, <1>4, <1>5, <1>6 DEF LedgerInv

-------------------------------------------------------------------------------
(* Orders and new rows.                                                      *)

LEMMA NewVariantKeepsInv ==
    ASSUME LedgerInv, NEW n \in Counted, StockNewVariant(n)
    PROVE  LedgerInv'
<1>. USE StockLedgerAssumption DEF StockLedgerAssumption, LedgerInv, StockNewVariant, Has
<1>1. LedgerTypeOK'
  BY DEF LedgerTypeOK
<1>2. HoldsCounted'
  BY SameHolds DEF HoldsCounted, LedgerTypeOK
<1>3. ReceivesSent'
  BY DEF ReceivesSent
<1>4. ShelfCoversPromises'
  BY DEF ShelfCoversPromises, HoldsCounted, LedgerTypeOK
<1>. QED
  BY <1>1, <1>2, <1>3, <1>4

LEMMA LocationKeepsInv ==
    ASSUME LedgerInv, NEW l \in Location, AddLocation(l)
    PROVE  LedgerInv'
BY SameHolds DEF LedgerInv, AddLocation, books, LedgerTypeOK, HoldsCounted, ReceivesSent,
   ShelfCoversPromises, Has

LEMMA PlaceKeepsInv ==
    ASSUME LedgerInv, NEW o \in Hold, PlaceHold(o)
    PROVE  LedgerInv'
<1>. USE StockLedgerAssumption DEF StockLedgerAssumption, LedgerInv, PlaceHold, books, Has
<1>1. promised[FirstLocation] \in Nat /\ promised[FirstLocation] + HoldQty \in Nat
  BY DEF LedgerTypeOK
<1>2. LedgerTypeOK'
  BY <1>1 DEF LedgerTypeOK
<1>3. HoldsCounted'
  BY <1>1, OneMoreHold DEF HoldsCounted, LedgerTypeOK
<1>4. ReceivesSent'
  BY DEF ReceivesSent
<1>5. ShelfCoversPromises'
  BY <1>1 DEF ShelfCoversPromises, LedgerTypeOK, LevelHolds
<1>. QED
  BY <1>2, <1>3, <1>4, <1>5

\* A hold that is active is reserved, so its units are there to be sold or
\* given back: neither counter falls below zero.
LEMMA HeldIsThere ==
    ASSUME LedgerInv, NEW o \in Hold, hold[o] = "active"
    PROVE  /\ Has(FirstLocation)
           /\ HoldQty <= promised[FirstLocation]
           /\ promised[FirstLocation] <= onShelf[FirstLocation]
           /\ promised[FirstLocation] \in Nat /\ onShelf[FirstLocation] \in Nat
<1>. USE StockLedgerAssumption DEF StockLedgerAssumption, LedgerInv
<1>1. Cardinality(Active) # 0
  <2>1. o \in Active
    BY DEF Active
  <2>. QED
    BY <2>1, ActiveFinite, FS_EmptySet
<1>2. HoldQty <= promised[FirstLocation]
  BY <1>1, ActiveFinite, Distribute DEF HoldsCounted
<1>3. promised[FirstLocation] \in Nat /\ Has(FirstLocation)
  BY <1>2 DEF HoldsCounted, LedgerTypeOK
<1>. QED
  BY <1>2, <1>3 DEF ShelfCoversPromises, Has, LedgerTypeOK

LEMMA ReleaseKeepsInv ==
    ASSUME LedgerInv, NEW o \in Hold, SellHold(o) \/ ReturnHold(o)
    PROVE  LedgerInv'
<1>. USE StockLedgerAssumption DEF StockLedgerAssumption, LedgerInv, SellHold, ReturnHold, books
<1>1. hold[o] = "active" /\ \E s \in {"sold", "returned"} : hold' = [hold EXCEPT ![o] = s]
  OBVIOUS
<1>2. /\ HoldQty * Cardinality(Active)' = HoldQty * Cardinality(Active) - HoldQty
      /\ HoldQty <= HoldQty * Cardinality(Active)
  BY <1>1, OneHoldLess
<1>3. LedgerTypeOK'
  BY <1>1, HeldIsThere DEF LedgerTypeOK
<1>4. HoldsCounted'
  BY <1>1, <1>2, HeldIsThere DEF HoldsCounted, LedgerTypeOK, Has
<1>5. ReceivesSent'
  BY DEF ReceivesSent
<1>6. ShelfCoversPromises'
  BY <1>1, HeldIsThere DEF ShelfCoversPromises, LedgerTypeOK, Has
<1>. QED
  BY <1>3, <1>4, <1>5, <1>6

-------------------------------------------------------------------------------
(* Adjustments, transfers, receptions: an absolute number is written, and    *)
(* the CHECK of the level is judged on the reserved units of that moment.    *)

\* A step that leaves the level rows alone.
LEMMA ShelvesAlone ==
    ASSUME LedgerInv, UNCHANGED <<shelves, opened, hold>>, LedgerTypeOK', ReceivesSent'
    PROVE  LedgerInv'
BY SameHolds DEF LedgerInv, shelves, HoldsCounted, ShelfCoversPromises, Has

\* A step that writes n on the shelf of l and reserves nothing.
LEMMA AbsoluteWrite ==
    ASSUME LedgerInv, NEW l \in Location, NEW n \in Nat,
           onShelf' = [onShelf EXCEPT ![l] = n], promised[l] <= n,
           UNCHANGED <<promised, opened, hold>>, LedgerTypeOK', ReceivesSent'
    PROVE  LedgerInv'
<1>. USE StockLedgerAssumption DEF StockLedgerAssumption, LedgerInv, Has
<1>1. HoldsCounted'
  BY SameHolds DEF HoldsCounted, LedgerTypeOK
<1>2. ShelfCoversPromises'
  BY DEF ShelfCoversPromises, LedgerTypeOK
<1>. QED
  BY <1>1, <1>2

LEMMA AdjustmentRow ==
    ASSUME LedgerTypeOK, NEW a \in Adjustment, adjusting[a].at = "read"
    PROVE  adjusting[a].loc \in Location /\ adjusting[a].to \in Nat /\ adjusting[a].was \in Nat
BY DEF LedgerTypeOK, Idle, Finished

LEMMA TransferRow ==
    ASSUME LedgerTypeOK, NEW t \in Transfer, transfer[t].at \in {"read", "in_transit", "received"}
    PROVE  /\ transfer[t] \in [at : {"read", "in_transit", "received"}, from : Location,
                               to : Location, units : Nat, was : Nat]
BY DEF LedgerTypeOK, Idle, Finished

LEMMA ReceptionRow ==
    ASSUME LedgerTypeOK, ReceivesSent, NEW r \in Reception, receiving[r].at \in {"checked", "read"}
    PROVE  /\ receiving[r].of \in Transfer
           /\ receiving[r].seen = "in_transit"
           /\ receiving[r].at = "read" => receiving[r].was \in Nat \cup {NoRow}
           /\ transfer[receiving[r].of].to \in Location
           /\ transfer[receiving[r].of].units \in Nat
<1>1. /\ receiving[r].of \in Transfer
      /\ receiving[r].seen = "in_transit"
      /\ receiving[r].at = "read" => receiving[r].was \in Nat \cup {NoRow}
  BY DEF LedgerTypeOK, Idle, Finished
<1>. QED
  BY <1>1, TransferRow DEF ReceivesSent

LEMMA BeforeType ==
    ASSUME NEW u \in Nat \cup {NoRow}
    PROVE  Before(u) \in Nat
BY DEF Before

LEMMA AdjustKeepsInv ==
    ASSUME LedgerInv, NEW a \in Adjustment,
           \/ \E l \in Location, n \in Counted : ReadForAdjustment(a, l, n)
           \/ CommitAdjustment(a)
           \/ RollBackAdjustment(a)
    PROVE  LedgerInv'
<1>. USE StockLedgerAssumption DEF StockLedgerAssumption, LedgerInv, books, shelves
<1>1. ReceivesSent'
  BY DEF ReceivesSent, ReadForAdjustment, CommitAdjustment, RollBackAdjustment
<1>2. ASSUME NEW l \in Location, NEW n \in Counted, ReadForAdjustment(a, l, n)
      PROVE  LedgerInv'
  <2>1. onShelf[l] \in Nat /\ n \in Nat
    BY <1>2 DEF ReadForAdjustment, Has, LedgerTypeOK
  <2>2. LedgerTypeOK'
    BY <1>2, <2>1 DEF ReadForAdjustment, LedgerTypeOK
  <2>. QED
    BY <1>1, <1>2, <2>2, ShelvesAlone DEF ReadForAdjustment
<1>3. CASE CommitAdjustment(a)
  <2>1. /\ adjusting[a].loc \in Location /\ adjusting[a].to \in Nat /\ adjusting[a].was \in Nat
    BY <1>3, AdjustmentRow DEF CommitAdjustment
  <2>2. promised[adjusting[a].loc] <= adjusting[a].to
    BY <1>3 DEF CommitAdjustment, LevelHolds
  <2>3. adjusted' \in [Location -> Int]
    BY <1>3, <2>1 DEF CommitAdjustment, Delta, LedgerTypeOK
  <2>4. raced' \in BOOLEAN
    BY <1>3, Zenon DEF CommitAdjustment
  <2>5. LedgerTypeOK'
    BY <1>3, <2>1, <2>3, <2>4 DEF CommitAdjustment, LedgerTypeOK
  <2>. QED
    BY <1>1, <1>3, <2>1, <2>2, <2>5, AbsoluteWrite DEF CommitAdjustment
<1>4. CASE RollBackAdjustment(a)
  <2>1. LedgerTypeOK'
    BY <1>4 DEF RollBackAdjustment, LedgerTypeOK
  <2>. QED
    BY <1>1, <1>4, <2>1, ShelvesAlone DEF RollBackAdjustment
<1>. QED
  BY <1>2, <1>3, <1>4

LEMMA TransferKeepsInv ==
    ASSUME LedgerInv, NEW t \in Transfer,
           \/ \E from, to \in Location, n \in Sent : ReadForTransfer(t, from, to, n)
           \/ CreateTransfer(t)
           \/ RollBackTransfer(t)
    PROVE  LedgerInv'
<1>. USE StockLedgerAssumption DEF StockLedgerAssumption, LedgerInv, books, shelves
<1>2. ASSUME NEW from \in Location, NEW to \in Location, NEW n \in Sent, ReadForTransfer(t, from, to, n)
      PROVE  LedgerInv'
  <2>1. onShelf[from] \in Nat /\ n \in Nat
    BY <1>2 DEF ReadForTransfer, Has, LedgerTypeOK
  <2>2. LedgerTypeOK'
    BY <1>2, <2>1 DEF ReadForTransfer, LedgerTypeOK
  <2>3. ReceivesSent'
    BY <1>2, ReceptionRow DEF ReadForTransfer, ReceivesSent, LedgerTypeOK, Idle
  <2>. QED
    BY <1>2, <2>2, <2>3, ShelvesAlone DEF ReadForTransfer
<1>3. CASE CreateTransfer(t)
  <2>. DEFINE s == transfer[t]
  <2>1. s.at = "read" /\ s \in [at : {"read", "in_transit", "received"}, from : Location,
                               to : Location, units : Nat, was : Nat]
    BY <1>3, TransferRow DEF CreateTransfer
  <2>2. promised[s.from] <= s.was - s.units /\ promised[s.from] \in Nat
    BY <1>3, <2>1 DEF CreateTransfer, LevelHolds, LedgerTypeOK
  <2>3. s.was - s.units \in Nat
    BY <2>1, <2>2
  <2>4. carried' \in [Location -> Int]
    BY <1>3, <2>1 DEF CreateTransfer, LedgerTypeOK
  <2>5. raced' \in BOOLEAN
    BY <1>3, Zenon DEF CreateTransfer
  <2>6. transfer' = [transfer EXCEPT ![t] = [s EXCEPT !.at = "in_transit"]]
    BY <1>3 DEF CreateTransfer
  <2>7. [s EXCEPT !.at = "in_transit"] \in [at : {"read", "in_transit", "received"}, from : Location,
                                           to : Location, units : Nat, was : Nat]
    BY <2>1
  <2>8. onShelf' = [onShelf EXCEPT ![s.from] = s.was - s.units]
        /\ UNCHANGED <<promised, opened, hold>>
    BY <1>3 DEF CreateTransfer
  <2>9. LedgerTypeOK'
    BY <1>3, <2>1, <2>3, <2>4, <2>5, <2>6, <2>7, <2>8 DEF CreateTransfer, LedgerTypeOK
  <2>10. ReceivesSent'
    BY <1>3, <2>1, <2>6, ReceptionRow DEF CreateTransfer, ReceivesSent, LedgerTypeOK
  <2>. QED
    BY <2>1, <2>2, <2>3, <2>8, <2>9, <2>10, AbsoluteWrite
<1>4. CASE RollBackTransfer(t)
  <2>1. LedgerTypeOK'
    BY <1>4 DEF RollBackTransfer, LedgerTypeOK
  <2>2. ReceivesSent'
    BY <1>4, ReceptionRow DEF RollBackTransfer, ReceivesSent, LedgerTypeOK
  <2>. QED
    BY <1>4, <2>1, <2>2, ShelvesAlone DEF RollBackTransfer
<1>. QED
  BY <1>2, <1>3, <1>4

LEMMA ReceptionKeepsInv ==
    ASSUME LedgerInv, NEW r \in Reception,
           \/ \E t \in Transfer : OpenReception(r, t)
           \/ ReadDestination(r)
           \/ CommitReception(r)
           \/ RollBackReception(r)
    PROVE  LedgerInv'
<1>. USE StockLedgerAssumption DEF StockLedgerAssumption, LedgerInv, books, shelves
<1>1. ASSUME NEW t \in Transfer, OpenReception(r, t)
      PROVE  LedgerInv'
  <2>1. LedgerTypeOK'
    BY <1>1 DEF OpenReception, Receivable, LedgerTypeOK
  <2>2. ReceivesSent'
    BY <1>1 DEF OpenReception, Receivable, ReceivesSent, LedgerTypeOK
  <2>. QED
    BY <1>1, <2>1, <2>2, ShelvesAlone DEF OpenReception
<1>2. CASE ReadDestination(r)
  <2>1. receiving[r].of \in Transfer /\ receiving[r].seen = "in_transit"
        /\ transfer[receiving[r].of].to \in Location
    BY <1>2, ReceptionRow DEF ReadDestination
  <2>2. LedgerTypeOK'
    BY <1>2, <2>1 DEF ReadDestination, LedgerTypeOK
  <2>3. ReceivesSent'
    BY <1>2, <2>1 DEF ReadDestination, ReceivesSent, LedgerTypeOK
  <2>. QED
    BY <1>2, <2>2, <2>3, ShelvesAlone DEF ReadDestination
<1>3. CASE CommitReception(r)
  <2>. DEFINE q == receiving[r]
              tr == transfer[q.of]
              after == Before(q.was) + tr.units
  <2>1. /\ q.of \in Transfer /\ tr.to \in Location /\ tr.units \in Nat
        /\ q.was \in Nat \cup {NoRow}
    BY <1>3, ReceptionRow DEF CommitReception
  <2>2. after \in Nat
    <3>1. Before(q.was) \in Nat
      BY <2>1, BeforeType
    <3>. QED
      BY <2>1, <3>1
  <2>3. promised[tr.to] <= after
    BY <1>3 DEF CommitReception, LevelHolds
  <2>4. tr \in [at : {"read", "in_transit", "received"}, from : Location,
                to : Location, units : Nat, was : Nat]
    BY <1>3, <2>1, TransferRow DEF CommitReception, ReceivesSent
  <2>5. transfer' = [transfer EXCEPT ![q.of] = [tr EXCEPT !.at = "received"]]
    BY <1>3 DEF CommitReception
  <2>6. [tr EXCEPT !.at = "received"] \in [at : {"read", "in_transit", "received"}, from : Location,
                                          to : Location, units : Nat, was : Nat]
    BY <2>4
  <2>7. carried' \in [Location -> Int]
    <3>1. carried' = [carried EXCEPT ![tr.to] = @ + tr.units]
      BY <1>3 DEF CommitReception
    <3>. HIDE DEF tr
    <3>. QED
      BY <2>1, <3>1 DEF LedgerTypeOK
  <2>8. raced' \in BOOLEAN
    BY <1>3, Zenon DEF CommitReception
  <2>9. onShelf' = [onShelf EXCEPT ![tr.to] = after] /\ UNCHANGED <<promised, opened, hold>>
    BY <1>3 DEF CommitReception
  <2>12. /\ receiving' = [receiving EXCEPT ![r] = Finished]
         /\ UNCHANGED <<place, promised, adjusted, opened, soldAt, adjusting, hold>>
    BY <1>3 DEF CommitReception
  <2>10. LedgerTypeOK'
    <3>. HIDE DEF q, tr, after
    <3>. QED
      BY <2>1, <2>2, <2>5, <2>6, <2>7, <2>8, <2>9, <2>12 DEF LedgerTypeOK
  <2>11. ReceivesSent'
    <3>1. \A x \in Reception : receiving'[x].at \in {"checked", "read"} => receiving'[x] = receiving[x]
      BY <2>12 DEF Finished, LedgerTypeOK
    <3>2. \A x \in Reception : receiving[x].at \in {"checked", "read"} => receiving[x].of \in Transfer
      BY ReceptionRow
    <3>3. [tr EXCEPT !.at = "received"].at = "received"
      BY <2>4
    <3>. HIDE DEF q, tr, after
    <3>. QED
      BY <2>1, <2>5, <3>1, <3>2, <3>3 DEF ReceivesSent, LedgerTypeOK
  <2>. QED
    BY <2>1, <2>2, <2>3, <2>9, <2>10, <2>11, AbsoluteWrite
<1>4. CASE RollBackReception(r)
  <2>1. LedgerTypeOK'
    BY <1>4 DEF RollBackReception, LedgerTypeOK
  <2>2. ReceivesSent'
    BY <1>4 DEF RollBackReception, ReceivesSent, LedgerTypeOK, Finished
  <2>. QED
    BY <1>4, <2>1, <2>2, ShelvesAlone DEF RollBackReception
<1>. QED
  BY <1>1, <1>2, <1>3, <1>4

LEMMA LedgerNextKeepsInv ==
    ASSUME LedgerInv, [LedgerNext]_ledgerVars
    PROVE  LedgerInv'
<1>1. CASE UNCHANGED ledgerVars
  BY <1>1, SameHolds DEF ledgerVars, books, shelves, LedgerInv, LedgerTypeOK, HoldsCounted, ReceivesSent,
     ShelfCoversPromises, Has
<1>. QED
  BY <1>1, NewVariantKeepsInv, LocationKeepsInv, PlaceKeepsInv, ReleaseKeepsInv, AdjustKeepsInv,
     TransferKeepsInv, ReceptionKeepsInv DEF LedgerNext

\* However old the numbers that adjustments, transfers and receptions write, no
\* shelf ends with fewer units than orders hold from it (inventory.tsx,
\* inventory-transfers.tsx, the CHECKs of inventory_levels).
THEOREM ShelvesCover == LedgerSpec => []ShelfCoversPromises
<1>1. LedgerInit => LedgerInv
  BY LedgerInit_Inv
<1>2. LedgerInv /\ [LedgerNext]_ledgerVars => LedgerInv'
  BY LedgerNextKeepsInv
<1>3. LedgerInv => ShelfCoversPromises
  BY DEF LedgerInv
<1>. QED
  BY <1>1, <1>2, <1>3, PTL DEF LedgerSpec

-------------------------------------------------------------------------------
(* The books.                                                                *)

Explained(l) == Before(onShelf[l]) = opened[l] + adjusted[l] + carried[l] - soldAt[l]

LEMMA BooksTypes ==
    ASSUME LedgerTypeOK, NEW l \in Location
    PROVE  /\ opened[l] \in Int /\ adjusted[l] \in Int /\ carried[l] \in Int /\ soldAt[l] \in Int
           /\ onShelf[l] \in Nat \cup {NoRow} /\ Before(onShelf[l]) \in Nat
<1>1. opened[l] \in Int /\ adjusted[l] \in Int /\ carried[l] \in Int /\ soldAt[l] \in Int
  BY DEF LedgerTypeOK
<1>2. onShelf[l] \in Nat \cup {NoRow}
  BY DEF LedgerTypeOK
<1>3. Before(onShelf[l]) \in Nat
  BY <1>2, BeforeType
<1>. QED
  BY <1>1, <1>2, <1>3

\* Steps of an order and new levels keep every shelf explained.
LEMMA OrdersKeepBooks ==
    ASSUME LedgerInv, NEW l \in Location, Explained(l),
           \/ \E n \in Counted : StockNewVariant(n)
           \/ \E o \in Hold : PlaceHold(o) \/ SellHold(o) \/ ReturnHold(o)
    PROVE  Explained(l)'
<1>. USE StockLedgerAssumption DEF StockLedgerAssumption, Explained, books
<1>1. ASSUME NEW n \in Counted, StockNewVariant(n)
      PROVE  Explained(l)'
  <2>1. Before(onShelf[l]) = 0 /\ n \in Nat
    BY <1>1 DEF StockNewVariant, Before, Has
  <2>2. CASE l = FirstLocation
    <3>1. onShelf'[l] = n /\ opened'[l] = n /\ Before(n) = n
      BY <1>1, <2>1, <2>2 DEF StockNewVariant, LedgerInv, LedgerTypeOK, Before
    <3>2. opened[l] = 0
      BY <1>1 DEF StockNewVariant, LedgerInv, HoldsCounted
    <3>3. UNCHANGED <<adjusted, carried, soldAt>>
      BY <1>1 DEF StockNewVariant
    <3>. QED
      BY <2>1, <3>1, <3>2, <3>3, BooksTypes DEF LedgerInv
  <2>3. CASE l # FirstLocation
    BY <1>1, <2>3 DEF StockNewVariant, LedgerInv, LedgerTypeOK
  <2>. QED
    BY <2>2, <2>3
<1>2. ASSUME NEW o \in Hold, PlaceHold(o) \/ ReturnHold(o)
      PROVE  Explained(l)'
  BY <1>2 DEF PlaceHold, ReturnHold
<1>3. ASSUME NEW o \in Hold, SellHold(o)
      PROVE  Explained(l)'
  <2>1. CASE l = FirstLocation
    <3>1. onShelf[l] \in Nat /\ HoldQty <= onShelf[l]
      BY <1>3, <2>1, HeldIsThere DEF SellHold
    <3>2. Before(onShelf[l]) = onShelf[l] /\ Before(onShelf[l] - HoldQty) = onShelf[l] - HoldQty
      BY <3>1 DEF Before
    <3>3. onShelf'[l] = onShelf[l] - HoldQty /\ soldAt'[l] = soldAt[l] + HoldQty
      BY <1>3, <2>1 DEF SellHold, LedgerInv, LedgerTypeOK
    <3>. QED
      BY <1>3, <3>1, <3>2, <3>3, BooksTypes DEF SellHold, LedgerInv
  <2>2. CASE l # FirstLocation
    BY <1>3, <2>2 DEF SellHold, LedgerInv, LedgerTypeOK
  <2>. QED
    BY <2>1, <2>2
<1>. QED
  BY <1>1, <1>2, <1>3

\* An absolute write is explained by its movement when the number it was
\* computed from is still on the shelf.
LEMMA AdjustmentExplained ==
    ASSUME LedgerInv, NEW a \in Adjustment, CommitAdjustment(a), ~raced',
           NEW l \in Location, Explained(l)
    PROVE  Explained(l)'
<1>. DEFINE j == adjusting[a]
<1>1. j.loc \in Location /\ j.to \in Nat /\ j.was \in Nat
  BY AdjustmentRow DEF CommitAdjustment, LedgerInv
<1>2. /\ onShelf' = [onShelf EXCEPT ![j.loc] = j.to]
      /\ adjusted' = [adjusted EXCEPT ![j.loc] = @ + Delta(j.to, j.was)]
      /\ onShelf[j.loc] = j.was
      /\ UNCHANGED <<opened, carried, soldAt>>
  BY DEF CommitAdjustment
<1>3. Before(j.to) = j.to /\ Before(j.was) = j.was
  BY <1>1, StockLedgerAssumption DEF Before, StockLedgerAssumption
<1>. HIDE DEF j
<1>. QED
  BY <1>1, <1>2, <1>3, BooksTypes DEF Explained, Delta, LedgerInv, LedgerTypeOK

LEMMA TransferExplained ==
    ASSUME LedgerInv, NEW t \in Transfer, CreateTransfer(t), ~raced',
           NEW l \in Location, Explained(l)
    PROVE  Explained(l)'
<1>. DEFINE s == transfer[t]
<1>1. s.from \in Location /\ s.units \in Nat /\ s.was \in Nat
  BY TransferRow DEF CreateTransfer, LedgerInv
<1>2. /\ onShelf' = [onShelf EXCEPT ![s.from] = s.was - s.units]
      /\ carried' = [carried EXCEPT ![s.from] = @ - s.units]
      /\ onShelf[s.from] = s.was
      /\ UNCHANGED <<opened, adjusted, soldAt>>
  BY DEF CreateTransfer
<1>3. Before(s.was - s.units) = s.was - s.units /\ Before(s.was) = s.was
  BY <1>1, StockLedgerAssumption DEF Before, StockLedgerAssumption
<1>. HIDE DEF s
<1>. QED
  BY <1>1, <1>2, <1>3, BooksTypes DEF Explained, LedgerInv, LedgerTypeOK

LEMMA ReceptionExplained ==
    ASSUME LedgerInv, NEW r \in Reception, CommitReception(r), ~raced',
           NEW l \in Location, Explained(l)
    PROVE  Explained(l)'
<1>. DEFINE q == receiving[r]
            tr == transfer[q.of]
<1>1. tr.to \in Location /\ tr.units \in Nat /\ q.was \in Nat \cup {NoRow}
  BY ReceptionRow DEF CommitReception, LedgerInv
<1>2. /\ onShelf' = [onShelf EXCEPT ![tr.to] = Before(q.was) + tr.units]
      /\ carried' = [carried EXCEPT ![tr.to] = @ + tr.units]
      /\ onShelf[tr.to] = q.was
      /\ UNCHANGED <<opened, adjusted, soldAt>>
  BY DEF CommitReception
<1>. HIDE DEF q, tr
<1>3. Before(q.was) \in Nat
  BY <1>1, BeforeType
<1>4. Before(Before(q.was) + tr.units) = Before(q.was) + tr.units
  <2>1. Before(q.was) + tr.units # NoRow
    BY <1>1, <1>3, StockLedgerAssumption DEF StockLedgerAssumption
  <2>. QED
    BY <2>1 DEF Before
<1>. QED
  BY <1>1, <1>2, <1>3, <1>4, BooksTypes DEF Explained, LedgerInv, LedgerTypeOK

LEMMA NextKeepsBooks ==
    ASSUME LedgerInv, UnbookedIsSold, [LedgerNext]_ledgerVars
    PROVE  UnbookedIsSold'
<1>. SUFFICES ASSUME ~raced', NEW l \in Location
              PROVE  Explained(l)'
  BY DEF UnbookedIsSold, Explained
<1>1. ~raced
  BY DEF LedgerNext, ledgerVars, StockNewVariant, AddLocation, PlaceHold, SellHold, ReturnHold,
     ReadForAdjustment, CommitAdjustment, RollBackAdjustment, ReadForTransfer, CreateTransfer,
     RollBackTransfer, OpenReception, ReadDestination, CommitReception, RollBackReception
<1>2. Explained(l)
  BY <1>1 DEF UnbookedIsSold, Explained
<1>3. CASE UNCHANGED <<onShelf, books>>
  BY <1>2, <1>3 DEF Explained, books
<1>4. CASE UNCHANGED ledgerVars \/ \E k \in Location : AddLocation(k)
  BY <1>3, <1>4 DEF ledgerVars, AddLocation, books
<1>5. ASSUME NEW a \in Adjustment,
             \/ \E k \in Location, n \in Counted : ReadForAdjustment(a, k, n)
             \/ CommitAdjustment(a) \/ RollBackAdjustment(a)
      PROVE  Explained(l)'
  BY <1>2, <1>3, <1>5, AdjustmentExplained DEF ReadForAdjustment, RollBackAdjustment, shelves, books
<1>6. ASSUME NEW t \in Transfer,
             \/ \E from, to \in Location, n \in Sent : ReadForTransfer(t, from, to, n)
             \/ CreateTransfer(t) \/ RollBackTransfer(t)
      PROVE  Explained(l)'
  BY <1>2, <1>3, <1>6, TransferExplained DEF ReadForTransfer, RollBackTransfer, shelves, books
<1>7. ASSUME NEW r \in Reception,
             \/ \E t \in Transfer : OpenReception(r, t)
             \/ ReadDestination(r) \/ CommitReception(r) \/ RollBackReception(r)
      PROVE  Explained(l)'
  BY <1>2, <1>3, <1>7, ReceptionExplained DEF OpenReception, ReadDestination, RollBackReception,
     shelves, books
<1>. QED
  BY <1>2, <1>4, <1>5, <1>6, <1>7, OrdersKeepBooks DEF LedgerNext

\* Until some write uses an outdated level, what the movements of a level do not
\* account for is its opening count and its sales (verify-payment.ts writes no
\* movement), exactly.
THEOREM UnbookedOnlySales == LedgerSpec => []UnbookedIsSold
<1>1. LedgerInit => LedgerInv /\ UnbookedIsSold
  BY LedgerInit_Inv
<1>2. LedgerInv /\ [LedgerNext]_ledgerVars => LedgerInv'
  BY LedgerNextKeepsInv
<1>3. LedgerInv /\ UnbookedIsSold /\ [LedgerNext]_ledgerVars => UnbookedIsSold'
  BY NextKeepsBooks
<1>. QED
  BY <1>1, <1>2, <1>3, PTL DEF LedgerSpec

\* Every step that changes the count of a level and is not a sale writes a
\* movement that tells the difference, unless it used an outdated level: the sale
\* is the only exception to docs/invariants.md, 4 (inventory.tsx,
\* inventory-transfers.tsx, verify-payment.ts).
THEOREM OnlySalesMoveNothing ==
    LedgerSpec => [][\A l \in Location : Has(l) /\ Has(l)' /\ onShelf'[l] # onShelf[l] =>
                        \/ raced'
                        \/ adjusted'[l] + carried'[l] # adjusted[l] + carried[l]
                        \/ \E o \in Hold : SellHold(o)]_ledgerVars
<1>. DEFINE Moves == \A l \in Location : Has(l) /\ Has(l)' /\ onShelf'[l] # onShelf[l] =>
                        \/ raced'
                        \/ adjusted'[l] + carried'[l] # adjusted[l] + carried[l]
                        \/ \E o \in Hold : SellHold(o)
<1>1. LedgerInv /\ UnbookedIsSold /\ [LedgerNext]_ledgerVars => [Moves]_ledgerVars
  <2>. SUFFICES ASSUME LedgerInv, UnbookedIsSold, LedgerNext, NEW l \in Location,
                       Has(l), Has(l)', onShelf'[l] # onShelf[l], ~raced', \A o \in Hold : ~SellHold(o)
                PROVE  adjusted'[l] + carried'[l] # adjusted[l] + carried[l]
    OBVIOUS
  <2>0. ~raced
    BY DEF LedgerNext, StockNewVariant, AddLocation, PlaceHold, SellHold, ReturnHold,
       ReadForAdjustment, CommitAdjustment, RollBackAdjustment, ReadForTransfer, CreateTransfer,
       RollBackTransfer, OpenReception, ReadDestination, CommitReception, RollBackReception
  <2>1. soldAt' = soldAt /\ opened' = opened
    <3>1. \A n \in Counted : ~StockNewVariant(n)
      BY DEF StockNewVariant
    <3>2. ASSUME NEW o \in Hold, PlaceHold(o) \/ ReturnHold(o)
          PROVE  UNCHANGED <<soldAt, opened>>
      BY <3>2 DEF PlaceHold, ReturnHold, books
    <3>3. ASSUME NEW a \in Adjustment,
                 \/ \E k \in Location, n \in Counted : ReadForAdjustment(a, k, n)
                 \/ CommitAdjustment(a) \/ RollBackAdjustment(a)
          PROVE  UNCHANGED <<soldAt, opened>>
      BY <3>3 DEF ReadForAdjustment, CommitAdjustment, RollBackAdjustment, books
    <3>4. ASSUME NEW t \in Transfer,
                 \/ \E from, to \in Location, n \in Sent : ReadForTransfer(t, from, to, n)
                 \/ CreateTransfer(t) \/ RollBackTransfer(t)
          PROVE  UNCHANGED <<soldAt, opened>>
      BY <3>4 DEF ReadForTransfer, CreateTransfer, RollBackTransfer, books
    <3>5. ASSUME NEW r \in Reception,
                 \/ \E t \in Transfer : OpenReception(r, t)
                 \/ ReadDestination(r) \/ CommitReception(r) \/ RollBackReception(r)
          PROVE  UNCHANGED <<soldAt, opened>>
      BY <3>5 DEF OpenReception, ReadDestination, CommitReception, RollBackReception, books
    <3>6. ASSUME NEW k \in Location, AddLocation(k)
          PROVE  UNCHANGED <<soldAt, opened>>
      BY <3>6 DEF AddLocation, books
    <3>. QED
      BY <3>1, <3>2, <3>3, <3>4, <3>5, <3>6 DEF LedgerNext
  <2>2. UnbookedIsSold' /\ LedgerInv'
    BY NextKeepsBooks, LedgerNextKeepsInv
  <2>3. /\ onShelf[l] = opened[l] + adjusted[l] + carried[l] - soldAt[l]
        /\ onShelf'[l] = opened[l] + adjusted'[l] + carried'[l] - soldAt[l]
    BY <2>0, <2>1, <2>2 DEF UnbookedIsSold, Before, Has
  <2>4. /\ opened[l] \in Int /\ soldAt[l] \in Int /\ adjusted[l] \in Int /\ carried[l] \in Int
        /\ adjusted'[l] \in Int /\ carried'[l] \in Int
    BY <2>2 DEF LedgerInv, LedgerTypeOK
  <2>. QED
    BY <2>3, <2>4
<1>2. LedgerInit => LedgerInv /\ UnbookedIsSold
  BY LedgerInit_Inv
<1>3. LedgerInv /\ UnbookedIsSold /\ [LedgerNext]_ledgerVars => LedgerInv' /\ UnbookedIsSold'
  BY LedgerNextKeepsInv, NextKeepsBooks
<1>. QED
  BY <1>1, <1>2, <1>3, PTL DEF LedgerSpec

-------------------------------------------------------------------------------
(* What is on the way, and what was carried: sums over finite sets.          *)

UnitsOf == [t \in Transfer |-> UnitsInTransit(t)]
TransitTotal == MapThenSumSet(UnitsInTransit, Transfer)
TransitSums == \E g : SumsOf(g, UnitsOf, Transfer) /\ TransitTotal = g[Transfer]

CarriedOf == [l \in Location |-> UnitsCarried(l)]
CarriedTotal == MapThenSumSet(UnitsCarried, Location)
CarriedSums == \E g : SumsOf(g, CarriedOf, Location) /\ CarriedTotal = g[Location]

LEMMA TransitTotalSums == TransitSums
<1>. DEFINE Sums(g) == g = [T \in SUBSET Transfer |->
                             IF T = {} THEN 0 ELSE UnitsInTransit(Pick(T)) + g[Others(T)]]
            total == CHOOSE g : Sums(g)
<1>. USE StockLedgerAssumption DEF StockLedgerAssumption
<1>1. \A g : SumsOf(g, UnitsOf, Transfer) <=> Sums(g)
  <2>1. \A T \in SUBSET Transfer : T # {} => UnitsOf[Pick(T)] = UnitsInTransit(Pick(T))
    BY OthersSmaller DEF UnitsOf
  <2>. QED
    BY <2>1 DEF SumsOf
<1>2. \E g : Sums(g)
  <2>. HIDE DEF Sums
  <2>. QED
    BY <1>1, SumsExist
<1>3. Sums(total)
  <2>. HIDE DEF Sums
  <2>. QED
    BY <1>2
<1>4. TransitTotal = total[Transfer]
  BY DEF TransitTotal, MapThenSumSet, MapThenFoldSet, Pick, Others
<1>. QED
  BY <1>1, <1>3, <1>4 DEF TransitSums

LEMMA CarriedTotalSums == CarriedSums
<1>. DEFINE Sums(g) == g = [T \in SUBSET Location |->
                             IF T = {} THEN 0 ELSE UnitsCarried(Pick(T)) + g[Others(T)]]
            total == CHOOSE g : Sums(g)
<1>. USE StockLedgerAssumption DEF StockLedgerAssumption
<1>1. \A g : SumsOf(g, CarriedOf, Location) <=> Sums(g)
  <2>1. \A T \in SUBSET Location : T # {} => CarriedOf[Pick(T)] = UnitsCarried(Pick(T))
    BY OthersSmaller DEF CarriedOf
  <2>. QED
    BY <2>1 DEF SumsOf
<1>2. \E g : Sums(g)
  <2>. HIDE DEF Sums
  <2>. QED
    BY <1>1, SumsExist
<1>3. Sums(total)
  <2>. HIDE DEF Sums
  <2>. QED
    BY <1>2
<1>4. CarriedTotal = total[Location]
  BY DEF CarriedTotal, MapThenSumSet, MapThenFoldSet, Pick, Others
<1>. QED
  BY <1>1, <1>3, <1>4 DEF CarriedSums

LEMMA UnitsTyped ==
    ASSUME LedgerTypeOK
    PROVE  UnitsOf \in [Transfer -> Int] /\ CarriedOf \in [Location -> Int]
<1>1. \A t \in Transfer : UnitsInTransit(t) \in Int
  BY TransferRow DEF UnitsInTransit
<1>2. \A l \in Location : UnitsCarried(l) \in Int
  BY DEF LedgerTypeOK, UnitsCarried
<1>. QED
  BY <1>1, <1>2 DEF UnitsOf, CarriedOf

LEMMA TotalsTyped ==
    ASSUME LedgerTypeOK
    PROVE  TransitTotal \in Int /\ CarriedTotal \in Int
<1>. USE StockLedgerAssumption DEF StockLedgerAssumption
<1>1. TransitTotal \in Int
  <2>1. PICK g : SumsOf(g, UnitsOf, Transfer) /\ TransitTotal = g[Transfer]
    BY TransitTotalSums DEF TransitSums
  <2>. QED
    BY <2>1, UnitsTyped, SumsTyped
<1>2. CarriedTotal \in Int
  <2>1. PICK g : SumsOf(g, CarriedOf, Location) /\ CarriedTotal = g[Location]
    BY CarriedTotalSums DEF CarriedSums
  <2>. QED
    BY <2>1, UnitsTyped, SumsTyped
<1>. QED
  BY <1>1, <1>2

\* What is on the way changes by what one transfer adds to it or takes from it,
\* and what was carried by one movement.
LEMMA TransitMoves ==
    ASSUME LedgerTypeOK, NEW t \in Transfer, NEW d \in Int,
           UnitsInTransit(t)' = UnitsInTransit(t) + d,
           \A u \in Transfer : u # t => UnitsInTransit(u)' = UnitsInTransit(u)
    PROVE  TransitTotal' = TransitTotal + d
<1>1. PICK g : SumsOf(g, UnitsOf, Transfer) /\ TransitTotal = g[Transfer]
  BY TransitTotalSums DEF TransitSums
<1>2. TransitSums'
  BY TransitTotalSums, PTL
<1>3. PICK k : SumsOf(k, UnitsOf', Transfer) /\ TransitTotal' = k[Transfer]
  BY <1>2 DEF TransitSums, SumsOf
<1>4. IsFiniteSet(Transfer) /\ UnitsOf \in [Transfer -> Int]
  BY UnitsTyped, StockLedgerAssumption DEF StockLedgerAssumption
<1>5. PICK f, h : f = UnitsOf /\ h = UnitsOf'
  OBVIOUS
<1>6. f \in [Transfer -> Int] /\ h[t] = f[t] + d /\ \A u \in Transfer : u # t => h[u] = f[u]
  <2>1. \A u \in Transfer : f[u] = UnitsInTransit(u)
    BY <1>5 DEF UnitsOf
  <2>2. \A u \in Transfer : h[u] = UnitsInTransit(u)'
    BY <1>5 DEF UnitsOf
  <2>. QED
    BY <1>4, <1>5, <2>1, <2>2, Zenon
<1>7. SumsOf(g, f, Transfer) /\ SumsOf(k, h, Transfer)
  BY <1>1, <1>3, <1>5
<1>8. k[Transfer] = g[Transfer] + d
  <2>1. /\ IsFiniteSet(Transfer) /\ f \in [Transfer -> Int] /\ h[t] = f[t] + d
        /\ \A x \in Transfer : x # t => h[x] = f[x]
    BY <1>4, <1>6
  <2>. QED
    BY <1>7, <2>1, SumsMove
<1>. QED
  BY <1>1, <1>3, <1>8

LEMMA CarriedMoves ==
    ASSUME LedgerTypeOK, NEW l \in Location, NEW d \in Int,
           carried'[l] = carried[l] + d, \A m \in Location : m # l => carried'[m] = carried[m]
    PROVE  CarriedTotal' = CarriedTotal + d
<1>1. PICK g : SumsOf(g, CarriedOf, Location) /\ CarriedTotal = g[Location]
  BY CarriedTotalSums DEF CarriedSums
<1>2. CarriedSums'
  BY CarriedTotalSums, PTL
<1>3. PICK k : SumsOf(k, CarriedOf', Location) /\ CarriedTotal' = k[Location]
  BY <1>2 DEF CarriedSums, SumsOf
<1>4. IsFiniteSet(Location) /\ CarriedOf \in [Location -> Int]
  BY UnitsTyped, StockLedgerAssumption DEF StockLedgerAssumption
<1>5. PICK f, h : f = CarriedOf /\ h = CarriedOf'
  OBVIOUS
<1>6. f \in [Location -> Int] /\ h[l] = f[l] + d /\ \A m \in Location : m # l => h[m] = f[m]
  BY <1>4, <1>5 DEF CarriedOf, UnitsCarried
<1>7. SumsOf(g, f, Location) /\ SumsOf(k, h, Location)
  BY <1>1, <1>3, <1>5
<1>8. k[Location] = g[Location] + d
  <2>1. /\ IsFiniteSet(Location) /\ f \in [Location -> Int] /\ h[l] = f[l] + d
        /\ \A x \in Location : x # l => h[x] = f[x]
    BY <1>4, <1>6
  <2>. QED
    BY <1>7, <2>1, SumsMove
<1>. QED
  BY <1>1, <1>3, <1>8

LEMMA TransitStays ==
    ASSUME \A t \in Transfer : UnitsInTransit(t)' = UnitsInTransit(t)
    PROVE  TransitTotal' = TransitTotal
<1>1. PICK g : SumsOf(g, UnitsOf, Transfer) /\ TransitTotal = g[Transfer]
  BY TransitTotalSums DEF TransitSums
<1>2. TransitSums'
  BY TransitTotalSums, PTL
<1>3. PICK k : SumsOf(k, UnitsOf', Transfer) /\ TransitTotal' = k[Transfer]
  BY <1>2 DEF TransitSums, SumsOf
<1>4. UnitsOf' = UnitsOf /\ IsFiniteSet(Transfer)
  BY StockLedgerAssumption DEF StockLedgerAssumption, UnitsOf
<1>. QED
  BY <1>1, <1>3, <1>4, SumsSame

LEMMA CarriedStays ==
    ASSUME UNCHANGED carried
    PROVE  CarriedTotal' = CarriedTotal
<1>1. PICK g : SumsOf(g, CarriedOf, Location) /\ CarriedTotal = g[Location]
  BY CarriedTotalSums DEF CarriedSums
<1>2. CarriedSums'
  BY CarriedTotalSums, PTL
<1>3. PICK k : SumsOf(k, CarriedOf', Location) /\ CarriedTotal' = k[Location]
  BY <1>2 DEF CarriedSums, SumsOf
<1>4. CarriedOf' = CarriedOf /\ IsFiniteSet(Location)
  BY StockLedgerAssumption DEF StockLedgerAssumption, CarriedOf, UnitsCarried
<1>. QED
  BY <1>1, <1>3, <1>4, SumsSame

\* Only the batch that creates a transfer, and the one that receives it, change
\* what is on the way; both write the movement in the same batch.
LEMMA CreationBalances ==
    ASSUME LedgerInv, NEW t \in Transfer, CreateTransfer(t)
    PROVE  TransitTotal' + CarriedTotal' = TransitTotal + CarriedTotal
<1>1. PICK from \in Location, n \in Nat :
         transfer[t].at = "read" /\ transfer[t].from = from /\ transfer[t].units = n
  BY TransferRow DEF CreateTransfer, LedgerInv
<1>2. transfer' = [transfer EXCEPT ![t].at = "in_transit"] /\ carried' = [carried EXCEPT ![from] = @ - n]
  BY <1>1 DEF CreateTransfer
<1>3. carried \in [Location -> Int] /\ -n \in Int
  BY DEF LedgerInv, LedgerTypeOK
<1>4. carried'[from] = carried[from] + (-n) /\ \A m \in Location : m # from => carried'[m] = carried[m]
  BY <1>2, <1>3
<1>5. transfer'[t].at = "in_transit" /\ transfer'[t].units = n
      /\ \A u \in Transfer : u # t => transfer'[u] = transfer[u]
  BY <1>1, <1>2, TransferRow DEF LedgerInv, LedgerTypeOK
<1>6. UnitsInTransit(t)' = UnitsInTransit(t) + n
      /\ \A u \in Transfer : u # t => UnitsInTransit(u)' = UnitsInTransit(u)
  BY <1>1, <1>5 DEF UnitsInTransit
<1>7. TransitTotal' = TransitTotal + n
  BY <1>6, TransitMoves DEF LedgerInv
<1>8. CarriedTotal' = CarriedTotal + (-n)
  BY <1>3, <1>4, CarriedMoves DEF LedgerInv
<1>. QED
  BY <1>7, <1>8, TotalsTyped DEF LedgerInv

LEMMA ReceptionBalances ==
    ASSUME LedgerInv, NEW r \in Reception, CommitReception(r), ~raced'
    PROVE  TransitTotal' + CarriedTotal' = TransitTotal + CarriedTotal
<1>1. PICK t \in Transfer, to \in Location, n \in Nat :
         receiving[r].of = t /\ transfer[t].to = to /\ transfer[t].units = n
  BY ReceptionRow DEF CommitReception, LedgerInv
<1>2. transfer' = [transfer EXCEPT ![t].at = "received"] /\ carried' = [carried EXCEPT ![to] = @ + n]
      /\ transfer[t].at = receiving[r].seen
  BY <1>1 DEF CommitReception
<1>3. transfer[t].at = "in_transit"
  BY <1>2, ReceptionRow DEF CommitReception, LedgerInv
<1>4. carried \in [Location -> Int] /\ -n \in Int
  BY DEF LedgerInv, LedgerTypeOK
<1>5. carried'[to] = carried[to] + n /\ \A m \in Location : m # to => carried'[m] = carried[m]
  BY <1>2, <1>4
<1>6. transfer'[t].at = "received" /\ \A u \in Transfer : u # t => transfer'[u] = transfer[u]
  BY <1>1, <1>2, <1>3, TransferRow DEF LedgerInv, LedgerTypeOK
<1>7. UnitsInTransit(t)' = UnitsInTransit(t) + (-n)
      /\ \A u \in Transfer : u # t => UnitsInTransit(u)' = UnitsInTransit(u)
  BY <1>1, <1>3, <1>6 DEF UnitsInTransit
<1>8. TransitTotal' = TransitTotal + (-n)
  BY <1>4, <1>7, TransitMoves DEF LedgerInv
<1>9. CarriedTotal' = CarriedTotal + n
  BY <1>5, CarriedMoves DEF LedgerInv
<1>. QED
  BY <1>8, <1>9, TotalsTyped DEF LedgerInv

LEMMA OthersBalance ==
    ASSUME LedgerInv, [LedgerNext]_ledgerVars,
           ~(\E t \in Transfer : CreateTransfer(t)), ~(\E r \in Reception : CommitReception(r))
    PROVE  TransitTotal' = TransitTotal /\ CarriedTotal' = CarriedTotal
<1>1. UNCHANGED carried
  BY DEF LedgerNext, ledgerVars, books, StockNewVariant, AddLocation, PlaceHold, SellHold, ReturnHold,
     ReadForAdjustment, CommitAdjustment, RollBackAdjustment, ReadForTransfer,
     RollBackTransfer, OpenReception, ReadDestination, RollBackReception
<1>2. ASSUME UNCHANGED transfer
      PROVE  \A t \in Transfer : UnitsInTransit(t)' = UnitsInTransit(t)
  BY <1>2 DEF UnitsInTransit
<1>3. ASSUME NEW t \in Transfer, NEW from \in Location, NEW to \in Location, NEW n \in Sent,
             ReadForTransfer(t, from, to, n)
      PROVE  \A u \in Transfer : UnitsInTransit(u)' = UnitsInTransit(u)
  BY <1>3 DEF ReadForTransfer, UnitsInTransit, Idle, LedgerInv, LedgerTypeOK
<1>4. ASSUME NEW t \in Transfer, RollBackTransfer(t)
      PROVE  \A u \in Transfer : UnitsInTransit(u)' = UnitsInTransit(u)
  BY <1>4 DEF RollBackTransfer, UnitsInTransit, Finished, LedgerInv, LedgerTypeOK
<1>5. \/ UNCHANGED transfer
      \/ \E t \in Transfer : RollBackTransfer(t)
      \/ \E t \in Transfer, from, to \in Location, n \in Sent : ReadForTransfer(t, from, to, n)
  BY DEF LedgerNext, ledgerVars, StockNewVariant, AddLocation, PlaceHold, SellHold, ReturnHold,
     ReadForAdjustment, CommitAdjustment, RollBackAdjustment, OpenReception, ReadDestination, RollBackReception
<1>. QED
  BY <1>1, <1>2, <1>3, <1>4, <1>5, TransitStays, CarriedStays

LEMMA LedgerInit_Balanced == LedgerInit => NothingLostInTransit
<1>. SUFFICES ASSUME LedgerInit
              PROVE  TransitTotal + CarriedTotal = 0
  BY DEF NothingLostInTransit, TransitTotal, CarriedTotal
<1>. USE StockLedgerAssumption DEF StockLedgerAssumption
<1>1. TransitTotal = 0
  <2>1. PICK g : SumsOf(g, UnitsOf, Transfer) /\ TransitTotal = g[Transfer]
    BY TransitTotalSums DEF TransitSums
  <2>2. \A t \in Transfer : UnitsOf[t] = 0
    BY DEF LedgerInit, Idle, UnitsOf, UnitsInTransit
  <2>. QED
    BY <2>1, <2>2, SumsOfNothing
<1>2. CarriedTotal = 0
  <2>1. PICK g : SumsOf(g, CarriedOf, Location) /\ CarriedTotal = g[Location]
    BY CarriedTotalSums DEF CarriedSums
  <2>2. \A l \in Location : CarriedOf[l] = 0
    BY DEF LedgerInit, CarriedOf, UnitsCarried
  <2>. QED
    BY <2>1, <2>2, SumsOfNothing
<1>. QED
  BY <1>1, <1>2

\* Until some write uses an outdated level or status, what the movements of the
\* transfers took from the shelves and have not yet put on one is what the
\* transfers in transit carry (createTransfer and the reception of
\* inventory-transfers.tsx).
THEOREM TransitBalances == LedgerSpec => []NothingLostInTransit
<1>1. LedgerInit => LedgerInv /\ NothingLostInTransit
  BY LedgerInit_Inv, LedgerInit_Balanced
<1>2. LedgerInv /\ [LedgerNext]_ledgerVars => LedgerInv'
  BY LedgerNextKeepsInv
<1>3. LedgerInv /\ NothingLostInTransit /\ [LedgerNext]_ledgerVars => NothingLostInTransit'
  <2>. SUFFICES ASSUME LedgerInv, NothingLostInTransit, [LedgerNext]_ledgerVars, ~raced'
                PROVE  TransitTotal' + CarriedTotal' = 0
    BY DEF NothingLostInTransit, TransitTotal, CarriedTotal
  <2>1. ~raced
    BY DEF LedgerNext, ledgerVars, StockNewVariant, AddLocation, PlaceHold, SellHold, ReturnHold,
       ReadForAdjustment, CommitAdjustment, RollBackAdjustment, ReadForTransfer, CreateTransfer,
       RollBackTransfer, OpenReception, ReadDestination, CommitReception, RollBackReception
  <2>2. TransitTotal + CarriedTotal = 0
    BY <2>1 DEF NothingLostInTransit, TransitTotal, CarriedTotal
  <2>3. TransitTotal' + CarriedTotal' = TransitTotal + CarriedTotal
    BY CreationBalances, ReceptionBalances, OthersBalance
  <2>. QED
    BY <2>2, <2>3
<1>. QED
  BY <1>1, <1>2, <1>3, PTL DEF LedgerSpec

-------------------------------------------------------------------------------
(* The ledger, one request a level at a time.                                *)

Adjusts(a, l)  == adjusting[a].at = "read" /\ adjusting[a].loc = l
Sends(t, l)    == transfer[t].at = "read" /\ transfer[t].from = l
Receives(r, l) == receiving[r].at \in {"checked", "read"} /\ transfer[receiving[r].of].to = l

\* Between reading a level and writing it, a request has the level to itself:
\* beside other requests ...
OneRequestALevel ==
    \A l \in Location :
        /\ \A a, b \in Adjustment : Adjusts(a, l) /\ Adjusts(b, l) => a = b
        /\ \A t, u \in Transfer : Sends(t, l) /\ Sends(u, l) => t = u
        /\ \A r, s \in Reception : Receives(r, l) /\ Receives(s, l) => r = s
        /\ \A a \in Adjustment, t \in Transfer : ~(Adjusts(a, l) /\ Sends(t, l))
        /\ \A a \in Adjustment, r \in Reception : ~(Adjusts(a, l) /\ Receives(r, l))
        /\ \A t \in Transfer, r \in Reception : ~(Sends(t, l) /\ Receives(r, l))

\* ... and beside sales.
NobodyAt(l) ==
    /\ \A a \in Adjustment : ~Adjusts(a, l)
    /\ \A t \in Transfer : ~Sends(t, l)
    /\ \A r \in Reception : ~Receives(r, l)

SaleAlone == \A o \in Hold : SellHold(o) => NobodyAt(FirstLocation)
SalesWait == [][SaleAlone]_ledgerVars

Underway == {"read", "in_transit", "received"}

\* What every request has read is still so, and a transfer moves a variant that
\* has a level.
LedgerReadsStand ==
    /\ \A a \in Adjustment : adjusting[a].at = "read" => onShelf[adjusting[a].loc] = adjusting[a].was
    /\ \A t \in Transfer : /\ transfer[t].at = "read" => onShelf[transfer[t].from] = transfer[t].was
                           /\ transfer[t].at \in Underway => \E l \in Location : Has(l)
    /\ \A r \in Reception :
          /\ receiving[r].at \in {"checked", "read"} => transfer[receiving[r].of].at = "in_transit"
          /\ receiving[r].at = "read" => onShelf[transfer[receiving[r].of].to] = receiving[r].was
    /\ ~raced

\* A step that writes the shelves of W: who goes on has read another shelf, and
\* who has just read has read what is there.
LEMMA ReadsStandBy ==
    ASSUME LedgerInv, LedgerReadsStand, raced' = FALSE, NEW W,
           \A l \in Location : (l \notin W => onShelf'[l] = onShelf[l]) /\ (Has(l) => Has(l)'),
           \A a \in Adjustment : adjusting'[a].at = "read" =>
              \/ adjusting'[a] = adjusting[a] /\ adjusting[a].loc \notin W
              \/ onShelf'[adjusting'[a].loc] = adjusting'[a].was,
           \A t \in Transfer :
              /\ transfer'[t].at = "read" =>
                    \/ transfer'[t] = transfer[t] /\ transfer[t].from \notin W
                    \/ onShelf'[transfer'[t].from] = transfer'[t].was
              /\ transfer'[t].at \in Underway => transfer[t].at \in Underway \/ \E l \in Location : Has(l),
           \A r \in Reception : receiving'[r].at \in {"checked", "read"} =>
              \/ /\ receiving'[r] = receiving[r]
                 /\ transfer'[receiving[r].of] = transfer[receiving[r].of]
                 /\ transfer[receiving[r].of].to \notin W
              \/ /\ transfer'[receiving'[r].of].at = "in_transit"
                 /\ receiving'[r].at = "read" => onShelf'[transfer'[receiving'[r].of].to] = receiving'[r].was
    PROVE  LedgerReadsStand'
<1>1. ASSUME NEW a \in Adjustment, adjusting'[a].at = "read"
      PROVE  onShelf'[adjusting'[a].loc] = adjusting'[a].was
  BY <1>1, AdjustmentRow DEF LedgerInv, LedgerReadsStand
<1>2. ASSUME NEW t \in Transfer
      PROVE  /\ transfer'[t].at = "read" => onShelf'[transfer'[t].from] = transfer'[t].was
             /\ transfer'[t].at \in Underway => \E l \in Location : Has(l)'
  <2>1. ASSUME transfer'[t].at = "read" PROVE onShelf'[transfer'[t].from] = transfer'[t].was
    BY <2>1, TransferRow DEF LedgerInv, LedgerReadsStand
  <2>2. ASSUME transfer'[t].at \in Underway PROVE \E l \in Location : Has(l)'
    <3>1. PICK l \in Location : Has(l)
      BY <2>2 DEF LedgerReadsStand
    <3>. QED
      BY <3>1
  <2>. QED
    BY <2>1, <2>2
<1>3. ASSUME NEW r \in Reception, receiving'[r].at \in {"checked", "read"}
      PROVE  /\ transfer'[receiving'[r].of].at = "in_transit"
             /\ receiving'[r].at = "read" => onShelf'[transfer'[receiving'[r].of].to] = receiving'[r].was
  <2>1. CASE /\ receiving'[r] = receiving[r]
             /\ transfer'[receiving[r].of] = transfer[receiving[r].of]
             /\ transfer[receiving[r].of].to \notin W
    BY <1>3, <2>1, ReceptionRow DEF LedgerInv, LedgerReadsStand
  <2>. QED
    BY <1>3, <2>1
<1>. QED
  BY <1>1, <1>2, <1>3 DEF LedgerReadsStand

\* Orders, new levels and locations.
LEMMA OrdersLeaveReads ==
    ASSUME LedgerInv, LedgerReadsStand, SaleAlone,
           \/ \E n \in Counted : StockNewVariant(n)
           \/ \E l \in Location : AddLocation(l)
           \/ \E o \in Hold : PlaceHold(o) \/ SellHold(o) \/ ReturnHold(o)
    PROVE  LedgerReadsStand'
<1>0. UNCHANGED <<adjusting, transfer, receiving, raced>> /\ raced = FALSE
  BY DEF StockNewVariant, AddLocation, PlaceHold, SellHold, ReturnHold, LedgerReadsStand, LedgerInv, LedgerTypeOK
<1>1. CASE UNCHANGED onShelf
  BY <1>0, <1>1 DEF LedgerReadsStand, Has
<1>2. ASSUME NEW n \in Counted, StockNewVariant(n)
      PROVE  LedgerReadsStand'
  <2>1. \A l \in Location : ~Has(l)
    BY <1>2 DEF StockNewVariant
  <2>2. \A t \in Transfer : transfer[t].at \notin Underway
    BY <2>1 DEF LedgerReadsStand
  <2>3. \A a \in Adjustment : adjusting[a].at # "read"
    <3>. SUFFICES ASSUME NEW a \in Adjustment, adjusting[a].at = "read"
                  PROVE  FALSE
      OBVIOUS
    <3>1. onShelf[adjusting[a].loc] \in Nat /\ adjusting[a].loc \in Location
      BY AdjustmentRow DEF LedgerInv, LedgerReadsStand
    <3>. QED
      BY <2>1, <3>1, StockLedgerAssumption DEF Has, StockLedgerAssumption
  <2>4. \A r \in Reception : receiving[r].at \notin {"checked", "read"}
    BY <2>2, ReceptionRow DEF LedgerInv, LedgerReadsStand, Underway
  <2>. QED
    BY <1>0, <2>2, <2>3, <2>4 DEF LedgerReadsStand, Underway
<1>3. ASSUME NEW o \in Hold, SellHold(o)
      PROVE  LedgerReadsStand'
  <2>1. NobodyAt(FirstLocation)
    BY <1>3 DEF SaleAlone
  <2>2. onShelf[FirstLocation] \in Nat /\ onShelf[FirstLocation] - HoldQty \in Nat
    BY <1>3, HeldIsThere, StockLedgerAssumption DEF SellHold, StockLedgerAssumption
  <2>3. onShelf' = [onShelf EXCEPT ![FirstLocation] = @ - HoldQty]
    BY <1>3 DEF SellHold
  <2>4. \A l \in Location : (l \notin {FirstLocation} => onShelf'[l] = onShelf[l]) /\ (Has(l) => Has(l)')
    BY <2>2, <2>3, StockLedgerAssumption DEF Has, LedgerInv, LedgerTypeOK, StockLedgerAssumption
  <2>5. \A a \in Adjustment : adjusting[a].at = "read" => adjusting[a].loc \notin {FirstLocation}
    BY <2>1 DEF NobodyAt, Adjusts
  <2>6. \A t \in Transfer : transfer[t].at = "read" => transfer[t].from \notin {FirstLocation}
    BY <2>1 DEF NobodyAt, Sends
  <2>7. \A r \in Reception :
           receiving[r].at \in {"checked", "read"} => transfer[receiving[r].of].to \notin {FirstLocation}
    BY <2>1 DEF NobodyAt, Receives
  <2>. QED
    BY <1>0, <2>4, <2>5, <2>6, <2>7, ReadsStandBy
<1>. QED
  BY <1>1, <1>2, <1>3 DEF AddLocation, PlaceHold, ReturnHold

LEMMA AdjustmentsLeaveReads ==
    ASSUME LedgerInv, LedgerReadsStand, OneRequestALevel, NEW a \in Adjustment,
           \/ \E l \in Location, n \in Counted : ReadForAdjustment(a, l, n)
           \/ CommitAdjustment(a)
           \/ RollBackAdjustment(a)
    PROVE  LedgerReadsStand'
<1>. USE DEF LedgerInv, LedgerTypeOK
<1>1. ASSUME NEW l \in Location, NEW n \in Counted, ReadForAdjustment(a, l, n)
      PROVE  LedgerReadsStand'
  <2>1. /\ UNCHANGED <<onShelf, transfer, receiving, raced>>
        /\ adjusting' = [adjusting EXCEPT ![a] = [at |-> "read", loc |-> l, to |-> n, was |-> onShelf[l]]]
    BY <1>1 DEF ReadForAdjustment, shelves
  <2>2. \A b \in Adjustment : adjusting'[b].at = "read" => onShelf'[adjusting'[b].loc] = adjusting'[b].was
    BY <2>1 DEF LedgerReadsStand
  <2>. QED
    BY <2>1, <2>2 DEF LedgerReadsStand, Has
<1>2. CASE RollBackAdjustment(a)
  <2>1. UNCHANGED <<onShelf, transfer, receiving, raced>> /\ adjusting' = [adjusting EXCEPT ![a] = Finished]
    BY <1>2 DEF RollBackAdjustment, shelves
  <2>2. \A b \in Adjustment : adjusting'[b].at = "read" => adjusting'[b] = adjusting[b]
    BY <2>1 DEF Finished
  <2>. QED
    BY <2>1, <2>2 DEF LedgerReadsStand, Has
<1>3. CASE CommitAdjustment(a)
  <2>1. PICK l \in Location : Adjusts(a, l) /\ adjusting[a].loc = l /\ onShelf[l] = adjusting[a].was
    BY <1>3, AdjustmentRow DEF CommitAdjustment, Adjusts, LedgerReadsStand
  <2>2. /\ onShelf' = [onShelf EXCEPT ![l] = adjusting[a].to] /\ adjusting[a].to \in Nat
        /\ adjusting' = [adjusting EXCEPT ![a] = Finished] /\ Finished.at # "read"
        /\ UNCHANGED <<transfer, receiving>>
    BY <1>3, <2>1, AdjustmentRow DEF CommitAdjustment, Finished
  <2>3. raced' = FALSE
    BY <1>3, <2>1 DEF CommitAdjustment, LedgerReadsStand
  <2>4. \A m \in Location : (m \notin {l} => onShelf'[m] = onShelf[m]) /\ (Has(m) => Has(m)')
    BY <2>2, StockLedgerAssumption DEF Has, StockLedgerAssumption
  <2>5. \A b \in Adjustment : adjusting'[b].at = "read" => adjusting'[b] = adjusting[b] /\ adjusting[b].loc \notin {l}
    BY <2>1, <2>2 DEF OneRequestALevel, Adjusts
  <2>6. \A t \in Transfer : transfer[t].at = "read" => transfer[t].from \notin {l}
    BY <2>1 DEF OneRequestALevel, Sends
  <2>7. \A r \in Reception : receiving[r].at \in {"checked", "read"} => transfer[receiving[r].of].to \notin {l}
    BY <2>1 DEF OneRequestALevel, Receives
  <2>. QED
    BY <2>2, <2>3, <2>4, <2>5, <2>6, <2>7, ReadsStandBy
<1>. QED
  BY <1>1, <1>2, <1>3

LEMMA TransfersLeaveReads ==
    ASSUME LedgerInv, LedgerReadsStand, OneRequestALevel, NEW t \in Transfer,
           \/ \E from, to \in Location, n \in Sent : ReadForTransfer(t, from, to, n)
           \/ CreateTransfer(t)
           \/ RollBackTransfer(t)
    PROVE  LedgerReadsStand'
<1>. USE DEF LedgerInv, LedgerTypeOK
<1>0. ASSUME transfer[t] = Idle \/ transfer[t].at = "read"
      PROVE  \A r \in Reception : receiving[r].at \in {"checked", "read"} => receiving[r].of # t
  BY <1>0 DEF LedgerReadsStand, Idle
<1>1. ASSUME NEW from \in Location, NEW to \in Location, NEW n \in Sent, ReadForTransfer(t, from, to, n)
      PROVE  LedgerReadsStand'
  <2>1. /\ UNCHANGED <<onShelf, adjusting, receiving, raced>> /\ Has(from) /\ transfer[t] = Idle
        /\ transfer' = [transfer EXCEPT ![t] = [at |-> "read", from |-> from, to |-> to,
                                                units |-> n, was |-> onShelf[from]]]
    BY <1>1 DEF ReadForTransfer, shelves
  <2>2. \A u \in Transfer : u # t => transfer'[u] = transfer[u]
    BY <2>1
  <2>3. transfer'[t].at = "read" /\ onShelf'[transfer'[t].from] = transfer'[t].was
    BY <2>1
  <2>4. \A r \in Reception : receiving[r].at \in {"checked", "read"} => transfer'[receiving[r].of] = transfer[receiving[r].of]
    BY <1>0, <2>1, <2>2, ReceptionRow
  <2>5. \A u \in Transfer : transfer'[u].at = "read" => onShelf'[transfer'[u].from] = transfer'[u].was
    BY <2>1, <2>2, <2>3 DEF LedgerReadsStand
  <2>6. \E l \in Location : Has(l)'
    BY <2>1 DEF Has
  <2>7. \A r \in Reception :
           /\ receiving'[r].at \in {"checked", "read"} => transfer'[receiving'[r].of].at = "in_transit"
           /\ receiving'[r].at = "read" => onShelf'[transfer'[receiving'[r].of].to] = receiving'[r].was
    BY <2>1, <2>4 DEF LedgerReadsStand
  <2>. QED
    BY <2>1, <2>5, <2>6, <2>7 DEF LedgerReadsStand
<1>2. CASE RollBackTransfer(t)
  <2>1. /\ UNCHANGED <<onShelf, adjusting, receiving, raced>> /\ transfer[t].at = "read"
        /\ transfer' = [transfer EXCEPT ![t] = Finished] /\ Finished.at = "over"
    BY <1>2 DEF RollBackTransfer, shelves, Finished
  <2>2. \A u \in Transfer : u # t => transfer'[u] = transfer[u]
    BY <2>1
  <2>3. transfer'[t].at \notin Underway
    BY <2>1 DEF Underway
  <2>4. \A r \in Reception : receiving[r].at \in {"checked", "read"} => transfer'[receiving[r].of] = transfer[receiving[r].of]
    BY <1>0, <2>1, <2>2, ReceptionRow
  <2>. QED
    BY <2>1, <2>2, <2>3, <2>4 DEF LedgerReadsStand, Has, Underway
<1>3. CASE CreateTransfer(t)
  <2>. DEFINE s == transfer[t]
  <2>1. PICK l \in Location : Sends(t, l) /\ s.from = l /\ onShelf[l] = s.was
    BY <1>3, TransferRow DEF CreateTransfer, Sends, LedgerReadsStand
  <2>2. /\ onShelf' = [onShelf EXCEPT ![l] = s.was - s.units] /\ s.at = "read"
        /\ UNCHANGED <<adjusting, receiving>>
        /\ transfer' = [transfer EXCEPT ![t] = [s EXCEPT !.at = "in_transit"]]
    BY <1>3, <2>1 DEF CreateTransfer
  <2>3. s.was - s.units \in Nat
    <3>1. s.was \in Nat /\ s.units \in Nat /\ promised[l] \in Nat
      BY <2>2, TransferRow
    <3>2. promised[l] <= s.was - s.units
      BY <1>3, <2>1 DEF CreateTransfer, LevelHolds
    <3>. QED
      BY <3>1, <3>2
  <2>4. raced' = FALSE
    BY <1>3, <2>1 DEF CreateTransfer, LedgerReadsStand
  <2>5. transfer'[t].at = "in_transit"
    BY <2>2, TransferRow
  <2>6. \A u \in Transfer : u # t => transfer'[u] = transfer[u]
    BY <2>2
  <2>. HIDE DEF s
  <2>7. \A m \in Location : (m \notin {l} => onShelf'[m] = onShelf[m]) /\ (Has(m) => Has(m)')
    BY <2>2, <2>3, StockLedgerAssumption DEF Has, StockLedgerAssumption
  <2>8. \A a \in Adjustment : adjusting[a].at = "read" => adjusting[a].loc \notin {l}
    BY <2>1 DEF OneRequestALevel, Adjusts
  <2>9. \A u \in Transfer : transfer'[u].at = "read" => transfer'[u] = transfer[u] /\ transfer[u].from \notin {l}
    BY <2>1, <2>5, <2>6 DEF OneRequestALevel, Sends
  <2>10. \A r \in Reception : receiving[r].at \in {"checked", "read"} =>
            transfer'[receiving[r].of] = transfer[receiving[r].of] /\ transfer[receiving[r].of].to \notin {l}
    BY <1>0, <2>1, <2>2, <2>6, ReceptionRow DEF OneRequestALevel, Receives, s
  <2>11. \A u \in Transfer : transfer'[u].at \in Underway => transfer[u].at \in Underway
    BY <2>2, <2>6 DEF Underway, s
  <2>. QED
    BY <2>2, <2>4, <2>7, <2>8, <2>9, <2>10, <2>11, ReadsStandBy
<1>. QED
  BY <1>1, <1>2, <1>3

LEMMA ReceptionsLeaveReads ==
    ASSUME LedgerInv, LedgerReadsStand, OneRequestALevel, NEW r \in Reception,
           \/ \E t \in Transfer : OpenReception(r, t)
           \/ ReadDestination(r)
           \/ CommitReception(r)
           \/ RollBackReception(r)
    PROVE  LedgerReadsStand'
<1>. USE DEF LedgerInv, LedgerTypeOK
<1>1. ASSUME NEW t \in Transfer, OpenReception(r, t)
      PROVE  LedgerReadsStand'
  <2>1. /\ UNCHANGED <<onShelf, adjusting, transfer, raced>> /\ transfer[t].at = "in_transit"
        /\ receiving' = [receiving EXCEPT ![r] = [at |-> "checked", of |-> t, seen |-> transfer[t].at]]
    BY <1>1 DEF OpenReception, Receivable, shelves
  <2>2. \A q \in Reception : q # r => receiving'[q] = receiving[q]
    BY <2>1
  <2>3. receiving'[r].at = "checked" /\ receiving'[r].of = t
    BY <2>1
  <2>. QED
    BY <2>1, <2>2, <2>3 DEF LedgerReadsStand, Has
<1>2. CASE ReadDestination(r)
  <2>1. /\ UNCHANGED <<onShelf, adjusting, transfer, raced>> /\ receiving[r].at = "checked"
        /\ receiving' = [receiving EXCEPT ![r] =
              [at |-> "read", of |-> receiving[r].of, seen |-> receiving[r].seen,
               was |-> onShelf[transfer[receiving[r].of].to]]]
    BY <1>2 DEF ReadDestination, shelves
  <2>2. \A q \in Reception : q # r => receiving'[q] = receiving[q]
    BY <2>1
  <2>3. receiving'[r].of = receiving[r].of /\ receiving'[r].was = onShelf[transfer[receiving[r].of].to]
    BY <2>1
  <2>. QED
    BY <2>1, <2>2, <2>3 DEF LedgerReadsStand, Has
<1>3. CASE RollBackReception(r)
  <2>1. /\ UNCHANGED <<onShelf, adjusting, transfer, raced>>
        /\ receiving' = [receiving EXCEPT ![r] = Finished] /\ Finished.at = "over"
    BY <1>3 DEF RollBackReception, shelves, Finished
  <2>2. \A q \in Reception : receiving'[q].at \in {"checked", "read"} => receiving'[q] = receiving[q]
    BY <2>1
  <2>. QED
    BY <2>1, <2>2 DEF LedgerReadsStand, Has
<1>4. CASE CommitReception(r)
  <2>. DEFINE q == receiving[r]
              tr == transfer[q.of]
              after == Before(q.was) + tr.units
  <2>1. q.at = "read" /\ q.of \in Transfer /\ q.was \in Nat \cup {NoRow} /\ tr.units \in Nat /\ tr.to \in Location
        /\ q.seen = "in_transit"
    BY <1>4, ReceptionRow DEF CommitReception
  <2>2. tr.at = "in_transit" /\ onShelf[tr.to] = q.was
    BY <2>1 DEF LedgerReadsStand
  <2>3. after \in Nat
    BY <2>1, BeforeType
  <2>4. PICK l \in Location : tr.to = l /\ Receives(r, l)
    BY <2>1 DEF Receives
  <2>5. /\ onShelf' = [onShelf EXCEPT ![l] = after] /\ UNCHANGED adjusting
        /\ transfer' = [transfer EXCEPT ![q.of] = [tr EXCEPT !.at = "received"]]
        /\ receiving' = [receiving EXCEPT ![r] = Finished] /\ Finished.at = "over"
    BY <1>4, <2>4 DEF CommitReception, Finished
  <2>6. raced' = FALSE
    BY <1>4, <2>1, <2>2 DEF CommitReception, LedgerReadsStand
  <2>7. transfer'[q.of].at = "received"
    <3>1. tr \in [at : {"read", "in_transit", "received"}, from : Location, to : Location, units : Nat, was : Nat]
      BY <2>1, <2>2, TransferRow
    <3>. QED
      BY <2>1, <2>5, <3>1
  <2>8. \A u \in Transfer : u # q.of => transfer'[u] = transfer[u]
    BY <2>5
  <2>. HIDE DEF after, tr
  <2>9. \A m \in Location : (m \notin {l} => onShelf'[m] = onShelf[m]) /\ (Has(m) => Has(m)')
    BY <2>3, <2>5, StockLedgerAssumption DEF Has, StockLedgerAssumption
  <2>10. \A a \in Adjustment : adjusting[a].at = "read" => adjusting[a].loc \notin {l}
    BY <2>4 DEF OneRequestALevel, Adjusts
  <2>11. \A u \in Transfer : /\ transfer'[u].at = "read" => transfer'[u] = transfer[u] /\ transfer[u].from \notin {l}
                             /\ transfer'[u].at \in Underway => transfer[u].at \in Underway
    BY <2>2, <2>4, <2>7, <2>8 DEF OneRequestALevel, Sends, Underway, tr
  <2>12. ASSUME NEW p \in Reception, receiving'[p].at \in {"checked", "read"}
         PROVE  /\ receiving'[p] = receiving[p]
                /\ transfer'[receiving[p].of] = transfer[receiving[p].of]
                /\ transfer[receiving[p].of].to \notin {l}
    <3>1. p # r /\ receiving'[p] = receiving[p] /\ receiving[p].of \in Transfer
      BY <2>5, <2>12, ReceptionRow
    <3>2. transfer[receiving[p].of].to # l
      BY <2>4, <2>12, <3>1 DEF OneRequestALevel, Receives
    <3>3. receiving[p].of # q.of
      BY <2>4, <3>2 DEF tr
    <3>. QED
      BY <2>8, <3>1, <3>2, <3>3
  <2>. HIDE DEF q
  <2>. QED
    BY <2>5, <2>6, <2>9, <2>10, <2>11, <2>12, ReadsStandBy
<1>. QED
  BY <1>1, <1>2, <1>3, <1>4

\* While a request has a level to itself from its read to its write, every
\* shelf is its books and what left without arriving is in transit: nothing else
\* that staff and orders do in inventory.tsx and inventory-transfers.tsx can
\* break either equation.
THEOREM OneByOneBooksHold ==
    LedgerSpec /\ []OneRequestALevel /\ SalesWait =>
        []( /\ \A l \in Location : Before(onShelf[l]) = opened[l] + adjusted[l] + carried[l] - soldAt[l]
            /\ MapThenSumSet(UnitsInTransit, Transfer) + MapThenSumSet(UnitsCarried, Location) = 0 )
<1>1. ASSUME LedgerInit PROVE LedgerReadsStand
  BY <1>1 DEF LedgerInit, LedgerReadsStand, Idle, Underway
<1>2. LedgerInv /\ LedgerReadsStand /\ OneRequestALevel /\ [SaleAlone]_ledgerVars /\ [LedgerNext]_ledgerVars
        => LedgerReadsStand'
  <2>. SUFFICES ASSUME LedgerInv, LedgerReadsStand, OneRequestALevel, [SaleAlone]_ledgerVars, [LedgerNext]_ledgerVars
                PROVE  LedgerReadsStand'
    OBVIOUS
  <2>1. CASE UNCHANGED ledgerVars
    BY <2>1 DEF ledgerVars, LedgerReadsStand, Has
  <2>. QED
    BY <2>1, OrdersLeaveReads, AdjustmentsLeaveReads, TransfersLeaveReads, ReceptionsLeaveReads DEF LedgerNext
<1>3. LedgerInit => LedgerInv
  BY LedgerInit_Inv
<1>4. LedgerInv /\ [LedgerNext]_ledgerVars => LedgerInv'
  BY LedgerNextKeepsInv
<1>5. LedgerReadsStand /\ UnbookedIsSold /\ NothingLostInTransit =>
        /\ \A l \in Location : Before(onShelf[l]) = opened[l] + adjusted[l] + carried[l] - soldAt[l]
        /\ MapThenSumSet(UnitsInTransit, Transfer) + MapThenSumSet(UnitsCarried, Location) = 0
  BY DEF LedgerReadsStand, UnbookedIsSold, NothingLostInTransit
<1>. QED
  BY UnbookedOnlySales, TransitBalances, <1>1, <1>2, <1>3, <1>4, <1>5, PTL DEF LedgerSpec, SalesWait

-------------------------------------------------------------------------------
(* The first administrator.                                                  *)

\* The claim is the only lock, so the induction needs who holds it (OneHolder)
\* beside what it protects (OneAdministrator).
InstallInv == InstallTypeOK /\ OneHolder /\ OneAdministrator

LEMMA InstallInit_Inv == InstallInit => InstallInv
<1>. SUFFICES ASSUME InstallInit
              PROVE  InstallInv
  OBVIOUS
<1>1. InstallTypeOK
  BY DEF InstallInit, InstallTypeOK
<1>2. \A i \in Installer : ~Holding(i)
  BY DEF InstallInit, Holding
<1>3. lock = "free" /\ ~stale /\ admin = {}
  BY DEF InstallInit
<1>. QED
  BY <1>1, <1>2, <1>3 DEF InstallInv, OneHolder, OneAdministrator

\* A step that gives nobody the lock and leaves lock and administrators alone.
LEMMA OthersKeep ==
    ASSUME InstallInv,
           setup' \in [Installer -> {"new", "counted", "checked", "claimed", "account", "refused", "over"}],
           \A k \in Installer : Holding(k)' => Holding(k),
           UNCHANGED <<lock, stale, admin, outlived>>
    PROVE  OneHolder' /\ OneAdministrator'
BY DEF InstallInv, OneHolder, OneAdministrator

LEMMA StepTypes ==
    ASSUME InstallTypeOK, [InstallNext]_installVars
    PROVE  InstallTypeOK'
<1>. USE InstallationAssumption DEF InstallationAssumption, InstallTypeOK, Goes, OneMore
<1>1. CASE AttemptsAge \/ UNCHANGED installVars
  BY <1>1 DEF AttemptsAge, installVars
<1>6. CASE ClaimAges
  <2>1. outlived' \in BOOLEAN
    BY <1>6, Zenon DEF ClaimAges
  <2>. QED
    BY <1>6, <2>1 DEF ClaimAges
<1>2. ASSUME NEW i \in Installer, CountFailures(i) \/ WrongToken(i) \/ RightToken(i)
      PROVE  InstallTypeOK'
  BY <1>2 DEF CountFailures, WrongToken, RightToken
<1>3. ASSUME NEW i \in Installer, ClaimInstallation(i)
      PROVE  InstallTypeOK'
  BY <1>3 DEF ClaimInstallation
<1>4. ASSUME NEW i \in Installer, AccountRefused(i) \/ ReleaseClaim(i) \/ AbandonInstallation(i)
      PROVE  InstallTypeOK'
  BY <1>4 DEF AccountRefused, ReleaseClaim, AbandonInstallation
<1>7. ASSUME NEW i \in Installer, CreateAccount(i)
      PROVE  InstallTypeOK'
  <2>1. address[i] \in Mail
    OBVIOUS
  <2>2. account' \subseteq Mail
    BY <1>7, <2>1 DEF CreateAccount
  <2>. QED
    BY <1>7, <2>2 DEF CreateAccount
<1>5. ASSUME NEW i \in Installer, CompleteInstallation(i)
      PROVE  InstallTypeOK'
  BY <1>5 DEF CompleteInstallation, Completed
<1>. QED
  BY <1>1, <1>2, <1>3, <1>4, <1>5, <1>6, <1>7 DEF InstallNext

LEMMA StepKeepsHolder ==
    ASSUME InstallInv, InstallTypeOK', [InstallNext]_installVars
    PROVE  OneHolder' /\ OneAdministrator'
<1>. USE DEF InstallInv, InstallTypeOK, OneHolder, OneAdministrator, Holding, Goes
<1>1. CASE AttemptsAge \/ UNCHANGED installVars
  BY <1>1, OthersKeep DEF AttemptsAge, installVars
<1>2. CASE ClaimAges
  BY <1>2 DEF ClaimAges
<1>3. ASSUME NEW i \in Installer, CountFailures(i) \/ WrongToken(i) \/ RightToken(i)
      PROVE  OneHolder' /\ OneAdministrator'
  <2>1. \A k \in Installer : Holding(k)' => Holding(k)
    BY <1>3 DEF CountFailures, WrongToken, RightToken
  <2>. QED
    BY <1>3, <2>1, OthersKeep DEF CountFailures, WrongToken, RightToken
<1>4. ASSUME NEW i \in Installer, ClaimInstallation(i)
      PROVE  OneHolder' /\ OneAdministrator'
  <2>1. CASE Claimable
    \* The lock was free, or its holder had gone: nobody else holds it.
    <3>1. outlived \/ \A k \in Installer : ~Holding(k)
      BY <2>1 DEF Claimable
    <3>2. lock # "completed" /\ lock' = "in_progress" /\ ~stale'
      BY <1>4, <2>1 DEF ClaimInstallation, Claimable
    <3>3. \A k \in Installer : k # i => setup'[k] = setup[k]
      BY <1>4, <2>1 DEF ClaimInstallation
    <3>. QED
      BY <1>4, <3>1, <3>2, <3>3 DEF ClaimInstallation
  <2>2. CASE ~Claimable
    <3>1. \A k \in Installer : Holding(k)' => Holding(k)
      BY <1>4, <2>2 DEF ClaimInstallation
    <3>. QED
      BY <1>4, <2>2, <3>1, OthersKeep DEF ClaimInstallation
  <2>. QED
    BY <2>1, <2>2
<1>5. ASSUME NEW i \in Installer, CreateAccount(i) \/ AccountRefused(i) \/ AbandonInstallation(i)
      PROVE  OneHolder' /\ OneAdministrator'
  <2>1. \A k \in Installer : Holding(k)' => Holding(k)
    BY <1>5 DEF CreateAccount, AccountRefused, AbandonInstallation
  <2>. QED
    BY <1>5, <2>1, OthersKeep DEF CreateAccount, AccountRefused, AbandonInstallation
<1>6. ASSUME NEW i \in Installer, ReleaseClaim(i)
      PROVE  OneHolder' /\ OneAdministrator'
  <2>1. outlived \/ \A k \in Installer : ~Holding(k)'
    BY <1>6 DEF ReleaseClaim
  <2>. QED
    BY <1>6, <2>1 DEF ReleaseClaim
<1>7. ASSUME NEW i \in Installer, CompleteInstallation(i)
      PROVE  OneHolder' /\ OneAdministrator'
  \* Whoever completes holds the lock, so nobody has completed before.
  <2>1. outlived \/ (lock = "in_progress" /\ ~stale /\ admin = {})
    BY <1>7 DEF CompleteInstallation
  <2>2. outlived \/ \A k \in Installer : ~Holding(k)'
    BY <1>7 DEF CompleteInstallation
  <2>3. outlived \/ (lock' = "completed" /\ ~stale' /\ admin' = {i})
    BY <1>7, <2>1 DEF CompleteInstallation, Completed
  <2>4. outlived' = outlived
    BY <1>7 DEF CompleteInstallation
  <2>. QED
    BY <2>2, <2>3, <2>4
<1>. QED
  BY <1>1, <1>2, <1>3, <1>4, <1>5, <1>6, <1>7 DEF InstallNext

LEMMA InstallInductive == InstallSpec => []InstallInv
<1>1. InstallInv /\ [InstallNext]_installVars => InstallInv'
  BY StepTypes, StepKeepsHolder DEF InstallInv
<1>. QED
  BY InstallInit_Inv, <1>1, PTL DEF InstallSpec

\* However many submissions race for the setup form, die or are refused, there
\* is one administrator at most, and with one the installation is closed, unless
\* a claim outlived its fifteen minutes (bootstrapAdmin, claimInstallation).
THEOREM InstalledOnce == InstallSpec => []OneAdministrator
<1>1. InstallInv => OneAdministrator
  BY DEF InstallInv
<1>. QED
  BY InstallInductive, <1>1, PTL

-------------------------------------------------------------------------------
(* Staff.                                                                    *)

\* The locals of a submission, by where it is.
StatusLocal == [at : {"status", "status admitted"}, of : Person, to : StaffStatus, overtaken : BOOLEAN]
RolesLocal == [at : {"roles"}, of : Person, to : SUBSET Role, overtaken : BOOLEAN]
WeighedLocal == [at : {"roles admitted", "roles weighed"}, of : Person, to : SUBSET Role,
                 with : SUBSET Role, overtaken : BOOLEAN]
RequestLocal == {Fresh, Over} \cup StatusLocal \cup RolesLocal \cup WeighedLocal

InviteLocal ==
    {Fresh} \cup [at : {"checked", "pending", "accepted", "revoked"}, to : Person,
                  roles : SUBSET Role, super : BOOLEAN]

AcceptRow == [at : {"claimed", "has account", "refused"}, of : Invitation]
AcceptLocal == {Fresh, Over} \cup AcceptRow

PeopleTyped ==
    /\ profile \in [Person -> StaffStatus \cup {"none"}]
    /\ roles \in [Person -> SUBSET Role]
    /\ login \subseteq Person
    /\ joined \subseteq Acceptance \X Invitation
    /\ crossed \in BOOLEAN /\ minted \in BOOLEAN /\ halfJoined \in BOOLEAN

LocalsTyped ==
    /\ request \in [StaffRequest -> RequestLocal]
    /\ invite \in [Invitation -> InviteLocal]
    /\ accepting \in [Acceptance -> AcceptLocal]

InFlight(q) == request[q].at \notin {"new", "over"}
Accepting(k) == accepting[k].at \in {"claimed", "has account", "refused"}

\* A profile comes after its account, and an acceptance that has made an
\* account is the only one that can make the profile.
AccountsFirst ==
    /\ \A p \in Person : profile[p] # "none" => p \in login
    /\ \A q \in StaffRequest : InFlight(q) => profile[request[q].of] # "none"
    /\ \A k \in Acceptance : accepting[k].at = "has account" =>
          /\ invite[accepting[k].of].to \in login
          /\ profile[invite[accepting[k].of].to] = "none"
    /\ \A k, l \in Acceptance :
          /\ accepting[k].at = "has account" /\ accepting[l].at = "has account"
          /\ invite[accepting[k].of].to = invite[accepting[l].of].to
          => k = l

\* An invitation in somebody's hands is accepted, and in nobody else's.
ClaimsHeld ==
    /\ \A k \in Acceptance : Accepting(k) => invite[accepting[k].of].at = "accepted"
    /\ \A k, l \in Acceptance :
          Accepting(k) /\ Accepting(l) /\ accepting[k].of = accepting[l].of => k = l
    /\ \A x \in joined, k \in Acceptance : Accepting(k) => accepting[k].of # x[2]

\* What was weighed stays justified until a change overtakes it.
Justified ==
    /\ \A q \in StaffRequest :
          request[q].at = "roles weighed" /\ ~request[q].overtaken
          => "super_admin" \notin request[q].to \ roles[request[q].of] \/ "super_admin" \in request[q].with
    /\ \A i \in Invitation :
          invite[i].at # "new" /\ "super_admin" \in invite[i].roles => invite[i].super

\* InvitationSpentOnce, with what it means to be accepting an invitation.
Spent ==
    /\ \A x, y \in joined : x[2] = y[2] => x = y
    /\ \A x \in joined : invite[x[2]].at = "accepted"
    /\ halfJoined \/ \A i \in Invitation : invite[i].at = "accepted" =>
          \/ \E x \in joined : x[2] = i
          \/ \E k \in Acceptance : Accepting(k) /\ accepting[k].of = i

StaffInv ==
    PeopleTyped /\ LocalsTyped /\ AccountsFirst /\ ClaimsHeld /\ Justified
    /\ SuperFromSuper /\ Spent

LEMMA StaffInit_Inv == StaffInit => StaffInv
<1>. SUFFICES ASSUME StaffInit
              PROVE  StaffInv
  OBVIOUS
<1>. USE StaffAssumption DEF StaffAssumption, StaffInit
<1>1. PeopleTyped
  BY DEF PeopleTyped, StaffStatus
<1>2. LocalsTyped
  BY DEF LocalsTyped, RequestLocal, InviteLocal, AcceptLocal
<1>3. AccountsFirst
  BY DEF AccountsFirst, InFlight, Fresh
<1>4. ClaimsHeld
  BY DEF ClaimsHeld, Accepting, Fresh
<1>5. Justified
  BY DEF Justified, Fresh
<1>6. SuperFromSuper /\ Spent
  BY DEF SuperFromSuper, Spent, Fresh
<1>. QED
  BY <1>1, <1>2, <1>3, <1>4, <1>5, <1>6 DEF StaffInv

-------------------------------------------------------------------------------
(* What the steps do to the locals.                                          *)

\* A submission that is in flight has its locals.
LEMMA RequestFields ==
    ASSUME LocalsTyped, NEW q \in StaffRequest, InFlight(q)
    PROVE  /\ request[q].of \in Person
           /\ request[q].overtaken \in BOOLEAN
           /\ request[q].at \in {"status", "status admitted"} => request[q].to \in StaffStatus
           /\ request[q].at \in {"roles", "roles admitted", "roles weighed"} => request[q].to \in SUBSET Role
           /\ request[q].at \in {"roles admitted", "roles weighed"} => request[q].with \in SUBSET Role
           /\ \/ request[q].at \in {"status", "status admitted"} /\ request[q] \in StatusLocal
              \/ request[q].at = "roles" /\ request[q] \in RolesLocal
              \/ request[q].at \in {"roles admitted", "roles weighed"} /\ request[q] \in WeighedLocal
<1>. DEFINE S == StatusLocal
            R == RolesLocal
            W == WeighedLocal
<1>1. request[q] \in RequestLocal
  BY DEF LocalsTyped
<1>2. request[q] # Fresh /\ request[q] # Over
  BY DEF InFlight, Fresh, Over
<1>3. request[q] \in S \/ request[q] \in R \/ request[q] \in W
  BY <1>1, <1>2, Zenon DEF RequestLocal
<1>4. CASE request[q] \in S
  BY <1>4 DEF StatusLocal
<1>5. CASE request[q] \in R
  BY <1>5 DEF RolesLocal
<1>6. CASE request[q] \in W
  BY <1>6 DEF WeighedLocal
<1>. QED
  BY <1>3, <1>4, <1>5, <1>6

LEMMA AcceptFields ==
    ASSUME LocalsTyped, NEW k \in Acceptance
    PROVE  /\ Accepting(k) => accepting[k].of \in Invitation
           /\ Accepting(k) <=> accepting[k] \notin {Fresh, Over}
           /\ Accepting(k) => accepting[k] \in AcceptRow
<1>. DEFINE A == AcceptRow
<1>0. Fresh.at = "new" /\ Over.at = "over"
  BY DEF Fresh, Over
<1>1. accepting[k] \in {Fresh, Over} \/ accepting[k] \in A
  BY DEF LocalsTyped, AcceptLocal
<1>2. CASE accepting[k] \in {Fresh, Over}
  BY <1>0, <1>2 DEF Accepting
<1>3. CASE accepting[k] \in A
  <2>1. accepting[k].at \in {"claimed", "has account", "refused"} /\ accepting[k].of \in Invitation
    BY <1>3 DEF AcceptRow
  <2>. QED
    BY <1>0, <1>3, <2>1 DEF Accepting
<1>. QED
  BY <1>1, <1>2, <1>3

LEMMA InviteFields ==
    ASSUME LocalsTyped, NEW i \in Invitation, invite[i].at # "new"
    PROVE  /\ invite[i].to \in Person
           /\ invite[i].roles \in SUBSET Role
           /\ invite[i].super \in BOOLEAN
BY DEF LocalsTyped, InviteLocal, Fresh
-------------------------------------------------------------------------------
(* The steps.                                                                *)

\* Signing in, step-ups and the lapse of an invitation move no row of the above.
LEMMA SignInKeepsInv ==
    ASSUME StaffInv, UNCHANGED <<profile, roles, login, request, invite, accepting, staffHistory>>
    PROVE  StaffInv'
<1>. USE DEF StaffInv, staffHistory
<1>1. PeopleTyped' /\ LocalsTyped'
  BY DEF PeopleTyped, LocalsTyped
<1>2. AccountsFirst'
  BY DEF AccountsFirst, InFlight
<1>3. ClaimsHeld' /\ Justified'
  BY DEF ClaimsHeld, Accepting, Justified
<1>4. SuperFromSuper' /\ Spent'
  BY DEF SuperFromSuper, Spent, Accepting
<1>. QED
  BY <1>1, <1>2, <1>3, <1>4

\* A submission goes on to local and nothing else moves.
LEMMA RequestKeepsInv ==
    ASSUME StaffInv, NEW q \in StaffRequest, NEW local \in RequestLocal,
           request' = [request EXCEPT ![q] = local],
           UNCHANGED <<profile, roles, login, invite, accepting, staffHistory>>,
           local.at \notin {"new", "over"} => profile[local.of] # "none",
           local.at = "roles weighed" /\ ~local.overtaken
             => "super_admin" \notin local.to \ roles[local.of] \/ "super_admin" \in local.with
    PROVE  StaffInv'
<1>. USE DEF StaffInv, staffHistory
<1>1. request' \in [StaffRequest -> RequestLocal]
  BY DEF LocalsTyped
<1>2. \A x \in StaffRequest : request'[x] = IF x = q THEN local ELSE request[x]
  BY DEF LocalsTyped
<1>3. PeopleTyped' /\ LocalsTyped'
  BY <1>1 DEF PeopleTyped, LocalsTyped
<1>4. AccountsFirst'
  BY <1>2 DEF AccountsFirst, InFlight
<1>5. ClaimsHeld'
  BY DEF ClaimsHeld, Accepting
<1>6. Justified'
  BY <1>2 DEF Justified
<1>7. SuperFromSuper' /\ Spent'
  BY DEF SuperFromSuper, Spent, Accepting
<1>. QED
  BY <1>3, <1>4, <1>5, <1>6, <1>7

LEMMA JudgeKeepsInv ==
    ASSUME StaffInv, NEW q \in StaffRequest, NEW p \in Person,
           \/ \E s \in StaffStatus : JudgeStatus(q, p, s)
           \/ \E rs \in SUBSET Role : JudgeRoles(q, p, rs)
    PROVE  StaffInv'
<1>1. ASSUME NEW s \in StaffStatus, JudgeStatus(q, p, s)
      PROVE  StaffInv'
  <2>. DEFINE local == [at |-> "status", of |-> p, to |-> s, overtaken |-> FALSE]
  <2>1. local \in RequestLocal
    BY DEF RequestLocal, StatusLocal
  <2>2. local.at = "status" /\ local.of = p /\ profile[p] # "none"
    BY <1>1 DEF JudgeStatus
  <2>3. /\ request' = [request EXCEPT ![q] = local]
        /\ UNCHANGED <<profile, roles, login, invite, accepting, staffHistory>>
    BY <1>1 DEF JudgeStatus, Judge, people
  <2>. HIDE DEF local
  <2>. QED
    BY <2>1, <2>2, <2>3, RequestKeepsInv
<1>2. ASSUME NEW rs \in SUBSET Role, JudgeRoles(q, p, rs)
      PROVE  StaffInv'
  <2>. DEFINE local == [at |-> "roles", of |-> p, to |-> rs, overtaken |-> FALSE]
  <2>1. local \in RequestLocal
    BY DEF RequestLocal, RolesLocal
  <2>2. local.at = "roles" /\ local.of = p /\ profile[p] # "none"
    BY <1>2 DEF JudgeRoles, Judge
  <2>3. /\ request' = [request EXCEPT ![q] = local]
        /\ UNCHANGED <<profile, roles, login, invite, accepting, staffHistory>>
    BY <1>2 DEF JudgeRoles, Judge, people
  <2>. HIDE DEF local
  <2>. QED
    BY <2>1, <2>2, <2>3, RequestKeepsInv
<1>. QED
  BY <1>1, <1>2

LEMMA AdmitKeepsInv ==
    ASSUME StaffInv, NEW q \in StaffRequest, NEW a \in Person, AdmitStatus(q, a) \/ AdmitRoles(q, a)
    PROVE  StaffInv'
<1>0. InFlight(q)
  BY DEF AdmitStatus, AdmitRoles, InFlight
<1>9. LocalsTyped /\ profile[request[q].of] # "none"
  BY <1>0 DEF StaffInv, AccountsFirst
<1>1. CASE AdmitStatus(q, a)
  <2>. DEFINE local == [request[q] EXCEPT !.at = "status admitted"]
  <2>1. request[q] \in StatusLocal
    BY <1>0, <1>1, <1>9, RequestFields DEF AdmitStatus
  <2>2. local \in StatusLocal /\ local.at = "status admitted" /\ local.of = request[q].of
    BY <2>1 DEF StatusLocal
  <2>3. /\ request' = [request EXCEPT ![q] = local]
        /\ UNCHANGED <<profile, roles, login, invite, accepting, staffHistory>>
    BY <1>1 DEF AdmitStatus, people
  <2>4. local \in RequestLocal
    BY <2>2 DEF RequestLocal
  <2>. HIDE DEF local
  <2>. QED
    BY <1>9, <2>2, <2>3, <2>4, RequestKeepsInv
<1>2. CASE AdmitRoles(q, a)
  <2>. DEFINE local == [at |-> "roles admitted", of |-> request[q].of, to |-> request[q].to,
                        with |-> roles[a], overtaken |-> request[q].overtaken]
  <2>1. request[q] \in RolesLocal /\ roles[a] \in SUBSET Role
    BY <1>0, <1>2, <1>9, RequestFields DEF AdmitRoles, StaffInv, PeopleTyped
  <2>2. local \in WeighedLocal /\ local.at = "roles admitted" /\ local.of = request[q].of
    BY <2>1 DEF RolesLocal, WeighedLocal
  <2>3. /\ request' = [request EXCEPT ![q] = local]
        /\ UNCHANGED <<profile, roles, login, invite, accepting, staffHistory>>
    BY <1>2 DEF AdmitRoles
  <2>4. local \in RequestLocal
    BY <2>2 DEF RequestLocal
  <2>. HIDE DEF local
  <2>. QED
    BY <1>9, <2>2, <2>3, <2>4, RequestKeepsInv
<1>. QED
  BY <1>1, <1>2

\* Whoever adds super_admin was asked whether they may: CanGrant.
LEMMA WeighKeepsInv ==
    ASSUME StaffInv, NEW q \in StaffRequest, WeighRoles(q)
    PROVE  StaffInv'
<1>. DEFINE j     == request[q]
            fine  == \A r \in j.to \ roles[j.of] : CanGrant(j.with, r)
            heavy == [j EXCEPT !.at = "roles weighed"]
            local == IF fine THEN heavy ELSE Over
<1>0. InFlight(q)
  BY DEF WeighRoles, InFlight
<1>1. j \in WeighedLocal /\ profile[j.of] # "none"
  BY <1>0, RequestFields DEF WeighRoles, StaffInv, AccountsFirst
<1>2. /\ heavy \in WeighedLocal /\ heavy.at = "roles weighed"
      /\ heavy.of = j.of /\ heavy.to = j.to /\ heavy.with = j.with
  BY <1>1 DEF WeighedLocal
<1>3. /\ request' = [request EXCEPT ![q] = local]
      /\ UNCHANGED <<profile, roles, login, invite, accepting, staffHistory>>
  BY DEF WeighRoles, people
<1>4. fine => "super_admin" \notin j.to \ roles[j.of] \/ "super_admin" \in j.with
  BY DEF CanGrant
<1>5. Over.at = "over" /\ local \in RequestLocal
  BY <1>2 DEF RequestLocal, Over
<1>. HIDE DEF j, fine, heavy
<1>6. /\ local.at \notin {"new", "over"} => local = heavy /\ fine
  BY <1>5
<1>. HIDE DEF local
<1>. QED
  BY <1>1, <1>2, <1>3, <1>4, <1>5, <1>6, RequestKeepsInv

\* A write overtakes every other submission in flight.
LEMMA OvertakeEffect ==
    ASSUME LocalsTyped, NEW q \in StaffRequest, Overtake(q)
    PROVE  /\ request' \in [StaffRequest -> RequestLocal]
           /\ \A x \in StaffRequest : InFlight(x)' =>
                 x # q /\ InFlight(x) /\ request'[x].overtaken /\ request'[x].of = request[x].of
<1>0. Fresh.at = "new" /\ Over.at = "over" /\ Fresh \in RequestLocal /\ Over \in RequestLocal
  BY DEF Fresh, Over, RequestLocal
<1>. DEFINE later(x) == [request[x] EXCEPT !.overtaken = TRUE]
<1>1. request' = [x \in StaffRequest |-> IF x = q THEN Over
                     ELSE IF request[x] \in {Fresh, Over} THEN request[x] ELSE later(x)]
  BY DEF Overtake
<1>2. ASSUME NEW x \in StaffRequest, request[x] \notin {Fresh, Over}
      PROVE  /\ InFlight(x)
             /\ later(x) \in RequestLocal
             /\ later(x).overtaken /\ later(x).of = request[x].of
  <2>1. request[x] \in StatusLocal \/ request[x] \in RolesLocal \/ request[x] \in WeighedLocal
    BY <1>2 DEF LocalsTyped, RequestLocal
  <2>2. CASE request[x] \in StatusLocal
    <3>1. /\ later(x) \in StatusLocal /\ later(x).overtaken /\ later(x).of = request[x].of
          /\ InFlight(x)
      BY <2>2 DEF StatusLocal, InFlight
    <3>. QED
      BY <3>1 DEF RequestLocal
  <2>3. CASE request[x] \in RolesLocal
    <3>1. /\ later(x) \in RolesLocal /\ later(x).overtaken /\ later(x).of = request[x].of
          /\ InFlight(x)
      BY <2>3 DEF RolesLocal, InFlight
    <3>. QED
      BY <3>1 DEF RequestLocal
  <2>4. CASE request[x] \in WeighedLocal
    <3>1. /\ later(x) \in WeighedLocal /\ later(x).overtaken /\ later(x).of = request[x].of
          /\ InFlight(x)
      BY <2>4 DEF WeighedLocal, InFlight
    <3>. QED
      BY <3>1 DEF RequestLocal
  <2>. QED
    BY <2>1, <2>2, <2>3, <2>4
<1>. HIDE DEF later
<1>3. request' \in [StaffRequest -> RequestLocal]
  BY <1>0, <1>1, <1>2 DEF LocalsTyped
<1>4. \A x \in StaffRequest : InFlight(x)' => x # q /\ request[x] \notin {Fresh, Over} /\ request'[x] = later(x)
  BY <1>0, <1>1 DEF InFlight
<1>. QED
  BY <1>2, <1>3, <1>4

LEMMA CommitStatusKeepsInv ==
    ASSUME StaffInv, NEW q \in StaffRequest, CommitStatus(q)
    PROVE  StaffInv'
<1>. DEFINE j == request[q]
<1>. USE DEF StaffInv
<1>0. InFlight(q)
  BY DEF CommitStatus, InFlight
<1>1. j.of \in Person /\ j.to \in StaffStatus /\ j.to # "none" /\ profile[j.of] # "none"
  BY <1>0, RequestFields DEF CommitStatus, AccountsFirst, StaffStatus
<1>2. /\ profile' = [profile EXCEPT ![j.of] = j.to]
      /\ UNCHANGED <<roles, login, invite, accepting, joined, minted, halfJoined>>
      /\ Overtake(q)
  BY DEF CommitStatus
<1>3. crossed' \in BOOLEAN /\ (crossed => crossed')
  BY Zenon DEF CommitStatus
<1>. HIDE DEF j
<1>4. \A p \in Person : profile'[p] = IF p = j.of THEN j.to ELSE profile[p]
  BY <1>1, <1>2 DEF PeopleTyped
<1>5. PeopleTyped' /\ LocalsTyped'
  BY <1>1, <1>2, <1>3, OvertakeEffect DEF PeopleTyped, LocalsTyped
<1>6. AccountsFirst'
  <2>1. \A p \in Person : profile'[p] = "none" <=> profile[p] = "none"
    BY <1>1, <1>4
  <2>2. ASSUME NEW x \in StaffRequest, InFlight(x)'
        PROVE  profile'[request'[x].of] # "none"
    <3>1. InFlight(x) /\ request'[x].of = request[x].of
      BY <1>2, <2>2, OvertakeEffect
    <3>2. request[x].of \in Person /\ profile[request[x].of] # "none"
      BY <3>1, RequestFields DEF AccountsFirst
    <3>. QED
      BY <2>1, <3>1, <3>2
  <2>3. \A k \in Acceptance : accepting[k].at = "has account" => invite[accepting[k].of].to \in Person
    BY DEF AccountsFirst, PeopleTyped
  <2>. QED
    BY <1>2, <2>1, <2>2, <2>3 DEF AccountsFirst
<1>7. ClaimsHeld'
  BY <1>2 DEF ClaimsHeld, Accepting
<1>10. Spent'
  BY <1>2 DEF Accepting, Spent
<1>8. Justified'
  BY <1>2, OvertakeEffect DEF Justified, InFlight
<1>9. SuperFromSuper'
  BY <1>2, <1>3 DEF SuperFromSuper
<1>. QED
  BY <1>5, <1>6, <1>7, <1>8, <1>9, <1>10

\* Roles that were overtaken are written all the same, and crossed says so.
LEMMA CommitRolesKeepsInv ==
    ASSUME StaffInv, NEW q \in StaffRequest, CommitRoles(q)
    PROVE  StaffInv'
<1>. DEFINE j == request[q]
<1>. USE DEF StaffInv
<1>0. InFlight(q)
  BY DEF CommitRoles, InFlight
<1>1. j.of \in Person /\ j.to \in SUBSET Role /\ j.overtaken \in BOOLEAN
  BY <1>0, RequestFields DEF CommitRoles
<1>2. /\ roles' = [roles EXCEPT ![j.of] = j.to]
      /\ UNCHANGED <<profile, login, invite, accepting, joined, halfJoined>>
      /\ Overtake(q)
  BY DEF CommitRoles
<1>3. crossed' \in BOOLEAN /\ minted' \in BOOLEAN
  BY Zenon DEF CommitRoles
<1>4. crossed \/ j.overtaken => crossed'
  BY Zenon DEF CommitRoles
<1>5. ~j.overtaken /\ ~minted => ~minted'
  BY Zenon DEF CommitRoles, Justified
<1>. HIDE DEF j
<1>6. PeopleTyped' /\ LocalsTyped'
  BY <1>1, <1>2, <1>3, OvertakeEffect DEF PeopleTyped, LocalsTyped
<1>7. AccountsFirst'
  BY <1>2, OvertakeEffect DEF AccountsFirst
<1>8. ClaimsHeld'
  BY <1>2 DEF ClaimsHeld, Accepting
<1>11. Spent'
  BY <1>2 DEF Accepting, Spent
<1>9. Justified'
  BY <1>2, OvertakeEffect DEF Justified, InFlight
<1>10. SuperFromSuper'
  BY <1>1, <1>3, <1>4, <1>5 DEF SuperFromSuper
<1>. QED
  BY <1>6, <1>7, <1>8, <1>9, <1>10, <1>11

\* Sending, checking and revoking move no invitation that somebody has accepted.
LEMMA InvitesKeepInv ==
    ASSUME StaffInv,
           invite' \in [Invitation -> InviteLocal],
           UNCHANGED <<profile, roles, login, request, accepting, staffHistory>>,
           \A x \in Invitation : invite'[x].at = "accepted" <=> invite[x].at = "accepted",
           \A x \in Invitation : invite[x].at = "accepted" => invite'[x].to = invite[x].to,
           \A x \in Invitation :
              invite'[x].at # "new" /\ "super_admin" \in invite'[x].roles => invite'[x].super
    PROVE  StaffInv'
<1>. USE DEF StaffInv, staffHistory
<1>1. PeopleTyped' /\ LocalsTyped'
  BY DEF PeopleTyped, LocalsTyped
<1>2. \A k \in Acceptance : Accepting(k) =>
         /\ accepting[k].of \in Invitation
         /\ invite[accepting[k].of].at = "accepted"
         /\ invite'[accepting[k].of].to = invite[accepting[k].of].to
  BY AcceptFields DEF ClaimsHeld
<1>3. AccountsFirst'
  <2>1. \A k \in Acceptance :
           accepting[k].at = "has account" => invite'[accepting[k].of].to = invite[accepting[k].of].to
    BY <1>2 DEF Accepting
  <2>2. \A p \in Person : profile'[p] # "none" => p \in login'
    BY DEF AccountsFirst
  <2>3. \A q \in StaffRequest : InFlight(q)' => profile'[request'[q].of] # "none"
    BY DEF AccountsFirst, InFlight
  <2>4. \A k \in Acceptance : accepting'[k].at = "has account" =>
           /\ invite'[accepting'[k].of].to \in login'
           /\ profile'[invite'[accepting'[k].of].to] = "none"
    BY <2>1 DEF AccountsFirst
  <2>5. ASSUME NEW k \in Acceptance, NEW l \in Acceptance,
               accepting'[k].at = "has account", accepting'[l].at = "has account",
               invite'[accepting'[k].of].to = invite'[accepting'[l].of].to
        PROVE  k = l
    <3>1. accepting' = accepting
      OBVIOUS
    <3>2. invite[accepting[k].of].to = invite[accepting[l].of].to
      BY <2>1, <2>5, <3>1
    <3>. QED
      BY <2>5, <3>1, <3>2 DEF AccountsFirst
  <2>. QED
    BY <2>2, <2>3, <2>4, <2>5 DEF AccountsFirst
<1>4. ClaimsHeld'
  <2>1. \A k \in Acceptance : Accepting(k)' <=> Accepting(k)
    BY DEF Accepting
  <2>. QED
    BY <1>2, <2>1 DEF ClaimsHeld
<1>5. Justified' /\ SuperFromSuper'
  BY DEF Justified, SuperFromSuper
<1>6. Spent'
  <2>1. \A x \in joined : x[2] \in Invitation
    BY DEF PeopleTyped
  <2>2. \A k \in Acceptance : (Accepting(k)' <=> Accepting(k)) /\ accepting'[k] = accepting[k]
    BY DEF Accepting
  <2>3. \A x \in joined' : invite'[x[2]].at = "accepted"
    BY <2>1 DEF Spent
  <2>4. halfJoined' \/ \A x \in Invitation : invite'[x].at = "accepted" =>
           (\E y \in joined' : y[2] = x) \/ (\E k \in Acceptance : Accepting(k)' /\ accepting'[k].of = x)
    BY <2>2 DEF Spent
  <2>. QED
    BY <2>3, <2>4 DEF Spent
<1>. QED
  BY <1>1, <1>3, <1>4, <1>5, <1>6

LEMMA SendRevokeKeepInv ==
    ASSUME StaffInv, NEW i \in Invitation, SendInvitation(i) \/ \E a \in Person : RevokeInvitation(i, a)
    PROVE  StaffInv'
<1>0. LocalsTyped /\ Justified
  BY DEF StaffInv
<1>1. PICK to \in {"pending", "revoked"} : invite' = [invite EXCEPT ![i].at = to]
  BY DEF SendInvitation, RevokeInvitation
<1>2. /\ invite[i].at \in {"checked", "pending"}
      /\ UNCHANGED <<profile, roles, login, request, accepting, staffHistory>>
  BY DEF SendInvitation, RevokeInvitation, people
<1>. DEFINE Row == [at : {"checked", "pending", "accepted", "revoked"}, to : Person,
                    roles : SUBSET Role, super : BOOLEAN]
            row == [invite[i] EXCEPT !.at = to]
<1>3. invite[i] \in Row
  BY <1>0, <1>2 DEF LocalsTyped, InviteLocal, Fresh
<1>4. row \in Row /\ row.at = to /\ row.roles = invite[i].roles /\ (row.super <=> invite[i].super)
  BY <1>3
<1>5. row \in InviteLocal
  BY <1>4 DEF InviteLocal
<1>. HIDE DEF row
<1>6. invite'[i] = row /\ \A x \in Invitation : x # i => invite'[x] = invite[x]
  BY <1>0, <1>1 DEF LocalsTyped, row
<1>7. invite' \in [Invitation -> InviteLocal]
  BY <1>0, <1>1, <1>5 DEF LocalsTyped, row
<1>8. ASSUME NEW x \in Invitation
      PROVE  /\ invite'[x].at = "accepted" <=> invite[x].at = "accepted"
             /\ invite[x].at = "accepted" => invite'[x].to = invite[x].to
  <2>1. invite'[i].at # "accepted" /\ invite[i].at # "accepted"
    BY <1>2, <1>4, <1>6
  <2>. QED
    BY <1>6, <2>1
<1>9. ASSUME NEW x \in Invitation, invite'[x].at # "new", "super_admin" \in invite'[x].roles
      PROVE  invite'[x].super
  <2>1. CASE x = i
    BY <1>0, <1>2, <1>4, <1>6, <1>9, <2>1 DEF Justified
  <2>2. CASE x # i
    BY <1>0, <1>6, <1>9, <2>2 DEF Justified
  <2>. QED
    BY <2>1, <2>2
<1>. QED
  BY <1>2, <1>7, <1>8, <1>9, InvitesKeepInv

\* Roles on an invitation are the sender's to give: CanGrant.
LEMMA CheckKeepsInv ==
    ASSUME StaffInv, NEW i \in Invitation, NEW a \in Person, NEW p \in Person, NEW rs \in SUBSET Role,
           CheckInvitation(i, a, p, rs)
    PROVE  StaffInv'
<1>. DEFINE row == [at |-> "checked", to |-> p, roles |-> rs, super |-> "super_admin" \in roles[a]]
<1>0. LocalsTyped /\ Justified
  BY DEF StaffInv
<1>1. invite[i].at = "new" /\ invite' = [invite EXCEPT ![i] = row]
  BY DEF CheckInvitation, Fresh
<1>2. UNCHANGED <<profile, roles, login, request, accepting, staffHistory>>
  BY DEF CheckInvitation, people
<1>3. row \in InviteLocal /\ row.at = "checked"
  <2>1. ("super_admin" \in roles[a]) \in BOOLEAN
    OBVIOUS
  <2>. QED
    BY <2>1 DEF InviteLocal
<1>4. "super_admin" \in row.roles => row.super
  <2>1. "super_admin" \in rs => "super_admin" \in roles[a]
    BY DEF CheckInvitation, CanGrant
  <2>. QED
    BY <2>1
<1>. HIDE DEF row
<1>5. invite'[i] = row /\ \A x \in Invitation : x # i => invite'[x] = invite[x]
  BY <1>0, <1>1 DEF LocalsTyped
<1>6. invite' \in [Invitation -> InviteLocal]
  BY <1>0, <1>1, <1>3 DEF LocalsTyped
<1>7. ASSUME NEW x \in Invitation
      PROVE  /\ invite'[x].at = "accepted" <=> invite[x].at = "accepted"
             /\ invite[x].at = "accepted" => invite'[x].to = invite[x].to
  <2>1. invite'[i].at # "accepted" /\ invite[i].at # "accepted"
    BY <1>1, <1>3, <1>5
  <2>. QED
    BY <1>5, <2>1
<1>8. \A x \in Invitation :
         invite'[x].at # "new" /\ "super_admin" \in invite'[x].roles => invite'[x].super
  BY <1>0, <1>4, <1>5 DEF Justified
<1>. QED
  BY <1>2, <1>6, <1>7, <1>8, InvitesKeepInv

-------------------------------------------------------------------------------
(* Acceptances.                                                              *)

\* An acceptance goes on within its invitation; nothing but logins moves.
LEMMA LoginKeepsInv ==
    ASSUME StaffInv, NEW k \in Acceptance, CreateLogin(k) \/ RefuseLogin(k)
    PROVE  StaffInv'
<1>. DEFINE i == accepting[k].of
            to == accepting'[k].at
<1>0. PeopleTyped /\ LocalsTyped /\ AccountsFirst /\ ClaimsHeld /\ Justified
      /\ SuperFromSuper /\ Spent
  BY DEF StaffInv
<1>1. UNCHANGED <<profile, roles, request, invite, staffHistory>>
  BY DEF CreateLogin, RefuseLogin, people
<1>2. accepting[k].at = "claimed" /\ accepting[k] \in AcceptRow
  BY <1>0, AcceptFields DEF CreateLogin, RefuseLogin, Accepting
<1>3. \/ accepting' = [accepting EXCEPT ![k].at = "has account"]
      \/ accepting' = [accepting EXCEPT ![k].at = "refused"]
  BY DEF CreateLogin, RefuseLogin
<1>4. /\ accepting' \in [Acceptance -> AcceptLocal]
      /\ accepting'[k].of = i /\ to \in {"has account", "refused"}
      /\ \A l \in Acceptance : l # k => accepting'[l] = accepting[l]
  <2>1. PICK at \in {"has account", "refused"} : accepting' = [accepting EXCEPT ![k].at = at]
    BY <1>3
  <2>2. [accepting[k] EXCEPT !.at = at] \in AcceptRow /\ [accepting[k] EXCEPT !.at = at].of = i
    BY <1>2 DEF AcceptRow
  <2>. QED
    BY <1>0, <1>2, <2>1, <2>2 DEF LocalsTyped, AcceptLocal, AcceptRow
<1>5. i \in Invitation /\ invite[i].at = "accepted" /\ invite[i].to \in Person
  <2>1. i \in Invitation /\ invite[i].at = "accepted"
    BY <1>0, <1>2, AcceptFields DEF ClaimsHeld, Accepting
  <2>. HIDE DEF i
  <2>. QED
    BY <1>0, <2>1, InviteFields
<1>6. \A l \in Acceptance : Accepting(l)' <=> Accepting(l)
  BY <1>2, <1>4 DEF Accepting
<1>7. \A l \in Acceptance : accepting'[l].of = accepting[l].of
  BY <1>4
<1>13. login' = login \/ (to = "has account" /\ invite[i].to \notin login /\ login' = login \cup {invite[i].to})
  BY <1>2, <1>4 DEF CreateLogin, RefuseLogin, people, AcceptRow
<1>14. to = "has account" => invite[i].to \notin login /\ login' = login \cup {invite[i].to}
  <2>1. CASE CreateLogin(k)
    BY <2>1 DEF CreateLogin
  <2>2. CASE RefuseLogin(k)
    <3>1. accepting' = [accepting EXCEPT ![k].at = "refused"]
      BY <2>2 DEF RefuseLogin
    <3>2. to = "refused"
      BY <1>0, <1>2, <3>1 DEF LocalsTyped, AcceptRow
    <3>. QED
      BY <3>2
  <2>. QED
    BY <2>1, <2>2
<1>. HIDE DEF i, to
<1>8. PeopleTyped' /\ LocalsTyped'
  BY <1>0, <1>1, <1>4, <1>5, <1>13 DEF PeopleTyped, LocalsTyped, staffHistory
<1>9. AccountsFirst'
  <2>1. to = "has account" => invite[i].to \notin login /\ login' = login \cup {invite[i].to}
    BY <1>14
  <2>2. login \subseteq login'
    BY <1>13
  <2>3. to = "has account" => profile[invite[i].to] = "none"
    BY <1>0, <1>5, <2>1 DEF AccountsFirst
  <2>4. ASSUME NEW l \in Acceptance, l # k, accepting[l].at = "has account", to = "has account"
        PROVE  invite[accepting[l].of].to # invite[i].to
    BY <1>0, <2>1, <2>4 DEF AccountsFirst
  <2>5. \A p \in Person : profile'[p] # "none" => p \in login'
    BY <1>0, <1>1, <2>2 DEF AccountsFirst
  <2>6. \A q \in StaffRequest : InFlight(q)' => profile'[request'[q].of] # "none"
    BY <1>0, <1>1 DEF AccountsFirst, InFlight
  <2>7. ASSUME NEW l \in Acceptance, accepting'[l].at = "has account"
        PROVE  /\ invite'[accepting'[l].of].to \in login'
               /\ profile'[invite'[accepting'[l].of].to] = "none"
    <3>1. invite'[accepting'[l].of].to = invite[accepting[l].of].to
      BY <1>1, <1>7
    <3>2. CASE l = k
      BY <1>1, <2>1, <2>3, <2>7, <3>1, <3>2 DEF i, to
    <3>3. CASE l # k
      BY <1>0, <1>1, <1>4, <2>2, <2>7, <3>1, <3>3 DEF AccountsFirst
    <3>. QED
      BY <3>2, <3>3
  <2>8. ASSUME NEW l \in Acceptance, NEW m \in Acceptance,
               accepting'[l].at = "has account", accepting'[m].at = "has account",
               invite'[accepting'[l].of].to = invite'[accepting'[m].of].to
        PROVE  l = m
    <3>1. invite[accepting[l].of].to = invite[accepting[m].of].to
      BY <1>1, <1>7, <2>8
    <3>2. CASE l # k /\ m # k
      BY <1>0, <1>4, <2>8, <3>1, <3>2 DEF AccountsFirst
    <3>3. CASE l = k \/ m = k
      BY <1>4, <2>4, <2>8, <3>1, <3>3 DEF i, to
    <3>. QED
      BY <3>2, <3>3
  <2>. QED
    BY <2>5, <2>6, <2>7, <2>8 DEF AccountsFirst
<1>10. ClaimsHeld'
  BY <1>0, <1>1, <1>6, <1>7 DEF ClaimsHeld, staffHistory
<1>11. Justified' /\ SuperFromSuper'
  BY <1>0, <1>1 DEF Justified, SuperFromSuper, staffHistory
<1>12. Spent'
  BY <1>0, <1>1, <1>6, <1>7 DEF Spent, staffHistory
<1>. QED
  BY <1>8, <1>9, <1>10, <1>11, <1>12 DEF StaffInv

\* Acceptances that have an account keep their invitations; others may end.
LEMMA AccountsKept ==
    ASSUME AccountsFirst, UNCHANGED <<profile, login, request>>,
           \A l \in Acceptance : accepting'[l].at = "has account" =>
              /\ accepting[l].at = "has account"
              /\ accepting'[l].of = accepting[l].of
              /\ invite'[accepting'[l].of] = invite[accepting[l].of]
    PROVE  AccountsFirst'
<1>1. \A p \in Person : profile'[p] # "none" => p \in login'
  BY DEF AccountsFirst
<1>2. \A q \in StaffRequest : InFlight(q)' => profile'[request'[q].of] # "none"
  BY DEF AccountsFirst, InFlight
<1>3. \A l \in Acceptance : accepting'[l].at = "has account" =>
         /\ invite'[accepting'[l].of].to \in login'
         /\ profile'[invite'[accepting'[l].of].to] = "none"
  BY DEF AccountsFirst
<1>4. ASSUME NEW l \in Acceptance, NEW m \in Acceptance,
             accepting'[l].at = "has account", accepting'[m].at = "has account",
             invite'[accepting'[l].of].to = invite'[accepting'[m].of].to
      PROVE  l = m
  <2>1. invite[accepting[l].of].to = invite[accepting[m].of].to
    BY <1>4
  <2>. QED
    BY <1>4, <2>1 DEF AccountsFirst
<1>. QED
  BY <1>1, <1>2, <1>3, <1>4 DEF AccountsFirst

\* The conditional UPDATE: only a pending invitation is claimed, and that one is
\* in nobody's hands.
LEMMA ClaimKeepsInv ==
    ASSUME StaffInv, NEW k \in Acceptance, NEW i \in Invitation, ClaimInvitation(k, i)
    PROVE  StaffInv'
<1>. DEFINE row == [at |-> "claimed", of |-> i]
<1>0. PeopleTyped /\ LocalsTyped /\ AccountsFirst /\ ClaimsHeld /\ Justified
      /\ SuperFromSuper /\ Spent
  BY DEF StaffInv
<1>1. /\ UNCHANGED <<profile, roles, login, request, staffHistory>>
      /\ invite' = [invite EXCEPT ![i].at = "accepted"]
      /\ accepting' = [accepting EXCEPT ![k] = row]
      /\ invite[i].at = "pending" /\ accepting[k].at = "new"
  BY DEF ClaimInvitation, people, Acceptable, Fresh
<1>. DEFINE Row == [at : {"checked", "pending", "accepted", "revoked"}, to : Person,
                    roles : SUBSET Role, super : BOOLEAN]
            taken == [invite[i] EXCEPT !.at = "accepted"]
<1>2. invite[i] \in Row
  BY <1>0, <1>1 DEF LocalsTyped, InviteLocal, Fresh
<1>3. /\ taken \in Row /\ taken.at = "accepted" /\ taken.to = invite[i].to
      /\ taken.roles = invite[i].roles /\ (taken.super <=> invite[i].super)
  BY <1>2
<1>4. taken \in InviteLocal
  BY <1>3 DEF InviteLocal
<1>5. row \in AcceptLocal /\ row.at = "claimed" /\ row.of = i
  BY DEF AcceptLocal, AcceptRow
<1>6. invite'[i] = taken /\ \A x \in Invitation : x # i => invite'[x] = invite[x]
  BY <1>0, <1>1 DEF LocalsTyped
<1>7. accepting'[k] = row /\ \A l \in Acceptance : l # k => accepting'[l] = accepting[l]
  BY <1>0, <1>1 DEF LocalsTyped
<1>8. invite' \in [Invitation -> InviteLocal] /\ accepting' \in [Acceptance -> AcceptLocal]
  BY <1>0, <1>1, <1>4, <1>5 DEF LocalsTyped
<1>. HIDE DEF row, taken
<1>9. PeopleTyped' /\ LocalsTyped'
  BY <1>0, <1>1, <1>8 DEF PeopleTyped, LocalsTyped, staffHistory
<1>10. \A l \in Acceptance : Accepting(l)' <=> l = k \/ Accepting(l)
  BY <1>5, <1>7 DEF Accepting
\* The invitation was pending, so nobody held it and nobody had joined by it.
<1>11. \A l \in Acceptance : l # k /\ Accepting(l) => accepting[l].of \in Invitation \ {i}
  BY <1>0, <1>1, AcceptFields DEF ClaimsHeld
<1>12. \A x \in joined : x[2] \in Invitation \ {i}
  BY <1>0, <1>1 DEF Spent, PeopleTyped
<1>13. AccountsFirst'
  <2>1. \A l \in Acceptance : accepting'[l].at = "has account" =>
           /\ l # k /\ accepting[l].at = "has account" /\ accepting'[l].of = accepting[l].of
           /\ invite'[accepting'[l].of] = invite[accepting[l].of]
    BY <1>5, <1>6, <1>7, <1>11 DEF Accepting
  <2>2. UNCHANGED <<profile, login, request>>
    BY <1>1
  <2>. QED
    BY <1>0, <2>1, <2>2, AccountsKept
<1>14. ClaimsHeld'
  <2>1. \A l \in Acceptance : Accepting(l)' => invite'[accepting'[l].of].at = "accepted"
    BY <1>0, <1>3, <1>5, <1>6, <1>7, <1>10, <1>11 DEF ClaimsHeld
  <2>2. \A l, m \in Acceptance :
           Accepting(l)' /\ Accepting(m)' /\ accepting'[l].of = accepting'[m].of => l = m
    BY <1>0, <1>5, <1>7, <1>10, <1>11 DEF ClaimsHeld
  <2>3. \A x \in joined, l \in Acceptance : Accepting(l)' => accepting'[l].of # x[2]
    BY <1>0, <1>5, <1>7, <1>10, <1>12 DEF ClaimsHeld
  <2>. QED
    BY <1>1, <2>1, <2>2, <2>3 DEF ClaimsHeld, staffHistory
<1>15. Justified'
  <2>1. \A x \in Invitation :
           invite'[x].at # "new" /\ "super_admin" \in invite'[x].roles => invite'[x].super
    BY <1>0, <1>1, <1>3, <1>6 DEF Justified
  <2>2. UNCHANGED <<roles, request>>
    BY <1>1
  <2>. QED
    BY <1>0, <2>1, <2>2 DEF Justified
<1>16. SuperFromSuper'
  BY <1>0, <1>1 DEF SuperFromSuper, staffHistory
<1>17. Spent'
  <2>1. \A x \in joined : invite'[x[2]].at = "accepted"
    BY <1>0, <1>6, <1>12 DEF Spent
  <2>2. ASSUME ~halfJoined, NEW x \in Invitation, invite'[x].at = "accepted"
        PROVE  \/ \E y \in joined : y[2] = x
               \/ \E l \in Acceptance : Accepting(l)' /\ accepting'[l].of = x
    <3>1. CASE x = i
      BY <1>5, <1>7, <1>10, <3>1
    <3>2. CASE x # i
      <4>1. invite[x].at = "accepted"
        BY <1>6, <2>2, <3>2
      <4>2. \/ \E y \in joined : y[2] = x
            \/ \E l \in Acceptance : Accepting(l) /\ accepting[l].of = x
        BY <1>0, <2>2, <4>1 DEF Spent
      <4>3. \A l \in Acceptance : Accepting(l) => l # k
        BY <1>1 DEF Accepting
      <4>. QED
        BY <1>7, <1>10, <4>2, <4>3
    <3>. QED
      BY <3>1, <3>2
  <2>3. joined' = joined /\ halfJoined' = halfJoined
    BY <1>1 DEF staffHistory
  <2>. QED
    BY <1>0, <2>1, <2>2, <2>3 DEF Spent
<1>. QED
  BY <1>9, <1>13, <1>14, <1>15, <1>16, <1>17 DEF StaffInv

\* The claim is given back without a condition; whoever gives it back still
\* holds it, so nothing is revived that was used or revoked.
LEMMA ReopenKeepsInv ==
    ASSUME StaffInv, NEW k \in Acceptance, ReopenInvitation(k)
    PROVE  StaffInv'
<1>. DEFINE i == accepting[k].of
            Row == [at : {"checked", "pending", "accepted", "revoked"}, to : Person,
                    roles : SUBSET Role, super : BOOLEAN]
            open == [invite[i] EXCEPT !.at = "pending"]
<1>0. PeopleTyped /\ LocalsTyped /\ AccountsFirst /\ ClaimsHeld /\ Justified
      /\ SuperFromSuper /\ Spent
  BY DEF StaffInv
<1>1. /\ UNCHANGED <<profile, roles, login, request, staffHistory>>
      /\ invite' = [invite EXCEPT ![i].at = "pending"]
      /\ accepting' = [accepting EXCEPT ![k] = Over]
      /\ Accepting(k) /\ Over.at = "over"
  BY DEF ReopenInvitation, people, Accepting, Over
<1>2. i \in Invitation /\ invite[i].at = "accepted"
  BY <1>0, <1>1, AcceptFields DEF ClaimsHeld
<1>. HIDE DEF i
<1>3. invite[i] \in Row
  BY <1>0, <1>2 DEF LocalsTyped, InviteLocal, Fresh
<1>4. /\ open \in Row /\ open.at = "pending"
      /\ open.roles = invite[i].roles /\ (open.super <=> invite[i].super)
  BY <1>3
<1>5. open \in InviteLocal /\ Over \in AcceptLocal
  BY <1>4 DEF InviteLocal, AcceptLocal
<1>6. invite'[i] = open /\ \A x \in Invitation : x # i => invite'[x] = invite[x]
  BY <1>0, <1>1, <1>2 DEF LocalsTyped
<1>7. accepting'[k] = Over /\ \A l \in Acceptance : l # k => accepting'[l] = accepting[l]
  BY <1>0, <1>1 DEF LocalsTyped
<1>8. invite' \in [Invitation -> InviteLocal] /\ accepting' \in [Acceptance -> AcceptLocal]
  BY <1>0, <1>1, <1>5 DEF LocalsTyped
<1>. HIDE DEF open
<1>9. PeopleTyped' /\ LocalsTyped'
  BY <1>0, <1>1, <1>8 DEF PeopleTyped, LocalsTyped, staffHistory
<1>10. \A l \in Acceptance : Accepting(l)' <=> l # k /\ Accepting(l)
  BY <1>1, <1>7 DEF Accepting
<1>11. \A l \in Acceptance : l # k /\ Accepting(l) => accepting[l].of \in Invitation \ {i}
  BY <1>0, <1>1, AcceptFields DEF ClaimsHeld, i
<1>12. \A x \in joined : x[2] \in Invitation \ {i}
  BY <1>0, <1>1 DEF ClaimsHeld, PeopleTyped, i
<1>13. AccountsFirst'
  <2>1. \A l \in Acceptance : accepting'[l].at = "has account" =>
           /\ accepting[l].at = "has account" /\ accepting'[l].of = accepting[l].of
           /\ invite'[accepting'[l].of] = invite[accepting[l].of]
    BY <1>1, <1>6, <1>7, <1>11 DEF Accepting
  <2>2. UNCHANGED <<profile, login, request>>
    BY <1>1
  <2>. QED
    BY <1>0, <2>1, <2>2, AccountsKept
<1>14. ClaimsHeld'
  BY <1>0, <1>1, <1>6, <1>7, <1>10, <1>11, <1>12 DEF ClaimsHeld, staffHistory
<1>15. Justified'
  <2>1. \A x \in Invitation :
           invite'[x].at # "new" /\ "super_admin" \in invite'[x].roles => invite'[x].super
    BY <1>0, <1>2, <1>4, <1>6 DEF Justified
  <2>2. UNCHANGED <<roles, request>>
    BY <1>1
  <2>. QED
    BY <1>0, <2>1, <2>2 DEF Justified
<1>16. SuperFromSuper'
  BY <1>0, <1>1 DEF SuperFromSuper, staffHistory
<1>17. Spent'
  <2>1. \A x \in joined : invite'[x[2]].at = "accepted"
    BY <1>0, <1>6, <1>12 DEF Spent
  <2>2. ASSUME ~halfJoined, NEW x \in Invitation, invite'[x].at = "accepted"
        PROVE  \/ \E y \in joined : y[2] = x
               \/ \E l \in Acceptance : Accepting(l)' /\ accepting'[l].of = x
    <3>1. x # i /\ invite[x].at = "accepted"
      BY <1>4, <1>6, <2>2
    <3>2. \/ \E y \in joined : y[2] = x
          \/ \E l \in Acceptance : Accepting(l) /\ accepting[l].of = x
      BY <1>0, <2>2, <3>1 DEF Spent
    <3>3. \A l \in Acceptance : accepting[l].of = x => l # k
      BY <3>1 DEF i
    <3>. QED
      BY <1>7, <1>10, <3>2, <3>3
  <2>3. joined' = joined /\ halfJoined' = halfJoined
    BY <1>1 DEF staffHistory
  <2>. QED
    BY <1>0, <2>1, <2>2, <2>3 DEF Spent
<1>. QED
  BY <1>9, <1>13, <1>14, <1>15, <1>16, <1>17 DEF StaffInv

\* The batch fails after the account: the invitation is spent, and halfJoined
\* says that nobody joined by it.
LEMMA FailKeepsInv ==
    ASSUME StaffInv, NEW k \in Acceptance, FailToJoin(k)
    PROVE  StaffInv'
<1>0. PeopleTyped /\ LocalsTyped /\ AccountsFirst /\ ClaimsHeld /\ Justified
      /\ SuperFromSuper /\ Spent
  BY DEF StaffInv
<1>1. /\ UNCHANGED <<profile, roles, login, request, invite, joined, crossed, minted>>
      /\ accepting' = [accepting EXCEPT ![k] = Over]
      /\ halfJoined' = TRUE /\ Over.at = "over"
  BY DEF FailToJoin, people, Over
<1>2. accepting'[k] = Over /\ \A l \in Acceptance : l # k => accepting'[l] = accepting[l]
  BY <1>0, <1>1 DEF LocalsTyped
<1>3. accepting' \in [Acceptance -> AcceptLocal]
  BY <1>0, <1>1 DEF LocalsTyped, AcceptLocal
<1>4. PeopleTyped' /\ LocalsTyped'
  BY <1>0, <1>1, <1>3 DEF PeopleTyped, LocalsTyped
<1>5. \A l \in Acceptance : Accepting(l)' => l # k /\ Accepting(l)
  BY <1>1, <1>2 DEF Accepting
<1>6. AccountsFirst'
  <2>1. \A l \in Acceptance : accepting'[l].at = "has account" =>
           /\ accepting[l].at = "has account" /\ accepting'[l].of = accepting[l].of
           /\ invite'[accepting'[l].of] = invite[accepting[l].of]
    BY <1>1, <1>2
  <2>. QED
    BY <1>0, <1>1, <2>1, AccountsKept
<1>7. ClaimsHeld'
  BY <1>0, <1>1, <1>2, <1>5 DEF ClaimsHeld
<1>8. Justified' /\ SuperFromSuper' /\ Spent'
  BY <1>0, <1>1 DEF Justified, SuperFromSuper, Spent
<1>. QED
  BY <1>4, <1>6, <1>7, <1>8 DEF StaffInv

\* The new colleague had no profile, so no submission in flight is about them
\* and no other acceptance can make it.
LEMMA JoinKeepsInv ==
    ASSUME StaffInv, NEW k \in Acceptance, JoinStaff(k)
    PROVE  StaffInv'
<1>. DEFINE i == accepting[k].of
            p == invite[i].to
            new == <<k, i>>
<1>0. PeopleTyped /\ LocalsTyped /\ AccountsFirst /\ ClaimsHeld /\ Justified
      /\ SuperFromSuper /\ Spent
  BY DEF StaffInv
<1>1. /\ UNCHANGED <<login, request, invite, crossed, halfJoined>>
      /\ joined' = joined \cup {new}
      /\ accepting[k].at = "has account" /\ Accepting(k) /\ Over.at = "over"
  BY DEF JoinStaff, Accepting, Over
<1>21. /\ profile' = [profile EXCEPT ![p] = "active"]
       /\ roles' = [roles EXCEPT ![p] = invite[i].roles]
       /\ accepting' = [accepting EXCEPT ![k] = Over]
  BY DEF JoinStaff
<1>2. i \in Invitation /\ invite[i].at = "accepted"
  BY <1>0, <1>1, AcceptFields DEF ClaimsHeld
<1>3. p \in login /\ profile[p] = "none"
  BY <1>0, <1>1 DEF AccountsFirst
<1>4. minted' \in BOOLEAN
  BY Zenon DEF JoinStaff
<1>5. ~minted => ~minted'
  <2>1. invite[i].at # "new"
    BY <1>2
  <2>2. "super_admin" \in invite[i].roles => invite[i].super
    BY <1>0, <1>2, <2>1, Zenon DEF Justified
  <2>. QED
    BY <2>2, Zenon DEF JoinStaff
<1>6. new \in Acceptance \X Invitation /\ new[1] = k /\ new[2] = i
  BY <1>2
<1>. HIDE DEF i, new
<1>7. p \in Person /\ invite[i].roles \in SUBSET Role
  BY <1>0, <1>2, InviteFields
<1>. HIDE DEF p
<1>8. \A x \in Person : profile'[x] = IF x = p THEN "active" ELSE profile[x]
  BY <1>0, <1>7, <1>21 DEF PeopleTyped
<1>22. \A x \in Person : x # p => roles'[x] = roles[x]
  BY <1>0, <1>7, <1>21 DEF PeopleTyped
<1>9. accepting'[k] = Over /\ \A l \in Acceptance : l # k => accepting'[l] = accepting[l]
  BY <1>0, <1>21 DEF LocalsTyped
<1>10. \A l \in Acceptance : Accepting(l)' <=> l # k /\ Accepting(l)
  BY <1>1, <1>9 DEF Accepting
<1>11. PeopleTyped'
  BY <1>0, <1>1, <1>4, <1>6, <1>7, <1>21 DEF PeopleTyped, StaffStatus
<1>12. LocalsTyped'
  BY <1>0, <1>1, <1>21 DEF LocalsTyped, AcceptLocal
<1>13. \A q \in StaffRequest : InFlight(q) => request[q].of \in Person \ {p}
  BY <1>0, <1>3, RequestFields DEF AccountsFirst
<1>14. \A l \in Acceptance : accepting'[l].at = "has account" =>
          /\ l # k /\ accepting[l].at = "has account" /\ accepting'[l] = accepting[l]
          /\ invite[accepting[l].of].to # p
  BY <1>0, <1>1, <1>9 DEF AccountsFirst, i, p
<1>15. \A l \in Acceptance : accepting[l].at = "has account" => invite[accepting[l].of].to \in Person
  <2>1. \A l \in Acceptance : accepting[l].at = "has account" =>
           accepting[l].of \in Invitation /\ invite[accepting[l].of].at = "accepted"
    BY <1>0, AcceptFields DEF ClaimsHeld, Accepting
  <2>. QED
    BY <1>0, <2>1, InviteFields
<1>16. AccountsFirst'
  <2>1. \A x \in Person : profile'[x] # "none" => x \in login'
    BY <1>0, <1>1, <1>3, <1>8 DEF AccountsFirst
  <2>2. \A q \in StaffRequest : InFlight(q)' => profile'[request'[q].of] # "none"
    BY <1>0, <1>1, <1>8, <1>13 DEF AccountsFirst, InFlight
  <2>3. ASSUME NEW l \in Acceptance, accepting'[l].at = "has account"
        PROVE  /\ invite'[accepting'[l].of].to \in login'
               /\ profile'[invite'[accepting'[l].of].to] = "none"
    <3>. DEFINE o == invite[accepting[l].of].to
    <3>1. accepting[l].at = "has account" /\ invite'[accepting'[l].of].to = o /\ o # p /\ o \in Person
      BY <1>1, <1>14, <1>15, <2>3
    <3>2. o \in login /\ profile[o] = "none"
      BY <1>0, <3>1 DEF AccountsFirst
    <3>. HIDE DEF o
    <3>. QED
      BY <1>1, <1>8, <3>1, <3>2
  <2>4. ASSUME NEW l \in Acceptance, NEW m \in Acceptance,
               accepting'[l].at = "has account", accepting'[m].at = "has account",
               invite'[accepting'[l].of].to = invite'[accepting'[m].of].to
        PROVE  l = m
    <3>1. invite[accepting[l].of].to = invite[accepting[m].of].to
      BY <1>1, <1>14, <2>4
    <3>. QED
      BY <1>0, <1>14, <2>4, <3>1 DEF AccountsFirst
  <2>. QED
    BY <2>1, <2>2, <2>3, <2>4 DEF AccountsFirst
<1>17. ClaimsHeld'
  <2>1. \A l \in Acceptance : l # k /\ Accepting(l) => accepting[l].of # i
    BY <1>0, <1>1 DEF ClaimsHeld, i
  <2>2. \A l \in Acceptance : Accepting(l)' => invite'[accepting'[l].of].at = "accepted"
    BY <1>0, <1>1, <1>9, <1>10 DEF ClaimsHeld
  <2>3. \A l, m \in Acceptance :
           Accepting(l)' /\ Accepting(m)' /\ accepting'[l].of = accepting'[m].of => l = m
    BY <1>0, <1>9, <1>10 DEF ClaimsHeld
  <2>4. ASSUME NEW x \in joined', NEW l \in Acceptance, Accepting(l)'
        PROVE  accepting'[l].of # x[2]
    <3>1. l # k /\ Accepting(l) /\ accepting'[l].of = accepting[l].of
      BY <1>9, <1>10, <2>4
    <3>2. CASE x = new
      BY <1>6, <2>1, <3>1, <3>2
    <3>3. CASE x \in joined
      BY <1>0, <3>1, <3>3 DEF ClaimsHeld
    <3>. QED
      BY <1>1, <3>2, <3>3
  <2>. QED
    BY <2>2, <2>3, <2>4 DEF ClaimsHeld
<1>18. Justified'
  <2>1. \A q \in StaffRequest : request[q].at = "roles weighed" => roles'[request[q].of] = roles[request[q].of]
    BY <1>13, <1>22 DEF InFlight
  <2>. QED
    BY <1>0, <1>1, <2>1 DEF Justified
<1>19. SuperFromSuper'
  BY <1>0, <1>1, <1>5, Zenon DEF SuperFromSuper
<1>20. Spent'
  <2>1. \A x \in joined : x[2] # i
    BY <1>0, <1>1 DEF ClaimsHeld, i
  <2>2. \A x, y \in joined' : x[2] = y[2] => x = y
    BY <1>0, <1>1, <1>6, <2>1 DEF Spent
  <2>3. \A x \in joined' : invite'[x[2]].at = "accepted"
    BY <1>0, <1>1, <1>2, <1>6 DEF Spent
  <2>4. ASSUME ~halfJoined, NEW x \in Invitation, invite[x].at = "accepted"
        PROVE  \/ \E y \in joined' : y[2] = x
               \/ \E l \in Acceptance : Accepting(l)' /\ accepting'[l].of = x
    <3>1. CASE x = i
      BY <1>1, <1>6, <3>1
    <3>2. CASE x # i
      <4>1. \/ \E y \in joined : y[2] = x
            \/ \E l \in Acceptance : Accepting(l) /\ accepting[l].of = x
        BY <1>0, <2>4 DEF Spent
      <4>2. \A l \in Acceptance : accepting[l].of = x => l # k
        BY <3>2 DEF i
      <4>. QED
        BY <1>1, <1>9, <1>10, <4>1, <4>2
    <3>. QED
      BY <3>1, <3>2
  <2>. QED
    BY <1>1, <2>2, <2>3, <2>4 DEF Spent
<1>. QED
  BY <1>11, <1>12, <1>16, <1>17, <1>18, <1>19, <1>20 DEF StaffInv

-------------------------------------------------------------------------------
(* The theorems.                                                             *)

LEMMA StaffStep == StaffInv /\ [StaffNext]_staffVars => StaffInv'
<1>. SUFFICES ASSUME StaffInv, [StaffNext]_staffVars
              PROVE  StaffInv'
  OBVIOUS
<1>1. CASE UNCHANGED staffVars
  BY <1>1, SignInKeepsInv DEF staffVars, staffHistory
<1>2. ASSUME NEW p \in Person,
             \/ OpenSession(p) \/ RelaySession(p) \/ AnswerChallenge(p) \/ ConfirmIdentity(p)
             \/ \E a \in Person : RevokeSessions(a, p)
      PROVE  StaffInv'
  BY <1>2, SignInKeepsInv DEF OpenSession, RelaySession, AnswerChallenge, ConfirmIdentity, RevokeSessions
<1>3. ASSUME NEW i \in Invitation, LapseInvitation(i)
      PROVE  StaffInv'
  BY <1>3, SignInKeepsInv DEF LapseInvitation, people
<1>4. ASSUME NEW q \in StaffRequest, NEW p \in Person, NEW rs \in RoleChoice, JudgeRoles(q, p, rs)
      PROVE  StaffInv'
  BY <1>4, JudgeKeepsInv, StaffAssumption DEF StaffAssumption
<1>5. ASSUME NEW i \in Invitation, NEW a \in Person, NEW p \in Person, NEW rs \in RoleChoice,
             CheckInvitation(i, a, p, rs)
      PROVE  StaffInv'
  BY <1>5, CheckKeepsInv, StaffAssumption DEF StaffAssumption
<1>. QED
  BY <1>1, <1>2, <1>3, <1>4, <1>5, JudgeKeepsInv, AdmitKeepsInv, WeighKeepsInv, CommitStatusKeepsInv,
     CommitRolesKeepsInv, SendRevokeKeepInv, ClaimKeepsInv, LoginKeepsInv, ReopenKeepsInv,
     JoinKeepsInv, FailKeepsInv
     DEF StaffNext

LEMMA StaffInductive == StaffSpec => []StaffInv
  BY StaffInit_Inv, StaffStep, PTL DEF StaffSpec

\* Whoever becomes super_admin was made one by a super_admin, on the staff page
\* or by an invitation, unless a change in between overtook the page
\* (canGrantRole, inviteStaff, acceptInvitation).
THEOREM SuperMintedBySuper == StaffSpec => []SuperFromSuper
<1>1. StaffInv => SuperFromSuper
  BY DEF StaffInv
<1>. QED
  BY StaffInductive, <1>1, PTL

\* An invitation makes one colleague at most, however many submissions of its
\* link race, are refused and give their claim back (acceptInvitation).
THEOREM InvitationsSpentOnce == StaffSpec => []InvitationSpentOnce
<1>1. StaffInv => InvitationSpentOnce
  BY AcceptFields DEF StaffInv, Spent, InvitationSpentOnce
<1>. QED
  BY StaffInductive, <1>1, PTL

-------------------------------------------------------------------------------
(* The last administrator.                                                   *)

Admin(x) == profile[x] = "active" /\ "super_admin" \in roles[x]

\* Somebody is an administrator once submission q is written.
LeavesAdmin(q) ==
    LET j == request[q] IN
    \/ \E x \in Person : x # j.of /\ Admin(x)
    \/ /\ j.at \in {"status", "status admitted"}
       /\ j.to = "active" /\ "super_admin" \in roles[j.of]
    \/ /\ j.at \in {"roles", "roles admitted", "roles weighed"}
       /\ profile[j.of] = "active" /\ "super_admin" \in j.to

\* The guard was right when it judged, and stays right until it is overtaken.
StillLeavesAdmin == \A q \in StaffRequest : InFlight(q) /\ ~request[q].overtaken => LeavesAdmin(q)

\* A submission goes on about the same person, and nobody's rows move.
LEMMA AdminKept ==
    ASSUME StaffInv, StillLeavesAdmin, AdminRemains, UNCHANGED <<profile, roles, crossed>>,
           \A q \in StaffRequest : InFlight(q)' /\ ~request'[q].overtaken =>
              \/ /\ InFlight(q) /\ ~request[q].overtaken
                 /\ request'[q].of = request[q].of /\ request'[q].to = request[q].to
                 /\ \/ /\ request[q].at \in {"status", "status admitted"}
                       /\ request'[q].at \in {"status", "status admitted"}
                    \/ /\ request[q].at \in {"roles", "roles admitted", "roles weighed"}
                       /\ request'[q].at \in {"roles", "roles admitted", "roles weighed"}
              \/ LeavesAdmin(q)'
    PROVE  StillLeavesAdmin' /\ AdminRemains'
<1>1. AdminRemains'
  BY DEF AdminRemains
<1>2. ASSUME NEW q \in StaffRequest, InFlight(q)', ~request'[q].overtaken
      PROVE  LeavesAdmin(q)'
  <2>1. CASE /\ InFlight(q) /\ ~request[q].overtaken
             /\ request'[q].of = request[q].of /\ request'[q].to = request[q].to
             /\ \/ /\ request[q].at \in {"status", "status admitted"}
                   /\ request'[q].at \in {"status", "status admitted"}
                \/ /\ request[q].at \in {"roles", "roles admitted", "roles weighed"}
                   /\ request'[q].at \in {"roles", "roles admitted", "roles weighed"}
    <3>1. LeavesAdmin(q)
      BY <2>1 DEF StillLeavesAdmin
    <3>. QED
      BY <2>1, <3>1 DEF LeavesAdmin, Admin
  <2>. QED
    BY <1>2, <2>1
<1>. QED
  BY <1>1, <1>2 DEF StillLeavesAdmin

LEMMA RequestKeepsAdmin ==
    ASSUME StaffInv, StillLeavesAdmin, AdminRemains, NEW q \in StaffRequest,
           \/ \E p \in Person, s \in StaffStatus : JudgeStatus(q, p, s)
           \/ \E p \in Person, rs \in SUBSET Role : JudgeRoles(q, p, rs)
           \/ \E a \in Person : AdmitStatus(q, a) \/ AdmitRoles(q, a)
           \/ WeighRoles(q)
    PROVE  StillLeavesAdmin' /\ AdminRemains'
<1>0. LocalsTyped /\ \A x \in StaffRequest : InFlight(x) => request[x].overtaken \in BOOLEAN
  BY RequestFields DEF StaffInv
<1>1. ASSUME NEW p \in Person, NEW s \in StaffStatus, JudgeStatus(q, p, s)
      PROVE  StillLeavesAdmin' /\ AdminRemains'
  <2>1. UNCHANGED <<profile, roles, crossed>>
    BY <1>1 DEF JudgeStatus, Judge, people, staffHistory
  <2>2. \A x \in StaffRequest : request'[x] = IF x = q
           THEN [at |-> "status", of |-> p, to |-> s, overtaken |-> FALSE] ELSE request[x]
    BY <1>0, <1>1 DEF JudgeStatus, Judge, LocalsTyped
  <2>3. \E x \in Person : IF x = p THEN s = "active" /\ "super_admin" \in roles[p] ELSE Admin(x)
    BY <1>1 DEF JudgeStatus, Judge, WouldOrphan, ActiveAdmins, IsUsableStatus, Admin
  <2>4. \E x \in Person : IF x = p THEN s = "active" /\ "super_admin" \in roles'[p] ELSE Admin(x)'
    BY <2>1, <2>3 DEF Admin
  <2>5. request'[q].at = "status" /\ request'[q].of = p /\ request'[q].to = s
    BY <2>2
  <2>6. LeavesAdmin(q)'
    BY <2>4, <2>5 DEF LeavesAdmin
  <2>7. \A x \in StaffRequest : x # q => request'[x] = request[x]
    BY <2>2
  <2>. QED
    BY <1>0, <2>1, <2>6, <2>7, AdminKept, RequestFields DEF InFlight
<1>2. ASSUME NEW p \in Person, NEW rs \in SUBSET Role, JudgeRoles(q, p, rs)
      PROVE  StillLeavesAdmin' /\ AdminRemains'
  <2>1. UNCHANGED <<profile, roles, crossed>>
    BY <1>2 DEF JudgeRoles, Judge, people, staffHistory
  <2>2. \A x \in StaffRequest : request'[x] = IF x = q
           THEN [at |-> "roles", of |-> p, to |-> rs, overtaken |-> FALSE] ELSE request[x]
    BY <1>0, <1>2 DEF JudgeRoles, Judge, LocalsTyped
  <2>3. \E x \in Person : IF x = p THEN profile[p] = "active" /\ "super_admin" \in rs ELSE Admin(x)
    BY <1>2 DEF JudgeRoles, Judge, WouldOrphan, ActiveAdmins, IsUsableStatus, Admin
  <2>4. \E x \in Person : IF x = p THEN profile'[p] = "active" /\ "super_admin" \in rs ELSE Admin(x)'
    BY <2>1, <2>3 DEF Admin
  <2>5. request'[q].at = "roles" /\ request'[q].of = p /\ request'[q].to = rs
    BY <2>2
  <2>6. LeavesAdmin(q)'
    BY <2>4, <2>5 DEF LeavesAdmin
  <2>7. \A x \in StaffRequest : x # q => request'[x] = request[x]
    BY <2>2
  <2>. QED
    BY <1>0, <2>1, <2>6, <2>7, AdminKept, RequestFields DEF InFlight
<1>3. ASSUME NEW a \in Person, AdmitStatus(q, a) \/ AdmitRoles(q, a)
      PROVE  StillLeavesAdmin' /\ AdminRemains'
  <2>1. UNCHANGED <<profile, roles, crossed>>
    BY <1>3 DEF AdmitStatus, AdmitRoles, people, staffHistory
  <2>2. InFlight(q)
    BY <1>3 DEF AdmitStatus, AdmitRoles, InFlight
  <2>3. /\ request'[q].of = request[q].of /\ request'[q].to = request[q].to
        /\ request'[q].overtaken = request[q].overtaken
        /\ \/ request[q].at = "status" /\ request'[q].at = "status admitted"
           \/ request[q].at = "roles" /\ request'[q].at = "roles admitted"
    <3>1. CASE AdmitStatus(q, a)
      <4>1. request[q] \in StatusLocal /\ request[q].at = "status"
        BY <1>0, <2>2, <3>1, RequestFields DEF AdmitStatus
      <4>. QED
        BY <1>0, <3>1, <4>1 DEF AdmitStatus, LocalsTyped, StatusLocal
    <3>2. CASE AdmitRoles(q, a)
      BY <1>0, <3>2 DEF AdmitRoles, LocalsTyped
    <3>. QED
      BY <1>3, <3>1, <3>2
  <2>4. \A x \in StaffRequest : x # q => request'[x] = request[x]
    BY <1>0, <1>3 DEF AdmitStatus, AdmitRoles, LocalsTyped
  <2>. QED
    BY <1>0, <2>1, <2>2, <2>3, <2>4, AdminKept, RequestFields DEF InFlight
<1>4. CASE WeighRoles(q)
  <2>1. UNCHANGED <<profile, roles, crossed>>
    BY <1>4 DEF WeighRoles, people, staffHistory
  <2>2. InFlight(q) /\ request[q] \in WeighedLocal /\ request[q].at = "roles admitted"
    BY <1>0, <1>4, RequestFields DEF WeighRoles, InFlight
  <2>3. \/ request'[q] = Over
        \/ request'[q] = [request[q] EXCEPT !.at = "roles weighed"]
    BY <1>0, <1>4 DEF WeighRoles, LocalsTyped
  <2>4. Over.at = "over"
    BY DEF Over
  <2>5. \/ ~InFlight(q)'
        \/ /\ request'[q].of = request[q].of /\ request'[q].to = request[q].to
           /\ request'[q].overtaken = request[q].overtaken /\ request'[q].at = "roles weighed"
    BY <2>2, <2>3, <2>4 DEF InFlight, WeighedLocal
  <2>6. \A x \in StaffRequest : x # q => request'[x] = request[x]
    BY <1>0, <1>4 DEF WeighRoles, LocalsTyped
  <2>. QED
    BY <1>0, <2>1, <2>2, <2>5, <2>6, AdminKept, RequestFields DEF InFlight
<1>. QED
  BY <1>1, <1>2, <1>3, <1>4

\* Whoever writes without having been overtaken leaves an administrator, and
\* everything else in flight is overtaken.
LEMMA CommitKeepsAdmin ==
    ASSUME StaffInv, StillLeavesAdmin, AdminRemains, NEW q \in StaffRequest,
           CommitStatus(q) \/ CommitRoles(q)
    PROVE  StillLeavesAdmin' /\ AdminRemains'
<1>. DEFINE j == request[q]
<1>0. PeopleTyped /\ LocalsTyped
  BY DEF StaffInv
<1>1. InFlight(q) /\ Overtake(q)
  BY DEF CommitStatus, CommitRoles, InFlight
<1>2. StillLeavesAdmin'
  BY <1>0, <1>1, OvertakeEffect DEF StillLeavesAdmin
<1>3. crossed \/ j.overtaken => crossed'
  BY Zenon DEF CommitStatus, CommitRoles
<1>4. j.of \in Person /\ j.overtaken \in BOOLEAN
  BY <1>0, <1>1, RequestFields
<1>5. ASSUME ~j.overtaken
      PROVE  \E x \in Person : Admin(x)'
  <2>1. LeavesAdmin(q)
    BY <1>1, <1>5 DEF StillLeavesAdmin
  <2>2. CASE CommitStatus(q)
    <3>1. j.at = "status admitted" /\ roles' = roles
      BY <2>2 DEF CommitStatus
    <3>2. \A x \in Person : profile'[x] = IF x = j.of THEN j.to ELSE profile[x]
      BY <1>0, <2>2 DEF CommitStatus, PeopleTyped
    <3>. QED
      BY <1>4, <2>1, <3>1, <3>2 DEF LeavesAdmin, Admin
  <2>3. CASE CommitRoles(q)
    <3>1. j.at = "roles weighed" /\ profile' = profile
      BY <2>3 DEF CommitRoles
    <3>2. \A x \in Person : roles'[x] = IF x = j.of THEN j.to ELSE roles[x]
      BY <1>0, <2>3 DEF CommitRoles, PeopleTyped
    <3>. QED
      BY <1>4, <2>1, <3>1, <3>2 DEF LeavesAdmin, Admin
  <2>. QED
    BY <2>2, <2>3
<1>6. AdminRemains'
  BY <1>3, <1>4, <1>5 DEF AdminRemains, Admin
<1>. QED
  BY <1>2, <1>6

\* A new colleague takes nobody's role away.
LEMMA JoinKeepsAdmin ==
    ASSUME StaffInv, StillLeavesAdmin, AdminRemains, NEW k \in Acceptance, JoinStaff(k)
    PROVE  StillLeavesAdmin' /\ AdminRemains'
<1>. DEFINE i == accepting[k].of
            p == invite[i].to
<1>0. PeopleTyped /\ LocalsTyped /\ AccountsFirst /\ ClaimsHeld
  BY DEF StaffInv
<1>1. /\ UNCHANGED <<request, crossed>>
      /\ accepting[k].at = "has account" /\ Accepting(k)
      /\ profile' = [profile EXCEPT ![p] = "active"]
      /\ roles' = [roles EXCEPT ![p] = invite[i].roles]
  BY DEF JoinStaff, Accepting
<1>2. profile[p] = "none"
  BY <1>0, <1>1 DEF AccountsFirst
<1>3. i \in Invitation /\ invite[i].at = "accepted"
  BY <1>0, <1>1, AcceptFields DEF ClaimsHeld
<1>. HIDE DEF i
<1>4. p \in Person
  BY <1>0, <1>3, InviteFields
<1>. HIDE DEF p
<1>5. \A x \in Person : x # p => profile'[x] = profile[x] /\ roles'[x] = roles[x]
  BY <1>0, <1>1, <1>4 DEF PeopleTyped
<1>6. \A x \in Person : Admin(x) => Admin(x)'
  BY <1>2, <1>5 DEF Admin
<1>7. \A q \in StaffRequest : InFlight(q) => request[q].of \in Person /\ request[q].of # p
  BY <1>0, <1>2, RequestFields DEF AccountsFirst
<1>8. ASSUME NEW q \in StaffRequest, InFlight(q), ~request[q].overtaken
      PROVE  LeavesAdmin(q)'
  <2>1. LeavesAdmin(q) /\ request'[q] = request[q]
    BY <1>1, <1>8 DEF StillLeavesAdmin
  <2>2. profile'[request[q].of] = profile[request[q].of] /\ roles'[request[q].of] = roles[request[q].of]
    BY <1>5, <1>7, <1>8
  <2>. QED
    BY <1>6, <2>1, <2>2 DEF LeavesAdmin
<1>9. StillLeavesAdmin'
  <2>1. \A q \in StaffRequest : InFlight(q)' /\ ~request'[q].overtaken => InFlight(q) /\ ~request[q].overtaken
    BY <1>1 DEF InFlight
  <2>. QED
    BY <1>8, <2>1 DEF StillLeavesAdmin
<1>10. AdminRemains'
  <2>1. crossed' = crossed
    BY <1>1
  <2>. QED
    BY <1>6, <2>1 DEF AdminRemains, Admin
<1>. QED
  BY <1>9, <1>10

LEMMA AdminStep ==
    StaffInv /\ StillLeavesAdmin /\ AdminRemains /\ [StaffNext]_staffVars
    => StillLeavesAdmin' /\ AdminRemains'
<1>. SUFFICES ASSUME StaffInv, StillLeavesAdmin, AdminRemains, [StaffNext]_staffVars
              PROVE  StillLeavesAdmin' /\ AdminRemains'
  OBVIOUS
<1>1. CASE UNCHANGED <<profile, roles, crossed, request>>
  <2>1. \A q \in StaffRequest : InFlight(q)' /\ ~request'[q].overtaken => LeavesAdmin(q)'
    BY <1>1 DEF StillLeavesAdmin, LeavesAdmin, Admin, InFlight
  <2>. QED
    BY <1>1, <2>1 DEF StillLeavesAdmin, AdminRemains
<1>2. ASSUME NEW p \in Person,
             \/ OpenSession(p) \/ RelaySession(p) \/ AnswerChallenge(p) \/ ConfirmIdentity(p)
             \/ \E a \in Person : RevokeSessions(a, p)
      PROVE  StillLeavesAdmin' /\ AdminRemains'
  BY <1>1, <1>2 DEF OpenSession, RelaySession, AnswerChallenge, ConfirmIdentity, RevokeSessions, staffHistory
<1>3. ASSUME NEW i \in Invitation,
             \/ \E a, p \in Person, rs \in RoleChoice : CheckInvitation(i, a, p, rs)
             \/ SendInvitation(i) \/ LapseInvitation(i) \/ \E a \in Person : RevokeInvitation(i, a)
      PROVE  StillLeavesAdmin' /\ AdminRemains'
  BY <1>1, <1>3 DEF CheckInvitation, SendInvitation, LapseInvitation, RevokeInvitation, people, staffHistory
<1>4. ASSUME NEW k \in Acceptance,
             \/ \E i \in Invitation : ClaimInvitation(k, i)
             \/ CreateLogin(k) \/ RefuseLogin(k) \/ ReopenInvitation(k) \/ FailToJoin(k)
      PROVE  StillLeavesAdmin' /\ AdminRemains'
  BY <1>1, <1>4 DEF ClaimInvitation, CreateLogin, RefuseLogin, ReopenInvitation, FailToJoin, people, staffHistory
<1>5. ASSUME NEW q \in StaffRequest, NEW p \in Person, NEW rs \in RoleChoice, JudgeRoles(q, p, rs)
      PROVE  StillLeavesAdmin' /\ AdminRemains'
  BY <1>5, RequestKeepsAdmin, StaffAssumption DEF StaffAssumption
<1>6. CASE UNCHANGED staffVars
  BY <1>1, <1>6 DEF staffVars
<1>. QED
  BY <1>2, <1>3, <1>4, <1>5, <1>6, RequestKeepsAdmin, CommitKeepsAdmin, JoinKeepsAdmin DEF StaffNext

\* However statuses and roles are changed, and by however many people at once,
\* an administrator who can sign in is left, unless a change was overtaken by
\* another between its guard and its write (wouldOrphanSuperAdmins).
THEOREM AdministratorRemains == StaffSpec => []AdminRemains
<1>1. StaffInit => StillLeavesAdmin /\ AdminRemains
  <2>. SUFFICES ASSUME StaffInit
                PROVE  StillLeavesAdmin /\ AdminRemains
    OBVIOUS
  <2>1. StillLeavesAdmin
    BY DEF StaffInit, StillLeavesAdmin, InFlight, Fresh
  <2>2. AdminRemains
    BY StaffAssumption DEF StaffInit, AdminRemains, StaffAssumption
  <2>. QED
    BY <2>1, <2>2
<1>2. /\ StaffInv /\ StillLeavesAdmin /\ AdminRemains /\ [StaffNext]_staffVars
      => StillLeavesAdmin' /\ AdminRemains'
  BY AdminStep
<1>. QED
  BY <1>1, <1>2, StaffInductive, PTL DEF StaffSpec

-------------------------------------------------------------------------------
(* Sessions.                                                                 *)

SessionInv == session \in [Person -> {"none", "opened", "relayed"}] /\ SessionsOfTheActive

LEMMA SessionStep == StaffInv /\ SessionInv /\ [StaffNext]_staffVars => SessionInv'
<1>. SUFFICES ASSUME StaffInv, SessionInv, [StaffNext]_staffVars
              PROVE  SessionInv'
  OBVIOUS
<1>. USE DEF SessionInv, SessionsOfTheActive
<1>0. PeopleTyped /\ LocalsTyped
  BY DEF StaffInv
<1>1. CASE UNCHANGED <<profile, session, unasked>>
  BY <1>1
<1>2. ASSUME NEW p \in Person,
             \/ OpenSession(p) \/ RelaySession(p) \/ AnswerChallenge(p)
             \/ \E a \in Person : RevokeSessions(a, p)
      PROVE  SessionInv'
  BY <1>2 DEF OpenSession, RelaySession, AnswerChallenge, RevokeSessions
<1>3. ASSUME NEW q \in StaffRequest, CommitStatus(q)
      PROVE  SessionInv'
  <2>. DEFINE j == request[q]
  <2>1. j.of \in Person /\ j.to \in StaffStatus
    BY <1>0, <1>3, RequestFields DEF CommitStatus, InFlight
  <2>2. /\ profile' = [profile EXCEPT ![j.of] = j.to]
        /\ session' = IF j.to = "active" THEN session ELSE [session EXCEPT ![j.of] = "none"]
        /\ unasked' = unasked \ {j.of}
    BY <1>3 DEF CommitStatus, SessionsAfter, IsUsableStatus
  <2>. HIDE DEF j
  <2>. QED
    BY <1>0, <2>1, <2>2 DEF PeopleTyped
<1>4. ASSUME NEW q \in StaffRequest, CommitRoles(q)
      PROVE  SessionInv'
  <2>1. request[q].of \in Person
    BY <1>0, <1>4, RequestFields DEF CommitRoles, InFlight
  <2>. QED
    BY <1>4, <2>1 DEF CommitRoles
<1>5. ASSUME NEW k \in Acceptance, JoinStaff(k)
      PROVE  SessionInv'
  <2>. DEFINE p == invite[accepting[k].of].to
  <2>1. /\ profile' = [profile EXCEPT ![p] = "active"]
        /\ session' = [session EXCEPT ![p] = "relayed"]
        /\ unasked' = unasked \ {p}
    BY <1>5 DEF JoinStaff
  <2>. HIDE DEF p
  <2>. QED
    BY <1>0, <2>1 DEF PeopleTyped
<1>6. ASSUME NEW p \in Person, ConfirmIdentity(p)
      PROVE  SessionInv'
  BY <1>1, <1>6 DEF ConfirmIdentity
<1>7. ASSUME NEW q \in StaffRequest,
             \/ \E p \in Person, s \in StaffStatus : JudgeStatus(q, p, s)
             \/ \E p \in Person, rs \in RoleChoice : JudgeRoles(q, p, rs)
             \/ \E a \in Person : AdmitStatus(q, a) \/ AdmitRoles(q, a)
             \/ WeighRoles(q)
      PROVE  SessionInv'
  BY <1>1, <1>7 DEF JudgeStatus, JudgeRoles, Judge, AdmitStatus, AdmitRoles, WeighRoles, people
<1>8. ASSUME NEW i \in Invitation,
             \/ \E a, p \in Person, rs \in RoleChoice : CheckInvitation(i, a, p, rs)
             \/ SendInvitation(i) \/ LapseInvitation(i) \/ \E a \in Person : RevokeInvitation(i, a)
      PROVE  SessionInv'
  BY <1>1, <1>8 DEF CheckInvitation, SendInvitation, LapseInvitation, RevokeInvitation, people
<1>9. ASSUME NEW k \in Acceptance,
             \/ \E i \in Invitation : ClaimInvitation(k, i)
             \/ CreateLogin(k) \/ RefuseLogin(k) \/ ReopenInvitation(k) \/ FailToJoin(k)
      PROVE  SessionInv'
  BY <1>1, <1>9 DEF ClaimInvitation, CreateLogin, RefuseLogin, ReopenInvitation, FailToJoin, people
<1>10. CASE UNCHANGED staffVars
  BY <1>1, <1>10 DEF staffVars
<1>. QED
  BY <1>2, <1>3, <1>4, <1>5, <1>6, <1>7, <1>8, <1>9, <1>10 DEF StaffNext

\* Whoever has a session a browser can use is active, or has entered a code since
\* that made it: losing the status closes the sessions in the same batch, and a
\* sign-in by password alone asks again before it hands its session over
\* (staff-detail.tsx, login.tsx; security-2fa-verify.tsx does not ask).
THEOREM SessionsStayActive == StaffSpec => []SessionsOfTheActive
<1>1. StaffInit => SessionInv
  BY DEF StaffInit, SessionInv, SessionsOfTheActive
<1>2. SessionInv => SessionsOfTheActive
  BY DEF SessionInv
<1>. QED
  BY <1>1, <1>2, SessionStep, StaffInductive, PTL DEF StaffSpec

-------------------------------------------------------------------------------
(* Staff, one change at a time.                                              *)

\* No change of a colleague is weighed while another is under way.
OneChangeAtATime == \A q, r \in StaffRequest : InFlight(q) /\ InFlight(r) => q = r

NothingOvertaken == ~crossed /\ \A q \in StaffRequest : InFlight(q) => ~request[q].overtaken

LEMMA CommitOvertakesNone ==
    ASSUME StaffInv, NothingOvertaken, OneChangeAtATime, NEW q \in StaffRequest, InFlight(q),
           Overtake(q), crossed' = (crossed \/ request[q].overtaken)
    PROVE  NothingOvertaken'
<1>1. ~crossed'
  BY DEF NothingOvertaken
<1>2. ASSUME NEW x \in StaffRequest
      PROVE  request'[x].at \in {"new", "over"}
  <2>1. CASE x = q
    BY <2>1 DEF Overtake, Over
  <2>2. CASE x # q
    <3>1. ~InFlight(x) /\ request[x] \in RequestLocal
      BY <2>2 DEF OneChangeAtATime, StaffInv, LocalsTyped
    <3>2. request[x] \notin StatusLocal \cup RolesLocal \cup WeighedLocal
      BY <3>1 DEF InFlight, StatusLocal, RolesLocal, WeighedLocal
    <3>3. request[x] \in {Fresh, Over}
      BY <3>1, <3>2, Zenon DEF RequestLocal
    <3>. QED
      BY <2>2, <3>3 DEF Overtake, Fresh, Over
  <2>. QED
    BY <2>1, <2>2
<1>. QED
  BY <1>1, <1>2 DEF NothingOvertaken, InFlight

LEMMA StaffOneByOne ==
    StaffInv /\ NothingOvertaken /\ OneChangeAtATime /\ [StaffNext]_staffVars => NothingOvertaken'
<1>. SUFFICES ASSUME StaffInv, NothingOvertaken, OneChangeAtATime, [StaffNext]_staffVars
              PROVE  NothingOvertaken'
  OBVIOUS
<1>0. LocalsTyped
  BY DEF StaffInv
<1>1. CASE UNCHANGED <<request, crossed>>
  BY <1>1 DEF NothingOvertaken, InFlight
<1>2. ASSUME NEW q \in StaffRequest, NEW local, request' = [request EXCEPT ![q] = local], crossed' = crossed,
             local.at \in {"new", "over"} \/ ~local.overtaken
      PROVE  NothingOvertaken'
  BY <1>0, <1>2 DEF LocalsTyped, NothingOvertaken, InFlight
<1>3. ASSUME NEW q \in StaffRequest,
             \/ \E p \in Person, s \in StaffStatus : JudgeStatus(q, p, s)
             \/ \E p \in Person, rs \in RoleChoice : JudgeRoles(q, p, rs)
      PROVE  NothingOvertaken'
  BY <1>2, <1>3 DEF JudgeStatus, JudgeRoles, Judge, staffHistory
<1>4. ASSUME NEW q \in StaffRequest, NEW a \in Person, AdmitStatus(q, a) \/ AdmitRoles(q, a)
      PROVE  NothingOvertaken'
  <2>1. InFlight(q) /\ ~request[q].overtaken
    BY <1>4 DEF AdmitStatus, AdmitRoles, InFlight, NothingOvertaken
  <2>2. CASE AdmitStatus(q, a)
    <3>1. request[q] \in StatusLocal
      BY <1>0, <2>1, <2>2, RequestFields DEF AdmitStatus, RolesLocal, WeighedLocal
    <3>2. ~[request[q] EXCEPT !.at = "status admitted"].overtaken
      BY <2>1, <3>1 DEF StatusLocal
    <3>. QED
      BY <1>2, <2>2, <3>2 DEF AdmitStatus, staffHistory
  <2>3. CASE AdmitRoles(q, a)
    BY <1>2, <2>1, <2>3 DEF AdmitRoles, staffHistory
  <2>. QED
    BY <1>4, <2>2, <2>3
<1>5. ASSUME NEW q \in StaffRequest, WeighRoles(q)
      PROVE  NothingOvertaken'
  <2>1. InFlight(q) /\ ~request[q].overtaken
    BY <1>5 DEF WeighRoles, InFlight, NothingOvertaken
  <2>2. request[q] \in WeighedLocal
    BY <1>0, <1>5, <2>1, RequestFields DEF WeighRoles
  <2>3. ~[request[q] EXCEPT !.at = "roles weighed"].overtaken /\ Over.at = "over"
    BY <2>1, <2>2 DEF WeighedLocal, Over
  <2>. QED
    BY <1>2, <1>5, <2>3 DEF WeighRoles, staffHistory
<1>6. ASSUME NEW q \in StaffRequest, CommitStatus(q) \/ CommitRoles(q)
      PROVE  NothingOvertaken'
  BY <1>6, CommitOvertakesNone DEF CommitStatus, CommitRoles, InFlight
<1>7. ASSUME NEW p \in Person,
             \/ OpenSession(p) \/ RelaySession(p) \/ AnswerChallenge(p) \/ ConfirmIdentity(p)
             \/ \E a \in Person : RevokeSessions(a, p)
      PROVE  NothingOvertaken'
  BY <1>1, <1>7 DEF OpenSession, RelaySession, AnswerChallenge, ConfirmIdentity, RevokeSessions, staffHistory
<1>8. ASSUME NEW i \in Invitation,
             \/ \E a, p \in Person, rs \in RoleChoice : CheckInvitation(i, a, p, rs)
             \/ SendInvitation(i) \/ LapseInvitation(i) \/ \E a \in Person : RevokeInvitation(i, a)
      PROVE  NothingOvertaken'
  BY <1>1, <1>8 DEF CheckInvitation, SendInvitation, LapseInvitation, RevokeInvitation, staffHistory
<1>9. ASSUME NEW k \in Acceptance,
             \/ \E i \in Invitation : ClaimInvitation(k, i)
             \/ CreateLogin(k) \/ RefuseLogin(k) \/ ReopenInvitation(k) \/ JoinStaff(k) \/ FailToJoin(k)
      PROVE  NothingOvertaken'
  BY <1>1, <1>9 DEF ClaimInvitation, CreateLogin, RefuseLogin, ReopenInvitation, JoinStaff, FailToJoin, staffHistory
<1>10. CASE UNCHANGED staffVars
  BY <1>1, <1>10 DEF staffVars
<1>. QED
  BY <1>3, <1>4, <1>5, <1>6, <1>7, <1>8, <1>9, <1>10 DEF StaffNext

\* The overlap of two changes is all that can take the last administrator: when
\* staff change each other one after the other, somebody active is super_admin
\* and nobody but a super_admin makes one, without an exception (staff-guards.ts).
THEOREM OneByOneAdministratorStays ==
    StaffSpec /\ []OneChangeAtATime =>
        []((\E p \in Person : profile[p] = "active" /\ "super_admin" \in roles[p]) /\ ~minted)
<1>1. StaffInit => NothingOvertaken
  BY DEF StaffInit, NothingOvertaken, InFlight, Fresh
<1>2. NothingOvertaken /\ AdminRemains /\ SuperFromSuper
      => (\E p \in Person : profile[p] = "active" /\ "super_admin" \in roles[p]) /\ ~minted
  BY DEF NothingOvertaken, AdminRemains, SuperFromSuper
<1>. QED
  BY <1>1, <1>2, StaffOneByOne, StaffInductive, AdministratorRemains, SuperMintedBySuper, PTL DEF StaffSpec
===============================================================================
