------------------------------ MODULE StockLedger ------------------------------
(***************************************************************************)
(* What staff do to the shelves of one variant, beside the orders that     *)
(* hold and buy from them:                                                 *)
(*                                                                         *)
(*   stock adjustments        app/routes/admin/inventory.tsx               *)
(*   locations and transfers  app/routes/admin/inventory-transfers.tsx     *)
(*   a new variant            app/application/commands/create-product.ts   *)
(*                                                                         *)
(* Adjusting, sending and receiving all read a level, compute in the       *)
(* handler, and write the result as an absolute number.  Variants do not   *)
(* share a row, so one is enough.  A request's local variables are a       *)
(* record; a request that has not read yet, or is over, has None.          *)
(***************************************************************************)
EXTENDS Integers, FiniteSets, FiniteSetsExt

CONSTANTS
    Location,       \* the locations that may exist
    OldLocations,   \* those that exist at the start
    FirstLocation,  \* the one a new variant is stocked at, and sold from
    Adjustment,     \* submissions of the adjustment form
    Counted,        \* the quantities staff type
    Transfer,       \* submissions of the transfer form; they name the transfers
    Sent,           \* the quantities staff send
    Reception,      \* clicks on "received"
    Hold,           \* orders for the variant
    HoldQty,        \* units in one order
    NoRow

ASSUME StockLedgerAssumption ==
    /\ OldLocations \subseteq Location
    /\ FirstLocation \in OldLocations
    /\ Counted \subseteq Nat
    /\ Sent \subseteq Nat \ {0}
    /\ HoldQty \in Nat \ {0}
    /\ IsFiniteSet(Location) /\ IsFiniteSet(Transfer) /\ IsFiniteSet(Hold)
    /\ NoRow \notin Location \cup Transfer \cup Int

VARIABLES
    place,      \* the locations that exist
    onShelf,    \* onShelf[l]: on_hand of the level at l, NoRow when there is none
    promised,   \* promised[l]: reserved of the level at l
    adjusted,   \* adjusted[l]: sum of the manual_adjustment movements at l
    carried,    \* carried[l]: sum of the transfer_out and transfer_in movements at l
    opened,     \* opened[l]: units a new level was created with
    soldAt,     \* soldAt[l]: units sold from l
    adjusting,  \* adjusting[a]: locals of an adjustment
    transfer,   \* transfer[t]: the stock_transfers row, and its sender's locals
    receiving,  \* receiving[r]: locals of a reception
    hold,       \* hold[o]: none, active, sold or returned
    raced       \* history: some write used a level or a status no longer true

shelves == <<place, onShelf, promised>>
books   == <<adjusted, carried, opened, soldAt>>
ledgerVars == <<place, onShelf, promised, adjusted, carried, opened, soldAt, adjusting,
                transfer, receiving, hold, raced>>

Has(l) == onShelf[l] # NoRow

\* The CHECKs of inventory_levels; a batch that breaks one is rolled back whole.
LevelHolds_NoCeiling(units, held) == 0 <= held
LevelHolds(units, held) == 0 <= held /\ held <= units

Idle     == [at |-> "idle"]
Finished == [at |-> "over"]

LedgerInit ==
    /\ place = OldLocations
    /\ onShelf = [l \in Location |-> NoRow]
    /\ promised = [l \in Location |-> 0]
    /\ adjusted = [l \in Location |-> 0]
    /\ carried = [l \in Location |-> 0]
    /\ opened = [l \in Location |-> 0]
    /\ soldAt = [l \in Location |-> 0]
    /\ adjusting = [a \in Adjustment |-> Idle]
    /\ transfer = [t \in Transfer |-> Idle]
    /\ receiving = [r \in Reception |-> Idle]
    /\ hold = [o \in Hold |-> "none"]
    /\ raced = FALSE

\* A new variant gets its level in the batch that creates it, with no movement.
StockNewVariant(n) ==
    /\ \A l \in Location : ~Has(l)
    /\ onShelf' = [onShelf EXCEPT ![FirstLocation] = n]
    /\ opened' = [opened EXCEPT ![FirstLocation] = n]
    /\ UNCHANGED <<place, promised, adjusted, carried, soldAt, adjusting, transfer, receiving, hold, raced>>

\* A location is named by its code, which is unique.
AddLocation(l) ==
    /\ l \notin place
    /\ place' = place \cup {l}
    /\ UNCHANGED <<onShelf, promised, books, adjusting, transfer, receiving, hold, raced>>

--------------------------------------------------------------------------------
(* Orders.  The batch of createOrder moves reserved and is refused by the    *)
(* CHECK; verification sells; the sweeper or a cancellation returns.         *)

PlaceHold(o) ==
    /\ hold[o] = "none"
    /\ Has(FirstLocation)
    /\ LevelHolds(onShelf[FirstLocation], promised[FirstLocation] + HoldQty)
    /\ promised' = [promised EXCEPT ![FirstLocation] = @ + HoldQty]
    /\ hold' = [hold EXCEPT ![o] = "active"]
    /\ UNCHANGED <<place, onShelf, books, adjusting, transfer, receiving, raced>>

\* No movement is written for a sale.
SellHold(o) ==
    /\ hold[o] = "active"
    /\ onShelf' = [onShelf EXCEPT ![FirstLocation] = @ - HoldQty]
    /\ promised' = [promised EXCEPT ![FirstLocation] = @ - HoldQty]
    /\ soldAt' = [soldAt EXCEPT ![FirstLocation] = @ + HoldQty]
    /\ hold' = [hold EXCEPT ![o] = "sold"]
    /\ UNCHANGED <<place, adjusted, carried, opened, adjusting, transfer, receiving, raced>>

ReturnHold(o) ==
    /\ hold[o] = "active"
    /\ promised' = [promised EXCEPT ![FirstLocation] = @ - HoldQty]
    /\ hold' = [hold EXCEPT ![o] = "returned"]
    /\ UNCHANGED <<place, onShelf, books, adjusting, transfer, receiving, raced>>

--------------------------------------------------------------------------------
(* Adjusting.                                                                *)

\* Refused below what is promised at this moment.
ReadForAdjustment(a, l, n) ==
    /\ adjusting[a] = Idle
    /\ Has(l)
    /\ n >= promised[l]
    /\ adjusting' = [adjusting EXCEPT ![a] =
                        [at |-> "read", loc |-> l, to |-> n, was |-> onShelf[l]]]
    /\ UNCHANGED <<shelves, books, transfer, receiving, hold, raced>>

\* The movement tells the difference to what was read.
Delta_Typed(to, was) == to
Delta(to, was) == to - was

CommitAdjustment(a) ==
    LET j == adjusting[a] IN
    /\ j.at = "read"
    /\ LevelHolds(j.to, promised[j.loc])
    /\ onShelf' = [onShelf EXCEPT ![j.loc] = j.to]
    /\ adjusted' = [adjusted EXCEPT ![j.loc] = @ + Delta(j.to, j.was)]
    /\ raced' = (raced \/ onShelf[j.loc] # j.was)
    /\ adjusting' = [adjusting EXCEPT ![a] = Finished]
    /\ UNCHANGED <<place, promised, carried, opened, soldAt, transfer, receiving, hold>>

\* An order took more meanwhile: the CHECK fails and nothing is written.
RollBackAdjustment(a) ==
    LET j == adjusting[a] IN
    /\ j.at = "read"
    /\ ~LevelHolds(j.to, promised[j.loc])
    /\ adjusting' = [adjusting EXCEPT ![a] = Finished]
    /\ UNCHANGED <<shelves, books, transfer, receiving, hold, raced>>

--------------------------------------------------------------------------------
(* Transfers.  Units leave the origin when the transfer is created and reach *)
(* the destination when somebody confirms it.                                *)

\* Sellable units only: on_hand less what orders hold.
Sendable(l) == onShelf[l] - promised[l]

ReadForTransfer(t, from, to, n) ==
    /\ transfer[t] = Idle
    /\ from \in place /\ to \in place /\ from # to
    /\ Has(from)
    /\ n <= Sendable(from)
    /\ transfer' = [transfer EXCEPT ![t] = [at |-> "read", from |-> from, to |-> to,
                                            units |-> n, was |-> onShelf[from]]]
    /\ UNCHANGED <<shelves, books, adjusting, receiving, hold, raced>>

CreateTransfer(t) ==
    LET s == transfer[t]
        left == s.was - s.units
    IN
    /\ s.at = "read"
    /\ LevelHolds(left, promised[s.from])
    /\ onShelf' = [onShelf EXCEPT ![s.from] = left]
    /\ carried' = [carried EXCEPT ![s.from] = @ - s.units]
    /\ raced' = (raced \/ onShelf[s.from] # s.was)
    /\ transfer' = [transfer EXCEPT ![t].at = "in_transit"]
    /\ UNCHANGED <<place, promised, adjusted, opened, soldAt, adjusting, receiving, hold>>

RollBackTransfer(t) ==
    LET s == transfer[t] IN
    /\ s.at = "read"
    /\ ~LevelHolds(s.was - s.units, promised[s.from])
    /\ transfer' = [transfer EXCEPT ![t] = Finished]
    /\ UNCHANGED <<shelves, books, adjusting, receiving, hold, raced>>

\* Only goods on the way can arrive.
Receivable_Again(status) == status \in {"in_transit", "received"}
Receivable(status) == status = "in_transit"

\* The status is read first ...
OpenReception(r, t) ==
    /\ receiving[r] = Idle
    /\ Receivable(transfer[t].at)
    /\ receiving' = [receiving EXCEPT ![r] = [at |-> "checked", of |-> t, seen |-> transfer[t].at]]
    /\ UNCHANGED <<shelves, books, adjusting, transfer, hold, raced>>

\* ... and the level at the destination after it.
ReadDestination(r) ==
    LET q == receiving[r] IN
    /\ q.at = "checked"
    /\ receiving' = [receiving EXCEPT ![r] =
                        [at |-> "read", of |-> q.of, seen |-> q.seen,
                         was |-> onShelf[transfer[q.of].to]]]
    /\ UNCHANGED <<shelves, books, adjusting, transfer, hold, raced>>

Before(was) == IF was = NoRow THEN 0 ELSE was

\* The final update asks nothing of the status.
CommitReception(r) ==
    LET q  == receiving[r]
        tr == transfer[q.of]
        after == Before(q.was) + tr.units
    IN
    /\ q.at = "read"
    /\ q.was = NoRow => ~Has(tr.to)
    /\ LevelHolds(after, promised[tr.to])
    /\ onShelf' = [onShelf EXCEPT ![tr.to] = after]
    /\ carried' = [carried EXCEPT ![tr.to] = @ + tr.units]
    /\ raced' = (raced \/ onShelf[tr.to] # q.was \/ tr.at # q.seen)
    /\ transfer' = [transfer EXCEPT ![q.of].at = "received"]
    /\ receiving' = [receiving EXCEPT ![r] = Finished]
    /\ UNCHANGED <<place, promised, adjusted, opened, soldAt, adjusting, hold>>

\* The level was created meanwhile (its index is unique), or orders hold more
\* than this write would leave: the whole batch is rolled back.
RollBackReception(r) ==
    LET q == receiving[r]
        tr == transfer[q.of]
    IN
    /\ q.at = "read"
    /\ \/ q.was = NoRow /\ Has(tr.to)
       \/ ~LevelHolds(Before(q.was) + tr.units, promised[tr.to])
    /\ receiving' = [receiving EXCEPT ![r] = Finished]
    /\ UNCHANGED <<shelves, books, adjusting, transfer, hold, raced>>

--------------------------------------------------------------------------------
LedgerNext ==
    \/ \E n \in Counted : StockNewVariant(n)
    \/ \E l \in Location : AddLocation(l)
    \/ \E o \in Hold : PlaceHold(o) \/ SellHold(o) \/ ReturnHold(o)
    \/ \E a \in Adjustment :
          \/ \E l \in Location, n \in Counted : ReadForAdjustment(a, l, n)
          \/ CommitAdjustment(a)
          \/ RollBackAdjustment(a)
    \/ \E t \in Transfer :
          \/ \E from, to \in Location, n \in Sent : ReadForTransfer(t, from, to, n)
          \/ CreateTransfer(t)
          \/ RollBackTransfer(t)
    \/ \E r \in Reception :
          \/ \E t \in Transfer : OpenReception(r, t)
          \/ ReadDestination(r)
          \/ CommitReception(r)
          \/ RollBackReception(r)

LedgerSpec == LedgerInit /\ [][LedgerNext]_ledgerVars

--------------------------------------------------------------------------------
(* Properties.                                                               *)

LedgerTypeOK ==
    /\ place \subseteq Location
    /\ onShelf \in [Location -> Nat \cup {NoRow}]
    /\ promised \in [Location -> Nat]
    /\ adjusted \in [Location -> Int]
    /\ carried \in [Location -> Int]
    /\ opened \in [Location -> Nat]
    /\ soldAt \in [Location -> Nat]
    /\ adjusting \in [Adjustment ->
          {Idle, Finished} \cup [at : {"read"}, loc : Location, to : Nat, was : Nat]]
    /\ transfer \in [Transfer ->
          {Idle, Finished} \cup [at : {"read", "in_transit", "received"}, from : Location,
                                 to : Location, units : Nat, was : Nat]]
    /\ receiving \in [Reception ->
          {Idle, Finished} \cup [at : {"checked"}, of : Transfer, seen : {"in_transit"}]
            \cup [at : {"read"}, of : Transfer, seen : {"in_transit"}, was : Nat \cup {NoRow}]]
    /\ hold \in [Hold -> {"none", "active", "sold", "returned"}]
    /\ raced \in BOOLEAN

\* However stale the number an adjustment or a transfer writes, no shelf ends
\* with fewer units than orders hold from it.
ShelfCoversPromises == \A l \in Location : Has(l) => promised[l] <= onShelf[l]

\* The units that the movements of a level cannot account for are its opening
\* count and its sales, which write no movement, and nothing else; only a write
\* that used an outdated level adds to them.
UnbookedIsSold ==
    raced \/ \A l \in Location : Before(onShelf[l]) = opened[l] + adjusted[l] + carried[l] - soldAt[l]

\* docs/invariants.md, 4: "Every change to on-hand quantity writes a
\* `stock_movements` row"; so the movements of a level whose count changes move
\* as well.  Writes that used an outdated level are left out: they do write a
\* row, though not with the difference they make.  A sale writes none.
EveryChangeMoves ==
    [][\A l \in Location : Has(l) /\ Has(l)' /\ onShelf'[l] # onShelf[l] =>
          raced' \/ adjusted'[l] + carried'[l] # adjusted[l] + carried[l]]_ledgerVars

\* While no write was outdated, the units that have left their origin and not
\* arrived are exactly those of the transfers in transit: none is lost on the
\* way and none arrives twice.
UnitsInTransit(t) == IF transfer[t].at = "in_transit" THEN transfer[t].units ELSE 0
UnitsCarried(l) == carried[l]
NothingLostInTransit ==
    raced \/ MapThenSumSet(UnitsInTransit, Transfer) + MapThenSumSet(UnitsCarried, Location) = 0
================================================================================
