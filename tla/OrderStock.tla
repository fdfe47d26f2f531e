------------------------------ MODULE OrderStock ------------------------------
(***************************************************************************)
(* One shop's stock, and everyone who moves it at the same time:           *)
(*                                                                         *)
(*   checkout requests     app/application/commands/create-order.ts        *)
(*   the expiry sweeper    app/application/commands/expire-reservations.ts *)
(*   payment verification  app/application/commands/verify-payment.ts      *)
(*   the order list        app/routes/admin/orders.tsx                     *)
(*   the order page        app/routes/admin/order-detail.tsx               *)
(*                                                                         *)
(* Every one of them reads, awaits, and writes later.  A database          *)
(* statement is one step; a db.batch is one step, all of it or none of it; *)
(* anything may happen between two steps of a request.  A request that     *)
(* dies is one that takes no further step; only a sweep is run again.      *)
(*                                                                         *)
(* An order is named by the checkout request that creates it, so Order is  *)
(* also the set of checkout requests.  A row is an order line: the         *)
(* stock_reservations row of one order for one variant.                    *)
(***************************************************************************)
EXTENDS Integers, Sequences, FiniteSets, Statuses

CONSTANTS
    Variant,        \* the variants stocked at the location that sells online
    Order,          \* checkout requests, and the orders they create
    Key,            \* idempotency keys
    KeyOf,          \* KeyOf[c]: the key request c carries
    DayOldKeys,     \* bound: the keys whose 24 hours may pass
    Qty,            \* Qty[<<c, v>>]: units of v in c's cart, 0 when not in it
    MaxQty,         \* the most units a cart line may have (99 in the schema)
    Backorder,      \* the variants whose level says allow_backorder
    InitialOnHand,  \* InitialOnHand[v]: units on the shelf at the start
    Sweeper,        \* sweeps that may overlap (cron is at-least-once)
    BatchSize,      \* the LIMIT of the sweeper's candidate query
    Staff,          \* users holding payment.verify
    Verification,   \* verification requests
    UserOf,         \* UserOf[r]: the staff user who sends request r
    Outcomes,       \* the outcomes staff choose from
    MaxGrants,      \* bound: step-ups one user obtains
    ListEdit,       \* status changes sent from the order list
    DetailEdit,     \* status changes sent from the order page
    EditTo,         \* the statuses staff pick there
    Faults,         \* whether a sweep may fail or die between two statements
    None

Row  == Order \X Variant
Edit == ListEdit \cup DetailEdit

\* Why a checkout request is refused.
Refusal == {"payment_method_unavailable", "unavailable", "out_of_stock",
            "conflict", "error"}

ASSUME OrderStockAssumption ==
    /\ Qty \in [Row -> 0..MaxQty]
    /\ KeyOf \in [Order -> Key]
    /\ DayOldKeys \subseteq Key
    /\ MaxQty \in Nat
    /\ Backorder \subseteq Variant
    /\ InitialOnHand \in [Variant -> Nat]
    /\ BatchSize \in Nat \ {0}
    /\ UserOf \in [Verification -> Staff]
    /\ Outcomes \subseteq VerificationOutcome
    /\ MaxGrants \in Nat
    /\ ListEdit \cap DetailEdit = {}
    /\ EditTo \subseteq OrderStatus
    /\ Faults \in BOOLEAN
    /\ IsFiniteSet(Verification)
    /\ None \notin Order \cup Row
    /\ Order \cap Refusal = {}

VARIABLES
    onHand,     \* inventory_levels.on_hand
    reserved,   \* inventory_levels.reserved
    keyOwner,   \* idempotency_keys: the order a key was completed with
    lapsed,     \* the keys whose 24 hours are over; their rows stay
    order,      \* orders.status
    payment,    \* order_payments.status
    resv,       \* stock_reservations.status
    released,   \* stock_movements: 'reservation_release' rows of each line
    elapsed,    \* the orders past reservation_expires_at, earliest first
    checkout,   \* where each checkout request is
    answer,     \* what it replied: an order, or the reason of a refusal
    sweep,      \* each sweep: where it is, its unread rows, its current row
    stepUp,     \* per user: step-ups granted, and those neither spent nor lapsed
    ver,        \* each verification request and what it has read
    edit        \* each status change and what it has read

stockVars == <<onHand, reserved, resv, released>>
shopVars  == <<onHand, reserved, keyOwner, order, payment, resv, released>>
reqVars   == <<checkout, answer>>
vars == <<onHand, reserved, keyOwner, lapsed, order, payment, resv, released,
          elapsed, checkout, answer, sweep, stepUp, ver, edit>>

ReservationStatus == {"active", "released", "consumed", "expired"}

\* A sweep holds a row exactly while it deals with one.
SweepState ==
    [pc : {"idle", "loop"}, todo : SUBSET Row, row : {None}]
        \cup [pc : {"claimed", "settled", "unsettled"}, todo : SUBSET Row, row : Row]

\* A request knows what it is about from its first read on.
VerifyState ==
    [pc : {"idle"}, order : {None}, from : {Absent}, orderFrom : {Absent}, to : {Absent}]
        \cup [pc : {"read", "authorised", "recorded", "refused"}, order : Order,
              from : PaymentStatus \cup {Absent}, orderFrom : OrderStatus,
              to : VerificationOutcome]

EditState ==
    [pc : {"idle"}, order : {None}, from : {Absent}, to : {Absent}]
        \cup [pc : {"read", "done"}, order : Order, from : OrderStatus, to : OrderStatus]

TypeOK ==
    /\ onHand \in [Variant -> Nat]
    /\ reserved \in [Variant -> Nat]
    /\ keyOwner \in [Key -> Order \cup {None}]
    /\ lapsed \subseteq Key
    /\ order \in [Order -> OrderStatus \cup {Absent}]
    /\ payment \in [Order -> PaymentStatus \cup {Absent}]
    /\ resv \in [Row -> ReservationStatus \cup {Absent}]
    /\ released \in [Row -> Nat]
    /\ elapsed \in Seq(Order)
    /\ checkout \in [Order -> {"start", "checking", "reserving", "done"}]
    /\ answer \in [Order -> Order \cup Refusal \cup {None}]
    /\ sweep \in [Sweeper -> SweepState]
    /\ stepUp \in [Staff -> [granted : Nat, live : Nat]]
    /\ ver \in [Verification -> VerifyState]
    /\ edit \in [Edit -> EditState]

Init ==
    /\ onHand = InitialOnHand
    /\ reserved = [v \in Variant |-> 0]
    /\ keyOwner = [k \in Key |-> None]
    /\ lapsed = {}
    /\ order = [c \in Order |-> Absent]
    /\ payment = [c \in Order |-> Absent]
    /\ resv = [r \in Row |-> Absent]
    /\ released = [r \in Row |-> 0]
    /\ elapsed = <<>>
    /\ checkout = [c \in Order |-> "start"]
    /\ answer = [c \in Order |-> None]
    /\ sweep = [s \in Sweeper |-> [pc |-> "idle", todo |-> {}, row |-> None]]
    /\ stepUp = [u \in Staff |-> [granted |-> 0, live |-> 0]]
    /\ ver = [r \in Verification |-> [pc |-> "idle", order |-> None, from |-> Absent,
                                      orderFrom |-> Absent, to |-> Absent]]
    /\ edit = [e \in Edit |-> [pc |-> "idle", order |-> None, from |-> Absent,
                               to |-> Absent]]

Placed == {c \in Order : order[c] # Absent}

\* CHECK (reserved >= 0 AND reserved <= on_hand) AND (on_hand >= 0): a batch
\* that would break it on any row raises an error and rolls back whole.
LevelsAllowed_NoCeiling(h, r) == \A v \in Variant : 0 <= r[v]
LevelsAllowed_NoFloor(h, r) == \A v \in Variant : r[v] <= h[v]
LevelsAllowed(h, r) == \A v \in Variant : 0 <= r[v] /\ r[v] <= h[v]

\* SQL MAX(0, n), as the releases clamp.
Clamp(n) == IF n < 0 THEN 0 ELSE n

-------------------------------------------------------------------------------
(* Checkout.                                                               *)

\* The UNIQUE index on (key, scope): it knows nothing of expires_at.
KeyTaken_WhileFresh(k) == keyOwner[k] # None /\ k \notin lapsed
KeyTaken(k) == keyOwner[k] # None

Reply(c, a) ==
    /\ checkout' = [checkout EXCEPT ![c] = "done"]
    /\ answer' = [answer EXCEPT ![c] = a]

\* Step 1: a completed, unexpired key answers with the order it was spent on.
LookUpKey(c) ==
    /\ checkout[c] = "start"
    /\ IF keyOwner[KeyOf[c]] # None /\ KeyOf[c] \notin lapsed
         THEN Reply(c, keyOwner[KeyOf[c]])
         ELSE /\ checkout' = [checkout EXCEPT ![c] = "checking"]
              /\ UNCHANGED answer
    /\ UNCHANGED <<shopVars, lapsed, elapsed, sweep, stepUp, ver, edit>>

\* Steps 2 and 3: the payment method or a line is not on offer any more.
RefuseCheckout(c) ==
    /\ checkout[c] = "checking"
    /\ \E reason \in {"payment_method_unavailable", "unavailable"} : Reply(c, reason)
    /\ UNCHANGED <<shopVars, lapsed, elapsed, sweep, stepUp, ver, edit>>

\* Steps 3 and 4: the stock is read here and used only for the message.
CheckAvailability(c) ==
    /\ checkout[c] = "checking"
    /\ IF \E v \in Variant \ Backorder : onHand[v] - reserved[v] < Qty[<<c, v>>]
         THEN Reply(c, "out_of_stock")
         ELSE /\ checkout' = [checkout EXCEPT ![c] = "reserving"]
              /\ UNCHANGED answer
    /\ UNCHANGED <<shopVars, lapsed, elapsed, sweep, stepUp, ver, edit>>

\* The unconditional increment of step 7.
ReservedWith(c) == [v \in Variant |-> reserved[v] + Qty[<<c, v>>]]

\* Step 7 commits: key, order, lines, holds and payment in one batch.
PlaceOrder(c) ==
    /\ checkout[c] = "reserving"
    /\ ~KeyTaken(KeyOf[c])
    /\ LevelsAllowed(onHand, ReservedWith(c))
    /\ keyOwner' = [keyOwner EXCEPT ![KeyOf[c]] = c]
    /\ order' = [order EXCEPT ![c] = "awaiting_customer_contact"]
    /\ payment' = [payment EXCEPT ![c] = "awaiting_payment"]
    /\ resv' = [r \in Row |-> IF r[1] = c /\ Qty[r] > 0 THEN "active" ELSE resv[r]]
    /\ reserved' = ReservedWith(c)
    /\ Reply(c, c)
    /\ UNCHANGED <<onHand, released, lapsed, elapsed, sweep, stepUp, ver, edit>>

\* Step 7 rolls back.  The key is inserted first, so its UNIQUE index speaks
\* before the CHECK; a duplicate key is a conflict on D1, while MariaDB words
\* the error differently and it is rethrown.
RollBackOrder(c) ==
    /\ checkout[c] = "reserving"
    /\ \/ /\ KeyTaken(KeyOf[c])
          /\ \E reason \in {"conflict", "error"} : Reply(c, reason)
       \/ /\ ~KeyTaken(KeyOf[c])
          /\ ~LevelsAllowed(onHand, ReservedWith(c))
          /\ Reply(c, "out_of_stock")
    /\ UNCHANGED <<shopVars, lapsed, elapsed, sweep, stepUp, ver, edit>>

CheckoutStep(c) ==
    \/ LookUpKey(c)
    \/ RefuseCheckout(c)
    \/ CheckAvailability(c)
    \/ PlaceOrder(c)
    \/ RollBackOrder(c)

-------------------------------------------------------------------------------
(* Time.                                                                   *)

\* reservation_expires_at passes.  Methods hold for different times, so orders
\* elapse in any order.
Elapse(c) ==
    /\ c \in Placed
    /\ \A i \in DOMAIN elapsed : elapsed[i] # c
    /\ elapsed' = Append(elapsed, c)
    /\ UNCHANGED <<shopVars, lapsed, reqVars, sweep, stepUp, ver, edit>>

\* 24 hours pass: the lookup no longer sees the key, the UNIQUE index still does.
LapseKey(k) ==
    /\ k \in DayOldKeys
    /\ keyOwner[k] # None
    /\ k \notin lapsed
    /\ lapsed' = lapsed \cup {k}
    /\ UNCHANGED <<shopVars, elapsed, reqVars, sweep, stepUp, ver, edit>>

-------------------------------------------------------------------------------
(* The sweeper.                                                            *)

\* expires_at of an order, as its place among the elapsed ones.
Rank(c) == CHOOSE i \in DOMAIN elapsed : elapsed[i] = c

Candidate_OfOpenOrders ==
    {r \in Row : /\ resv[r] = "active"
                 /\ order[r[1]] \in ReservingStatus
                 /\ \E i \in DOMAIN elapsed : elapsed[i] = r[1]}
Candidate ==
    {r \in Row : /\ resv[r] = "active"
                 /\ \E i \in DOMAIN elapsed : elapsed[i] = r[1]}

\* The first BatchSize candidates by expires_at; rows that tie come in any order.
FirstCandidates ==
    {S \in SUBSET Candidate :
        /\ Cardinality(S) <= BatchSize
        /\ S # Candidate => Cardinality(S) = BatchSize
        /\ \A r \in S, x \in Candidate \ S : Rank(r[1]) <= Rank(x[1])}

StartSweep(s) ==
    /\ sweep[s].pc = "idle"
    /\ \E S \in FirstCandidates :
          sweep' = [sweep EXCEPT ![s] = [pc |-> "loop", todo |-> S, row |-> None]]
    /\ UNCHANGED <<shopVars, lapsed, elapsed, reqVars, stepUp, ver, edit>>

\* The WHERE of the claim, and the claim without its status.
ClaimMatches_ById(r) == resv[r] # Absent
ClaimMatches(r) == resv[r] = "active"

\* The rows the loop may come to next; rows that tie come in any order.
NextUp(s) == {r \in sweep[s].todo : \A x \in sweep[s].todo : Rank(r[1]) <= Rank(x[1])}

\* Step 2, the conditional claim: a row another sweep, a cancellation or a
\* verification has taken is skipped.
Claim(s) ==
    /\ sweep[s].pc = "loop"
    /\ \E r \in NextUp(s) :
          IF ClaimMatches(r)
            THEN /\ resv' = [resv EXCEPT ![r] = "expired"]
                 /\ sweep' = [sweep EXCEPT ![s] = [pc |-> "claimed", todo |-> @.todo \ {r},
                                                   row |-> r]]
            ELSE /\ sweep' = [sweep EXCEPT ![s].todo = @ \ {r}]
                 /\ UNCHANGED resv
    /\ UNCHANGED <<onHand, reserved, released, keyOwner, order, payment, lapsed,
                   elapsed, reqVars, stepUp, ver, edit>>

Settled(c) == payment[c] \in {"verified", "partially_paid"} \/ order[c] = "paid"

\* Step 3: payment and order are read again, after the claim.
RecheckPayment(s) ==
    /\ sweep[s].pc = "claimed"
    /\ sweep' = [sweep EXCEPT ![s].pc = IF Settled(sweep[s].row[1])
                                          THEN "settled" ELSE "unsettled"]
    /\ UNCHANGED <<shopVars, lapsed, elapsed, reqVars, stepUp, ver, edit>>

\* The sweep is through with its current row.
NextRow(s) ==
    sweep' = [sweep EXCEPT ![s] = [pc |-> "loop", todo |-> @.todo, row |-> None]]

\* The claim is given back, whatever the row says by now.
GiveBack(s) ==
    /\ sweep[s].pc = "settled"
    /\ resv' = [resv EXCEPT ![sweep[s].row] = "active"]
    /\ NextRow(s)
    /\ UNCHANGED <<onHand, reserved, released, keyOwner, order, payment, lapsed,
                   elapsed, reqVars, stepUp, ver, edit>>

\* Steps 4 to 7, one batch.
ReleaseHold(s) ==
    /\ sweep[s].pc = "unsettled"
    /\ LET r == sweep[s].row
           c == r[1]
           v == r[2]
       IN /\ reserved' = [reserved EXCEPT ![v] = Clamp(@ - Qty[r])]
          /\ released' = [released EXCEPT ![r] = @ + 1]
          /\ order' = [order EXCEPT ![c] = IF @ \in ReservingStatus THEN "expired" ELSE @]
          /\ payment' = [payment EXCEPT ![c] = IF CanExpirePayment(@) THEN "expired" ELSE @]
    /\ NextRow(s)
    /\ UNCHANGED <<onHand, resv, keyOwner, lapsed, elapsed, reqVars, stepUp, ver, edit>>

FinishSweep(s) ==
    /\ sweep[s].pc = "loop"
    /\ sweep[s].todo = {}
    /\ sweep' = [sweep EXCEPT ![s].pc = "idle"]
    /\ UNCHANGED <<shopVars, lapsed, elapsed, reqVars, stepUp, ver, edit>>

\* The claim itself throws: the catch counts an error and skips the row.
SkipRow(s) ==
    /\ Faults
    /\ sweep[s].pc = "loop"
    /\ \E r \in NextUp(s) : sweep' = [sweep EXCEPT ![s].todo = @ \ {r}]
    /\ UNCHANGED <<shopVars, lapsed, elapsed, reqVars, stepUp, ver, edit>>

\* A statement after the claim throws: the same catch, and the claim stays.
LoseClaim(s) ==
    /\ Faults
    /\ sweep[s].pc \in {"claimed", "settled", "unsettled"}
    /\ NextRow(s)
    /\ UNCHANGED <<shopVars, lapsed, elapsed, reqVars, stepUp, ver, edit>>

\* The worker dies in mid-sweep; the next cron run starts from the database.
CrashSweep(s) ==
    /\ Faults
    /\ sweep[s].pc # "idle"
    /\ sweep' = [sweep EXCEPT ![s] = [pc |-> "idle", todo |-> {}, row |-> None]]
    /\ UNCHANGED <<shopVars, lapsed, elapsed, reqVars, stepUp, ver, edit>>

SweepProgress(s) ==
    \/ StartSweep(s)
    \/ Claim(s)
    \/ RecheckPayment(s)
    \/ GiveBack(s)
    \/ ReleaseHold(s)
    \/ FinishSweep(s)

SweepStep(s) == SweepProgress(s) \/ SkipRow(s) \/ LoseClaim(s) \/ CrashSweep(s)

-------------------------------------------------------------------------------
(* Payment verification.                                                   *)

\* The user proves a password; the grant is one row of step_up_sessions.
GrantStepUp(u) ==
    /\ stepUp[u].granted < MaxGrants
    /\ stepUp' = [stepUp EXCEPT ![u] = [granted |-> @.granted + 1, live |-> @.live + 1]]
    /\ UNCHANGED <<shopVars, lapsed, elapsed, reqVars, sweep, ver, edit>>

\* Ten minutes pass on an unspent grant.
LapseStepUp(u) ==
    /\ stepUp[u].live > 0
    /\ stepUp' = [stepUp EXCEPT ![u].live = @ - 1]
    /\ UNCHANGED <<shopVars, lapsed, elapsed, reqVars, sweep, ver, edit>>

\* Payment and order are read, and the transition is judged on what was read.
ReadPayment(r) ==
    /\ ver[r].pc = "idle"
    /\ \E c \in Placed, to \in Outcomes :
          ver' = [ver EXCEPT ![r] =
                    [pc |-> IF CanMovePayment(payment[c], to) THEN "read" ELSE "refused",
                     order |-> c, from |-> payment[c], orderFrom |-> order[c], to |-> to]]
    /\ UNCHANGED <<shopVars, lapsed, elapsed, reqVars, sweep, stepUp, edit>>

\* consumeStepUp marks a live grant; hasStepUp would only have looked at it.
SpendStepUp_LookOnly(u) == stepUp
SpendStepUp(u) == [stepUp EXCEPT ![u].live = @ - 1]

\* consumeStepUp, and after it the amount: a mismatch refuses the request when
\* the step-up is already spent.
Authorise(r) ==
    /\ ver[r].pc = "read"
    /\ IF stepUp[UserOf[r]].live > 0
         THEN /\ stepUp' = SpendStepUp(UserOf[r])
              /\ \/ ver' = [ver EXCEPT ![r].pc = "authorised"]
                 \/ /\ ver[r].to = "verified"
                    /\ ver' = [ver EXCEPT ![r].pc = "refused"]
         ELSE /\ ver' = [ver EXCEPT ![r].pc = "refused"]
              /\ UNCHANGED stepUp
    /\ UNCHANGED <<shopVars, lapsed, elapsed, reqVars, sweep, edit>>

\* The subquery SUM over the order's reservations for one variant, which does
\* not look at their status.
ConsumedUnits(c, v) == IF resv[<<c, v>>] = Absent THEN 0 ELSE Qty[<<c, v>>]

Minus(level, c) == [v \in Variant |-> level[v] - ConsumedUnits(c, v)]

\* The WHERE ... AND status = from of the payment update.
PaymentMatches_ById(c, from) == payment[c] # Absent
PaymentMatches(c, from) == payment[c] = from

\* Whether the order follows the payment is decided on the status read first.
PaysOrder(r) == ver[r].to = "verified" /\ CanMoveOrder(ver[r].orderFrom, "paid")

\* The batch commits: the payment moves only if it still is where it was read,
\* the other statements do not ask.
RecordOutcome(r) ==
    LET c == ver[r].order
    IN  /\ ver[r].pc = "authorised"
        /\ payment' = [payment EXCEPT ![c] =
                          IF PaymentMatches(c, ver[r].from) THEN ver[r].to ELSE @]
        /\ order' = [order EXCEPT ![c] = IF PaysOrder(r) THEN "paid" ELSE @]
        /\ IF ver[r].to = "verified"
             THEN /\ LevelsAllowed(Minus(onHand, c), Minus(reserved, c))
                  /\ onHand' = Minus(onHand, c)
                  /\ reserved' = Minus(reserved, c)
                  /\ resv' = [x \in Row |-> IF x[1] = c /\ resv[x] = "active"
                                              THEN "consumed" ELSE resv[x]]
             ELSE UNCHANGED <<onHand, reserved, resv>>
        /\ ver' = [ver EXCEPT ![r].pc = "recorded"]
        /\ UNCHANGED <<released, keyOwner, lapsed, elapsed, reqVars, sweep, stepUp, edit>>

\* The CHECK refuses the consumption and the whole batch with it.
RollBackOutcome(r) ==
    LET c == ver[r].order
    IN  /\ ver[r].pc = "authorised"
        /\ ver[r].to = "verified"
        /\ ~LevelsAllowed(Minus(onHand, c), Minus(reserved, c))
        /\ ver' = [ver EXCEPT ![r].pc = "refused"]
        /\ UNCHANGED <<shopVars, lapsed, elapsed, reqVars, sweep, stepUp, edit>>

VerifyStep(r) ==
    \/ ReadPayment(r)
    \/ Authorise(r)
    \/ RecordOutcome(r)
    \/ RollBackOutcome(r)

-------------------------------------------------------------------------------
(* Status changes by hand.                                                 *)

\* Both routes judge the transition on the status they read; only the list
\* refuses "paid".  A request they refuse ends here and is left out.
ReadOrder(e) ==
    /\ edit[e].pc = "idle"
    /\ \E c \in Placed, to \in EditTo :
          /\ CanMoveOrder(order[c], to)
          /\ e \in ListEdit => to # "paid"
          /\ edit' = [edit EXCEPT ![e] = [pc |-> "read", order |-> c,
                                          from |-> order[c], to |-> to]]
    /\ UNCHANGED <<shopVars, lapsed, elapsed, reqVars, sweep, stepUp, ver>>

\* The subquery SUM over the order's active reservations for one variant.
ReturnedUnits_AnyStatus(c, v) == IF resv[<<c, v>>] = Absent THEN 0 ELSE Qty[<<c, v>>]
ReturnedUnits(c, v) == IF resv[<<c, v>>] = "active" THEN Qty[<<c, v>>] ELSE 0

\* orders.tsx: the order moves if it still is where it was read; a cancellation
\* or expiry returns the order's active holds either way.
CommitListEdit(e) ==
    LET c == edit[e].order
    IN  /\ e \in ListEdit
        /\ edit[e].pc = "read"
        /\ order' = [order EXCEPT ![c] = IF @ = edit[e].from THEN edit[e].to ELSE @]
        /\ IF edit[e].to \in {"cancelled", "expired"}
             THEN /\ reserved' = [v \in Variant |->
                                    Clamp(reserved[v] - ReturnedUnits(c, v))]
                  /\ resv' = [x \in Row |-> IF x[1] = c /\ resv[x] = "active"
                                              THEN "released" ELSE resv[x]]
             ELSE UNCHANGED <<reserved, resv>>
        /\ edit' = [edit EXCEPT ![e].pc = "done"]
        /\ UNCHANGED <<onHand, released, keyOwner, payment, lapsed, elapsed, reqVars,
                       sweep, stepUp, ver>>

\* order-detail.tsx: the status is written, unconditionally, and nothing else.
CommitDetailEdit(e) ==
    /\ e \in DetailEdit
    /\ edit[e].pc = "read"
    /\ order' = [order EXCEPT ![edit[e].order] = edit[e].to]
    /\ edit' = [edit EXCEPT ![e].pc = "done"]
    /\ UNCHANGED <<onHand, reserved, resv, released, keyOwner, payment, lapsed,
                   elapsed, reqVars, sweep, stepUp, ver>>

EditStep(e) == ReadOrder(e) \/ CommitListEdit(e) \/ CommitDetailEdit(e)

-------------------------------------------------------------------------------
Next ==
    \/ \E c \in Order : CheckoutStep(c) \/ Elapse(c)
    \/ \E k \in Key : LapseKey(k)
    \/ \E s \in Sweeper : SweepStep(s)
    \/ \E u \in Staff : GrantStepUp(u) \/ LapseStepUp(u)
    \/ \E r \in Verification : VerifyStep(r)
    \/ \E e \in Edit : EditStep(e)

Spec == Init /\ [][Next]_vars

\* Cron runs the sweeper every five minutes and each run goes through its rows;
\* nobody promises that a customer or a member of staff ever does anything.
FairSpec == Spec /\ \A s \in Sweeper : WF_vars(SweepProgress(s))

-------------------------------------------------------------------------------
(* What holds however the requests interleave.                             *)

\* The shop never promises more than it has, and never less than nothing, in
\* every interleaving of orders, sweeps, cancellations and verifications
\* (db/schema/inventory.ts, the CHECK behind create-order.ts step 7).
StockBounds == \A v \in Variant : 0 <= reserved[v] /\ reserved[v] <= onHand[v]

\* Two overlapping sweeps never hold the same reservation, and the one a sweep
\* holds stays 'expired' until that sweep lets go of it: nobody cancels, sells
\* or claims it meanwhile (expire-reservations.ts step 2).
ClaimExclusive ==
    /\ \A s, t \in Sweeper : sweep[s].row = sweep[t].row /\ sweep[s].row # None => s = t
    /\ \A s \in Sweeper : sweep[s].row # None => resv[sweep[s].row] = "expired"

\* A hold is returned to the shelf by at most one sweep, and one that a sweep
\* returned is never returned by a cancellation, given back or sold afterwards
\* (expire-reservations.ts steps 2 to 7, orders.tsx release).
ReturnedOnce ==
    \A r \in Row : /\ released[r] <= 1
                   /\ released[r] = 1 => /\ resv[r] = "expired"
                                         /\ \A s \in Sweeper : sweep[s].row # r

\* Every request that was answered with an order and carried the same key was
\* answered with the same order, also after the key's 24 hours
\* (create-order.ts steps 1 and 7).
ReplayAgrees ==
    \A c, d \in Order :
        answer[c] \in Order /\ answer[d] \in Order /\ KeyOf[c] = KeyOf[d]
            => answer[c] = answer[d]

\* A step-up authorises at most one verification, however many requests of its
\* user are in flight (session.server.ts consumeStepUp).
StepUpSpentOnce ==
    \A u \in Staff :
        Cardinality({r \in Verification : /\ UserOf[r] = u
                                          /\ ver[r].pc \in {"authorised", "recorded"}})
            + stepUp[u].live <= stepUp[u].granted

\* A reservation that was sold or returned by a cancellation keeps that status:
\* the sweeper's unconditional give-back never revives one
\* (expire-reservations.ts:122-132).
ReservationFinal ==
    [][\A r \in Row : resv[r] \in {"released", "consumed"} => resv'[r] = resv[r]]_vars

\* A payment only ever moves along the documented transitions, though every
\* handler judges the transition on a status it read earlier
\* (verify-payment.ts:168-184, expire-reservations.ts:164-169).
PaymentStepsLegal ==
    [][\A c \in Placed : payment'[c] = payment[c] \/ CanMovePayment(payment[c], payment'[c])]_vars

(* The books.  A hold counts until its stock went back or was sold; units   *)
(* of a hold are told apart so that the sum over orders is a cardinality.   *)
Held(r) == resv[r] = "active" \/ (resv[r] = "expired" /\ released[r] = 0)

HeldUnits(v) ==
    {u \in Order \X (1..MaxQty) : Held(<<u[1], v>>) /\ u[2] <= Qty[<<u[1], v>>]}

BooksExact == \A v \in Variant : reserved[v] = Cardinality(HeldUnits(v))

\* A verification commits although some hold of its order is not active.
ConsumesUnheld(r) ==
    /\ ver[r].pc = "authorised"
    /\ ver[r].to = "verified"
    /\ ver'[r].pc = "recorded"
    /\ \E v \in Variant : resv[<<ver[r].order, v>>] \notin {"active", Absent}

\* The reserved counter is the sum of the holds, and the only step that can
\* make it differ is a verification of an order whose hold was already returned,
\* claimed or sold: verify-payment.ts:254-269 sums reservations of any status.
BooksDriftOnlyBySale ==
    [][BooksExact => BooksExact' \/ \E r \in Verification : ConsumesUnheld(r)]_vars

-------------------------------------------------------------------------------
(* What holds while no payment is recorded as fully verified.               *)

\* Orders, overlapping and dying sweeps, cancellations, other payment outcomes:
\* reserved is exactly the units of the holds whose stock is still out.
ReservedIsHolds == BooksExact

FreeUnits == [v \in Variant |-> onHand[v] - reserved[v]]

HoldOf ==
    [r \in Row |-> CASE resv[r] = Absent     -> "none"
                     [] Held(r)              -> "held"
                     [] resv[r] = "consumed" -> "sold"
                     [] OTHER                -> "returned"]

\* What a hold is to the customer and the shelf (see HoldContract).
Contract == INSTANCE HoldContract WITH free <- FreeUnits, hold <- HoldOf

\* The handlers together implement that contract: a hold is taken whole with its
\* order, and each of its lines is returned at most once.
HoldsContract == Contract!Spec

-------------------------------------------------------------------------------
(* What eventually happens.                                                 *)

\* Once its window is over, a hold of an order nobody paid is released, by a
\* sweep or by staff, as long as no sweep fails half way
\* (expire-reservations.ts; cron every five minutes).
UnpaidHoldReleased ==
    \A r \in Row :
        (resv[r] = "active" /\ \E i \in DOMAIN elapsed : elapsed[i] = r[1])
            ~> (released[r] = 1 \/ resv[r] \in {"released", "consumed"} \/ Settled(r[1]))

-------------------------------------------------------------------------------
(* What the repository says of this code and the code does not keep.        *)

\* "Once running, the sweeper catches up on its own. It is idempotent, so no
\* manual cleanup is needed" (docs/operations-runbook.md): a row some sweep
\* claimed does not stay claimed, its units neither held nor returned.
ClaimsResolved ==
    \A r \in Row : (resv[r] = "expired" /\ released[r] = 0)
                      ~> (released[r] = 1 \/ resv[r] # "expired")

\* "either the order is paid and stock stays reserved, or it expired and stock
\* was released. Never both" (docs/inventory-and-reservations.md; the comment
\* that opens tests/integration/expiry-race.test.ts).
NeverBoth ==
    \A r \in Row : ~(order[r[1]] = "paid" /\ released[r] > 0)

\* "Both keep the reservation alive: the shortfall or excess is a conversation,
\* not an automatic outcome" (app/domain/payments/status.ts, of partially_paid
\* and overpaid).
OverpaidKeepsHold ==
    [][\A r \in Row : payment[r[1]] = "overpaid" => released'[r] = released[r]]_vars

\* "Entering `cancelled` or `expired` from any of them releases it, exactly once"
\* (docs/order-state-machine.md, of the statuses that hold stock).
CancellingReleases ==
    [][\A c \in Order :
          order[c] \in ReservingStatus /\ order'[c] = "cancelled"
              => \A v \in Variant : resv'[<<c, v>>] # "active"]_vars

\* "it is reachable only through the verification use case"
\* (docs/order-state-machine.md, of `paid`).
PaidMeansVerified ==
    \A c \in Order : order[c] = "paid" => payment[c] = "verified"
===============================================================================
