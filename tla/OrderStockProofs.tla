-------------------------- MODULE OrderStockProofs ---------------------------
(***************************************************************************)
(* Proofs about OrderStock for every shop: any number of orders, variants, *)
(* sweeps, staff and requests, any stock and any carts.                    *)
(*                                                                         *)
(*   1. Types, the bounds of the stock, what a request that read, awaited  *)
(*      and then wrote can rely on (the key of a checkout, the step-up and *)
(*      the payment of a verification), and the claims of the sweeps.      *)
(*   2. The books: why the reserved counters are the sum of the holds,     *)
(*      which step can make them differ, and why the handlers together     *)
(*      keep the contract of a hold (module HoldContract).                 *)
(*   3. What the documents say of orders, payments and holds, and what it  *)
(*      takes for the code to keep it.                                     *)
(***************************************************************************)
EXTENDS OrderStock, FiniteSetTheorems, TLAPS

-------------------------------------------------------------------------------
(* Types.                                                                  *)

LEMMA RowParts ==
    ASSUME NEW r \in Row
    PROVE  r[1] \in Order /\ r[2] \in Variant /\ r = <<r[1], r[2]>>
BY DEF Row

LEMMA QtyType ==
    ASSUME NEW c \in Order, NEW v \in Variant
    PROVE  <<c, v>> \in Row /\ Qty[<<c, v>>] \in Nat
<1>1. <<c, v>> \in Row
  BY DEF Row
<1>2. Qty[<<c, v>>] \in 0..MaxQty
  BY <1>1, OrderStockAssumption DEF OrderStockAssumption
<1>. QED
  BY <1>1, <1>2

LEMMA KeyOfType ==
    ASSUME NEW c \in Order
    PROVE  KeyOf[c] \in Key
BY OrderStockAssumption DEF OrderStockAssumption

LEMMA NoneIsNoOrderOrRow == None \notin Order /\ None \notin Row
BY OrderStockAssumption DEF OrderStockAssumption

LEMMA InitTypes == Init => TypeOK
BY OrderStockAssumption DEF OrderStockAssumption, Init, TypeOK, Absent, ReservationStatus, Edit,
   SweepState, VerifyState, EditState

LEMMA ReplyTypes ==
    ASSUME TypeOK, NEW c \in Order, NEW a \in Order \cup Refusal, Reply(c, a)
    PROVE  /\ checkout' \in [Order -> {"start", "checking", "reserving", "done"}]
           /\ answer' \in [Order -> Order \cup Refusal \cup {None}]
BY DEF Reply, TypeOK

LEMMA CheckoutTypes ==
    ASSUME TypeOK, NEW c \in Order, CheckoutStep(c)
    PROVE  TypeOK'
<1>. USE DEF Absent
<1>. DEFINE ReqTypes == /\ checkout' \in [Order -> {"start", "checking", "reserving", "done"}]
                        /\ answer' \in [Order -> Order \cup Refusal \cup {None}]
<1>1. CASE LookUpKey(c)
  <2>1. keyOwner[KeyOf[c]] \in Order \cup {None}
    BY KeyOfType DEF TypeOK
  <2>2. ASSUME Reply(c, keyOwner[KeyOf[c]]), keyOwner[KeyOf[c]] # None
        PROVE  ReqTypes
    BY <2>1, <2>2, ReplyTypes
  <2>3. ASSUME checkout' = [checkout EXCEPT ![c] = "checking"], UNCHANGED answer
        PROVE  ReqTypes
    BY <2>3 DEF TypeOK
  <2>4. ReqTypes
    BY <1>1, <2>2, <2>3 DEF LookUpKey
  <2>. QED
    BY <1>1, <2>4 DEF LookUpKey, shopVars, TypeOK
<1>2. CASE RefuseCheckout(c)
  <2>1. PICK a \in Refusal : Reply(c, a)
    BY <1>2 DEF RefuseCheckout, Refusal
  <2>. QED
    BY <1>2, <2>1, ReplyTypes DEF RefuseCheckout, shopVars, TypeOK
<1>3. CASE CheckAvailability(c)
  BY <1>3 DEF CheckAvailability, Reply, shopVars, TypeOK, Refusal
<1>4. CASE PlaceOrder(c)
  <2>1. reserved' \in [Variant -> Nat]
    BY <1>4, QtyType DEF PlaceOrder, ReservedWith, TypeOK
  <2>2. order' \in [Order -> OrderStatus \cup {Absent}]
    BY <1>4 DEF PlaceOrder, TypeOK, OrderStatus
  <2>3. payment' \in [Order -> PaymentStatus \cup {Absent}]
    BY <1>4 DEF PlaceOrder, TypeOK, PaymentStatus
  <2>4. resv' \in [Row -> ReservationStatus \cup {Absent}]
    BY <1>4 DEF PlaceOrder, TypeOK, ReservationStatus
  <2>5. /\ checkout' \in [Order -> {"start", "checking", "reserving", "done"}]
        /\ answer' \in [Order -> Order \cup Refusal \cup {None}]
    BY <1>4 DEF PlaceOrder, Reply, TypeOK
  <2>6. keyOwner' \in [Key -> Order \cup {None}]
    BY <1>4, KeyOfType DEF PlaceOrder, TypeOK
  <2>. QED
    BY <1>4, <2>1, <2>2, <2>3, <2>4, <2>5, <2>6 DEF PlaceOrder, TypeOK
<1>5. CASE RollBackOrder(c)
  <2>1. PICK a \in Refusal : Reply(c, a)
    BY <1>5 DEF RollBackOrder, Refusal
  <2>. QED
    BY <1>5, <2>1, ReplyTypes DEF RollBackOrder, shopVars, TypeOK
<1>. QED
  BY <1>1, <1>2, <1>3, <1>4, <1>5 DEF CheckoutStep

LEMMA TimeTypes ==
    ASSUME TypeOK,
           (\E c \in Order : Elapse(c)) \/ (\E k \in Key : LapseKey(k))
    PROVE  TypeOK'
<1>1. ASSUME NEW c \in Order, Elapse(c)
      PROVE  TypeOK'
  <2>1. elapsed' \in Seq(Order)
    BY <1>1 DEF Elapse, TypeOK
  <2>. QED
    BY <1>1, <2>1 DEF Elapse, shopVars, reqVars, TypeOK
<1>2. ASSUME NEW k \in Key, LapseKey(k)
      PROVE  TypeOK'
  BY <1>2 DEF LapseKey, shopVars, reqVars, TypeOK
<1>. QED
  BY <1>1, <1>2

\* A sweep that deals with a row has one, and letting go of it is typed.
LEMMA SweepInHand ==
    ASSUME TypeOK, NEW s \in Sweeper,
           sweep[s].pc \in {"claimed", "settled", "unsettled"}
    PROVE  /\ sweep[s].row \in Row
           /\ NextRow(s) => sweep' \in [Sweeper -> SweepState]
<1>1. sweep[s] \in [pc : {"claimed", "settled", "unsettled"}, todo : SUBSET Row, row : Row]
  BY DEF TypeOK, SweepState
<1>2. ASSUME NextRow(s)
      PROVE  sweep' \in [Sweeper -> SweepState]
  BY <1>1, <1>2 DEF NextRow, TypeOK, SweepState
<1>. QED
  BY <1>1, <1>2

LEMMA SweepTypes ==
    ASSUME TypeOK, NEW s \in Sweeper, SweepStep(s)
    PROVE  TypeOK'
<1>1. CASE StartSweep(s)
  <2>1. PICK S \in FirstCandidates :
           sweep' = [sweep EXCEPT ![s] = [pc |-> "loop", todo |-> S, row |-> None]]
    BY <1>1 DEF StartSweep
  <2>2. S \in SUBSET Row
    BY DEF FirstCandidates, Candidate
  <2>3. sweep' \in [Sweeper -> SweepState]
    BY <2>1, <2>2 DEF TypeOK, SweepState
  <2>. QED
    BY <1>1, <2>3 DEF StartSweep, shopVars, reqVars, TypeOK
<1>2. CASE Claim(s)
  <2>1. sweep[s] \in [pc : {"loop"}, todo : SUBSET Row, row : {None}]
    BY <1>2 DEF Claim, TypeOK, SweepState
  <2>. DEFINE Took(r) == sweep' = [sweep EXCEPT ![s] = [pc |-> "claimed",
                                                       todo |-> sweep[s].todo \ {r},
                                                       row |-> r]]
              Skipped(r) == sweep' = [sweep EXCEPT ![s].todo = @ \ {r}]
  <2>2. PICK r \in sweep[s].todo :
           \/ resv' = [resv EXCEPT ![r] = "expired"] /\ Took(r)
           \/ UNCHANGED resv /\ Skipped(r)
    BY <1>2 DEF Claim, NextUp
  <2>3. r \in Row /\ sweep[s].todo \ {r} \in SUBSET Row
    BY <2>1
  <2>4. ASSUME Took(r)
        PROVE  sweep' \in [Sweeper -> SweepState]
    <3>1. [pc |-> "claimed", todo |-> sweep[s].todo \ {r}, row |-> r] \in SweepState
      BY <2>3 DEF SweepState
    <3>. QED
      BY <2>4, <3>1 DEF TypeOK
  <2>5. ASSUME Skipped(r)
        PROVE  sweep' \in [Sweeper -> SweepState]
    <3>1. [sweep[s] EXCEPT !.todo = @ \ {r}] \in SweepState
      BY <2>1, <2>3 DEF SweepState
    <3>. QED
      BY <2>5, <3>1 DEF TypeOK
  <2>6. resv' \in [Row -> ReservationStatus \cup {Absent}]
    BY <2>2, <2>3 DEF TypeOK, ReservationStatus
  <2>7. sweep' \in [Sweeper -> SweepState]
    BY <2>2, <2>4, <2>5
  <2>. QED
    BY <1>2, <2>6, <2>7 DEF Claim, reqVars, TypeOK
<1>3. CASE RecheckPayment(s)
  <2>1. sweep[s] \in [pc : {"claimed"}, todo : SUBSET Row, row : Row]
    BY <1>3 DEF RecheckPayment, TypeOK, SweepState
  <2>2. sweep' \in [Sweeper -> SweepState]
    BY <1>3, <2>1 DEF RecheckPayment, TypeOK, SweepState
  <2>. QED
    BY <1>3, <2>2 DEF RecheckPayment, shopVars, reqVars, TypeOK
<1>4. CASE GiveBack(s)
  <2>1. sweep' \in [Sweeper -> SweepState]
    BY <1>4, SweepInHand DEF GiveBack
  <2>2. resv' \in [Row -> ReservationStatus \cup {Absent}]
    BY <1>4 DEF GiveBack, TypeOK, ReservationStatus
  <2>. QED
    BY <1>4, <2>1, <2>2 DEF GiveBack, reqVars, TypeOK
<1>5. CASE ReleaseHold(s)
  <2>. DEFINE r == sweep[s].row
  <2>1. r \in Row /\ sweep' \in [Sweeper -> SweepState]
    BY <1>5, SweepInHand DEF ReleaseHold
  <2>2. r[2] \in Variant /\ Qty[r] \in Nat
    BY <2>1, RowParts, QtyType
  <2>3. reserved' \in [Variant -> Nat]
    BY <1>5, <2>2 DEF ReleaseHold, TypeOK, Clamp
  <2>4. released' \in [Row -> Nat]
    BY <1>5, <2>1 DEF ReleaseHold, TypeOK
  <2>5. order' \in [Order -> OrderStatus \cup {Absent}]
    BY <1>5 DEF ReleaseHold, TypeOK, OrderStatus
  <2>6. payment' \in [Order -> PaymentStatus \cup {Absent}]
    BY <1>5 DEF ReleaseHold, TypeOK, PaymentStatus
  <2>. QED
    BY <1>5, <2>1, <2>3, <2>4, <2>5, <2>6 DEF ReleaseHold, reqVars, TypeOK
<1>6. CASE FinishSweep(s)
  <2>1. sweep[s] \in [pc : {"loop"}, todo : SUBSET Row, row : {None}]
    BY <1>6 DEF FinishSweep, TypeOK, SweepState
  <2>2. sweep' \in [Sweeper -> SweepState]
    BY <1>6, <2>1 DEF FinishSweep, TypeOK, SweepState
  <2>. QED
    BY <1>6, <2>2 DEF FinishSweep, shopVars, reqVars, TypeOK
<1>7. CASE LoseClaim(s)
  <2>1. sweep' \in [Sweeper -> SweepState]
    BY <1>7, SweepInHand DEF LoseClaim
  <2>. QED
    BY <1>7, <2>1 DEF LoseClaim, shopVars, reqVars, TypeOK
<1>8. CASE CrashSweep(s)
  <2>1. sweep' \in [Sweeper -> SweepState]
    BY <1>8 DEF CrashSweep, TypeOK, SweepState
  <2>. QED
    BY <1>8, <2>1 DEF CrashSweep, shopVars, reqVars, TypeOK
<1>9. CASE SkipRow(s)
  <2>1. sweep[s] \in [pc : {"loop"}, todo : SUBSET Row, row : {None}]
    BY <1>9 DEF SkipRow, TypeOK, SweepState
  <2>2. PICK r \in sweep[s].todo : sweep' = [sweep EXCEPT ![s].todo = @ \ {r}]
    BY <1>9 DEF SkipRow, NextUp
  <2>3. [sweep[s] EXCEPT !.todo = @ \ {r}] \in SweepState
    BY <2>1 DEF SweepState
  <2>4. sweep' \in [Sweeper -> SweepState]
    BY <2>2, <2>3 DEF TypeOK
  <2>. QED
    BY <1>9, <2>4 DEF SkipRow, shopVars, reqVars, TypeOK
<1>. QED
  BY <1>1, <1>2, <1>3, <1>4, <1>5, <1>6, <1>7, <1>8, <1>9 DEF SweepStep, SweepProgress

\* Spending or losing a live step-up leaves a typed account of them.
LEMMA OneFewer ==
    ASSUME TypeOK, NEW u \in Staff, stepUp[u].live > 0,
           stepUp' = [stepUp EXCEPT ![u].live = @ - 1]
    PROVE  stepUp' \in [Staff -> [granted : Nat, live : Nat]]
<1>1. stepUp[u] \in [granted : Nat, live : Nat]
  BY DEF TypeOK
<1>2. stepUp[u].live - 1 \in Nat
  BY <1>1
<1>3. [stepUp[u] EXCEPT !.live = @ - 1] \in [granted : Nat, live : Nat]
  BY <1>1, <1>2
<1>. QED
  BY <1>3 DEF TypeOK

LEMMA StepUpTypes ==
    ASSUME TypeOK, NEW u \in Staff, GrantStepUp(u) \/ LapseStepUp(u)
    PROVE  TypeOK'
<1>1. stepUp[u] \in [granted : Nat, live : Nat]
  BY DEF TypeOK
<1>2. CASE GrantStepUp(u)
  <2>1. stepUp' \in [Staff -> [granted : Nat, live : Nat]]
    BY <1>1, <1>2 DEF GrantStepUp, TypeOK
  <2>. QED
    BY <1>2, <2>1 DEF GrantStepUp, shopVars, reqVars, TypeOK
<1>3. CASE LapseStepUp(u)
  <2>1. stepUp' \in [Staff -> [granted : Nat, live : Nat]]
    BY <1>3, OneFewer DEF LapseStepUp
  <2>. QED
    BY <1>3, <2>1 DEF LapseStepUp, shopVars, reqVars, TypeOK
<1>. QED
  BY <1>2, <1>3

LEMMA ConsumedType ==
    ASSUME NEW c \in Order, NEW v \in Variant
    PROVE  ConsumedUnits(c, v) \in Nat
BY QtyType DEF ConsumedUnits

\* A request past its read knows its order, and moving on keeps its type.
LEMMA VerifyInHand ==
    ASSUME TypeOK, NEW r \in Verification, ver[r].pc \in {"read", "authorised"},
           NEW pc \in {"authorised", "recorded", "refused"}
    PROVE  /\ ver[r].order \in Order
           /\ ver[r].to \in VerificationOutcome
           /\ ver' = [ver EXCEPT ![r].pc = pc] => ver' \in [Verification -> VerifyState]
<1>1. ver[r] \in [pc : {"read", "authorised", "recorded", "refused"}, order : Order,
                  from : PaymentStatus \cup {Absent}, orderFrom : OrderStatus,
                  to : VerificationOutcome]
  BY DEF TypeOK, VerifyState
<1>2. ASSUME ver' = [ver EXCEPT ![r].pc = pc]
      PROVE  ver' \in [Verification -> VerifyState]
  <2>1. [ver[r] EXCEPT !.pc = pc] \in VerifyState
    BY <1>1 DEF VerifyState
  <2>. QED
    BY <1>2, <2>1 DEF TypeOK
<1>. QED
  BY <1>1, <1>2

LEMMA VerifyTypes ==
    ASSUME TypeOK, NEW r \in Verification, VerifyStep(r)
    PROVE  TypeOK'
<1>1. CASE ReadPayment(r)
  <2>1. PICK c \in Placed, to \in Outcomes :
           ver' = [ver EXCEPT ![r] =
                     [pc |-> IF CanMovePayment(payment[c], to) THEN "read" ELSE "refused",
                      order |-> c, from |-> payment[c], orderFrom |-> order[c], to |-> to]]
    BY <1>1 DEF ReadPayment
  <2>2. /\ c \in Order
        /\ order[c] \in OrderStatus
        /\ payment[c] \in PaymentStatus \cup {Absent}
        /\ to \in VerificationOutcome
    BY OrderStockAssumption DEF OrderStockAssumption, Placed, TypeOK
  <2>3. [pc |-> IF CanMovePayment(payment[c], to) THEN "read" ELSE "refused",
         order |-> c, from |-> payment[c], orderFrom |-> order[c], to |-> to] \in VerifyState
    BY <2>2 DEF VerifyState
  <2>4. ver' \in [Verification -> VerifyState]
    BY <2>1, <2>3 DEF TypeOK
  <2>. QED
    BY <1>1, <2>4 DEF ReadPayment, shopVars, reqVars, TypeOK
<1>2. CASE Authorise(r)
  <2>1. ver' \in [Verification -> VerifyState]
    BY <1>2, VerifyInHand DEF Authorise
  <2>2. stepUp' \in [Staff -> [granted : Nat, live : Nat]]
    <3>1. UserOf[r] \in Staff
      BY OrderStockAssumption DEF OrderStockAssumption
    <3>2. ASSUME stepUp[UserOf[r]].live > 0, stepUp' = SpendStepUp(UserOf[r])
          PROVE  stepUp' \in [Staff -> [granted : Nat, live : Nat]]
      BY <3>1, <3>2, OneFewer DEF SpendStepUp
    <3>. QED
      BY <1>2, <3>2 DEF Authorise, TypeOK
  <2>. QED
    BY <1>2, <2>1, <2>2 DEF Authorise, shopVars, reqVars, TypeOK
<1>3. CASE RecordOutcome(r)
  <2>. DEFINE c == ver[r].order
  <2>1. /\ c \in Order
        /\ ver[r].to \in VerificationOutcome
        /\ ver' \in [Verification -> VerifyState]
    BY <1>3, VerifyInHand DEF RecordOutcome
  <2>2. payment' \in [Order -> PaymentStatus \cup {Absent}]
    BY <1>3, <2>1 DEF RecordOutcome, TypeOK, VerificationOutcome, PaymentStatus
  <2>3. order' \in [Order -> OrderStatus \cup {Absent}]
    BY <1>3, <2>1 DEF RecordOutcome, TypeOK, OrderStatus
  <2>4. onHand' \in [Variant -> Nat] /\ reserved' \in [Variant -> Nat]
    <3>1. ASSUME LevelsAllowed(Minus(onHand, c), Minus(reserved, c)),
                 onHand' = Minus(onHand, c), reserved' = Minus(reserved, c)
          PROVE  onHand' \in [Variant -> Nat] /\ reserved' \in [Variant -> Nat]
      <4>1. ASSUME NEW v \in Variant
            PROVE  onHand[v] - ConsumedUnits(c, v) \in Nat /\ reserved[v] - ConsumedUnits(c, v) \in Nat
        BY <2>1, <3>1, ConsumedType DEF LevelsAllowed, Minus, TypeOK
      <4>. QED
        BY <3>1, <4>1 DEF Minus
    <3>. QED
      BY <1>3, <3>1 DEF RecordOutcome, TypeOK
  <2>5. resv' \in [Row -> ReservationStatus \cup {Absent}]
    BY <1>3 DEF RecordOutcome, TypeOK, ReservationStatus
  <2>. QED
    BY <1>3, <2>1, <2>2, <2>3, <2>4, <2>5 DEF RecordOutcome, reqVars, TypeOK
<1>4. CASE RollBackOutcome(r)
  <2>1. ver' \in [Verification -> VerifyState]
    BY <1>4, VerifyInHand DEF RollBackOutcome
  <2>. QED
    BY <1>4, <2>1 DEF RollBackOutcome, shopVars, reqVars, TypeOK
<1>. QED
  BY <1>1, <1>2, <1>3, <1>4 DEF VerifyStep

\* A status change past its read knows its order, and ending it keeps its type.
LEMMA EditInHand ==
    ASSUME TypeOK, NEW e \in Edit, edit[e].pc = "read"
    PROVE  /\ edit[e] \in [pc : {"read"}, order : Order, from : OrderStatus, to : OrderStatus]
           /\ edit' = [edit EXCEPT ![e].pc = "done"] => edit' \in [Edit -> EditState]
<1>1. edit[e] \in [pc : {"read"}, order : Order, from : OrderStatus, to : OrderStatus]
  BY DEF TypeOK, EditState
<1>2. [edit[e] EXCEPT !.pc = "done"] \in EditState
  BY <1>1 DEF EditState
<1>3. edit \in [Edit -> EditState]
  BY DEF TypeOK
<1>. QED
  BY <1>1, <1>2, <1>3

LEMMA EditTypes ==
    ASSUME TypeOK, NEW e \in Edit, EditStep(e)
    PROVE  TypeOK'
<1>1. CASE ReadOrder(e)
  <2>1. PICK c \in Placed, to \in EditTo :
           edit' = [edit EXCEPT ![e] = [pc |-> "read", order |-> c, from |-> order[c],
                                        to |-> to]]
    BY <1>1 DEF ReadOrder
  <2>2. c \in Order /\ order[c] \in OrderStatus /\ to \in OrderStatus
    BY OrderStockAssumption DEF OrderStockAssumption, Placed, TypeOK
  <2>3. edit' \in [Edit -> EditState]
    BY <2>1, <2>2 DEF TypeOK, EditState
  <2>. QED
    BY <1>1, <2>3 DEF ReadOrder, shopVars, reqVars, TypeOK
<1>2. CASE CommitListEdit(e)
  <2>. DEFINE c == edit[e].order
  <2>1. c \in Order /\ edit[e].to \in OrderStatus /\ edit' \in [Edit -> EditState]
    BY <1>2, EditInHand DEF CommitListEdit
  <2>2. order' \in [Order -> OrderStatus \cup {Absent}]
    BY <1>2, <2>1 DEF CommitListEdit, TypeOK
  <2>3. ASSUME NEW v \in Variant
        PROVE  Clamp(reserved[v] - ReturnedUnits(c, v)) \in Nat
    BY <2>1, QtyType DEF Clamp, ReturnedUnits, TypeOK
  <2>4. reserved' \in [Variant -> Nat]
    BY <1>2, <2>3 DEF CommitListEdit, TypeOK
  <2>5. resv' \in [Row -> ReservationStatus \cup {Absent}]
    BY <1>2 DEF CommitListEdit, TypeOK, ReservationStatus
  <2>. QED
    BY <1>2, <2>1, <2>2, <2>4, <2>5 DEF CommitListEdit, reqVars, TypeOK
<1>3. CASE CommitDetailEdit(e)
  <2>1. edit[e].order \in Order /\ edit[e].to \in OrderStatus /\ edit' \in [Edit -> EditState]
    BY <1>3, EditInHand DEF CommitDetailEdit
  <2>2. order' \in [Order -> OrderStatus \cup {Absent}]
    BY <1>3, <2>1 DEF CommitDetailEdit, TypeOK
  <2>. QED
    BY <1>3, <2>1, <2>2 DEF CommitDetailEdit, reqVars, TypeOK
<1>. QED
  BY <1>1, <1>2, <1>3 DEF EditStep

LEMMA StutterTypes ==
    ASSUME TypeOK, UNCHANGED vars
    PROVE  TypeOK'
BY DEF vars, TypeOK

LEMMA StepTypes ==
    ASSUME TypeOK, [Next]_vars
    PROVE  TypeOK'
<1>1. CASE Next
  BY <1>1, CheckoutTypes, TimeTypes, SweepTypes, StepUpTypes, VerifyTypes, EditTypes DEF Next
<1>. QED
  BY <1>1, StutterTypes

\* Every shop's state has its declared type in every reachable state: counters
\* never go negative and every request knows what it deals with.
THEOREM TypeCorrect == Spec => []TypeOK
BY InitTypes, StepTypes, PTL DEF Spec

-------------------------------------------------------------------------------
(* The stock.                                                              *)

LEMMA StepBounds ==
    ASSUME TypeOK, StockBounds, [Next]_vars
    PROVE  StockBounds'
<1>. USE DEF StockBounds, LevelsAllowed
<1>1. CASE UNCHANGED <<onHand, reserved>>
  BY <1>1
<1>2. ASSUME NEW c \in Order, PlaceOrder(c)
      PROVE  StockBounds'
  BY <1>2 DEF PlaceOrder
<1>3. ASSUME NEW s \in Sweeper, ReleaseHold(s)
      PROVE  StockBounds'
  <2>. DEFINE r == sweep[s].row
  <2>1. r \in Row
    BY <1>3, SweepInHand DEF ReleaseHold
  <2>2. r[2] \in Variant /\ Qty[r] \in Nat
    BY <2>1, RowParts, QtyType
  <2>3. onHand' = onHand /\ reserved' = [reserved EXCEPT ![r[2]] = Clamp(@ - Qty[r])]
    BY <1>3 DEF ReleaseHold
  <2>4. ASSUME NEW v \in Variant
        PROVE  reserved'[v] \in Nat /\ reserved'[v] <= reserved[v]
    BY <2>2, <2>3 DEF TypeOK, Clamp
  <2>. QED
    BY <2>3, <2>4 DEF TypeOK
<1>4. ASSUME NEW r \in Verification, RecordOutcome(r)
      PROVE  StockBounds'
  BY <1>4 DEF RecordOutcome
<1>5. ASSUME NEW e \in Edit, CommitListEdit(e)
      PROVE  StockBounds'
  <2>. DEFINE c == edit[e].order
  <2>1. ASSUME NEW v \in Variant
        PROVE  reserved[v] \in Nat /\ ReturnedUnits(c, v) \in Nat
    BY <1>5, EditInHand, QtyType DEF CommitListEdit, ReturnedUnits, TypeOK
  <2>2. \/ UNCHANGED reserved
        \/ reserved' = [v \in Variant |-> Clamp(reserved[v] - ReturnedUnits(c, v))]
    BY <1>5 DEF CommitListEdit
  <2>3. onHand' = onHand /\ onHand \in [Variant -> Nat]
    BY <1>5 DEF CommitListEdit, TypeOK
  <2>4. ASSUME NEW v \in Variant
        PROVE  reserved'[v] \in Nat /\ reserved'[v] <= reserved[v]
    BY <2>1, <2>2 DEF Clamp
  <2>. QED
    BY <2>1, <2>3, <2>4
<1>. QED
  <2>1. CASE UNCHANGED vars
    BY <1>1, <2>1 DEF vars
  <2>2. ASSUME NEW c \in Order, CheckoutStep(c) \/ Elapse(c)
        PROVE  StockBounds'
    BY <1>1, <1>2, <2>2 DEF CheckoutStep, LookUpKey, RefuseCheckout, CheckAvailability,
       RollBackOrder, Elapse, shopVars
  <2>3. ASSUME NEW k \in Key, LapseKey(k)
        PROVE  StockBounds'
    BY <1>1, <2>3 DEF LapseKey, shopVars
  <2>4. ASSUME NEW s \in Sweeper, SweepStep(s)
        PROVE  StockBounds'
    BY <1>1, <1>3, <2>4 DEF SweepStep, SweepProgress, StartSweep, Claim, RecheckPayment,
       GiveBack, FinishSweep, SkipRow, LoseClaim, CrashSweep, shopVars
  <2>5. ASSUME NEW u \in Staff, GrantStepUp(u) \/ LapseStepUp(u)
        PROVE  StockBounds'
    BY <1>1, <2>5 DEF GrantStepUp, LapseStepUp, shopVars
  <2>6. ASSUME NEW r \in Verification, VerifyStep(r)
        PROVE  StockBounds'
    BY <1>1, <1>4, <2>6 DEF VerifyStep, ReadPayment, Authorise, RollBackOutcome, shopVars
  <2>7. ASSUME NEW e \in Edit, EditStep(e)
        PROVE  StockBounds'
    BY <1>1, <1>5, <2>7 DEF EditStep, ReadOrder, CommitDetailEdit, shopVars
  <2>. QED
    BY <2>1, <2>2, <2>3, <2>4, <2>5, <2>6, <2>7 DEF Next

\* The shop never promises more units than it has, nor fewer than none: the
\* batches that could break the bound are refused by the CHECK, the others clamp.
THEOREM StockBounded == Spec => []StockBounds
<1>1. Init => StockBounds
  BY OrderStockAssumption DEF OrderStockAssumption, Init, StockBounds
<1>. QED
  BY <1>1, TypeCorrect, StepBounds, PTL DEF Spec

-------------------------------------------------------------------------------
(* Replays.  A key is spent once and never changes hands, and whoever is   *)
(* answered with an order is answered with the owner of its key.           *)

AnswersOwner ==
    \A c \in Order : answer[c] \in Order => keyOwner[KeyOf[c]] = answer[c]

LEMMA StepAnswers ==
    ASSUME TypeOK, AnswersOwner, [Next]_vars
    PROVE  AnswersOwner'
<1>1. ASSUME UNCHANGED <<keyOwner, answer>>
      PROVE  AnswersOwner'
  BY <1>1 DEF AnswersOwner
<1>2. ASSUME NEW c \in Order, NEW a, Reply(c, a), UNCHANGED keyOwner,
             a \in Order => keyOwner[KeyOf[c]] = a
      PROVE  AnswersOwner'
  BY <1>2 DEF Reply, AnswersOwner, TypeOK
<1>3. ASSUME NEW c \in Order, LookUpKey(c)
      PROVE  AnswersOwner'
  BY <1>1, <1>2, <1>3 DEF LookUpKey, shopVars
<1>4. ASSUME NEW c \in Order, RefuseCheckout(c) \/ CheckAvailability(c) \/ RollBackOrder(c)
      PROVE  AnswersOwner'
  <2>1. keyOwner' = keyOwner
    BY <1>4 DEF RefuseCheckout, CheckAvailability, RollBackOrder, shopVars
  <2>2. (\E a \in Refusal : Reply(c, a)) \/ answer' = answer
    BY <1>4 DEF RefuseCheckout, CheckAvailability, RollBackOrder, Refusal
  <2>3. Refusal \cap Order = {}
    BY OrderStockAssumption DEF OrderStockAssumption
  <2>. QED
    BY <1>1, <1>2, <2>1, <2>2, <2>3
<1>5. ASSUME NEW c \in Order, PlaceOrder(c)
      PROVE  AnswersOwner'
  <2>1. KeyOf[c] \in Key /\ keyOwner[KeyOf[c]] = None /\ None \notin Order
    BY <1>5, KeyOfType, NoneIsNoOrderOrRow DEF PlaceOrder, KeyTaken
  <2>2. keyOwner' = [keyOwner EXCEPT ![KeyOf[c]] = c] /\ answer' = [answer EXCEPT ![c] = c]
    BY <1>5 DEF PlaceOrder, Reply
  <2>3. ASSUME NEW d \in Order, answer'[d] \in Order
        PROVE  keyOwner'[KeyOf[d]] = answer'[d]
    <3>1. CASE d = c
      BY <2>1, <2>2, <3>1 DEF TypeOK
    <3>2. CASE d # c
      <4>1. answer'[d] = answer[d] /\ keyOwner[KeyOf[d]] = answer[d]
        BY <2>2, <2>3, <3>2 DEF AnswersOwner, TypeOK
      <4>2. KeyOf[d] # KeyOf[c]
        BY <2>1, <2>3, <4>1
      <4>. QED
        BY <2>2, <4>1, <4>2, KeyOfType DEF TypeOK
    <3>. QED
      BY <3>1, <3>2
  <2>. QED
    BY <2>3 DEF AnswersOwner
<1>. QED
  <2>1. CASE UNCHANGED vars
    BY <1>1, <2>1 DEF vars
  <2>2. ASSUME NEW c \in Order, CheckoutStep(c)
        PROVE  AnswersOwner'
    BY <1>3, <1>4, <1>5, <2>2 DEF CheckoutStep
  <2>3. CASE \/ \E c \in Order : Elapse(c)
             \/ \E k \in Key : LapseKey(k)
             \/ \E s \in Sweeper : SweepStep(s)
             \/ \E u \in Staff : GrantStepUp(u) \/ LapseStepUp(u)
             \/ \E r \in Verification : VerifyStep(r)
             \/ \E e \in Edit : EditStep(e)
    BY <1>1, <2>3 DEF Elapse, LapseKey, SweepStep, SweepProgress, StartSweep, Claim,
       RecheckPayment, GiveBack, ReleaseHold, FinishSweep, SkipRow, LoseClaim, CrashSweep, GrantStepUp,
       LapseStepUp, VerifyStep, ReadPayment, Authorise, RecordOutcome, RollBackOutcome,
       EditStep, ReadOrder, CommitListEdit, CommitDetailEdit, shopVars, reqVars
  <2>. QED
    BY <2>1, <2>2, <2>3 DEF Next

\* Two requests with one key are never answered with two orders, however they
\* interleave and also when the key's 24 hours pass between them.
THEOREM ReplaysAgree == Spec => []ReplayAgrees
<1>1. Init => AnswersOwner
  BY NoneIsNoOrderOrRow DEF Init, AnswersOwner
<1>2. AnswersOwner => ReplayAgrees
  BY DEF AnswersOwner, ReplayAgrees
<1>. QED
  BY <1>1, <1>2, TypeCorrect, StepAnswers, PTL DEF Spec

-------------------------------------------------------------------------------
(* Payments.  A verification still holds the move it judged legal, and only *)
(* writes it over the status it judged it on.                              *)

PlacedAreAnswered ==
    \A c \in Order : order[c] # Absent => checkout[c] = "done"

DealsWithPlaced ==
    /\ \A r \in Verification : ver[r].pc # "idle" => checkout[ver[r].order] = "done"
    /\ \A e \in Edit : edit[e].pc # "idle" => checkout[edit[e].order] = "done"

HoldsLegalMove ==
    \A r \in Verification :
        ver[r].pc \in {"read", "authorised"} => CanMovePayment(ver[r].from, ver[r].to)

MoveInv == TypeOK /\ PlacedAreAnswered /\ DealsWithPlaced /\ HoldsLegalMove

LEMMA StepMoves ==
    ASSUME MoveInv, [Next]_vars
    PROVE  PlacedAreAnswered' /\ DealsWithPlaced' /\ HoldsLegalMove'
<1>. USE DEF MoveInv
<1>. DEFINE Goal == PlacedAreAnswered' /\ DealsWithPlaced' /\ HoldsLegalMove'
<1>1. ASSUME UNCHANGED <<ver, edit>>, \A c \in Order : order'[c] = Absent \/ order[c] # Absent,
             UNCHANGED checkout
      PROVE  Goal
  BY <1>1 DEF PlacedAreAnswered, DealsWithPlaced, HoldsLegalMove
<1>2. ASSUME NEW c \in Order, CheckoutStep(c)
      PROVE  Goal
  <2>1. checkout[c] # "done" /\ \A d \in Order \ {c} : checkout'[d] = checkout[d]
    BY <1>2 DEF CheckoutStep, LookUpKey, RefuseCheckout, CheckAvailability, PlaceOrder,
       RollBackOrder, Reply, TypeOK
  <2>2. UNCHANGED <<ver, edit>>
    BY <1>2 DEF CheckoutStep, LookUpKey, RefuseCheckout, CheckAvailability, PlaceOrder,
       RollBackOrder
  <2>3. order' = order \/ (checkout'[c] = "done" /\ \A d \in Order \ {c} : order'[d] = order[d])
    BY <1>2 DEF CheckoutStep, LookUpKey, RefuseCheckout, CheckAvailability, PlaceOrder,
       RollBackOrder, Reply, TypeOK, shopVars
  <2>4. PlacedAreAnswered'
    BY <2>1, <2>3 DEF PlacedAreAnswered
  <2>5. \A d \in Order : checkout[d] = "done" => checkout'[d] = "done"
    BY <2>1
  <2>6. \A r \in Verification : ver[r].pc # "idle" => ver[r].order \in Order
    BY DEF TypeOK, VerifyState
  <2>7. \A e \in Edit : edit[e].pc # "idle" => edit[e].order \in Order
    BY DEF TypeOK, EditState
  <2>8. DealsWithPlaced' /\ HoldsLegalMove'
    BY <2>2, <2>5, <2>6, <2>7 DEF DealsWithPlaced, HoldsLegalMove
  <2>. QED
    BY <2>4, <2>8
<1>3. ASSUME NEW s \in Sweeper, SweepStep(s)
      PROVE  Goal
  <2>1. UNCHANGED <<ver, edit, checkout>>
    BY <1>3 DEF SweepStep, SweepProgress, StartSweep, Claim, RecheckPayment, GiveBack,
       ReleaseHold, FinishSweep, SkipRow, LoseClaim, CrashSweep, reqVars
  <2>2. \A c \in Order : order'[c] = order[c] \/ order[c] \in ReservingStatus
    BY <1>3 DEF SweepStep, SweepProgress, StartSweep, Claim, RecheckPayment, GiveBack,
       ReleaseHold, FinishSweep, SkipRow, LoseClaim, CrashSweep, shopVars, TypeOK
  <2>. QED
    BY <1>1, <2>1, <2>2 DEF ReservingStatus, Absent
<1>4. ASSUME NEW r \in Verification, VerifyStep(r)
      PROVE  Goal
  <2>1. UNCHANGED <<edit, checkout>> /\ \A q \in Verification \ {r} : ver'[q] = ver[q]
    BY <1>4 DEF VerifyStep, ReadPayment, Authorise, RecordOutcome, RollBackOutcome, reqVars,
       TypeOK
  <2>2. CASE ReadPayment(r)
    <3>1. PICK c \in Placed, to \in Outcomes :
             ver'[r] = [pc |-> IF CanMovePayment(payment[c], to) THEN "read" ELSE "refused",
                        order |-> c, from |-> payment[c], orderFrom |-> order[c], to |-> to]
      BY <2>2 DEF ReadPayment, TypeOK
    <3>2. checkout[ver'[r].order] = "done"
      BY <3>1 DEF Placed, PlacedAreAnswered
    <3>3. ver'[r].pc = "read" => CanMovePayment(ver'[r].from, ver'[r].to)
      BY <3>1
    <3>4. ver'[r].pc # "authorised" /\ order' = order
      BY <2>2, <3>1 DEF ReadPayment, shopVars
    <3>. QED
      BY <2>1, <3>2, <3>3, <3>4 DEF PlacedAreAnswered, DealsWithPlaced, HoldsLegalMove
  <2>3. CASE ~ReadPayment(r)
    <3>1. ver[r].pc \in {"read", "authorised"}
      BY <1>4, <2>3 DEF VerifyStep, Authorise, RecordOutcome, RollBackOutcome
    <3>2. checkout[ver[r].order] = "done" /\ CanMovePayment(ver[r].from, ver[r].to)
      BY <3>1 DEF DealsWithPlaced, HoldsLegalMove
    <3>3. PICK pc \in {"authorised", "recorded", "refused"} : ver' = [ver EXCEPT ![r].pc = pc]
      BY <1>4, <2>3 DEF VerifyStep, Authorise, RecordOutcome, RollBackOutcome
    <3>4. ver[r] \in [pc : {"read", "authorised", "recorded", "refused"}, order : Order,
                      from : PaymentStatus \cup {Absent}, orderFrom : OrderStatus,
                      to : VerificationOutcome]
      BY <3>1 DEF TypeOK, VerifyState
    <3>5. ver'[r] = [ver[r] EXCEPT !.pc = pc]
      BY <3>3 DEF TypeOK
    <3>6. /\ ver'[r].order = ver[r].order
          /\ ver'[r].from = ver[r].from
          /\ ver'[r].to = ver[r].to
      BY <3>4, <3>5
    <3>7. \A c \in Order \ {ver[r].order} : order'[c] = order[c]
      BY <1>4, <2>3 DEF VerifyStep, Authorise, RecordOutcome, RollBackOutcome, shopVars, TypeOK
    <3>. QED
      BY <2>1, <3>2, <3>6, <3>7 DEF PlacedAreAnswered, DealsWithPlaced, HoldsLegalMove
  <2>. QED
    BY <2>2, <2>3
<1>5. ASSUME NEW e \in Edit, EditStep(e)
      PROVE  Goal
  <2>1. UNCHANGED <<ver, checkout>> /\ \A f \in Edit \ {e} : edit'[f] = edit[f]
    BY <1>5 DEF EditStep, ReadOrder, CommitListEdit, CommitDetailEdit, reqVars, TypeOK
  <2>2. CASE ReadOrder(e)
    <3>1. PICK c \in Placed, to \in EditTo :
             edit'[e] = [pc |-> "read", order |-> c, from |-> order[c], to |-> to]
      BY <2>2 DEF ReadOrder, TypeOK
    <3>2. checkout[edit'[e].order] = "done" /\ order' = order
      BY <2>2, <3>1 DEF ReadOrder, shopVars, Placed, PlacedAreAnswered
    <3>. QED
      BY <2>1, <3>2 DEF PlacedAreAnswered, DealsWithPlaced, HoldsLegalMove
  <2>3. CASE ~ReadOrder(e)
    <3>1. edit[e].pc = "read" /\ edit' = [edit EXCEPT ![e].pc = "done"]
      BY <1>5, <2>3 DEF EditStep, CommitListEdit, CommitDetailEdit
    <3>2. edit'[e].order = edit[e].order
      BY <3>1, EditInHand DEF TypeOK
    <3>3. checkout[edit[e].order] = "done"
      BY <3>1 DEF DealsWithPlaced
    <3>4. \A c \in Order \ {edit[e].order} : order'[c] = order[c]
      BY <1>5, <2>3 DEF EditStep, CommitListEdit, CommitDetailEdit, TypeOK
    <3>. QED
      BY <2>1, <3>2, <3>3, <3>4 DEF PlacedAreAnswered, DealsWithPlaced, HoldsLegalMove
  <2>. QED
    BY <2>2, <2>3
<1>6. CASE \/ UNCHANGED vars
           \/ \E c \in Order : Elapse(c)
           \/ \E k \in Key : LapseKey(k)
           \/ \E u \in Staff : GrantStepUp(u) \/ LapseStepUp(u)
  BY <1>1, <1>6 DEF Elapse, LapseKey, GrantStepUp, LapseStepUp, shopVars, reqVars, vars
<1>. QED
  BY <1>2, <1>3, <1>4, <1>5, <1>6 DEF Next

LEMMA MovesHold == Spec => []MoveInv
<1>1. Init => PlacedAreAnswered /\ DealsWithPlaced /\ HoldsLegalMove
  BY DEF Init, PlacedAreAnswered, DealsWithPlaced, HoldsLegalMove
<1>2. Init => MoveInv
  BY <1>1, InitTypes DEF MoveInv
<1>3. MoveInv /\ [Next]_vars => MoveInv'
  BY StepTypes, StepMoves DEF MoveInv
<1>. QED
  BY <1>2, <1>3, PTL DEF Spec

\* The statuses the sweeper's update lists may all expire by the table.
LEMMA ExpiryIsLegal ==
    ASSUME NEW s, CanExpirePayment(s)
    PROVE  CanMovePayment(s, "expired")
<1>1. CASE s = "awaiting_customer_contact"
  BY <1>1 DEF CanMovePayment, PaymentStatus, PaymentTransition
<1>2. CASE s = "awaiting_payment"
  BY <1>2 DEF CanMovePayment, PaymentStatus, PaymentTransition
<1>3. CASE s = "proof_received"
  BY <1>3 DEF CanMovePayment, PaymentStatus, PaymentTransition
<1>. QED
  BY <1>1, <1>2, <1>3 DEF CanExpirePayment

\* No interleaving of verifications and sweeps takes a payment along a move the
\* table does not allow, though each judged its move on an earlier status.
THEOREM PaymentsMoveLegally == Spec => PaymentStepsLegal
<1>. DEFINE Legal == \A c \in Placed : payment'[c] = payment[c]
                                       \/ CanMovePayment(payment[c], payment'[c])
<1>1. ASSUME MoveInv, [Next]_vars
      PROVE  Legal
  <2>. USE DEF MoveInv
  <2>1. CASE UNCHANGED payment
    BY <2>1
  <2>2. ASSUME NEW c \in Order, PlaceOrder(c)
        PROVE  Legal
    BY <1>1, <2>2 DEF PlaceOrder, Placed, PlacedAreAnswered, TypeOK
  <2>3. ASSUME NEW s \in Sweeper, ReleaseHold(s)
        PROVE  Legal
    <3>1. ASSUME NEW c \in Order, CanExpirePayment(payment[c])
          PROVE  CanMovePayment(payment[c], "expired")
      BY <3>1, ExpiryIsLegal
    <3>2. ASSUME NEW c \in Order
          PROVE  payment'[c] = payment[c]
                 \/ (payment'[c] = "expired" /\ CanExpirePayment(payment[c]))
      BY <1>1, <2>3 DEF ReleaseHold, TypeOK
    <3>. QED
      BY <3>1, <3>2 DEF Placed
  <2>4. ASSUME NEW r \in Verification, RecordOutcome(r)
        PROVE  Legal
    <3>1. CanMovePayment(ver[r].from, ver[r].to)
      BY <1>1, <2>4 DEF RecordOutcome, HoldsLegalMove
    <3>2. payment \in [Order -> PaymentStatus \cup {Absent}]
      BY <1>1 DEF TypeOK
    <3>3. payment' = [payment EXCEPT ![ver[r].order] =
                         IF PaymentMatches(ver[r].order, ver[r].from) THEN ver[r].to ELSE @]
      BY <2>4 DEF RecordOutcome
    <3>4. ASSUME NEW c \in Order
          PROVE  payment'[c] = payment[c]
                 \/ (payment[c] = ver[r].from /\ payment'[c] = ver[r].to)
      BY <3>2, <3>3 DEF PaymentMatches
    <3>. QED
      BY <3>1, <3>4 DEF Placed
  <2>5. \/ UNCHANGED payment
        \/ \E c \in Order : PlaceOrder(c)
        \/ \E s \in Sweeper : ReleaseHold(s)
        \/ \E r \in Verification : RecordOutcome(r)
    BY <1>1 DEF Next, CheckoutStep, LookUpKey, RefuseCheckout, CheckAvailability,
       RollBackOrder, Elapse, LapseKey, SweepStep, SweepProgress, StartSweep, Claim,
       RecheckPayment, GiveBack, FinishSweep, SkipRow, LoseClaim, CrashSweep, GrantStepUp, LapseStepUp,
       VerifyStep, ReadPayment, Authorise, RollBackOutcome, EditStep, ReadOrder,
       CommitListEdit, CommitDetailEdit, shopVars, vars
  <2>. QED
    BY <2>1, <2>2, <2>3, <2>4, <2>5
<1>2. MoveInv /\ [Next]_vars => [Legal]_vars
  BY <1>1
<1>. QED
  BY <1>2, MovesHold, PTL DEF Spec, PaymentStepsLegal

-------------------------------------------------------------------------------
(* Step-ups.  Each verification that got past the step-up took one of its  *)
(* user's grants with it.                                                  *)

SpentBy(u) == {r \in Verification : UserOf[r] = u /\ ver[r].pc \in {"authorised", "recorded"}}

LEMMA SpentFinite ==
    ASSUME NEW u \in Staff
    PROVE  /\ IsFiniteSet(SpentBy(u)) /\ IsFiniteSet(SpentBy(u)')
           /\ Cardinality(SpentBy(u)) \in Nat /\ Cardinality(SpentBy(u)') \in Nat
<1>1. IsFiniteSet(Verification)
  BY OrderStockAssumption DEF OrderStockAssumption
<1>2. SpentBy(u) \subseteq Verification /\ SpentBy(u)' \subseteq Verification
  BY DEF SpentBy
<1>3. IsFiniteSet(SpentBy(u)) /\ IsFiniteSet(SpentBy(u)')
  BY <1>1, <1>2, FS_Subset
<1>. QED
  BY <1>3, FS_CardinalityType

LEMMA StepSpent ==
    ASSUME TypeOK, StepUpSpentOnce, [Next]_vars, NEW u \in Staff
    PROVE  Cardinality(SpentBy(u)') + stepUp'[u].live <= stepUp'[u].granted
<1>. DEFINE Covered == Cardinality(SpentBy(u)') + stepUp'[u].live <= stepUp'[u].granted
<1>1. /\ Cardinality(SpentBy(u)) \in Nat /\ Cardinality(SpentBy(u)') \in Nat
      /\ stepUp[u] \in [granted : Nat, live : Nat]
      /\ Cardinality(SpentBy(u)) + stepUp[u].live <= stepUp[u].granted
  BY SpentFinite DEF StepUpSpentOnce, SpentBy, TypeOK
<1>2. ASSUME UNCHANGED <<ver, stepUp>>
      PROVE  Covered
  BY <1>1, <1>2 DEF SpentBy
<1>3. ASSUME NEW w \in Staff, GrantStepUp(w) \/ LapseStepUp(w)
      PROVE  Covered
  <2>1. SpentBy(u)' = SpentBy(u)
    BY <1>3 DEF GrantStepUp, LapseStepUp, SpentBy
  <2>2. CASE w # u
    <3>1. stepUp'[u] = stepUp[u]
      BY <1>3, <2>2 DEF GrantStepUp, LapseStepUp, TypeOK
    <3>. QED
      BY <1>1, <2>1, <3>1
  <2>3. CASE w = u
    <3>1. CASE GrantStepUp(u)
      <4>1. stepUp'[u] = [granted |-> stepUp[u].granted + 1, live |-> stepUp[u].live + 1]
        BY <3>1 DEF GrantStepUp, TypeOK
      <4>. QED
        BY <1>1, <2>1, <4>1
    <3>2. CASE LapseStepUp(u)
      <4>1. stepUp'[u] = [stepUp[u] EXCEPT !.live = @ - 1]
        BY <3>2 DEF LapseStepUp, TypeOK
      <4>. QED
        BY <1>1, <2>1, <4>1
    <3>. QED
      BY <1>3, <2>3, <3>1, <3>2
  <2>. QED
    BY <2>2, <2>3
<1>4. ASSUME NEW r \in Verification, VerifyStep(r)
      PROVE  Covered
  <2>1. \A q \in Verification \ {r} : ver'[q] = ver[q]
    BY <1>4 DEF VerifyStep, ReadPayment, Authorise, RecordOutcome, RollBackOutcome, TypeOK
  <2>2. ASSUME ~(ver'[r].pc \in {"authorised", "recorded"} /\ UserOf[r] = u) \/ r \in SpentBy(u)
        PROVE  Cardinality(SpentBy(u)') <= Cardinality(SpentBy(u))
    <3>1. SpentBy(u)' \subseteq SpentBy(u)
      BY <2>1, <2>2 DEF SpentBy
    <3>. QED
      BY <3>1, SpentFinite, FS_Subset
  <2>3. CASE stepUp' = stepUp /\ ~(ver[r].pc = "read" /\ ver'[r].pc = "authorised")
    <3>1. ~(ver'[r].pc \in {"authorised", "recorded"} /\ UserOf[r] = u) \/ r \in SpentBy(u)
      <4>1. ver'[r].pc \in {"authorised", "recorded"} => ver[r].pc = "authorised"
        BY <1>4, <2>3 DEF VerifyStep, ReadPayment, Authorise, RecordOutcome, RollBackOutcome,
           TypeOK, VerifyState
      <4>. QED
        BY <4>1 DEF SpentBy
    <3>. QED
      BY <1>1, <2>2, <2>3, <3>1
  <2>4. CASE Authorise(r) /\ stepUp' = SpendStepUp(UserOf[r]) /\ stepUp[UserOf[r]].live > 0
    <3>1. CASE UserOf[r] # u
      <4>1. stepUp'[u] = stepUp[u]
        BY <2>4, <3>1 DEF SpendStepUp, TypeOK
      <4>. QED
        BY <1>1, <2>2, <3>1, <4>1
    <3>2. CASE UserOf[r] = u
      <4>1. /\ stepUp'[u].granted = stepUp[u].granted
            /\ stepUp'[u].live = stepUp[u].live - 1
        <5>1. stepUp'[u] = [stepUp[u] EXCEPT !.live = @ - 1]
          BY <2>4, <3>2 DEF SpendStepUp, TypeOK
        <5>. QED
          BY <1>1, <5>1
      <4>2. r \notin SpentBy(u)
        BY <2>4 DEF Authorise, SpentBy
      <4>3. Cardinality(SpentBy(u) \cup {r}) = Cardinality(SpentBy(u)) + 1
        BY <4>2, SpentFinite, FS_AddElement
      <4>4. IsFiniteSet(SpentBy(u) \cup {r})
        BY SpentFinite, FS_AddElement
      <4>5. SpentBy(u)' \subseteq SpentBy(u) \cup {r}
        BY <2>1 DEF SpentBy
      <4>6. Cardinality(SpentBy(u)') <= Cardinality(SpentBy(u) \cup {r})
        BY <4>4, <4>5, FS_Subset
      <4>. QED
        BY <1>1, <4>1, <4>3, <4>6
    <3>. QED
      BY <3>1, <3>2
  <2>5. ver'[r].pc = "authorised" => Authorise(r)
    BY <1>4 DEF VerifyStep, ReadPayment, Authorise, RecordOutcome, RollBackOutcome, TypeOK,
       VerifyState
  <2>6. stepUp' = stepUp \/ Authorise(r)
    BY <1>4 DEF VerifyStep, ReadPayment, RecordOutcome, RollBackOutcome
  <2>7. ASSUME Authorise(r), ~(stepUp[UserOf[r]].live > 0)
        PROVE  stepUp' = stepUp /\ ver'[r].pc # "authorised"
    <3>1. stepUp' = stepUp /\ ver' = [ver EXCEPT ![r].pc = "refused"]
      BY <2>7 DEF Authorise
    <3>. QED
      BY <3>1 DEF TypeOK, VerifyState
  <2>8. ASSUME Authorise(r), stepUp[UserOf[r]].live > 0
        PROVE  stepUp' = SpendStepUp(UserOf[r])
    BY <2>8 DEF Authorise
  <2>. QED
    BY <2>3, <2>4, <2>5, <2>6, <2>7, <2>8
<1>. QED
  <2>1. CASE UNCHANGED vars
    BY <1>2, <2>1 DEF vars
  <2>2. CASE \/ \E c \in Order : CheckoutStep(c) \/ Elapse(c)
             \/ \E k \in Key : LapseKey(k)
             \/ \E s \in Sweeper : SweepStep(s)
             \/ \E e \in Edit : EditStep(e)
    BY <1>2, <2>2 DEF CheckoutStep, LookUpKey, RefuseCheckout, CheckAvailability, PlaceOrder,
       RollBackOrder, Elapse, LapseKey, SweepStep, SweepProgress, StartSweep, Claim,
       RecheckPayment, GiveBack, ReleaseHold, FinishSweep, SkipRow, LoseClaim, CrashSweep, EditStep,
       ReadOrder, CommitListEdit, CommitDetailEdit
  <2>. QED
    BY <1>3, <1>4, <2>1, <2>2 DEF Next

\* However many requests of a user are in flight, no step-up authorises two of
\* their verifications.
THEOREM StepUpsSpentOnce == Spec => []StepUpSpentOnce
<1>1. ASSUME Init
      PROVE  StepUpSpentOnce
  <2>1. ASSUME NEW u \in Staff
        PROVE  Cardinality(SpentBy(u)) + stepUp[u].live <= stepUp[u].granted
    <3>1. SpentBy(u) = {} /\ stepUp[u].live = 0 /\ stepUp[u].granted = 0
      BY <1>1 DEF Init, SpentBy
    <3>2. Cardinality(SpentBy(u)) = 0
      BY <3>1, FS_EmptySet
    <3>. QED
      BY <3>1, <3>2
  <2>. QED
    BY <2>1 DEF StepUpSpentOnce, SpentBy
<1>2. ASSUME TypeOK, StepUpSpentOnce, [Next]_vars
      PROVE  StepUpSpentOnce'
  <2>1. ASSUME NEW u \in Staff
        PROVE  Cardinality(SpentBy(u)') + stepUp'[u].live <= stepUp'[u].granted
    BY <1>2, StepSpent
  <2>. QED
    BY <2>1 DEF StepUpSpentOnce, SpentBy
<1>. QED
  BY <1>1, <1>2, TypeCorrect, PTL DEF Spec

-------------------------------------------------------------------------------
(* Claims.  Why two sweeps never fight over a reservation, and why nothing  *)
(* that a sweep released comes back: a row is claimed by turning it         *)
(* 'expired', and only an 'active' row can be turned; everything else       *)
(* follows from keeping, for every row, at most one sweep that holds it,    *)
(* and 'expired' for as long as one does or once its stock went back.       *)

\* A request that has not been answered has no reservation rows.
NoHoldYet ==
    \A c \in Order : checkout[c] # "done" => \A v \in Variant : resv[<<c, v>>] = Absent

ClaimInv == TypeOK /\ NoHoldYet /\ ClaimExclusive /\ ReturnedOnce

\* What the invariant says, row by row.
LEMMA InHand ==
    ASSUME ClaimInv, NEW s \in Sweeper, sweep[s].pc \in {"claimed", "settled", "unsettled"}
    PROVE  /\ sweep[s].row \in Row
           /\ sweep[s].row # None
           /\ resv[sweep[s].row] = "expired"
           /\ released[sweep[s].row] = 0
           /\ \A t \in Sweeper \ {s} : sweep[t].row # sweep[s].row
<1>1. sweep[s].row \in Row /\ sweep[s].row # None
  BY SweepInHand, NoneIsNoOrderOrRow DEF ClaimInv
<1>2. resv[sweep[s].row] = "expired" /\ \A t \in Sweeper \ {s} : sweep[t].row # sweep[s].row
  BY <1>1 DEF ClaimInv, ClaimExclusive
<1>3. released[sweep[s].row] \in Nat
  BY <1>1 DEF ClaimInv, TypeOK
<1>4. released[sweep[s].row] # 1 /\ released[sweep[s].row] <= 1
  BY <1>1 DEF ClaimInv, ReturnedOnce
<1>. QED
  BY <1>1, <1>2, <1>3, <1>4

\* Rows in nobody's hand and not yet returned may change their status freely.
LEMMA OtherRowsMove ==
    ASSUME ClaimInv, UNCHANGED <<checkout, released, sweep>>,
           \A r \in Row : resv[r] \in {"expired", Absent} => resv'[r] = resv[r]
    PROVE  NoHoldYet' /\ ClaimExclusive' /\ ReturnedOnce'
<1>1. NoHoldYet'
  BY DEF ClaimInv, NoHoldYet, Row
<1>2. \A s \in Sweeper : sweep[s].row # None => sweep[s].row \in Row
  BY DEF ClaimInv, TypeOK, SweepState
<1>3. ClaimExclusive'
  BY <1>2 DEF ClaimInv, ClaimExclusive
<1>4. ReturnedOnce'
  BY DEF ClaimInv, ReturnedOnce
<1>. QED
  BY <1>1, <1>3, <1>4

-------------------------------------------------------------------------------
(* One lemma per actor.                                                    *)

LEMMA CheckoutClaims ==
    ASSUME ClaimInv, NEW c \in Order, CheckoutStep(c)
    PROVE  NoHoldYet' /\ ClaimExclusive' /\ ReturnedOnce'
<1>1. ASSUME UNCHANGED <<resv, released, sweep>>, checkout[c] # "done",
             \A d \in Order \ {c} : checkout'[d] = checkout[d]
      PROVE  NoHoldYet' /\ ClaimExclusive' /\ ReturnedOnce'
  BY <1>1 DEF ClaimInv, NoHoldYet, ClaimExclusive, ReturnedOnce
<1>2. ASSUME NEW a, Reply(c, a)
      PROVE  checkout'[c] = "done" /\ \A d \in Order \ {c} : checkout'[d] = checkout[d]
  BY <1>2 DEF Reply, ClaimInv, TypeOK
<1>3. CASE LookUpKey(c) \/ CheckAvailability(c)
  <2>1. \A d \in Order \ {c} : checkout'[d] = checkout[d]
    BY <1>2, <1>3 DEF LookUpKey, CheckAvailability, ClaimInv, TypeOK
  <2>. QED
    BY <1>1, <1>3, <2>1 DEF LookUpKey, CheckAvailability, shopVars
<1>4. CASE RefuseCheckout(c) \/ RollBackOrder(c)
  <2>1. \A d \in Order \ {c} : checkout'[d] = checkout[d]
    BY <1>2, <1>4 DEF RefuseCheckout, RollBackOrder
  <2>. QED
    BY <1>1, <1>4, <2>1 DEF RefuseCheckout, RollBackOrder, shopVars
<1>5. CASE PlaceOrder(c)
  <2>1. checkout'[c] = "done" /\ \A d \in Order \ {c} : checkout'[d] = checkout[d]
    BY <1>2, <1>5 DEF PlaceOrder
  <2>2. \A r \in Row : r[1] = c => resv[r] = Absent
    BY <1>5, RowParts DEF PlaceOrder, ClaimInv, NoHoldYet
  <2>3. \A r \in Row : resv'[r] = resv[r] \/ r[1] = c
    BY <1>5 DEF PlaceOrder
  <2>4. UNCHANGED <<released, sweep>>
    BY <1>5 DEF PlaceOrder
  <2>5. NoHoldYet'
    <3>1. ASSUME NEW d \in Order, checkout'[d] # "done", NEW v \in Variant
          PROVE  resv'[<<d, v>>] = Absent
      BY <2>1, <2>3, <3>1 DEF ClaimInv, NoHoldYet, Row
    <3>. QED
      BY <3>1 DEF NoHoldYet
  <2>6. \A s \in Sweeper : sweep[s].row # None =>
            sweep[s].row \in Row /\ resv'[sweep[s].row] = "expired"
    BY <2>2, <2>3 DEF ClaimInv, ClaimExclusive, TypeOK, SweepState, Absent
  <2>7. ClaimExclusive'
    BY <2>4, <2>6 DEF ClaimInv, ClaimExclusive
  <2>8. ReturnedOnce'
    BY <2>2, <2>3, <2>4 DEF ClaimInv, ReturnedOnce, Absent
  <2>. QED
    BY <2>5, <2>7, <2>8
<1>. QED
  BY <1>3, <1>4, <1>5 DEF CheckoutStep

\* A sweep that changes only its own place, and takes no row, disturbs nothing.
LEMMA SweepMoves ==
    ASSUME ClaimInv, NEW s \in Sweeper,
           UNCHANGED <<checkout, resv, released>>,
           \A t \in Sweeper \ {s} : sweep'[t] = sweep[t],
           sweep'[s].row = None \/ sweep'[s].row = sweep[s].row
    PROVE  NoHoldYet' /\ ClaimExclusive' /\ ReturnedOnce'
<1>1. NoHoldYet'
  BY DEF ClaimInv, NoHoldYet
<1>2. \A t \in Sweeper : sweep'[t].row = None \/ sweep'[t].row = sweep[t].row
  OBVIOUS
<1>3. ClaimExclusive'
  BY <1>2 DEF ClaimInv, ClaimExclusive
<1>4. \A r \in Row, t \in Sweeper : sweep'[t].row = r => sweep[t].row = r
  BY <1>2, NoneIsNoOrderOrRow
<1>5. ReturnedOnce'
  BY <1>4 DEF ClaimInv, ReturnedOnce
<1>. QED
  BY <1>1, <1>3, <1>5

LEMMA SweepClaims ==
    ASSUME ClaimInv, NEW s \in Sweeper, SweepStep(s)
    PROVE  NoHoldYet' /\ ClaimExclusive' /\ ReturnedOnce'
<1>. USE DEF ClaimInv
<1>1. ASSUME NextRow(s)
      PROVE  sweep'[s].row = None /\ \A t \in Sweeper \ {s} : sweep'[t] = sweep[t]
  BY <1>1 DEF NextRow, TypeOK
<1>2. CASE StartSweep(s) \/ RecheckPayment(s) \/ FinishSweep(s) \/ CrashSweep(s)
  <2>1. \A t \in Sweeper \ {s} : sweep'[t] = sweep[t]
    BY <1>2 DEF StartSweep, RecheckPayment, FinishSweep, CrashSweep, TypeOK
  <2>2. sweep'[s].row = None \/ sweep'[s].row = sweep[s].row
    <3>1. CASE StartSweep(s) \/ CrashSweep(s)
      BY <3>1 DEF StartSweep, CrashSweep, TypeOK
    <3>2. CASE RecheckPayment(s) \/ FinishSweep(s)
      <4>1. sweep[s] \in [pc : {"loop"}, todo : SUBSET Row, row : {None}]
                 \cup [pc : {"claimed", "settled", "unsettled"}, todo : SUBSET Row, row : Row]
        BY <3>2 DEF RecheckPayment, FinishSweep, TypeOK, SweepState
      <4>2. PICK pc \in {"settled", "unsettled", "idle"} : sweep' = [sweep EXCEPT ![s].pc = pc]
        BY <3>2 DEF RecheckPayment, FinishSweep
      <4>3. sweep'[s] = [sweep[s] EXCEPT !.pc = pc]
        BY <4>2 DEF TypeOK
      <4>. QED
        BY <4>1, <4>3
    <3>. QED
      BY <1>2, <3>1, <3>2
  <2>3. UNCHANGED <<checkout, resv, released>>
    BY <1>2 DEF StartSweep, RecheckPayment, FinishSweep, CrashSweep, shopVars, reqVars
  <2>. QED
    BY <2>1, <2>2, <2>3, SweepMoves
<1>3. CASE LoseClaim(s)
  BY <1>1, <1>3, SweepMoves DEF LoseClaim, shopVars, reqVars
<1>4. CASE Claim(s)
  <2>1. PICK r \in sweep[s].todo :
           \/ /\ ClaimMatches(r)
              /\ resv' = [resv EXCEPT ![r] = "expired"]
              /\ sweep' = [sweep EXCEPT ![s] = [pc |-> "claimed",
                                                todo |-> sweep[s].todo \ {r}, row |-> r]]
           \/ /\ sweep' = [sweep EXCEPT ![s].todo = @ \ {r}]
              /\ UNCHANGED resv
    BY <1>4 DEF Claim, NextUp
  <2>2. sweep[s] \in [pc : {"loop"}, todo : SUBSET Row, row : {None}]
    BY <1>4 DEF Claim, TypeOK, SweepState
  <2>3. r \in Row /\ r # None
    BY <2>2, NoneIsNoOrderOrRow
  <2>4. UNCHANGED <<checkout, released>> /\ \A t \in Sweeper \ {s} : sweep'[t] = sweep[t]
    BY <1>4, <2>1 DEF Claim, reqVars, TypeOK
  <2>5. ASSUME ClaimMatches(r), resv' = [resv EXCEPT ![r] = "expired"], sweep'[s].row = r
        PROVE  NoHoldYet' /\ ClaimExclusive' /\ ReturnedOnce'
    <3>1. resv[r] = "active" /\ \A t \in Sweeper : sweep[t].row # r
      BY <2>3, <2>5 DEF ClaimMatches, ClaimExclusive
    <3>2. \A x \in Row : resv'[x] = IF x = r THEN "expired" ELSE resv[x]
      BY <2>3, <2>5 DEF TypeOK
    <3>3. NoHoldYet'
      BY <2>4, <3>1, <3>2 DEF NoHoldYet, Row, Absent
    <3>4. \A t \in Sweeper : sweep[t].row # None => sweep[t].row \in Row
      BY DEF TypeOK, SweepState
    <3>5. ClaimExclusive'
      BY <2>3, <2>4, <2>5, <3>1, <3>2, <3>4 DEF ClaimExclusive
    <3>6. released[r] # 1
      BY <2>3, <3>1 DEF ReturnedOnce
    <3>7. ReturnedOnce'
      BY <2>4, <2>5, <3>2, <3>6 DEF ReturnedOnce
    <3>. QED
      BY <3>3, <3>5, <3>7
  <2>6. ASSUME sweep' = [sweep EXCEPT ![s].todo = @ \ {r}]
        PROVE  sweep'[s].row = sweep[s].row
    BY <2>2, <2>6 DEF TypeOK
  <2>7. ASSUME sweep' = [sweep EXCEPT ![s] = [pc |-> "claimed",
                                              todo |-> sweep[s].todo \ {r}, row |-> r]]
        PROVE  sweep'[s].row = r
    BY <2>7 DEF TypeOK
  <2>. QED
    BY <2>1, <2>4, <2>5, <2>6, <2>7, SweepMoves
<1>5. CASE SkipRow(s)
  <2>1. sweep[s] \in [pc : {"loop"}, todo : SUBSET Row, row : {None}]
    BY <1>5 DEF SkipRow, TypeOK, SweepState
  <2>2. PICK r : sweep' = [sweep EXCEPT ![s].todo = @ \ {r}]
    BY <1>5 DEF SkipRow
  <2>3. sweep'[s].row = sweep[s].row /\ \A t \in Sweeper \ {s} : sweep'[t] = sweep[t]
    BY <2>1, <2>2 DEF TypeOK
  <2>. QED
    BY <1>5, <2>3, SweepMoves DEF SkipRow, shopVars, reqVars
<1>6. CASE GiveBack(s) \/ ReleaseHold(s)
  <2>. DEFINE r == sweep[s].row
  <2>1. /\ r \in Row /\ r # None
        /\ resv[r] = "expired" /\ released[r] = 0
        /\ \A t \in Sweeper \ {s} : sweep[t].row # r
    BY <1>6, InHand DEF GiveBack, ReleaseHold
  <2>2. /\ sweep'[s].row = None
        /\ \A t \in Sweeper \ {s} : sweep'[t] = sweep[t]
        /\ checkout' = checkout
    BY <1>1, <1>6 DEF GiveBack, ReleaseHold, reqVars
  <2>3. \A x \in Row \ {r} : resv'[x] = resv[x] /\ released'[x] = released[x]
    BY <1>6, <2>1 DEF GiveBack, ReleaseHold, TypeOK
  <2>4. \/ resv'[r] = "active" /\ released'[r] = 0
        \/ resv'[r] = "expired" /\ released'[r] = 1
    BY <1>6, <2>1 DEF GiveBack, ReleaseHold, TypeOK
  <2>5. NoHoldYet'
    BY <2>1, <2>2, <2>3 DEF NoHoldYet, Row, Absent
  <2>6. \A t \in Sweeper : sweep[t].row # None => sweep[t].row \in Row
    BY DEF TypeOK, SweepState
  <2>7. ClaimExclusive'
    BY <2>1, <2>2, <2>3, <2>6 DEF ClaimExclusive
  <2>8. \A t \in Sweeper : sweep'[t].row # r
    BY <2>1, <2>2
  <2>9. ReturnedOnce'
    <3>1. ASSUME NEW x \in Row \ {r}
          PROVE  /\ released'[x] <= 1
                 /\ released'[x] = 1 => resv'[x] = "expired"
                                        /\ \A t \in Sweeper : sweep'[t].row # x
      BY <2>2, <2>3, NoneIsNoOrderOrRow DEF ReturnedOnce
    <3>. QED
      BY <2>1, <2>4, <2>8, <3>1 DEF ReturnedOnce
  <2>. QED
    BY <2>5, <2>7, <2>9
<1>. QED
  BY <1>2, <1>3, <1>4, <1>5, <1>6 DEF SweepStep, SweepProgress

\* Sales and cancellations take active rows only.
LEMMA StaffClaims ==
    ASSUME ClaimInv,
           \/ \E r \in Verification : VerifyStep(r)
           \/ \E e \in Edit : EditStep(e)
    PROVE  NoHoldYet' /\ ClaimExclusive' /\ ReturnedOnce'
<1>1. UNCHANGED <<checkout, released, sweep>>
  BY DEF VerifyStep, ReadPayment, Authorise, RecordOutcome, RollBackOutcome, EditStep,
     ReadOrder, CommitListEdit, CommitDetailEdit, shopVars, reqVars
<1>2. ASSUME NEW x \in Row, resv[x] \in {"expired", Absent}
      PROVE  resv'[x] = resv[x]
  BY <1>2 DEF Absent, VerifyStep, ReadPayment, Authorise, RecordOutcome, RollBackOutcome,
     EditStep, ReadOrder, CommitListEdit, CommitDetailEdit, shopVars
<1>. QED
  BY <1>1, <1>2, OtherRowsMove

LEMMA StepClaims ==
    ASSUME ClaimInv, [Next]_vars
    PROVE  NoHoldYet' /\ ClaimExclusive' /\ ReturnedOnce'
<1>1. ASSUME UNCHANGED <<checkout, released, sweep, resv>>
      PROVE  NoHoldYet' /\ ClaimExclusive' /\ ReturnedOnce'
  BY <1>1 DEF ClaimInv, NoHoldYet, ClaimExclusive, ReturnedOnce
<1>2. CASE UNCHANGED vars
  BY <1>1, <1>2 DEF vars
<1>3. ASSUME NEW c \in Order, Elapse(c)
      PROVE  NoHoldYet' /\ ClaimExclusive' /\ ReturnedOnce'
  BY <1>1, <1>3 DEF Elapse, shopVars, reqVars
<1>4. ASSUME NEW k \in Key, LapseKey(k)
      PROVE  NoHoldYet' /\ ClaimExclusive' /\ ReturnedOnce'
  BY <1>1, <1>4 DEF LapseKey, shopVars, reqVars
<1>5. ASSUME NEW u \in Staff, GrantStepUp(u) \/ LapseStepUp(u)
      PROVE  NoHoldYet' /\ ClaimExclusive' /\ ReturnedOnce'
  BY <1>1, <1>5 DEF GrantStepUp, LapseStepUp, shopVars, reqVars
<1>. QED
  BY <1>2, <1>3, <1>4, <1>5, CheckoutClaims, SweepClaims, StaffClaims DEF Next

LEMMA ClaimsHold == Spec => []ClaimInv
<1>1. Init => NoHoldYet /\ ClaimExclusive /\ ReturnedOnce
  BY DEF Init, NoHoldYet, ClaimExclusive, ReturnedOnce, Row
<1>2. ClaimInv /\ [Next]_vars => ClaimInv'
  BY StepTypes, StepClaims DEF ClaimInv
<1>3. Init => ClaimInv
  BY <1>1, InitTypes DEF ClaimInv
<1>. QED
  BY <1>2, <1>3, PTL DEF Spec

-------------------------------------------------------------------------------
(* The theorems.                                                           *)

\* However many sweeps overlap, fail and die, no two ever hold the same
\* reservation, and nobody else moves the one a sweep holds.
THEOREM ClaimsExclusive == Spec => []ClaimExclusive
BY ClaimsHold, PTL DEF ClaimInv

\* Each reservation's stock is put back by a sweep at most once, and never for
\* one that is afterwards cancelled, given back or sold.
THEOREM HoldsReturnedOnce == Spec => []ReturnedOnce
BY ClaimsHold, PTL DEF ClaimInv

\* No step moves a reservation that was sold or cancelled; in particular the
\* sweeper's unconditional give-back only ever meets rows it claimed itself.
THEOREM ReservationsFinal == Spec => ReservationFinal
<1>. DEFINE Stays == \A r \in Row : resv[r] \in {"released", "consumed"} => resv'[r] = resv[r]
<1>1. ASSUME ClaimInv, [Next]_vars
      PROVE  Stays
  <2>1. CASE UNCHANGED resv
    BY <2>1
  <2>2. ASSUME NEW c \in Order, PlaceOrder(c)
        PROVE  Stays
    BY <1>1, <2>2, RowParts DEF PlaceOrder, ClaimInv, NoHoldYet, Absent
  <2>3. ASSUME NEW s \in Sweeper, GiveBack(s)
        PROVE  Stays
    BY <1>1, <2>3, InHand DEF GiveBack, ClaimInv, TypeOK
  <2>4. ASSUME NEW s \in Sweeper, Claim(s)
        PROVE  Stays
    BY <1>1, <2>4 DEF Claim, NextUp, ClaimMatches, ClaimInv, TypeOK
  <2>5. ASSUME NEW r \in Verification, RecordOutcome(r)
        PROVE  Stays
    BY <2>5 DEF RecordOutcome
  <2>6. ASSUME NEW e \in Edit, CommitListEdit(e)
        PROVE  Stays
    BY <2>6 DEF CommitListEdit
  <2>7. \/ UNCHANGED resv
        \/ \E c \in Order : PlaceOrder(c)
        \/ \E s \in Sweeper : GiveBack(s) \/ Claim(s)
        \/ \E r \in Verification : RecordOutcome(r)
        \/ \E e \in Edit : CommitListEdit(e)
    BY <1>1 DEF Next, CheckoutStep, LookUpKey, RefuseCheckout, CheckAvailability,
       RollBackOrder, Elapse, LapseKey, SweepStep, SweepProgress, StartSweep, RecheckPayment,
       ReleaseHold, FinishSweep, SkipRow, LoseClaim, CrashSweep, GrantStepUp, LapseStepUp, VerifyStep,
       ReadPayment, Authorise, RollBackOutcome, EditStep, ReadOrder, CommitDetailEdit,
       shopVars, vars
  <2>. QED
    BY <2>1, <2>2, <2>3, <2>4, <2>5, <2>6, <2>7
<1>2. ClaimInv /\ [Next]_vars => [Stays]_vars
  BY <1>1
<1>. QED
  BY <1>2, ClaimsHold, PTL DEF Spec, ReservationFinal

-------------------------------------------------------------------------------
(* 2. The books.                                                         *)
(*                                                                         *)
(* A batch that moves a counter deals with the lines of one order.  So the *)
(* units of a variant are split into those of that order and those of all  *)
(* others, which the batch leaves alone.                                   *)
(*                                                                         *)
(* Counting the units of a set of lines.                                   *)

UnitsIn(H, v) ==
    {u \in Order \X (1..MaxQty) : <<u[1], v>> \in H /\ u[2] <= Qty[<<u[1], v>>]}

\* What order c has of variant v in H.
OwnUnits(H, c, v) == IF <<c, v>> \in H THEN Qty[<<c, v>>] ELSE 0

OffOrder(H, c) == {r \in H : r[1] # c}

LEMMA OwnUnitsType ==
    ASSUME NEW H, NEW c \in Order, NEW v \in Variant
    PROVE  OwnUnits(H, c, v) \in Nat
BY QtyType DEF OwnUnits

\* The units of a variant: those of one order, and those of the others.
LEMMA UnitsApart ==
    ASSUME NEW H, NEW c \in Order, NEW v \in Variant
    PROVE  /\ IsFiniteSet(UnitsIn(H, v)) <=> IsFiniteSet(UnitsIn(OffOrder(H, c), v))
           /\ IsFiniteSet(UnitsIn(H, v)) =>
                 Cardinality(UnitsIn(H, v)) =
                    Cardinality(UnitsIn(OffOrder(H, c), v)) + OwnUnits(H, c, v)
<1>. DEFINE n == OwnUnits(H, c, v)
            Own == {c} \X (1..n)
            Others == UnitsIn(OffOrder(H, c), v)
<1>1. n \in 0..MaxQty /\ MaxQty \in Nat
  BY OrderStockAssumption DEF OrderStockAssumption, OwnUnits, Row
<1>2. IsFiniteSet(Own) /\ Cardinality(Own) = n
  <2>1. IsFiniteSet(1..n) /\ Cardinality(1..n) = n
    BY <1>1, FS_Interval
  <2>2. IsFiniteSet({c}) /\ Cardinality({c}) = 1
    BY FS_Singleton
  <2>3. IsFiniteSet(Own) /\ Cardinality(Own) = Cardinality({c}) * Cardinality(1..n)
    BY <2>1, <2>2, FS_Product, Zenon
  <2>4. 1 * n = n
    BY <1>1
  <2>. QED
    BY <2>1, <2>2, <2>3, <2>4
<1>3. UnitsIn(H, v) = Others \cup Own
  <2>1. ASSUME NEW u \in UnitsIn(H, v)
        PROVE  u \in Others \cup Own
    BY <1>1 DEF UnitsIn, OffOrder, OwnUnits
  <2>2. ASSUME NEW u \in Others
        PROVE  u \in UnitsIn(H, v)
    BY <2>2 DEF UnitsIn, OffOrder
  <2>3. ASSUME NEW u \in Own
        PROVE  u \in UnitsIn(H, v)
    BY <1>1, <2>3, QtyType DEF UnitsIn, OwnUnits
  <2>. QED
    BY <2>1, <2>2, <2>3
<1>4. Others \cap Own = {} /\ Others \in SUBSET UnitsIn(H, v)
  BY <1>3 DEF UnitsIn, OffOrder
<1>5. ASSUME IsFiniteSet(Others)
      PROVE  /\ IsFiniteSet(UnitsIn(H, v))
             /\ Cardinality(UnitsIn(H, v)) = Cardinality(Others) + n
  <2>1. Cardinality(Others) \in Nat
    BY <1>5, FS_CardinalityType
  <2>. QED
    <3>1. Cardinality(Others \cap Own) = 0
      BY <1>4, FS_EmptySet
    <3>2. /\ IsFiniteSet(Others \cup Own)
          /\ Cardinality(Others \cup Own) =
                Cardinality(Others) + Cardinality(Own) - Cardinality(Others \cap Own)
      BY <1>2, <1>5, FS_Union
    <3>. QED
      BY <1>1, <1>2, <1>3, <2>1, <3>1, <3>2
<1>6. IsFiniteSet(UnitsIn(H, v)) => IsFiniteSet(Others)
  BY <1>4, FS_Subset
<1>. QED
  BY <1>5, <1>6

-------------------------------------------------------------------------------
(* What became of the lines.                                               *)

HeldRows == {r \in Row : HoldOf[r] = "held"}

\* No line is held that is not; only lines with units are ever held.
BooksFinite == \A v \in Variant : IsFiniteSet(HeldUnits(v))

LEMMA HoldIs ==
    ASSUME TypeOK, NEW r \in Row
    PROVE  /\ HoldOf[r] \in {"none", "held", "sold", "returned"}
           /\ HoldOf[r] = "none" <=> resv[r] = Absent
           /\ HoldOf[r] = "held" <=> Held(r)
           /\ HoldOf[r] = "sold" <=> resv[r] = "consumed"
<1>1. HoldOf[r] = CASE resv[r] = Absent     -> "none"
                    [] Held(r)              -> "held"
                    [] resv[r] = "consumed" -> "sold"
                    [] OTHER                -> "returned"
  BY DEF HoldOf
<1>2. resv[r] = Absent => ~Held(r) /\ resv[r] # "consumed"
  BY DEF Held, Absent
<1>3. Held(r) => resv[r] # "consumed"
  BY DEF Held
<1>. QED
  BY <1>1, <1>2, <1>3

LEMMA HoldIsNext ==
    ASSUME TypeOK', NEW r \in Row
    PROVE  /\ HoldOf'[r] \in {"none", "held", "sold", "returned"}
           /\ HoldOf'[r] = "none" <=> resv'[r] = Absent
           /\ HoldOf'[r] = "held" <=> Held(r)'
           /\ HoldOf'[r] = "sold" <=> resv'[r] = "consumed"
<1>1. HoldOf'[r] = CASE resv'[r] = Absent     -> "none"
                     [] Held(r)'              -> "held"
                     [] resv'[r] = "consumed" -> "sold"
                     [] OTHER                 -> "returned"
  BY DEF HoldOf
<1>2. resv'[r] = Absent => ~Held(r)' /\ resv'[r] # "consumed"
  BY DEF Held, Absent
<1>3. Held(r)' => resv'[r] # "consumed"
  BY DEF Held
<1>. QED
  BY <1>1, <1>2, <1>3

LEMMA UnitsAreHeld ==
    ASSUME TypeOK, NEW v \in Variant
    PROVE  HeldUnits(v) = UnitsIn(HeldRows, v)
BY HoldIs, QtyType DEF HeldUnits, UnitsIn, HeldRows

LEMMA UnitsAreHeldNext ==
    ASSUME TypeOK', NEW v \in Variant
    PROVE  HeldUnits(v)' = UnitsIn(HeldRows', v)
BY HoldIsNext, QtyType DEF HeldUnits, UnitsIn, HeldRows

\* What an order holds is covered by the counter.
LEMMA OwnCovered ==
    ASSUME TypeOK, BooksExact, BooksFinite, NEW c \in Order, NEW v \in Variant
    PROVE  OwnUnits(HeldRows, c, v) <= reserved[v]
<1>1. IsFiniteSet(UnitsIn(HeldRows, v)) /\ reserved[v] = Cardinality(UnitsIn(HeldRows, v))
  BY UnitsAreHeld DEF BooksExact, BooksFinite
<1>2. Cardinality(UnitsIn(OffOrder(HeldRows, c), v)) \in Nat
  BY <1>1, UnitsApart, FS_CardinalityType
<1>. QED
  BY <1>1, <1>2, UnitsApart, OwnUnitsType

\* A step that touches the lines of one order keeps the counts finite, and if it
\* moves the counters by what that order holds more or less, the books exact.
LEMMA OneOrdersLines ==
    ASSUME TypeOK, TypeOK', NEW c \in Order,
           \A r \in Row : r[1] # c => HoldOf'[r] = HoldOf[r]
    PROVE  /\ BooksFinite => BooksFinite'
           /\ /\ BooksFinite /\ BooksExact
              /\ \A v \in Variant : reserved'[v] = reserved[v]
                                       + OwnUnits(HeldRows', c, v) - OwnUnits(HeldRows, c, v)
              => BooksExact'
<1>1. OffOrder(HeldRows', c) = OffOrder(HeldRows, c)
  BY DEF OffOrder, HeldRows
<1>2. ASSUME BooksFinite, NEW v \in Variant
      PROVE  IsFiniteSet(UnitsIn(HeldRows, v)) /\ IsFiniteSet(UnitsIn(HeldRows', v))
  <2>1. IsFiniteSet(UnitsIn(HeldRows, v))
    BY <1>2, UnitsAreHeld DEF BooksFinite
  <2>2. IsFiniteSet(UnitsIn(OffOrder(HeldRows', c), v))
    BY <1>1, <2>1, UnitsApart
  <2>. QED
    BY <2>1, <2>2, UnitsApart
<1>3. BooksFinite => BooksFinite'
  BY <1>2, UnitsAreHeldNext DEF BooksFinite
<1>4. ASSUME BooksFinite, BooksExact, NEW v \in Variant,
             reserved'[v] = reserved[v] + OwnUnits(HeldRows', c, v) - OwnUnits(HeldRows, c, v)
      PROVE  reserved'[v] = Cardinality(HeldUnits(v)')
  <2>. DEFINE others == Cardinality(UnitsIn(OffOrder(HeldRows, c), v))
  <2>1. reserved[v] = others + OwnUnits(HeldRows, c, v)
    BY <1>2, <1>4, UnitsAreHeld, UnitsApart DEF BooksExact
  <2>2. Cardinality(HeldUnits(v)') = others + OwnUnits(HeldRows', c, v)
    BY <1>1, <1>2, <1>4, UnitsAreHeldNext, UnitsApart
  <2>3. others \in Nat
    BY <1>2, <1>4, UnitsApart, FS_CardinalityType
  <2>4. OwnUnits(HeldRows, c, v) \in Nat /\ OwnUnits(HeldRows', c, v) \in Nat
    BY OwnUnitsType
  <2>. QED
    BY <1>4, <2>1, <2>2, <2>3, <2>4
<1>. QED
  BY <1>3, <1>4 DEF BooksExact

-------------------------------------------------------------------------------
(* What the steps do to the lines.                                         *)

\* An order line has units.
LinesHaveUnits == \A r \in Row : resv[r] # Absent => Qty[r] > 0

Quiet == /\ UNCHANGED <<onHand, reserved>>
         /\ \A r \in Row : HoldOf'[r] = HoldOf[r]

Taking(c) ==
    /\ \A r \in Row : r[1] = c => HoldOf[r] = "none"
    /\ \A r \in Row : HoldOf'[r] = IF r[1] = c /\ Qty[r] > 0 THEN "held" ELSE HoldOf[r]
    /\ onHand' = onHand /\ reserved' = ReservedWith(c)
    /\ LevelsAllowed(onHand, reserved')

Returning(c, lines) ==
    /\ lines \subseteq HeldRows
    /\ \A r \in lines : r[1] = c
    /\ \A r \in Row : HoldOf'[r] = IF r \in lines THEN "returned" ELSE HoldOf[r]
    /\ onHand' = onHand
    /\ reserved' = [v \in Variant |-> Clamp(reserved[v] - OwnUnits(lines, c, v))]

Selling(c) ==
    /\ \A r \in Row : HoldOf'[r] = IF r[1] = c /\ resv[r] = "active" THEN "sold" ELSE HoldOf[r]
    /\ LevelsAllowed(Minus(onHand, c), Minus(reserved, c))
    /\ onHand' = Minus(onHand, c) /\ reserved' = Minus(reserved, c)

\* A line whose reservation stays what it is stays what it is; so does one whose
\* claim is made or given back.
LEMMA SameHold ==
    ASSUME ClaimInv, TypeOK', NEW r \in Row, released'[r] = released[r],
           \/ resv'[r] = resv[r]
           \/ resv[r] = "active" /\ resv'[r] = "expired"
           \/ resv[r] = "expired" /\ released[r] = 0 /\ resv'[r] = "active"
    PROVE  HoldOf'[r] = HoldOf[r]
<1>1. CASE resv'[r] = resv[r]
  BY <1>1 DEF HoldOf, Held
<1>2. CASE resv[r] = "active" /\ resv'[r] = "expired"
  <2>1. released[r] = 0
    BY <1>2 DEF ClaimInv, ReturnedOnce, TypeOK
  <2>2. Held(r) /\ Held(r)'
    BY <1>2, <2>1 DEF Held
  <2>. QED
    BY <2>2, HoldIs, HoldIsNext DEF ClaimInv
<1>3. CASE resv[r] = "expired" /\ released[r] = 0 /\ resv'[r] = "active"
  <2>1. Held(r) /\ Held(r)'
    BY <1>3 DEF Held
  <2>. QED
    BY <2>1, HoldIs, HoldIsNext DEF ClaimInv
<1>. QED
  BY <1>1, <1>2, <1>3

LEMMA PlaceTakes ==
    ASSUME ClaimInv, TypeOK', NEW c \in Order, PlaceOrder(c)
    PROVE  Taking(c)
<1>1. \A r \in Row : r[1] = c => resv[r] = Absent
  BY RowParts DEF PlaceOrder, ClaimInv, NoHoldYet
<1>2. \A r \in Row : /\ resv'[r] = IF r[1] = c /\ Qty[r] > 0 THEN "active" ELSE resv[r]
                     /\ released'[r] = released[r]
  BY DEF PlaceOrder
<1>3. ASSUME NEW r \in Row, r[1] = c /\ Qty[r] > 0
      PROVE  HoldOf'[r] = "held"
  <2>1. Held(r)'
    BY <1>2, <1>3 DEF Held
  <2>. QED
    BY <2>1, HoldIsNext
<1>4. ASSUME NEW r \in Row, ~(r[1] = c /\ Qty[r] > 0)
      PROVE  HoldOf'[r] = HoldOf[r]
  BY <1>2, <1>4, SameHold
<1>5. \A r \in Row : r[1] = c => HoldOf[r] = "none"
  BY <1>1, HoldIs DEF ClaimInv
<1>. QED
  BY <1>3, <1>4, <1>5 DEF Taking, PlaceOrder

LEMMA ReleaseReturns ==
    ASSUME ClaimInv, TypeOK', NEW s \in Sweeper, ReleaseHold(s)
    PROVE  Returning(sweep[s].row[1], {sweep[s].row})
<1>0. PICK r \in Row : r = sweep[s].row
  BY InHand DEF ReleaseHold
<1>1. resv[r] = "expired" /\ released[r] = 0
  BY <1>0, InHand DEF ReleaseHold
<1>2. /\ resv' = resv /\ onHand' = onHand
      /\ released' = [released EXCEPT ![r] = @ + 1]
      /\ reserved' = [reserved EXCEPT ![r[2]] = Clamp(@ - Qty[r])]
  BY <1>0 DEF ReleaseHold
<1>3. released'[r] = 1 /\ \A x \in Row : x # r => released'[x] = released[x]
  BY <1>1, <1>2 DEF ClaimInv, TypeOK
<1>4. HoldOf[r] = "held" /\ HoldOf'[r] = "returned"
  <2>1. Held(r) /\ ~Held(r)'
    BY <1>1, <1>2, <1>3 DEF Held
  <2>2. resv'[r] # Absent /\ resv'[r] # "consumed"
    BY <1>1, <1>2 DEF Absent
  <2>. QED
    BY <1>1, <2>1, <2>2, HoldIs, HoldIsNext DEF ClaimInv
<1>5. \A x \in Row : x # r => HoldOf'[x] = HoldOf[x]
  BY <1>2, <1>3, SameHold
<1>6. reserved' = [v \in Variant |-> Clamp(reserved[v] - OwnUnits({r}, r[1], v))]
  <2>1. r[1] \in Order /\ r[2] \in Variant /\ r = <<r[1], r[2]>> /\ reserved \in [Variant -> Nat]
    BY <1>1, RowParts DEF ClaimInv, TypeOK
  <2>2. ASSUME NEW v \in Variant
        PROVE  reserved'[v] = Clamp(reserved[v] - OwnUnits({r}, r[1], v))
    <3>1. CASE v = r[2]
      BY <1>2, <2>1, <3>1 DEF OwnUnits
    <3>2. CASE v # r[2]
      <4>1. <<r[1], v>> # r
        BY <2>1, <3>2
      <4>2. reserved'[v] = reserved[v] /\ OwnUnits({r}, r[1], v) = 0
        BY <1>2, <2>1, <3>2, <4>1 DEF OwnUnits
      <4>. QED
        BY <2>1, <4>2 DEF Clamp
    <3>. QED
      BY <3>1, <3>2
  <2>. QED
    BY <1>2, <2>1, <2>2
<1>. QED
  BY <1>0, <1>2, <1>4, <1>5, <1>6 DEF Returning, HeldRows

\* A cancellation or expiry by hand returns the active lines of its order.
LEMMA CancelReturns ==
    ASSUME ClaimInv, TypeOK', NEW e \in Edit, CommitListEdit(e),
           edit[e].to \in {"cancelled", "expired"}
    PROVE  \E c \in Order : Returning(c, {r \in Row : r[1] = c /\ resv[r] = "active"})
<1>1. PICK c \in Order : c = edit[e].order
  BY EditInHand DEF CommitListEdit, ClaimInv
<1>. DEFINE lines == {r \in Row : r[1] = c /\ resv[r] = "active"}
<1>2. /\ UNCHANGED <<onHand, released>>
      /\ reserved' = [v \in Variant |-> Clamp(reserved[v] - ReturnedUnits(c, v))]
      /\ \A r \in Row : resv'[r] = IF r \in lines THEN "released" ELSE resv[r]
  BY <1>1 DEF CommitListEdit
<1>3. ASSUME NEW r \in lines
      PROVE  HoldOf[r] = "held" /\ HoldOf'[r] = "returned"
  <2>1. Held(r) /\ ~Held(r)' /\ resv'[r] # Absent /\ resv'[r] # "consumed"
    BY <1>2 DEF Held, Absent
  <2>. QED
    BY <2>1, HoldIs, HoldIsNext DEF ClaimInv
<1>4. \A r \in Row : r \notin lines => HoldOf'[r] = HoldOf[r]
  BY <1>2, SameHold
<1>5. \A v \in Variant : ReturnedUnits(c, v) = OwnUnits(lines, c, v)
  BY DEF ReturnedUnits, OwnUnits, Row
<1>6. reserved' = [v \in Variant |-> Clamp(reserved[v] - OwnUnits(lines, c, v))]
  BY <1>2, <1>5
<1>7. lines \subseteq HeldRows
  BY <1>3 DEF HeldRows
<1>. QED
  BY <1>1, <1>2, <1>3, <1>4, <1>6, <1>7 DEF Returning

LEMMA SaleSells ==
    ASSUME ClaimInv, TypeOK', NEW r \in Verification, RecordOutcome(r), ver[r].to = "verified"
    PROVE  ver[r].order \in Order /\ Selling(ver[r].order)
<1>1. PICK c \in Order : c = ver[r].order
  BY VerifyInHand DEF RecordOutcome, ClaimInv
<1>2. /\ LevelsAllowed(Minus(onHand, c), Minus(reserved, c))
      /\ onHand' = Minus(onHand, c) /\ reserved' = Minus(reserved, c)
      /\ released' = released
      /\ \A x \in Row : resv'[x] = IF x[1] = c /\ resv[x] = "active" THEN "consumed" ELSE resv[x]
  BY <1>1 DEF RecordOutcome
<1>3. ASSUME NEW x \in Row, x[1] = c, resv[x] = "active"
      PROVE  HoldOf'[x] = "sold"
  BY <1>2, <1>3, HoldIsNext
<1>4. ASSUME NEW x \in Row, ~(x[1] = c /\ resv[x] = "active")
      PROVE  HoldOf'[x] = HoldOf[x]
  BY <1>2, <1>4, SameHold
<1>5. \A x \in Row : HoldOf'[x] = IF x[1] = c /\ resv[x] = "active" THEN "sold" ELSE HoldOf[x]
  BY <1>3, <1>4
<1>. QED
  BY <1>1, <1>2, <1>5 DEF Selling

\* Claiming a row and giving it back move nothing that counts.
LEMMA ClaimsQuiet ==
    ASSUME ClaimInv, TypeOK', NEW s \in Sweeper, Claim(s) \/ GiveBack(s)
    PROVE  Quiet
<1>1. UNCHANGED <<onHand, reserved, released>>
  BY DEF Claim, GiveBack
<1>2. ASSUME NEW r \in Row
      PROVE  \/ resv'[r] = resv[r]
             \/ resv[r] = "active" /\ resv'[r] = "expired"
             \/ resv[r] = "expired" /\ released[r] = 0 /\ resv'[r] = "active"
  <2>1. CASE Claim(s)
    <3>1. \/ resv' = resv
          \/ \E x \in NextUp(s) : ClaimMatches(x) /\ resv' = [resv EXCEPT ![x] = "expired"]
      BY <2>1 DEF Claim
    <3>. QED
      BY <3>1 DEF ClaimMatches, ClaimInv, TypeOK
  <2>2. CASE GiveBack(s)
    <3>1. resv' = [resv EXCEPT ![sweep[s].row] = "active"]
      BY <2>2 DEF GiveBack
    <3>2. resv[sweep[s].row] = "expired" /\ released[sweep[s].row] = 0
      BY <2>2, InHand DEF GiveBack
    <3>. QED
      BY <3>1, <3>2 DEF ClaimInv, TypeOK
  <2>. QED
    BY <2>1, <2>2
<1>3. \A r \in Row : HoldOf'[r] = HoldOf[r]
  BY <1>1, <1>2, SameHold
<1>. QED
  BY <1>1, <1>3 DEF Quiet

\* Every step leaves lines and levels alone, or takes, returns or sells lines of
\* one order.
LEMMA StepOnLines ==
    ASSUME ClaimInv, TypeOK', [Next]_vars
    PROVE  \/ Quiet
           \/ \E c \in Order : PlaceOrder(c) /\ Taking(c)
           \/ /\ \E c \in Order : \E lines \in SUBSET Row : Returning(c, lines)
              /\ Sweeper # {} \/ ListEdit # {}
           \/ \E r \in Verification : /\ RecordOutcome(r) /\ ver[r].to = "verified"
                                      /\ ver[r].order \in Order /\ Selling(ver[r].order)
<1>. DEFINE GoBack == \E c \in Order : \E lines \in SUBSET Row : Returning(c, lines)
<1>1. CASE UNCHANGED <<onHand, reserved, resv, released>>
  BY <1>1 DEF Quiet, HoldOf, Held
<1>2. ASSUME NEW c \in Order, PlaceOrder(c)
      PROVE  PlaceOrder(c) /\ Taking(c)
  BY <1>2, PlaceTakes
<1>3. ASSUME NEW s \in Sweeper, ReleaseHold(s)
      PROVE  GoBack /\ Sweeper # {}
  <2>1. sweep[s].row \in Row
    BY <1>3, InHand DEF ReleaseHold
  <2>2. sweep[s].row[1] \in Order
    BY <2>1, RowParts
  <2>. QED
    BY <1>3, <2>1, <2>2, ReleaseReturns
<1>4. ASSUME NEW e \in Edit, CommitListEdit(e), edit[e].to \in {"cancelled", "expired"}
      PROVE  GoBack /\ ListEdit # {}
  BY <1>4, CancelReturns DEF CommitListEdit
<1>5. ASSUME NEW r \in Verification, RecordOutcome(r), ver[r].to = "verified"
      PROVE  /\ RecordOutcome(r) /\ ver[r].to = "verified"
             /\ ver[r].order \in Order /\ Selling(ver[r].order)
  BY <1>5, SaleSells
<1>6. ASSUME NEW s \in Sweeper, Claim(s) \/ GiveBack(s)
      PROVE  Quiet
  BY <1>6, ClaimsQuiet
<1>7. ASSUME NEW e \in Edit, CommitListEdit(e), edit[e].to \notin {"cancelled", "expired"}
      PROVE  UNCHANGED <<onHand, reserved, resv, released>>
  BY <1>7 DEF CommitListEdit
<1>8. ASSUME NEW r \in Verification, RecordOutcome(r), ver[r].to # "verified"
      PROVE  UNCHANGED <<onHand, reserved, resv, released>>
  BY <1>8 DEF RecordOutcome
<1>9. \/ UNCHANGED <<onHand, reserved, resv, released>>
      \/ \E c \in Order : PlaceOrder(c)
      \/ \E s \in Sweeper : ReleaseHold(s) \/ Claim(s) \/ GiveBack(s)
      \/ \E e \in Edit : CommitListEdit(e)
      \/ \E r \in Verification : RecordOutcome(r)
  BY DEF Next, CheckoutStep, LookUpKey, RefuseCheckout, CheckAvailability,
     RollBackOrder, Elapse, LapseKey, SweepStep, SweepProgress, StartSweep, RecheckPayment,
     FinishSweep, SkipRow, LoseClaim, CrashSweep, GrantStepUp, LapseStepUp, VerifyStep,
     ReadPayment, Authorise, RollBackOutcome, EditStep, ReadOrder, CommitDetailEdit,
     shopVars, vars
<1>. QED
  BY <1>1, <1>2, <1>3, <1>4, <1>5, <1>6, <1>7, <1>8, <1>9

-------------------------------------------------------------------------------
(* What a step does to the books.                                        *)

LEMMA QuietBooks ==
    ASSUME TypeOK, TypeOK', Quiet
    PROVE  (BooksFinite => BooksFinite') /\ (BooksExact => BooksExact')
<1>1. HeldRows' = HeldRows /\ reserved' = reserved
  BY DEF Quiet, HeldRows
<1>2. \A v \in Variant : HeldUnits(v)' = HeldUnits(v)
  BY <1>1, UnitsAreHeld, UnitsAreHeldNext
<1>. QED
  BY <1>1, <1>2 DEF BooksFinite, BooksExact

LEMMA TakingBooks ==
    ASSUME TypeOK, TypeOK', NEW c \in Order, Taking(c)
    PROVE  /\ BooksFinite => BooksFinite'
           /\ BooksFinite /\ BooksExact => BooksExact'
<1>1. \A r \in Row : r[1] # c => HoldOf'[r] = HoldOf[r]
  BY DEF Taking
<1>2. ASSUME NEW v \in Variant
      PROVE  reserved'[v] = reserved[v] + OwnUnits(HeldRows', c, v) - OwnUnits(HeldRows, c, v)
  <2>1. <<c, v>> \in Row /\ Qty[<<c, v>>] \in Nat /\ reserved[v] \in Nat
    BY QtyType DEF TypeOK
  <2>2. HoldOf[<<c, v>>] = "none"
    BY <2>1 DEF Taking
  <2>3. OwnUnits(HeldRows, c, v) = 0
    BY <2>1, <2>2 DEF OwnUnits, HeldRows
  <2>4. HoldOf'[<<c, v>>] = "held" <=> Qty[<<c, v>>] > 0
    BY <2>1, <2>2 DEF Taking
  <2>5. OwnUnits(HeldRows', c, v) = Qty[<<c, v>>]
    BY <2>1, <2>4 DEF OwnUnits, HeldRows
  <2>6. reserved'[v] = reserved[v] + Qty[<<c, v>>]
    BY DEF Taking, ReservedWith
  <2>. QED
    BY <2>1, <2>3, <2>5, <2>6
<1>. QED
  BY <1>1, <1>2, OneOrdersLines

LEMMA ReturningBooks ==
    ASSUME TypeOK, TypeOK', NEW c \in Order, NEW lines \in SUBSET Row, Returning(c, lines)
    PROVE  /\ BooksFinite => BooksFinite'
           /\ BooksFinite /\ BooksExact =>
                 BooksExact' /\ reserved' = [v \in Variant |-> reserved[v] - OwnUnits(lines, c, v)]
<1>1. \A r \in Row : r[1] # c => HoldOf'[r] = HoldOf[r]
  BY DEF Returning
<1>2. ASSUME BooksFinite, BooksExact, NEW v \in Variant
      PROVE  /\ reserved'[v] = reserved[v] + OwnUnits(HeldRows', c, v) - OwnUnits(HeldRows, c, v)
             /\ reserved'[v] = reserved[v] - OwnUnits(lines, c, v)
  <2>1. <<c, v>> \in Row /\ Qty[<<c, v>>] \in Nat /\ reserved[v] \in Nat
    BY QtyType DEF TypeOK
  <2>2. OwnUnits(HeldRows, c, v) <= reserved[v]
    BY <1>2, OwnCovered
  <2>3. reserved'[v] = Clamp(reserved[v] - OwnUnits(lines, c, v))
    BY DEF Returning
  <2>4. CASE <<c, v>> \in lines
    <3>1. <<c, v>> \in HeldRows /\ <<c, v>> \notin HeldRows'
      BY <2>1, <2>4 DEF Returning, HeldRows
    <3>. QED
      BY <2>1, <2>2, <2>3, <2>4, <3>1 DEF OwnUnits, Clamp
  <2>5. CASE <<c, v>> \notin lines
    <3>1. <<c, v>> \in HeldRows' <=> <<c, v>> \in HeldRows
      BY <2>1, <2>5 DEF Returning, HeldRows
    <3>. QED
      BY <2>1, <2>3, <2>5, <3>1 DEF OwnUnits, Clamp
  <2>. QED
    BY <2>4, <2>5
<1>3. BooksFinite /\ BooksExact => BooksExact'
  BY <1>1, <1>2, OneOrdersLines
<1>4. BooksFinite /\ BooksExact =>
         reserved' = [v \in Variant |-> reserved[v] - OwnUnits(lines, c, v)]
  BY <1>2 DEF Returning
<1>. QED
  BY <1>1, <1>3, <1>4, OneOrdersLines

\* A sale of an order whose lines are all held.
LEMMA SellingBooks ==
    ASSUME TypeOK, TypeOK', NEW c \in Order, Selling(c)
    PROVE  /\ BooksFinite => BooksFinite'
           /\ /\ BooksFinite /\ BooksExact
              /\ \A v \in Variant : resv[<<c, v>>] \in {"active", Absent}
              => BooksExact'
<1>1. \A r \in Row : r[1] # c => HoldOf'[r] = HoldOf[r]
  BY DEF Selling
<1>2. ASSUME NEW v \in Variant, resv[<<c, v>>] \in {"active", Absent}
      PROVE  reserved'[v] = reserved[v] + OwnUnits(HeldRows', c, v) - OwnUnits(HeldRows, c, v)
  <2>1. <<c, v>> \in Row /\ Qty[<<c, v>>] \in Nat /\ reserved[v] \in Nat
    BY QtyType DEF TypeOK
  <2>2. reserved'[v] = reserved[v] - ConsumedUnits(c, v)
    BY DEF Selling, Minus
  <2>3. CASE resv[<<c, v>>] = "active"
    <3>1. HoldOf[<<c, v>>] = "held" /\ HoldOf'[<<c, v>>] = "sold"
      BY <2>1, <2>3, HoldIs DEF Selling, Held
    <3>. QED
      BY <2>1, <2>2, <2>3, <3>1 DEF OwnUnits, HeldRows, ConsumedUnits, Absent
  <2>4. CASE resv[<<c, v>>] = Absent
    <3>1. HoldOf[<<c, v>>] = "none" /\ HoldOf'[<<c, v>>] = "none"
      BY <2>1, <2>4, HoldIs DEF Selling, Absent
    <3>. QED
      BY <2>1, <2>2, <2>4, <3>1 DEF OwnUnits, HeldRows, ConsumedUnits
  <2>. QED
    BY <1>2, <2>3, <2>4
<1>. QED
  BY <1>1, <1>2, OneOrdersLines

LEMMA StepBooks ==
    ASSUME ClaimInv, TypeOK', BooksFinite, [Next]_vars
    PROVE  /\ BooksFinite'
           /\ BooksExact => BooksExact' \/ \E r \in Verification : ConsumesUnheld(r)
<1>. USE DEF ClaimInv
<1>1. CASE Quiet
  BY <1>1, QuietBooks
<1>2. ASSUME NEW c \in Order, Taking(c)
      PROVE  BooksFinite' /\ (BooksExact => BooksExact')
  BY <1>2, TakingBooks
<1>3. ASSUME NEW c \in Order, NEW lines \in SUBSET Row, Returning(c, lines)
      PROVE  BooksFinite' /\ (BooksExact => BooksExact')
  BY <1>3, ReturningBooks
<1>4. ASSUME NEW r \in Verification, RecordOutcome(r), ver[r].to = "verified",
             ver[r].order \in Order, Selling(ver[r].order)
      PROVE  BooksFinite' /\ (BooksExact => BooksExact' \/ ConsumesUnheld(r))
  <2>1. PICK c \in Order : c = ver[r].order /\ Selling(c)
    BY <1>4
  <2>2. CASE \A v \in Variant : resv[<<c, v>>] \in {"active", Absent}
    BY <2>1, <2>2, SellingBooks
  <2>3. CASE \E v \in Variant : resv[<<c, v>>] \notin {"active", Absent}
    <3>1. ver'[r].pc = "recorded" /\ ver[r].pc = "authorised"
      BY <1>4, VerifyInHand DEF RecordOutcome, TypeOK
    <3>2. ConsumesUnheld(r)
      BY <1>4, <2>1, <2>3, <3>1 DEF ConsumesUnheld
    <3>. QED
      BY <2>1, <3>2, SellingBooks
  <2>. QED
    BY <2>2, <2>3
<1>. QED
  BY <1>1, <1>2, <1>3, <1>4, StepOnLines

LEMMA InitBooks ==
    ASSUME Init
    PROVE  BooksFinite /\ BooksExact
<1>1. ASSUME NEW v \in Variant
      PROVE  HeldUnits(v) = {} /\ reserved[v] = 0
  <2>1. \A c \in Order : resv[<<c, v>>] = Absent
    BY QtyType DEF Init
  <2>2. HeldUnits(v) = {}
    BY <2>1 DEF HeldUnits, Held, Absent
  <2>. QED
    BY <2>2 DEF Init
<1>. QED
  BY <1>1, FS_EmptySet DEF BooksFinite, BooksExact

LEMMA BooksStayFinite == Spec => [](ClaimInv /\ BooksFinite)
<1>1. Init => BooksFinite
  BY InitBooks
<1>2. ClaimInv /\ ClaimInv' /\ BooksFinite /\ [Next]_vars => BooksFinite'
  BY StepBooks DEF ClaimInv
<1>. QED
  BY <1>1, <1>2, ClaimsHold, PTL DEF Spec

\* In every interleaving the counters stay the sums of the holds, but for a
\* verification that commits while some hold of its order is not active.
THEOREM BooksDriftBySaleOnly == Spec => BooksDriftOnlyBySale
<1>. DEFINE Drifts == BooksExact => BooksExact' \/ \E r \in Verification : ConsumesUnheld(r)
<1>1. ClaimInv /\ ClaimInv' /\ BooksFinite /\ [Next]_vars => [Drifts]_vars
  BY StepBooks DEF ClaimInv
<1>. QED
  BY <1>1, BooksStayFinite, PTL DEF Spec, BooksDriftOnlyBySale

-------------------------------------------------------------------------------
(* Behaviours in which only what is held is sold.                          *)

NoUnheldSale == \A r \in Verification : ~ConsumesUnheld(r)

HeldSales == [][NoUnheldSale]_vars

LEMMA HeldSalesKeepBooks == Spec /\ HeldSales => []BooksExact
<1>1. Init => BooksExact
  BY InitBooks
<1>2. ClaimInv /\ ClaimInv' /\ BooksFinite /\ BooksExact /\ [Next]_vars /\ [NoUnheldSale]_vars
         => BooksExact'
  <2>1. UNCHANGED vars => NoUnheldSale
    BY DEF vars, NoUnheldSale, ConsumesUnheld
  <2>. QED
    BY <2>1, StepBooks DEF ClaimInv, NoUnheldSale
<1>. QED
  BY <1>1, <1>2, BooksStayFinite, PTL DEF Spec, HeldSales

\* What a verification decides is one of the outcomes staff choose from.
OutcomesKept == \A r \in Verification : ver[r].pc \in {"read", "authorised"} => ver[r].to \in Outcomes

LEMMA StepOutcomes ==
    ASSUME TypeOK, OutcomesKept, [Next]_vars
    PROVE  OutcomesKept'
<1>1. CASE UNCHANGED ver
  BY <1>1 DEF OutcomesKept
<1>2. ASSUME NEW r \in Verification, VerifyStep(r)
      PROVE  OutcomesKept'
  <2>1. CASE ReadPayment(r)
    <3>1. PICK c \in Placed, to \in Outcomes :
             ver' = [ver EXCEPT ![r] =
                       [pc |-> IF CanMovePayment(payment[c], to) THEN "read" ELSE "refused",
                        order |-> c, from |-> payment[c], orderFrom |-> order[c], to |-> to]]
      BY <2>1 DEF ReadPayment
    <3>. QED
      BY <3>1 DEF TypeOK, OutcomesKept
  <2>2. ASSUME NEW pc \in {"authorised", "recorded", "refused"},
               ver' = [ver EXCEPT ![r].pc = pc], ver[r].pc \in {"read", "authorised"}
        PROVE  OutcomesKept'
    <3>1. ver[r] \in [pc : {"read", "authorised", "recorded", "refused"}, order : Order,
                      from : PaymentStatus \cup {Absent}, orderFrom : OrderStatus,
                      to : VerificationOutcome]
      BY <2>2 DEF TypeOK, VerifyState
    <3>2. ver'[r].to = ver[r].to /\ \A x \in Verification \ {r} : ver'[x] = ver[x]
      BY <2>2, <3>1 DEF TypeOK
    <3>. QED
      BY <2>2, <3>2 DEF OutcomesKept
  <2>3. CASE Authorise(r) \/ RecordOutcome(r) \/ RollBackOutcome(r)
    <3>1. \E pc \in {"authorised", "recorded", "refused"} : ver' = [ver EXCEPT ![r].pc = pc]
      BY <2>3 DEF Authorise, RecordOutcome, RollBackOutcome
    <3>2. ver[r].pc \in {"read", "authorised"}
      BY <2>3 DEF Authorise, RecordOutcome, RollBackOutcome
    <3>. QED
      BY <2>2, <3>1, <3>2
  <2>. QED
    BY <1>2, <2>1, <2>3 DEF VerifyStep
<1>3. UNCHANGED ver \/ \E r \in Verification : VerifyStep(r)
  BY DEF Next, CheckoutStep, LookUpKey, RefuseCheckout, CheckAvailability, PlaceOrder,
     RollBackOrder, Elapse, LapseKey, SweepStep, SweepProgress, StartSweep, Claim, RecheckPayment,
     GiveBack, ReleaseHold, FinishSweep, SkipRow, LoseClaim, CrashSweep, GrantStepUp, LapseStepUp,
     EditStep, ReadOrder, CommitListEdit, CommitDetailEdit, vars
<1>. QED
  BY <1>1, <1>2, <1>3

LEMMA OutcomesStay == Spec => []OutcomesKept
<1>1. Init => OutcomesKept
  BY DEF Init, OutcomesKept
<1>. QED
  BY <1>1, StepOutcomes, TypeCorrect, PTL DEF Spec

LEMMA NoSalesAtAll == ASSUME "verified" \notin Outcomes
                      PROVE  Spec => HeldSales
<1>1. OutcomesKept => NoUnheldSale
  BY DEF OutcomesKept, NoUnheldSale, ConsumesUnheld
<1>. QED
  BY <1>1, OutcomesStay, PTL DEF HeldSales

\* Whatever customers, overlapping and dying sweeps and staff do, and in any
\* order, as long as no payment is recorded as fully verified the reserved
\* counter of every variant is the sum of its holds.
THEOREM ReservedIsHeld == ASSUME "verified" \notin Outcomes
                          PROVE  Spec => []ReservedIsHolds
BY NoSalesAtAll, HeldSalesKeepBooks, PTL DEF ReservedIsHolds

-------------------------------------------------------------------------------
(* The contract of a hold.                                                 *)

\* The lines of an order are there together or not at all, and have units.
PlacedWhole ==
    /\ LinesHaveUnits
    /\ \A r, x \in Row : r[1] = x[1] /\ Qty[x] > 0 /\ resv[r] # Absent => resv[x] # Absent

LEMMA StepWhole ==
    ASSUME ClaimInv, PlacedWhole, [Next]_vars
    PROVE  PlacedWhole'
<1>1. ASSUME \A r \in Row : resv'[r] = Absent <=> resv[r] = Absent
      PROVE  PlacedWhole'
  BY <1>1 DEF PlacedWhole, LinesHaveUnits
<1>2. ASSUME NEW c \in Order, PlaceOrder(c)
      PROVE  PlacedWhole'
  BY <1>2 DEF PlaceOrder, PlacedWhole, LinesHaveUnits, Absent
<1>3. ASSUME NEW s \in Sweeper, Claim(s)
      PROVE  \A r \in Row : resv'[r] = Absent <=> resv[r] = Absent
  BY <1>3 DEF Claim, ClaimMatches, ClaimInv, TypeOK, Absent
<1>4. ASSUME NEW s \in Sweeper, GiveBack(s)
      PROVE  \A r \in Row : resv'[r] = Absent <=> resv[r] = Absent
  BY <1>4, InHand DEF GiveBack, ClaimInv, TypeOK, Absent
<1>5. ASSUME NEW r \in Verification, RecordOutcome(r)
      PROVE  \A x \in Row : resv'[x] = Absent <=> resv[x] = Absent
  BY <1>5 DEF RecordOutcome, Absent
<1>6. ASSUME NEW e \in Edit, CommitListEdit(e)
      PROVE  \A r \in Row : resv'[r] = Absent <=> resv[r] = Absent
  BY <1>6 DEF CommitListEdit, Absent
<1>7. \/ UNCHANGED resv
      \/ \E c \in Order : PlaceOrder(c)
      \/ \E s \in Sweeper : GiveBack(s) \/ Claim(s)
      \/ \E r \in Verification : RecordOutcome(r)
      \/ \E e \in Edit : CommitListEdit(e)
  BY DEF Next, CheckoutStep, LookUpKey, RefuseCheckout, CheckAvailability,
     RollBackOrder, Elapse, LapseKey, SweepStep, SweepProgress, StartSweep, RecheckPayment,
     ReleaseHold, FinishSweep, SkipRow, LoseClaim, CrashSweep, GrantStepUp, LapseStepUp, VerifyStep,
     ReadPayment, Authorise, RollBackOutcome, EditStep, ReadOrder, CommitDetailEdit,
     shopVars, vars
<1>. QED
  BY <1>1, <1>2, <1>3, <1>4, <1>5, <1>6, <1>7

LEMMA WholeOrders == Spec => [](ClaimInv /\ BooksFinite /\ PlacedWhole)
<1>1. Init => PlacedWhole
  BY DEF Init, PlacedWhole, LinesHaveUnits
<1>. QED
  BY <1>1, StepWhole, BooksStayFinite, PTL DEF Spec

\* What is taken is free, and all the lines of an order are taken.
LEMMA TakingIsTake ==
    ASSUME TypeOK, TypeOK', NEW c \in Order, Taking(c)
    PROVE  Contract!Take(c) \/ UNCHANGED <<FreeUnits, HoldOf>>
<1>. USE DEF Contract!Line, Contract!LinesOf
<1>1. \A v \in Variant : /\ Qty[<<c, v>>] \in Nat /\ <<c, v>> \in Row
                         /\ onHand[v] \in Nat /\ reserved[v] \in Nat
  BY QtyType DEF TypeOK
<1>2. \A v \in Variant : /\ reserved'[v] = reserved[v] + Qty[<<c, v>>]
                         /\ reserved'[v] <= onHand[v]
  BY DEF Taking, ReservedWith, LevelsAllowed
<1>3. \A v \in Variant : Qty[<<c, v>>] <= FreeUnits[v]
  BY <1>1, <1>2 DEF FreeUnits
<1>4. FreeUnits' = [v \in Variant |-> FreeUnits[v] - Qty[<<c, v>>]]
  BY <1>1, <1>2 DEF FreeUnits, Taking
<1>5. HoldOf' = [r \in Order \X Variant |-> IF r \in Contract!LinesOf(c) THEN "held" ELSE HoldOf[r]]
  BY DEF Taking, HoldOf, Row
<1>6. \A r \in Contract!LinesOf(c) : HoldOf[r] = "none"
  BY DEF Taking, Row
<1>7. CASE Contract!LinesOf(c) # {}
  BY <1>3, <1>4, <1>5, <1>6, <1>7 DEF Contract!Take, Contract!Became
<1>8. CASE Contract!LinesOf(c) = {}
  <2>1. \A v \in Variant : Qty[<<c, v>>] = 0
    BY <1>1, <1>8 DEF Row
  <2>2. FreeUnits' = FreeUnits
    <3>1. FreeUnits = [v \in Variant |-> FreeUnits[v]]
      BY DEF FreeUnits
    <3>2. \A v \in Variant : FreeUnits[v] \in Int
      BY DEF FreeUnits, TypeOK
    <3>. QED
      BY <1>4, <2>1, <3>1, <3>2
  <2>3. HoldOf = [r \in Order \X Variant |-> HoldOf[r]]
    BY DEF HoldOf, Row
  <2>4. HoldOf' = HoldOf
    BY <1>5, <1>8, <2>3
  <2>. QED
    BY <2>2, <2>4
<1>. QED
  BY <1>7, <1>8

\* What is returned was held, and is free again.
LEMMA ReturningIsReturn ==
    ASSUME TypeOK, TypeOK', LinesHaveUnits, BooksFinite, BooksExact,
           NEW c \in Order, NEW lines \in SUBSET Row, Returning(c, lines)
    PROVE  Contract!Return(c) \/ UNCHANGED <<FreeUnits, HoldOf>>
<1>1. ASSUME NEW r \in lines
      PROVE  r \in Contract!LinesOf(c) /\ HoldOf[r] = "held"
  <2>1. r \in Row /\ r[1] = c /\ HoldOf[r] = "held"
    BY DEF Returning, HeldRows
  <2>2. Qty[r] > 0
    BY <2>1, HoldIs DEF LinesHaveUnits
  <2>. QED
    BY <2>1, <2>2 DEF Contract!LinesOf, Contract!Line, Row
<1>2. HoldOf' = [r \in Order \X Variant |-> IF r \in lines THEN "returned" ELSE HoldOf[r]]
  BY DEF Returning, HoldOf, Row
<1>3. FreeUnits' = [v \in Variant |-> FreeUnits[v] + IF <<c, v>> \in lines THEN Qty[<<c, v>>] ELSE 0]
  <2>1. onHand' = onHand /\ reserved' = [v \in Variant |-> reserved[v] - OwnUnits(lines, c, v)]
    BY ReturningBooks DEF Returning
  <2>2. \A v \in Variant : onHand[v] \in Nat /\ reserved[v] \in Nat /\ Qty[<<c, v>>] \in Nat
    BY QtyType DEF TypeOK
  <2>. QED
    BY <2>1, <2>2 DEF FreeUnits, OwnUnits
<1>4. CASE lines # {}
  BY <1>1, <1>2, <1>3, <1>4 DEF Contract!Return, Contract!Became
<1>5. CASE lines = {}
  <2>1. HoldOf = [r \in Order \X Variant |-> HoldOf[r]]
    BY DEF HoldOf, Row
  <2>2. \A v \in Variant : FreeUnits[v] \in Int
    BY DEF FreeUnits, TypeOK
  <2>3. FreeUnits = [v \in Variant |-> FreeUnits[v]]
    BY DEF FreeUnits
  <2>. QED
    BY <1>2, <1>3, <1>5, <2>1, <2>2, <2>3
<1>. QED
  BY <1>4, <1>5

\* What is sold was held, all the lines of an order are sold at once, and a sale
\* frees nothing.
LEMMA SellingIsSell ==
    ASSUME ClaimInv, TypeOK', LinesHaveUnits, NEW c \in Order, Selling(c),
           \/ \A r \in Contract!LinesOf(c) : resv[r] = "active"
           \/ \A r \in Contract!LinesOf(c) : resv[r] # "active"
    PROVE  Contract!Sell(c) \/ UNCHANGED <<FreeUnits, HoldOf>>
<1>. USE DEF ClaimInv
<1>1. FreeUnits' = FreeUnits
  <2>1. \A v \in Variant : onHand[v] \in Nat /\ reserved[v] \in Nat /\ ConsumedUnits(c, v) \in Nat
    BY ConsumedType DEF TypeOK
  <2>. QED
    BY <2>1 DEF Selling, Minus, FreeUnits
<1>2. \A r \in Row : r[1] = c /\ resv[r] = "active" => r \in Contract!LinesOf(c)
  BY DEF LinesHaveUnits, Contract!LinesOf, Contract!Line, Row, Absent
<1>3. HoldOf = [r \in Order \X Variant |-> HoldOf[r]] /\ HoldOf' = [r \in Order \X Variant |-> HoldOf'[r]]
  BY DEF HoldOf, Row
<1>4. Contract!LinesOf(c) \subseteq Row /\ \A r \in Contract!LinesOf(c) : r[1] = c
  BY DEF Contract!LinesOf, Contract!Line, Row
<1>5. CASE \A r \in Contract!LinesOf(c) : resv[r] # "active"
  <2>1. \A r \in Order \X Variant : HoldOf'[r] = HoldOf[r]
    BY <1>2, <1>5 DEF Selling, Row
  <2>. QED
    BY <1>1, <1>3, <2>1
<1>6. CASE Contract!LinesOf(c) # {} /\ \A r \in Contract!LinesOf(c) : resv[r] = "active"
  <2>1. \A r \in Contract!LinesOf(c) : HoldOf[r] = "held"
    BY <1>4, <1>6, HoldIs DEF Held
  <2>2. \A r \in Order \X Variant :
           HoldOf'[r] = IF r \in Contract!LinesOf(c) THEN "sold" ELSE HoldOf[r]
    BY <1>2, <1>4, <1>6 DEF Selling, Row
  <2>. QED
    BY <1>1, <1>3, <1>6, <2>1, <2>2 DEF Contract!Sell, Contract!Became
<1>. QED
  BY <1>5, <1>6

LEMMA InitIsContract ==
    ASSUME Init
    PROVE  Contract!Init
<1>1. \A v \in Variant : InitialOnHand[v] - 0 = InitialOnHand[v] /\ InitialOnHand \in [Variant -> Nat]
  BY OrderStockAssumption DEF OrderStockAssumption
<1>2. FreeUnits = InitialOnHand
  BY <1>1, OrderStockAssumption DEF OrderStockAssumption, Init, FreeUnits
<1>3. HoldOf = [r \in Order \X Variant |-> "none"]
  <2>1. \A r \in Row : resv[r] = Absent
    BY DEF Init
  <2>2. \A r \in Row : HoldOf[r] = "none"
    BY <2>1, InitTypes, HoldIs
  <2>3. HoldOf = [r \in Order \X Variant |-> HoldOf[r]]
    BY DEF HoldOf, Row
  <2>. QED
    BY <2>2, <2>3 DEF Row
<1>. QED
  BY <1>2, <1>3 DEF Contract!Init

\* Lines that stay what they are, over levels that stay where they are.
LEMMA QuietIsStutter ==
    ASSUME Quiet
    PROVE  UNCHANGED <<FreeUnits, HoldOf>>
<1>1. HoldOf = [r \in Row |-> HoldOf[r]] /\ HoldOf' = [r \in Row |-> HoldOf'[r]]
  BY DEF HoldOf
<1>2. HoldOf' = HoldOf
  BY <1>1 DEF Quiet
<1>. QED
  BY <1>2 DEF Quiet, FreeUnits

LEMMA StepKeepsContract ==
    ASSUME ClaimInv, TypeOK', BooksFinite, BooksExact, PlacedWhole, [Next]_vars, NoUnheldSale
    PROVE  [Contract!Next]_<<FreeUnits, HoldOf>>
<1>. USE DEF ClaimInv, PlacedWhole
<1>1. CASE Quiet
  BY <1>1, QuietIsStutter
<1>2. ASSUME NEW c \in Order, Taking(c)
      PROVE  [Contract!Next]_<<FreeUnits, HoldOf>>
  BY <1>2, TakingIsTake DEF Contract!Next
<1>3. ASSUME NEW c \in Order, NEW lines \in SUBSET Row, Returning(c, lines)
      PROVE  [Contract!Next]_<<FreeUnits, HoldOf>>
  BY <1>3, ReturningIsReturn DEF Contract!Next
<1>4. ASSUME NEW r \in Verification, RecordOutcome(r), ver[r].to = "verified",
             ver[r].order \in Order, Selling(ver[r].order)
      PROVE  [Contract!Next]_<<FreeUnits, HoldOf>>
  <2>1. PICK c \in Order : c = ver[r].order /\ Selling(c)
    BY <1>4
  <2>2. ver'[r].pc = "recorded" /\ ver[r].pc = "authorised"
    BY <1>4, VerifyInHand DEF RecordOutcome, TypeOK
  <2>3. \A v \in Variant : resv[<<c, v>>] \in {"active", Absent}
    BY <1>4, <2>1, <2>2 DEF NoUnheldSale, ConsumesUnheld
  <2>4. \A x \in Contract!LinesOf(c) : /\ x \in Row /\ x[1] = c /\ Qty[x] > 0
                                       /\ resv[x] \in {"active", Absent}
    BY <2>3 DEF Contract!LinesOf, Contract!Line, Row
  <2>5. \/ \A x \in Contract!LinesOf(c) : resv[x] = "active"
        \/ \A x \in Contract!LinesOf(c) : resv[x] # "active"
    BY <2>4 DEF Absent
  <2>. QED
    BY <2>1, <2>5, SellingIsSell DEF Contract!Next
<1>. QED
  BY <1>1, <1>2, <1>3, <1>4, StepOnLines

\* In every behaviour in which only held lines are sold, checkouts, overlapping,
\* failing and dying sweeps, cancellations and verifications together implement
\* the contract of a hold: it is taken whole, then each of its lines is returned
\* to the free units or sold, once.
THEOREM ContractKept == Spec /\ HeldSales => HoldsContract
<1>1. Init => Contract!Init
  BY InitIsContract
<1>2. /\ ClaimInv /\ ClaimInv' /\ BooksFinite /\ BooksExact /\ PlacedWhole
      /\ [Next]_vars /\ [NoUnheldSale]_vars
      => [Contract!Next]_<<FreeUnits, HoldOf>>
  <2>1. UNCHANGED vars => NoUnheldSale
    BY DEF vars, NoUnheldSale, ConsumesUnheld
  <2>. QED
    BY <2>1, StepKeepsContract DEF ClaimInv
<1>. QED
  BY <1>1, <1>2, WholeOrders, HeldSalesKeepBooks, PTL DEF Spec, HeldSales, HoldsContract, Contract!Spec

\* So the contract is kept as long as no payment is recorded as fully verified.
THEOREM ContractKeptUnsold == ASSUME "verified" \notin Outcomes
                              PROVE  Spec => HoldsContract
BY NoSalesAtAll, ContractKept, PTL

\* Where nothing is returned, the lines of an order share their status.
LinesTogether ==
    \A r, x \in Row : r[1] = x[1] /\ Qty[r] > 0 /\ Qty[x] > 0 => resv[r] = resv[x]

LEMMA StepTogether ==
    ASSUME Sweeper = {}, ListEdit = {}, LinesTogether, [Next]_vars
    PROVE  LinesTogether'
<1>1. ASSUME NEW c \in Order, PlaceOrder(c)
      PROVE  LinesTogether'
  BY <1>1 DEF PlaceOrder, LinesTogether
<1>2. ASSUME NEW r \in Verification, RecordOutcome(r)
      PROVE  LinesTogether'
  BY <1>2 DEF RecordOutcome, LinesTogether
<1>3. CASE UNCHANGED resv
  BY <1>3 DEF LinesTogether
<1>4. \/ UNCHANGED resv
      \/ \E c \in Order : PlaceOrder(c)
      \/ \E r \in Verification : RecordOutcome(r)
  BY DEF Next, CheckoutStep, LookUpKey, RefuseCheckout, CheckAvailability,
     RollBackOrder, Elapse, LapseKey, GrantStepUp, LapseStepUp, VerifyStep,
     ReadPayment, Authorise, RollBackOutcome, EditStep, ReadOrder, CommitListEdit, CommitDetailEdit,
     shopVars, vars
<1>. QED
  BY <1>1, <1>2, <1>3, <1>4

LEMMA StepSells ==
    ASSUME Sweeper = {}, ListEdit = {}, ClaimInv, TypeOK', PlacedWhole, LinesTogether, [Next]_vars
    PROVE  [Contract!Next]_<<FreeUnits, HoldOf>>
<1>. USE DEF ClaimInv, PlacedWhole
<1>1. CASE Quiet
  BY <1>1, QuietIsStutter
<1>2. ASSUME NEW c \in Order, Taking(c)
      PROVE  [Contract!Next]_<<FreeUnits, HoldOf>>
  BY <1>2, TakingIsTake DEF Contract!Next
<1>3. ASSUME NEW c \in Order, Selling(c)
      PROVE  [Contract!Next]_<<FreeUnits, HoldOf>>
  <2>1. \A x, y \in Contract!LinesOf(c) : resv[x] = resv[y]
    BY DEF LinesTogether, Contract!LinesOf, Contract!Line, Row
  <2>2. \/ \A x \in Contract!LinesOf(c) : resv[x] = "active"
        \/ \A x \in Contract!LinesOf(c) : resv[x] # "active"
    BY <2>1
  <2>. QED
    BY <1>3, <2>2, SellingIsSell DEF Contract!Next
<1>. QED
  BY <1>1, <1>2, <1>3, StepOnLines

\* And in a shop without sweeps and cancellations it is kept by sales of every
\* kind, also by a verification that repeats another one's: what it takes from
\* the shelf it takes from the reserved units as well.
THEOREM ContractKeptBySales == ASSUME Sweeper = {}, ListEdit = {}
                               PROVE  Spec => HoldsContract
<1>1. Init => Contract!Init
  BY InitIsContract
<1>2. Init => LinesTogether
  BY DEF Init, LinesTogether
<1>3. LinesTogether /\ [Next]_vars => LinesTogether'
  BY StepTogether
<1>4. ClaimInv /\ ClaimInv' /\ PlacedWhole /\ LinesTogether /\ [Next]_vars
         => [Contract!Next]_<<FreeUnits, HoldOf>>
  BY StepSells DEF ClaimInv
<1>. QED
  BY <1>1, <1>2, <1>3, <1>4, WholeOrders, PTL DEF Spec, HoldsContract, Contract!Spec

-------------------------------------------------------------------------------
(* 3. What the documents say of orders, payments and holds.  The runs show *)
(* how the code breaks each sentence; here is what it takes to keep it.    *)

\* A verification is between its read and its batch.
InFlight(r) == ver[r].pc \in {"read", "authorised"}

\* No verification of an order is in flight while a sweep is between its
\* re-check and its release of one of the order's lines.
Apart ==
    \A s \in Sweeper, r \in Verification :
        sweep[s].pc = "unsettled" /\ InFlight(r) => ver[r].order # sweep[s].row[1]

\* No two verifications of one order are in flight together.
OneAtATime ==
    \A r, q \in Verification : InFlight(r) /\ InFlight(q) /\ ver[r].order = ver[q].order => r = q

\* What writes an order's status.
LEMMA OrderMoves ==
    ASSUME TypeOK, [Next]_vars, NEW c \in Order
    PROVE  \/ order'[c] = order[c]
           \/ PlaceOrder(c) /\ order'[c] = "awaiting_customer_contact"
           \/ \E s \in Sweeper :
                 /\ ReleaseHold(s) /\ sweep[s].row[1] = c
                 /\ order[c] \in ReservingStatus /\ order'[c] = "expired"
           \/ \E r \in Verification :
                 RecordOutcome(r) /\ ver[r].order = c /\ PaysOrder(r) /\ order'[c] = "paid"
           \/ \E e \in ListEdit :
                 /\ CommitListEdit(e) /\ edit[e].order = c
                 /\ order[c] = edit[e].from /\ order'[c] = edit[e].to
           \/ \E e \in DetailEdit :
                 CommitDetailEdit(e) /\ edit[e].order = c /\ order'[c] = edit[e].to
<1>0. order \in [Order -> OrderStatus \cup {Absent}]
  BY DEF TypeOK
<1>1. ASSUME NEW d \in Order, PlaceOrder(d)
      PROVE  order'[c] = order[c] \/ (c = d /\ order'[c] = "awaiting_customer_contact")
  BY <1>0, <1>1 DEF PlaceOrder
<1>2. ASSUME NEW s \in Sweeper, ReleaseHold(s)
      PROVE  order'[c] = order[c] \/ (/\ sweep[s].row[1] = c
                                      /\ order[c] \in ReservingStatus /\ order'[c] = "expired")
  BY <1>0, <1>2 DEF ReleaseHold
<1>3. ASSUME NEW r \in Verification, RecordOutcome(r)
      PROVE  order'[c] = order[c] \/ (ver[r].order = c /\ PaysOrder(r) /\ order'[c] = "paid")
  BY <1>0, <1>3 DEF RecordOutcome
<1>4. ASSUME NEW e \in Edit, CommitListEdit(e)
      PROVE  order'[c] = order[c] \/ (/\ e \in ListEdit /\ edit[e].order = c
                                      /\ order[c] = edit[e].from /\ order'[c] = edit[e].to)
  BY <1>0, <1>4 DEF CommitListEdit
<1>5. ASSUME NEW e \in Edit, CommitDetailEdit(e)
      PROVE  order'[c] = order[c] \/ (/\ e \in DetailEdit /\ edit[e].order = c
                                      /\ order'[c] = edit[e].to)
  BY <1>0, <1>5 DEF CommitDetailEdit
<1>6. \/ UNCHANGED order
      \/ \E d \in Order : PlaceOrder(d)
      \/ \E s \in Sweeper : ReleaseHold(s)
      \/ \E r \in Verification : RecordOutcome(r)
      \/ \E e \in Edit : CommitListEdit(e) \/ CommitDetailEdit(e)
  BY DEF Next, CheckoutStep, LookUpKey, RefuseCheckout, CheckAvailability,
     RollBackOrder, Elapse, LapseKey, SweepStep, SweepProgress, StartSweep, Claim,
     RecheckPayment, GiveBack, FinishSweep, SkipRow, LoseClaim, CrashSweep, GrantStepUp,
     LapseStepUp, VerifyStep, ReadPayment, Authorise, RollBackOutcome, EditStep, ReadOrder,
     shopVars, vars
<1>. QED
  BY <1>1, <1>2, <1>3, <1>4, <1>5, <1>6

\* What writes a payment's status.
LEMMA PaymentMoves ==
    ASSUME TypeOK, [Next]_vars, NEW c \in Order
    PROVE  \/ payment'[c] = payment[c]
           \/ PlaceOrder(c) /\ payment'[c] = "awaiting_payment"
           \/ \E s \in Sweeper :
                 /\ ReleaseHold(s) /\ sweep[s].row[1] = c
                 /\ CanExpirePayment(payment[c]) /\ payment'[c] = "expired"
           \/ \E r \in Verification :
                 /\ RecordOutcome(r) /\ ver[r].order = c
                 /\ payment[c] = ver[r].from /\ payment'[c] = ver[r].to
<1>0. payment \in [Order -> PaymentStatus \cup {Absent}]
  BY DEF TypeOK
<1>1. ASSUME NEW d \in Order, PlaceOrder(d)
      PROVE  payment'[c] = payment[c] \/ (c = d /\ payment'[c] = "awaiting_payment")
  BY <1>0, <1>1 DEF PlaceOrder
<1>2. ASSUME NEW s \in Sweeper, ReleaseHold(s)
      PROVE  payment'[c] = payment[c] \/ (/\ sweep[s].row[1] = c /\ CanExpirePayment(payment[c])
                                          /\ payment'[c] = "expired")
  BY <1>0, <1>2 DEF ReleaseHold
<1>3. ASSUME NEW r \in Verification, RecordOutcome(r)
      PROVE  payment'[c] = payment[c] \/ (/\ ver[r].order = c /\ payment[c] = ver[r].from
                                          /\ payment'[c] = ver[r].to)
  BY <1>0, <1>3 DEF RecordOutcome, PaymentMatches
<1>4. \/ UNCHANGED payment
      \/ \E d \in Order : PlaceOrder(d)
      \/ \E s \in Sweeper : ReleaseHold(s)
      \/ \E r \in Verification : RecordOutcome(r)
  BY DEF Next, CheckoutStep, LookUpKey, RefuseCheckout, CheckAvailability,
     RollBackOrder, Elapse, LapseKey, SweepStep, SweepProgress, StartSweep, Claim,
     RecheckPayment, GiveBack, FinishSweep, SkipRow, LoseClaim, CrashSweep, GrantStepUp,
     LapseStepUp, VerifyStep, ReadPayment, Authorise, RollBackOutcome, EditStep, ReadOrder,
     CommitListEdit, CommitDetailEdit, shopVars, vars
<1>. QED
  BY <1>1, <1>2, <1>3, <1>4

\* What a sweep releases is the row in its hands.
LEMMA ReleaseMoves ==
    ASSUME TypeOK, [Next]_vars, NEW x \in Row
    PROVE  \/ released'[x] = released[x]
           \/ \E s \in Sweeper : ReleaseHold(s) /\ sweep[s].row = x /\ sweep[s].pc = "unsettled"
<1>0. released \in [Row -> Nat]
  BY DEF TypeOK
<1>1. ASSUME NEW s \in Sweeper, ReleaseHold(s)
      PROVE  released'[x] = released[x] \/ (sweep[s].row = x /\ sweep[s].pc = "unsettled")
  BY <1>0, <1>1 DEF ReleaseHold
<1>2. UNCHANGED released \/ \E s \in Sweeper : ReleaseHold(s)
  BY DEF Next, CheckoutStep, LookUpKey, RefuseCheckout, CheckAvailability, PlaceOrder,
     RollBackOrder, Elapse, LapseKey, SweepStep, SweepProgress, StartSweep, Claim,
     RecheckPayment, GiveBack, FinishSweep, SkipRow, LoseClaim, CrashSweep, GrantStepUp,
     LapseStepUp, VerifyStep, ReadPayment, Authorise, RecordOutcome, RollBackOutcome, EditStep,
     ReadOrder, CommitListEdit, CommitDetailEdit, shopVars, vars
<1>. QED
  BY <1>1, <1>2

\* A sweep about to release has been so, or finds its order unsettled now.
LEMMA ReleaserMoves ==
    ASSUME TypeOK, [Next]_vars, NEW s \in Sweeper, sweep'[s].pc = "unsettled"
    PROVE  \/ sweep'[s] = sweep[s]
           \/ /\ RecheckPayment(s) /\ sweep'[s].row = sweep[s].row
              /\ sweep[s].row \in Row /\ ~Settled(sweep[s].row[1])
<1>0. sweep \in [Sweeper -> SweepState]
  BY DEF TypeOK
<1>1. ASSUME NEW t \in Sweeper, t # s, SweepStep(t)
      PROVE  sweep'[s] = sweep[s]
  BY <1>0, <1>1 DEF SweepStep, SweepProgress, StartSweep, Claim, RecheckPayment, GiveBack, ReleaseHold,
     FinishSweep, SkipRow, LoseClaim, CrashSweep, NextRow
<1>2. CASE RecheckPayment(s)
  <2>1. /\ sweep[s].pc = "claimed"
        /\ sweep'[s] = [sweep[s] EXCEPT !.pc = IF Settled(sweep[s].row[1])
                                                 THEN "settled" ELSE "unsettled"]
    BY <1>0, <1>2 DEF RecheckPayment
  <2>2. sweep[s] \in [pc : {"claimed", "settled", "unsettled"}, todo : SUBSET Row, row : Row]
    BY <1>0, <2>1 DEF SweepState
  <2>. QED
    BY <1>2, <2>1, <2>2
<1>3. CASE SweepStep(s) /\ ~RecheckPayment(s)
  <2>1. CASE StartSweep(s)
    BY <1>0, <2>1 DEF StartSweep
  <2>4. CASE Claim(s)
    <3>1. PICK r \in NextUp(s) :
             \/ sweep' = [sweep EXCEPT ![s] = [pc |-> "claimed", todo |-> @.todo \ {r}, row |-> r]]
             \/ sweep' = [sweep EXCEPT ![s].todo = @ \ {r}]
      BY <2>4 DEF Claim
    <3>2. sweep[s].pc = "loop" /\ sweep[s] \in SweepState
      BY <1>0, <2>4 DEF Claim
    <3>3. sweep[s] \in [pc : {"idle", "loop"}, todo : SUBSET Row, row : {None}]
      BY <3>2 DEF SweepState
    <3>4. sweep'[s].pc \in {"claimed", "loop"}
      BY <1>0, <3>1, <3>2, <3>3
    <3>. QED
      BY <3>4
  <2>2. CASE GiveBack(s) \/ ReleaseHold(s) \/ LoseClaim(s) \/ CrashSweep(s)
    BY <1>0, <2>2 DEF GiveBack, ReleaseHold, LoseClaim, CrashSweep, NextRow
  <2>3. CASE FinishSweep(s) \/ SkipRow(s)
    <3>1. sweep[s].pc = "loop" /\ sweep[s] \in SweepState
      BY <1>0, <2>3 DEF FinishSweep, SkipRow
    <3>2. sweep[s] \in [pc : {"idle", "loop"}, todo : SUBSET Row, row : {None}]
      BY <3>1 DEF SweepState
    <3>3. CASE FinishSweep(s)
      BY <1>0, <3>2, <3>3 DEF FinishSweep
    <3>4. CASE SkipRow(s)
      <4>1. PICK r \in NextUp(s) : sweep' = [sweep EXCEPT ![s].todo = @ \ {r}]
        BY <3>4 DEF SkipRow
      <4>2. sweep'[s].pc = sweep[s].pc
        BY <1>0, <3>2, <4>1
      <4>. QED
        BY <3>1, <4>2
    <3>. QED
      BY <2>3, <3>3, <3>4
  <2>. QED
    BY <1>3, <2>1, <2>2, <2>3, <2>4 DEF SweepStep, SweepProgress
<1>4. UNCHANGED sweep \/ \E t \in Sweeper : SweepStep(t)
  BY DEF Next, CheckoutStep, LookUpKey, RefuseCheckout, CheckAvailability, PlaceOrder,
     RollBackOrder, Elapse, LapseKey, GrantStepUp,
     LapseStepUp, VerifyStep, ReadPayment, Authorise, RecordOutcome, RollBackOutcome, EditStep,
     ReadOrder, CommitListEdit, CommitDetailEdit, shopVars, vars
<1>. QED
  BY <1>1, <1>2, <1>3, <1>4

\* A verification in flight was so, with what it read, or reads now.
LEMMA FlightMoves ==
    ASSUME TypeOK, [Next]_vars, NEW r \in Verification, InFlight(r)'
    PROVE  \/ /\ InFlight(r) /\ ver[r].order \in Order /\ ver'[r].order = ver[r].order
              /\ ver'[r].from = ver[r].from /\ ver'[r].orderFrom = ver[r].orderFrom
              /\ ver'[r].to = ver[r].to
              /\ ~RecordOutcome(r)
           \/ /\ UNCHANGED shopVars /\ UNCHANGED sweep
              /\ ver'[r].order \in Placed
              /\ ver'[r].from = payment[ver'[r].order]
              /\ ver'[r].orderFrom = order[ver'[r].order]
<1>0. ver \in [Verification -> VerifyState]
  BY DEF TypeOK
<1>1. ASSUME NEW q \in Verification, VerifyStep(q), q # r
      PROVE  ver'[r] = ver[r] /\ ~RecordOutcome(r)
  <2>1. ver'[r] = ver[r]
    BY <1>0, <1>1 DEF VerifyStep, ReadPayment, Authorise, RecordOutcome, RollBackOutcome
  <2>2. RecordOutcome(r) => ver'[r].pc = "recorded" /\ ver[r].pc = "authorised"
    <3>. SUFFICES ASSUME RecordOutcome(r)
                  PROVE  ver'[r].pc = "recorded" /\ ver[r].pc = "authorised"
      OBVIOUS
    <3>1. ver[r].pc = "authorised" /\ ver' = [ver EXCEPT ![r].pc = "recorded"]
      BY DEF RecordOutcome
    <3>2. ver[r] \in [pc : {"read", "authorised", "recorded", "refused"}, order : Order,
                      from : PaymentStatus \cup {Absent}, orderFrom : OrderStatus,
                      to : VerificationOutcome]
      BY <1>0, <3>1 DEF VerifyState
    <3>. QED
      BY <1>0, <3>1, <3>2
  <2>. QED
    BY <2>1, <2>2
<1>2. CASE ReadPayment(r)
  <2>1. PICK c \in Placed, to \in Outcomes :
           ver'[r] = [pc |-> IF CanMovePayment(payment[c], to) THEN "read" ELSE "refused",
                      order |-> c, from |-> payment[c], orderFrom |-> order[c], to |-> to]
    BY <1>0, <1>2 DEF ReadPayment
  <2>. QED
    BY <1>2, <2>1 DEF ReadPayment, shopVars
<1>3. CASE Authorise(r) \/ RecordOutcome(r) \/ RollBackOutcome(r)
  <2>1. PICK pc \in {"authorised", "recorded", "refused"} :
           ver' = [ver EXCEPT ![r].pc = pc] /\ (RecordOutcome(r) => pc = "recorded")
    <3>1. CASE Authorise(r)
      <4>1. ver[r].pc = "read"
        BY <3>1 DEF Authorise
      <4>2. ~RecordOutcome(r)
        BY <4>1 DEF RecordOutcome
      <4>. QED
        BY <3>1, <4>2 DEF Authorise
    <3>2. CASE RecordOutcome(r)
      BY <3>2 DEF RecordOutcome
    <3>3. CASE RollBackOutcome(r) /\ ~RecordOutcome(r)
      BY <3>3 DEF RollBackOutcome
    <3>. QED
      BY <1>3, <3>1, <3>2, <3>3
  <2>2. ver[r].pc \in {"read", "authorised"}
    BY <1>3 DEF Authorise, RecordOutcome, RollBackOutcome
  <2>3. ver[r] \in [pc : {"read", "authorised", "recorded", "refused"}, order : Order,
                    from : PaymentStatus \cup {Absent}, orderFrom : OrderStatus,
                    to : VerificationOutcome]
    BY <1>0, <2>2 DEF VerifyState
  <2>4. ver'[r] = [ver[r] EXCEPT !.pc = pc]
    BY <1>0, <2>1
  <2>5. ver'[r].pc = pc
    BY <2>3, <2>4
  <2>6. pc # "recorded"
    BY <2>5 DEF InFlight
  <2>. QED
    BY <2>1, <2>2, <2>3, <2>4, <2>6 DEF InFlight
<1>4. ASSUME ver'[r] = ver[r], ~RecordOutcome(r)
      PROVE  /\ InFlight(r) /\ ver[r].order \in Order /\ ver'[r].order = ver[r].order
             /\ ver'[r].from = ver[r].from /\ ver'[r].orderFrom = ver[r].orderFrom
             /\ ver'[r].to = ver[r].to
             /\ ~RecordOutcome(r)
  BY <1>0, <1>4 DEF InFlight, VerifyState
<1>5. UNCHANGED ver \/ \E q \in Verification : VerifyStep(q)
  BY DEF Next, CheckoutStep, LookUpKey, RefuseCheckout, CheckAvailability, PlaceOrder,
     RollBackOrder, Elapse, LapseKey, SweepStep, SweepProgress, StartSweep, Claim,
     RecheckPayment, GiveBack, ReleaseHold, FinishSweep, SkipRow, LoseClaim, CrashSweep, GrantStepUp,
     LapseStepUp, EditStep, ReadOrder, CommitListEdit, CommitDetailEdit, shopVars, vars
<1>6. CASE UNCHANGED ver
  <2>1. ~RecordOutcome(r)
    <3>. SUFFICES ASSUME RecordOutcome(r)
                  PROVE  FALSE
      OBVIOUS
    <3>1. ver[r].pc = "authorised" /\ ver' = [ver EXCEPT ![r].pc = "recorded"]
      BY DEF RecordOutcome
    <3>2. ver[r] \in [pc : {"read", "authorised", "recorded", "refused"}, order : Order,
                      from : PaymentStatus \cup {Absent}, orderFrom : OrderStatus,
                      to : VerificationOutcome]
      BY <1>0, <3>1 DEF VerifyState
    <3>3. ver'[r].pc = "recorded"
      BY <1>0, <3>1, <3>2
    <3>. QED
      BY <1>6, <3>1, <3>3
  <2>. QED
    BY <1>4, <1>6, <2>1
<1>. QED
  BY <1>1, <1>2, <1>3, <1>4, <1>5, <1>6 DEF VerifyStep

\* What staff asked for is a legal move from what the page showed, and never a
\* payment from the list.
EditsLegal ==
    \A e \in Edit : edit[e].pc = "read" =>
        /\ CanMoveOrder(edit[e].from, edit[e].to) /\ edit[e].to \in EditTo
        /\ e \in ListEdit => edit[e].to # "paid"

LEMMA StepEdits ==
    ASSUME TypeOK, EditsLegal, [Next]_vars
    PROVE  EditsLegal'
<1>0. edit \in [Edit -> EditState]
  BY DEF TypeOK
<1>1. ASSUME NEW e \in Edit, EditStep(e)
      PROVE  EditsLegal'
  <2>1. \A f \in Edit \ {e} : edit'[f] = edit[f]
    BY <1>0, <1>1 DEF EditStep, ReadOrder, CommitListEdit, CommitDetailEdit
  <2>2. CASE ReadOrder(e)
    <3>1. PICK c \in Placed, to \in EditTo :
             /\ CanMoveOrder(order[c], to) /\ (e \in ListEdit => to # "paid")
             /\ edit'[e] = [pc |-> "read", order |-> c, from |-> order[c], to |-> to]
      BY <1>0, <2>2 DEF ReadOrder
    <3>. QED
      BY <2>1, <3>1 DEF EditsLegal
  <2>3. CASE CommitListEdit(e) \/ CommitDetailEdit(e)
    <3>1. edit[e].pc = "read" /\ edit' = [edit EXCEPT ![e].pc = "done"]
      BY <2>3 DEF CommitListEdit, CommitDetailEdit
    <3>2. edit[e] \in [pc : {"read", "done"}, order : Order, from : OrderStatus, to : OrderStatus]
      BY <1>0, <3>1 DEF EditState
    <3>3. edit'[e].pc = "done"
      BY <1>0, <3>1, <3>2
    <3>. QED
      BY <2>1, <3>3 DEF EditsLegal
  <2>. QED
    BY <1>1, <2>2, <2>3 DEF EditStep
<1>2. UNCHANGED edit \/ \E e \in Edit : EditStep(e)
  BY DEF Next, CheckoutStep, LookUpKey, RefuseCheckout, CheckAvailability, PlaceOrder,
     RollBackOrder, Elapse, LapseKey, SweepStep, SweepProgress, StartSweep, Claim,
     RecheckPayment, GiveBack, ReleaseHold, FinishSweep, SkipRow, LoseClaim, CrashSweep, GrantStepUp,
     LapseStepUp, VerifyStep, ReadPayment, Authorise, RecordOutcome, RollBackOutcome, shopVars, vars
<1>3. CASE UNCHANGED edit
  BY <1>3 DEF EditsLegal
<1>. QED
  BY <1>1, <1>2, <1>3

BaseInv == ClaimInv /\ MoveInv /\ EditsLegal

LEMMA BaseHolds == Spec => []BaseInv
<1>1. Init => EditsLegal
  BY DEF Init, EditsLegal
<1>2. TypeOK /\ EditsLegal /\ [Next]_vars => EditsLegal'
  BY StepEdits
<1>. QED
  BY <1>1, <1>2, ClaimsHold, MovesHold, TypeCorrect, PTL DEF Spec, BaseInv

\* Once an order is past paying, no legal move leads it back, nor to "paid".
PastPaying == (OrderStatus \cup {Absent}) \ (ReservingStatus \cup {"draft", "paid"})

LEMMA NoWayBack ==
    ASSUME NEW from \in PastPaying, NEW to, CanMoveOrder(from, to)
    PROVE  to \in PastPaying
BY DEF PastPaying, CanMoveOrder, OrderStatus, OrderTransition, ReservingStatus, Absent

LEMMA NothingToDraft ==
    ASSUME NEW from, NEW to, CanMoveOrder(from, to)
    PROVE  to \in OrderStatus /\ to # "draft"
BY DEF CanMoveOrder, OrderStatus, OrderTransition

\* What can be paid still holds stock.
LEMMA PayableReserves ==
    ASSUME NEW from, CanMoveOrder(from, "paid")
    PROVE  from \in ReservingStatus
BY DEF CanMoveOrder, OrderStatus, OrderTransition, ReservingStatus

-------------------------------------------------------------------------------
(* Never both.                                                             *)

\* The order page reopens nothing and marks nothing paid.
PageAside == DetailEdit = {} \/ EditTo \cap (ReservingStatus \cup {"paid"}) = {}

\* Whoever is about to release has an order that is not paid; an order of which
\* something was released is past paying, and so was what verifications read.
ReleasesUnpaid ==
    /\ \A s \in Sweeper : sweep[s].pc = "unsettled" => order[sweep[s].row[1]] # "paid"
    /\ \A x \in Row : released[x] > 0 => order[x[1]] \in PastPaying
    /\ \A r \in Verification, x \in Row :
          InFlight(r) /\ ver[r].order = x[1] /\ released[x] > 0 => ver[r].orderFrom \in PastPaying
    /\ \A c \in Order : order[c] # "draft"

LEMMA StepReleases ==
    ASSUME PageAside, BaseInv, ReleasesUnpaid, Apart, [Next]_vars
    PROVE  ReleasesUnpaid'
<1>0. TypeOK /\ order \in [Order -> OrderStatus \cup {Absent}] /\ released \in [Row -> Nat]
      /\ sweep \in [Sweeper -> SweepState]
  BY DEF BaseInv, ClaimInv, TypeOK
<1>1. ASSUME NEW e \in ListEdit, CommitListEdit(e)
      PROVE  /\ CanMoveOrder(edit[e].from, edit[e].to)
             /\ edit[e].to \in OrderStatus \ {"draft", "paid"}
  <2>1. e \in Edit /\ edit[e].pc = "read"
    BY <1>1 DEF CommitListEdit, Edit
  <2>2. CanMoveOrder(edit[e].from, edit[e].to) /\ edit[e].to # "paid"
    BY <1>1, <2>1 DEF BaseInv, EditsLegal
  <2>. QED
    BY <2>2, NothingToDraft
<1>2. ASSUME NEW e \in DetailEdit, CommitDetailEdit(e)
      PROVE  edit[e].to \in PastPaying
  <2>1. e \in Edit /\ edit[e].pc = "read"
    BY <1>2 DEF CommitDetailEdit, Edit
  <2>2. CanMoveOrder(edit[e].from, edit[e].to) /\ edit[e].to \in EditTo
    BY <2>1 DEF BaseInv, EditsLegal
  <2>3. edit[e].to \in OrderStatus /\ edit[e].to # "draft"
    BY <2>2, NothingToDraft
  <2>. QED
    BY <1>2, <2>2, <2>3 DEF PageAside, PastPaying
<1>3. ASSUME NEW r \in Verification, NEW c \in Order, RecordOutcome(r), ver[r].order = c, PaysOrder(r)
      PROVE  /\ InFlight(r)
             /\ \A s \in Sweeper : sweep[s].pc = "unsettled" => sweep[s].row[1] # c
             /\ \A x \in Row : x[1] = c => released[x] = 0
  <2>1. InFlight(r)
    BY <1>3 DEF RecordOutcome, InFlight
  <2>2. ver[r].orderFrom \in ReservingStatus
    BY <1>3, PayableReserves DEF PaysOrder
  <2>3. ASSUME NEW x \in Row, x[1] = c
        PROVE  released[x] = 0
    <3>1. ~(released[x] > 0)
      BY <1>3, <2>1, <2>2, <2>3 DEF ReleasesUnpaid, PastPaying
    <3>. QED
      BY <1>0, <3>1
  <2>. QED
    BY <1>3, <2>1, <2>3 DEF Apart
<1>4. ASSUME NEW c \in Order, PlaceOrder(c)
      PROVE  /\ \A x \in Row : x[1] = c => released[x] = 0 /\ resv[x] = Absent
             /\ \A s \in Sweeper : sweep[s].pc = "unsettled" => sweep[s].row[1] # c
  <2>1. ASSUME NEW x \in Row, x[1] = c
        PROVE  released[x] = 0 /\ resv[x] = Absent
    <3>1. x = <<c, x[2]>> /\ x[2] \in Variant
      BY <2>1, RowParts
    <3>2. resv[x] = Absent
      BY <1>4, <3>1 DEF PlaceOrder, BaseInv, ClaimInv, NoHoldYet
    <3>3. released[x] # 1 /\ released[x] <= 1 /\ released[x] \in Nat
      BY <1>0, <3>2 DEF BaseInv, ClaimInv, ReturnedOnce, Absent
    <3>. QED
      BY <3>2, <3>3
  <2>2. ASSUME NEW s \in Sweeper, sweep[s].pc = "unsettled"
        PROVE  sweep[s].row[1] # c
    <3>1. sweep[s].row \in Row /\ resv[sweep[s].row] = "expired"
      BY <2>2, InHand DEF BaseInv
    <3>. QED
      BY <2>1, <3>1 DEF Absent
  <2>. QED
    BY <2>1, <2>2
<1>5. ASSUME NEW s \in Sweeper, sweep'[s].pc = "unsettled"
      PROVE  order'[sweep'[s].row[1]] # "paid"
  <2>. DEFINE c == sweep'[s].row[1]
  <2>1. sweep'[s].row \in Row /\ c \in Order /\ order[c] # "paid"
    <3>1. CASE sweep'[s] = sweep[s]
      <4>1. sweep[s].row \in Row
        BY <1>5, <3>1, InHand DEF BaseInv
      <4>. QED
        BY <1>5, <3>1, <4>1, RowParts DEF ReleasesUnpaid
    <3>2. CASE RecheckPayment(s) /\ sweep'[s].row = sweep[s].row
               /\ sweep[s].row \in Row /\ ~Settled(sweep[s].row[1])
      BY <3>2, RowParts DEF Settled
    <3>. QED
      BY <1>0, <1>5, <3>1, <3>2, ReleaserMoves
  <2>2. ASSUME NEW r \in Verification, RecordOutcome(r), ver[r].order = c, PaysOrder(r)
        PROVE  FALSE
    <3>1. UNCHANGED sweep
      BY <2>2 DEF RecordOutcome
    <3>. QED
      BY <1>3, <1>5, <2>1, <2>2, <3>1
  <2>3. ASSUME NEW e \in DetailEdit, CommitDetailEdit(e)
        PROVE  edit[e].to # "paid"
    BY <1>2, <2>3 DEF PastPaying
  <2>4. ASSUME NEW e \in ListEdit, CommitListEdit(e)
        PROVE  edit[e].to # "paid"
    BY <1>1, <2>4
  <2>. QED
    BY <1>0, <2>1, <2>2, <2>3, <2>4, OrderMoves
<1>6. ASSUME NEW x \in Row, released'[x] > 0
      PROVE  order'[x[1]] \in PastPaying
  <2>. DEFINE c == x[1]
  <2>1. c \in Order
    BY RowParts
  <2>2. CASE released'[x] = released[x]
    <3>1. order[c] \in PastPaying /\ released[x] > 0
      BY <1>6, <2>2 DEF ReleasesUnpaid
    <3>2. ASSUME NEW e \in ListEdit, CommitListEdit(e), order[c] = edit[e].from
          PROVE  edit[e].to \in PastPaying
      BY <1>1, <3>1, <3>2, NoWayBack
    <3>3. ~PlaceOrder(c)
      BY <1>4, <2>1, <3>1
    <3>4. ASSUME NEW r \in Verification, RecordOutcome(r), ver[r].order = c, PaysOrder(r)
          PROVE  FALSE
      BY <1>3, <2>1, <3>1, <3>4
    <3>5. order[c] \notin ReservingStatus
      BY <3>1 DEF PastPaying
    <3>. QED
      BY <1>0, <1>2, <2>1, <3>1, <3>2, <3>3, <3>4, <3>5, OrderMoves
  <2>3. ASSUME NEW s \in Sweeper, ReleaseHold(s), sweep[s].row = x, sweep[s].pc = "unsettled"
        PROVE  order'[c] \in PastPaying
    <3>1. order'[c] = IF order[c] \in ReservingStatus THEN "expired" ELSE order[c]
      BY <1>0, <2>1, <2>3 DEF ReleaseHold
    <3>2. order[c] # "paid" /\ order[c] # "draft" /\ order[c] \in OrderStatus \cup {Absent}
      BY <1>0, <2>1, <2>3 DEF ReleasesUnpaid
    <3>. QED
      BY <3>1, <3>2 DEF PastPaying, OrderStatus, ReservingStatus
  <2>. QED
    BY <1>0, <2>2, <2>3, ReleaseMoves
<1>7. ASSUME NEW r \in Verification, NEW x \in Row,
             InFlight(r)', ver'[r].order = x[1], released'[x] > 0
      PROVE  ver'[r].orderFrom \in PastPaying
  <2>1. CASE /\ UNCHANGED shopVars /\ ver'[r].order \in Placed
             /\ ver'[r].orderFrom = order[ver'[r].order]
    BY <1>7, <2>1 DEF ReleasesUnpaid, shopVars
  <2>2. CASE InFlight(r) /\ ver'[r].order = ver[r].order /\ ver'[r].orderFrom = ver[r].orderFrom
    <3>1. CASE released'[x] = released[x]
      BY <1>7, <2>2, <3>1 DEF ReleasesUnpaid
    <3>2. ASSUME NEW s \in Sweeper, sweep[s].row = x, sweep[s].pc = "unsettled"
          PROVE  FALSE
      BY <1>7, <2>2, <3>2 DEF Apart
    <3>. QED
      BY <1>0, <3>1, <3>2, ReleaseMoves
  <2>. QED
    BY <1>0, <1>7, <2>1, <2>2, FlightMoves
<1>8. ASSUME NEW c \in Order
      PROVE  order'[c] # "draft"
  <2>1. order[c] # "draft"
    BY DEF ReleasesUnpaid
  <2>2. ASSUME NEW e \in DetailEdit, CommitDetailEdit(e)
        PROVE  edit[e].to # "draft"
    BY <1>2, <2>2 DEF PastPaying
  <2>3. ASSUME NEW e \in ListEdit, CommitListEdit(e)
        PROVE  edit[e].to # "draft"
    BY <1>1, <2>3
  <2>. QED
    BY <1>0, <2>1, <2>2, <2>3, OrderMoves
<1>. QED
  BY <1>5, <1>6, <1>7, <1>8 DEF ReleasesUnpaid

\* The documents' "either the order is paid and stock stays reserved, or it
\* expired and stock was released, never both" holds for any number of orders,
\* sweeps that overlap, fail or die, verifications and cancellations, wherever no
\* verification of an order is in flight between a sweep's re-check and its
\* release of that order (expire-reservations.ts:107-196, verify-payment.ts), and
\* the order page, which asks nothing, neither reopens nor pays orders.
THEOREM PaidOrReleased == ASSUME PageAside
                          PROVE  Spec /\ []Apart => []NeverBoth
<1>1. Init => ReleasesUnpaid
  BY DEF Init, ReleasesUnpaid, InFlight, Absent
<1>2. BaseInv /\ ReleasesUnpaid /\ Apart /\ [Next]_vars => ReleasesUnpaid'
  BY StepReleases
<1>3. ReleasesUnpaid => NeverBoth
  BY DEF ReleasesUnpaid, NeverBoth, PastPaying
<1>. QED
  BY <1>1, <1>2, <1>3, BaseHolds, PTL DEF Spec

-------------------------------------------------------------------------------
(* A payment in part.                                                      *)

\* Whoever is about to release has an order nobody paid, in full or in part.
ReleasesUnsettled ==
    \A s \in Sweeper : sweep[s].pc = "unsettled" =>
        payment[sweep[s].row[1]] \notin {"verified", "partially_paid"}

LEMMA StepUnsettled ==
    ASSUME BaseInv, ReleasesUnsettled, Apart, [Next]_vars
    PROVE  ReleasesUnsettled'
<1>0. TypeOK
  BY DEF BaseInv, ClaimInv
<1>. SUFFICES ASSUME NEW s \in Sweeper, sweep'[s].pc = "unsettled"
              PROVE  payment'[sweep'[s].row[1]] \notin {"verified", "partially_paid"}
  BY DEF ReleasesUnsettled
<1>. DEFINE c == sweep'[s].row[1]
<1>1. c \in Order /\ payment[c] \notin {"verified", "partially_paid"}
  <2>1. CASE sweep'[s] = sweep[s]
    <3>1. sweep[s].row \in Row
      BY <2>1, InHand DEF BaseInv
    <3>. QED
      BY <2>1, <3>1, RowParts DEF ReleasesUnsettled
  <2>2. CASE /\ sweep'[s].row = sweep[s].row
             /\ sweep[s].row \in Row /\ ~Settled(sweep[s].row[1])
    BY <2>2, RowParts DEF Settled
  <2>. QED
    BY <1>0, <2>1, <2>2, ReleaserMoves
<1>2. ASSUME NEW r \in Verification, RecordOutcome(r), ver[r].order = c
      PROVE  FALSE
  <2>1. UNCHANGED sweep /\ InFlight(r)
    BY <1>2 DEF RecordOutcome, InFlight
  <2>. QED
    BY <1>2, <2>1 DEF Apart
<1>. QED
  BY <1>0, <1>1, <1>2, PaymentMoves

\* "Both keep the reservation alive", of the two outcomes between unpaid and paid
\* (payments/status.ts), is kept for a part payment as it is for a full one: no
\* sweep returns a line of such an order, however sweeps overlap, unless the
\* payment is verified between a sweep's re-check and its release
\* (expire-reservations.ts:107-119).
THEOREM PartPaymentKeepsHold ==
    Spec /\ []Apart => [][\A x \in Row : payment[x[1]] \in {"verified", "partially_paid"}
                                            => released'[x] = released[x]]_vars
<1>. DEFINE Keeps == \A x \in Row : payment[x[1]] \in {"verified", "partially_paid"}
                                        => released'[x] = released[x]
<1>1. Init => ReleasesUnsettled
  BY DEF Init, ReleasesUnsettled
<1>2. BaseInv /\ ReleasesUnsettled /\ Apart /\ [Next]_vars => ReleasesUnsettled'
  BY StepUnsettled
<1>3. BaseInv /\ ReleasesUnsettled /\ [Next]_vars => [Keeps]_vars
  BY ReleaseMoves DEF BaseInv, ClaimInv, ReleasesUnsettled
<1>. QED
  BY <1>1, <1>2, <1>3, BaseHolds, PTL DEF Spec

-------------------------------------------------------------------------------
(* Paid means verified.                                                    *)

\* A verification in flight still has the payment it read.
ReadsAreFresh ==
    \A r \in Verification : InFlight(r) => ver[r].from = payment[ver[r].order]

LEMMA StepFresh ==
    ASSUME BaseInv, ReadsAreFresh, Apart, OneAtATime, [Next]_vars
    PROVE  ReadsAreFresh'
<1>0. TypeOK
  BY DEF BaseInv, ClaimInv
<1>. SUFFICES ASSUME NEW r \in Verification, InFlight(r)'
              PROVE  ver'[r].from = payment'[ver'[r].order]
  BY DEF ReadsAreFresh
<1>. DEFINE c == ver'[r].order
<1>1. CASE UNCHANGED shopVars /\ ver'[r].from = payment[c]
  BY <1>1 DEF shopVars
<1>2. CASE /\ InFlight(r) /\ c \in Order /\ c = ver[r].order
           /\ ver'[r].from = ver[r].from /\ ~RecordOutcome(r)
  <2>1. ver[r].from = payment[c]
    BY <1>2 DEF ReadsAreFresh
  <2>2. ~PlaceOrder(c)
    <3>1. checkout[c] = "done"
      BY <1>2 DEF BaseInv, MoveInv, DealsWithPlaced, InFlight
    <3>. QED
      BY <3>1 DEF PlaceOrder
  <2>3. ASSUME NEW s \in Sweeper, ReleaseHold(s), sweep[s].row[1] = c
        PROVE  FALSE
    BY <1>2, <2>3 DEF Apart, ReleaseHold
  <2>4. ASSUME NEW q \in Verification, RecordOutcome(q), ver[q].order = c
        PROVE  FALSE
    <3>1. InFlight(q)
      BY <2>4 DEF RecordOutcome, InFlight
    <3>2. q = r
      BY <1>2, <2>4, <3>1 DEF OneAtATime
    <3>. QED
      BY <1>2, <2>4, <3>2
  <2>. QED
    BY <1>0, <1>2, <2>1, <2>2, <2>3, <2>4, PaymentMoves
<1>. QED
  BY <1>0, <1>1, <1>2, FlightMoves

LEMMA StepPaid ==
    ASSUME DetailEdit = {} \/ "paid" \notin EditTo,
           BaseInv, ReadsAreFresh, PaidMeansVerified, [Next]_vars
    PROVE  PaidMeansVerified'
<1>0. TypeOK /\ payment \in [Order -> PaymentStatus \cup {Absent}]
  BY DEF BaseInv, ClaimInv, TypeOK
<1>. SUFFICES ASSUME NEW c \in Order, order'[c] = "paid"
              PROVE  payment'[c] = "verified"
  BY DEF PaidMeansVerified
<1>1. ASSUME NEW r \in Verification, RecordOutcome(r), ver[r].order = c
      PROVE  /\ payment'[c] = ver[r].to
             /\ CanMovePayment(payment[c], ver[r].to) /\ ver[r].to \in VerificationOutcome
  <2>1. InFlight(r) /\ ver[r].pc = "authorised"
    BY <1>1 DEF RecordOutcome, InFlight
  <2>2. ver[r].from = payment[c]
    BY <1>1, <2>1 DEF ReadsAreFresh
  <2>3. payment'[c] = ver[r].to
    BY <1>0, <1>1, <2>2 DEF RecordOutcome, PaymentMatches
  <2>. QED
    BY <1>0, <2>1, <2>2, <2>3, VerifyInHand DEF BaseInv, MoveInv, HoldsLegalMove
<1>2. CASE order[c] = "paid"
  <2>1. payment[c] = "verified"
    BY <1>2 DEF PaidMeansVerified
  <2>2. ~CanExpirePayment("verified")
    BY DEF CanExpirePayment
  <2>3. \A to \in VerificationOutcome : ~CanMovePayment("verified", to)
    BY DEF VerificationOutcome, CanMovePayment, PaymentTransition
  <2>4. ~PlaceOrder(c)
    <3>1. checkout[c] = "done"
      BY <1>2 DEF BaseInv, MoveInv, PlacedAreAnswered, Absent
    <3>. QED
      BY <3>1 DEF PlaceOrder
  <2>. QED
    BY <1>0, <1>1, <2>1, <2>2, <2>3, <2>4, PaymentMoves
<1>3. CASE order[c] # "paid"
  <2>1. ASSUME NEW e \in ListEdit, CommitListEdit(e)
        PROVE  edit[e].to # "paid"
    <3>1. e \in Edit /\ edit[e].pc = "read"
      BY <2>1 DEF CommitListEdit, Edit
    <3>. QED
      BY <3>1 DEF BaseInv, EditsLegal
  <2>2. ASSUME NEW e \in DetailEdit, CommitDetailEdit(e)
        PROVE  edit[e].to # "paid"
    <3>1. e \in Edit /\ edit[e].pc = "read"
      BY <2>2 DEF CommitDetailEdit, Edit
    <3>2. edit[e].to \in EditTo
      BY <3>1 DEF BaseInv, EditsLegal
    <3>. QED
      BY <2>2, <3>2
  <2>3. PICK r \in Verification : RecordOutcome(r) /\ ver[r].order = c /\ PaysOrder(r)
    BY <1>0, <1>3, <2>1, <2>2, OrderMoves
  <2>. QED
    BY <1>1, <2>3 DEF PaysOrder
<1>. QED
  BY <1>2, <1>3

\* "paid" is reached only through a verification that was recorded, and the
\* payment is verified then and stays so (docs/order-state-machine.md), wherever
\* the order page does not write "paid" and the verifications of an order are in
\* flight one at a time, and not beside a sweep's release of it.  For then what a
\* verification read is still true when it writes (verify-payment.ts:167-234).
THEOREM PaidIsVerified == ASSUME DetailEdit = {} \/ "paid" \notin EditTo
                          PROVE  Spec /\ []Apart /\ []OneAtATime => []PaidMeansVerified
<1>1. Init => ReadsAreFresh /\ PaidMeansVerified
  BY DEF Init, ReadsAreFresh, PaidMeansVerified, InFlight, Absent
<1>2. BaseInv /\ ReadsAreFresh /\ Apart /\ OneAtATime /\ [Next]_vars => ReadsAreFresh'
  BY StepFresh
<1>3. BaseInv /\ ReadsAreFresh /\ PaidMeansVerified /\ [Next]_vars => PaidMeansVerified'
  BY StepPaid
<1>. QED
  BY <1>1, <1>2, <1>3, BaseHolds, PTL DEF Spec

-------------------------------------------------------------------------------
(* Cancelling releases, and claims are not lost.                           *)

\* "Entering cancelled releases it" (docs/order-state-machine.md) is kept by the
\* list: where the order page is not used, an order that is cancelled while it
\* holds stock has no active hold afterwards (orders.tsx:205-233).
THEOREM CancelledIsReleased == ASSUME DetailEdit = {}
                               PROVE  Spec => CancellingReleases
<1>. DEFINE Releases == \A c \in Order :
                           order[c] \in ReservingStatus /\ order'[c] = "cancelled"
                              => \A v \in Variant : resv'[<<c, v>>] # "active"
<1>1. ASSUME TypeOK, [Next]_vars
      PROVE  Releases
  <2>. SUFFICES ASSUME NEW c \in Order, order[c] \in ReservingStatus, order'[c] = "cancelled",
                       NEW v \in Variant
                PROVE  resv'[<<c, v>>] # "active"
    OBVIOUS
  <2>1. order'[c] # order[c]
    BY DEF ReservingStatus
  <2>2. PICK e \in ListEdit : /\ CommitListEdit(e) /\ edit[e].order = c
                              /\ order'[c] = edit[e].to
    BY <1>1, <2>1, OrderMoves
  <2>3. resv' = [x \in Row |-> IF x[1] = c /\ resv[x] = "active" THEN "released" ELSE resv[x]]
    BY <2>2 DEF CommitListEdit
  <2>. QED
    BY <2>3, QtyType
<1>2. TypeOK /\ [Next]_vars => [Releases]_vars
  BY <1>1
<1>. QED
  BY <1>2, TypeCorrect, PTL DEF Spec, CancellingReleases

\* A claim whose stock is not back on the shelf is some sweep's own.
ClaimsInHand ==
    \A x \in Row : resv[x] = "expired" /\ released[x] = 0
                      => \E s \in Sweeper : sweep[s].row = x

LEMMA StepInHand ==
    ASSUME TypeOK, Faults = FALSE, ClaimsInHand, [Next]_vars
    PROVE  ClaimsInHand'
<1>0. /\ released \in [Row -> Nat] /\ sweep \in [Sweeper -> SweepState]
      /\ resv \in [Row -> ReservationStatus \cup {Absent}]
  BY DEF TypeOK
<1>. SUFFICES ASSUME NEW x \in Row, resv'[x] = "expired", released'[x] = 0
              PROVE  \E s \in Sweeper : sweep'[s].row = x
  BY DEF ClaimsInHand
<1>1. released[x] = 0 /\ \A s \in Sweeper : ReleaseHold(s) => sweep[s].row # x
  <2>1. ASSUME NEW s \in Sweeper, ReleaseHold(s), sweep[s].row = x
        PROVE  FALSE
    <3>1. released'[x] = released[x] + 1
      BY <1>0, <2>1 DEF ReleaseHold
    <3>. QED
      BY <1>0, <3>1
  <2>. QED
    BY <2>1, ReleaseMoves
<1>2. ASSUME NEW s \in Sweeper, SweepStep(s)
      PROVE  \E t \in Sweeper : sweep'[t].row = x
  <2>1. \A t \in Sweeper \ {s} : sweep'[t] = sweep[t]
    BY <1>0, <1>2 DEF SweepStep, SweepProgress, StartSweep, Claim, RecheckPayment, GiveBack, ReleaseHold,
       FinishSweep, SkipRow, LoseClaim, CrashSweep, NextRow
  <2>2. ASSUME resv[x] = "expired", sweep[s].row = x => sweep'[s].row = x
        PROVE  \E t \in Sweeper : sweep'[t].row = x
    <3>1. PICK t \in Sweeper : sweep[t].row = x
      BY <1>1, <2>2 DEF ClaimsInHand
    <3>. QED
      BY <2>1, <2>2, <3>1
  <2>3. x # None
    BY NoneIsNoOrderOrRow
  <2>4. CASE Claim(s)
    <3>1. sweep[s].pc = "loop" /\ sweep[s] \in SweepState
      BY <1>0, <2>4 DEF Claim
    <3>2. sweep[s] \in [pc : {"idle", "loop"}, todo : SUBSET Row, row : {None}]
      BY <3>1 DEF SweepState
    <3>3. CASE resv[x] = "expired"
      BY <2>2, <2>3, <3>2, <3>3
    <3>4. CASE resv[x] # "expired"
      <4>1. PICK r \in NextUp(s) :
               IF ClaimMatches(r)
                 THEN /\ resv' = [resv EXCEPT ![r] = "expired"]
                      /\ sweep' = [sweep EXCEPT ![s] = [pc |-> "claimed", todo |-> @.todo \ {r},
                                                        row |-> r]]
                 ELSE UNCHANGED resv
        BY <2>4 DEF Claim
      <4>2. ClaimMatches(r) /\ r = x
        BY <1>0, <3>4, <4>1
      <4>3. sweep'[s].row = x
        BY <1>0, <4>1, <4>2
      <4>. QED
        BY <4>3
    <3>. QED
      BY <3>3, <3>4
  <2>5. CASE GiveBack(s)
    <3>1. resv' = [resv EXCEPT ![sweep[s].row] = "active"]
      BY <2>5 DEF GiveBack
    <3>2. sweep[s].row # x /\ resv[x] = "expired"
      BY <1>0, <3>1
    <3>. QED
      BY <2>2, <3>2
  <2>6. CASE ReleaseHold(s)
    BY <1>1, <2>2, <2>6 DEF ReleaseHold
  <2>7. CASE StartSweep(s) \/ FinishSweep(s)
    <3>1. sweep[s].pc \in {"idle", "loop"} /\ sweep[s] \in SweepState /\ UNCHANGED resv
      BY <1>0, <2>7 DEF StartSweep, FinishSweep, shopVars
    <3>2. sweep[s].row = None
      BY <3>1 DEF SweepState
    <3>. QED
      BY <2>2, <2>3, <3>1, <3>2
  <2>8. CASE RecheckPayment(s)
    <3>1. /\ sweep' = [sweep EXCEPT ![s].pc = IF Settled(sweep[s].row[1])
                                                THEN "settled" ELSE "unsettled"]
          /\ sweep[s].pc = "claimed" /\ sweep[s] \in SweepState /\ UNCHANGED resv
      BY <1>0, <2>8 DEF RecheckPayment, shopVars
    <3>2. sweep[s] \in [pc : {"claimed", "settled", "unsettled"}, todo : SUBSET Row, row : Row]
      BY <3>1 DEF SweepState
    <3>3. sweep'[s].row = sweep[s].row
      BY <1>0, <3>1, <3>2
    <3>. QED
      BY <2>2, <3>1, <3>3
  <2>. QED
    BY <1>2, <2>4, <2>5, <2>6, <2>7, <2>8
       DEF SweepStep, SweepProgress, SkipRow, LoseClaim, CrashSweep
<1>3. ASSUME UNCHANGED sweep, resv[x] = "expired"
      PROVE  \E t \in Sweeper : sweep'[t].row = x
  BY <1>1, <1>3 DEF ClaimsInHand
<1>4. \/ \E s \in Sweeper : SweepStep(s)
      \/ UNCHANGED sweep /\ resv[x] = "expired"
  <2>1. ASSUME NEW c \in Order, CheckoutStep(c)
        PROVE  UNCHANGED sweep /\ resv[x] = "expired"
    BY <1>0, <2>1 DEF CheckoutStep, LookUpKey, RefuseCheckout, CheckAvailability, PlaceOrder,
       RollBackOrder, shopVars
  <2>2. ASSUME NEW r \in Verification, VerifyStep(r)
        PROVE  UNCHANGED sweep /\ resv[x] = "expired"
    BY <1>0, <2>2 DEF VerifyStep, ReadPayment, Authorise, RecordOutcome, RollBackOutcome, shopVars
  <2>3. ASSUME NEW e \in Edit, EditStep(e)
        PROVE  UNCHANGED sweep /\ resv[x] = "expired"
    BY <1>0, <2>3 DEF EditStep, ReadOrder, CommitListEdit, CommitDetailEdit, shopVars
  <2>4. ASSUME \/ \E c \in Order : Elapse(c)
               \/ \E k \in Key : LapseKey(k)
               \/ \E u \in Staff : GrantStepUp(u) \/ LapseStepUp(u)
               \/ UNCHANGED vars
        PROVE  UNCHANGED sweep /\ resv[x] = "expired"
    BY <2>4 DEF Elapse, LapseKey, GrantStepUp, LapseStepUp, shopVars, vars
  <2>. QED
    BY <2>1, <2>2, <2>3, <2>4 DEF Next
<1>. QED
  BY <1>2, <1>3, <1>4

\* The safety half of "Once running, the sweeper catches up on its own"
\* (docs/operations-runbook.md): the one way to lose a claim is a sweep that fails
\* or dies between two of its statements.  Where none does, every claimed line
\* whose stock is not back is in the hands of a running sweep
\* (expire-reservations.ts:85-196).
THEOREM NoClaimIsLost == ASSUME Faults = FALSE
                         PROVE  Spec => []ClaimsInHand
<1>1. Init => ClaimsInHand
  BY DEF Init, ClaimsInHand, Absent
<1>2. TypeOK /\ ClaimsInHand /\ [Next]_vars => ClaimsInHand'
  BY StepInHand
<1>. QED
  BY <1>1, <1>2, TypeCorrect, PTL DEF Spec
===============================================================================
