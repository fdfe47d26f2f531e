------------------------------ MODULE Fulfilment ------------------------------
(***************************************************************************)
(* What happens to an order after it is placed:                            *)
(*                                                                         *)
(*   collection at the shop   app/routes/admin/pickups.tsx                 *)
(*   parcels                  app/routes/admin/shipments.tsx               *)
(*   goods coming back        app/routes/admin/returns.tsx                 *)
(*                                                                         *)
(* The tables of domain/fulfilment/status.ts are not consulted by any of   *)
(* these routes, so none of their moves has a guard on the status it       *)
(* leaves.  Clicks come from pages that may be old: a submission names a   *)
(* row that existed when its page was drawn.                               *)
(***************************************************************************)
EXTENDS Integers, FiniteSets

CONSTANTS
    SoldOrder,      \* orders a customer will collect or be sent
    Counter,        \* submissions of "open the collection"
    Collector,      \* names written when goods leave the shop
    Parcel,         \* submissions of "record the parcel"
    Return,         \* submissions of "open a return"; they name the rows
    Nobody

ASSUME FulfilmentAssumption == Nobody \notin Collector

VARIABLES
    method,     \* method[o]: the customer's choice at checkout
    card,       \* card[o]: the pickup_orders row of o
    starting,   \* starting[c]: locals of a submission at the counter
    parcel,     \* parcel[p]: the fulfilments and shipments rows p wrote
    return,     \* return[r]: the return_requests row
    rejecting,  \* rejecting[r]: the rejection of r that has read is_withdrawal
    arrived     \* history: returns whose goods somebody confirmed

fulfilmentVars == <<method, card, starting, parcel, return, rejecting, arrived>>

NoCard   == [ready |-> FALSE, by |-> Nobody, on |-> FALSE]
NoParcel == [of |-> Nobody, fulfilment |-> FALSE, delivered |-> FALSE]
NoReturn == [status |-> "none", withdrawal |-> FALSE, approved |-> FALSE, received |-> FALSE]

FulfilmentInit ==
    /\ method \in [SoldOrder -> {"pickup", "courier"}]
    /\ card = [o \in SoldOrder |-> NoCard]
    /\ starting = [c \in Counter |-> Nobody]
    /\ parcel = [p \in Parcel |-> NoParcel]
    /\ return = [r \in Return |-> NoReturn]
    /\ rejecting = [r \in Return |-> FALSE]
    /\ arrived = {}

--------------------------------------------------------------------------------
(* Collection.                                                               *)

\* Looked up first ...
LookForCard(c, o) ==
    /\ starting[c] = Nobody
    /\ method[o] = "pickup"
    /\ ~card[o].on
    /\ starting' = [starting EXCEPT ![c] = o]
    /\ UNCHANGED <<method, card, parcel, return, rejecting, arrived>>

\* ... then inserted; order_id is unique, so the second of two clicks fails and
\* changes nothing.
WithCard(row) == IF row.on THEN row ELSE [NoCard EXCEPT !.on = TRUE]

OpenCollection(c) ==
    /\ starting[c] \in SoldOrder
    /\ card' = [card EXCEPT ![starting[c]] = WithCard(@)]
    /\ starting' = [starting EXCEPT ![c] = Nobody]
    /\ UNCHANGED <<method, parcel, return, rejecting, arrived>>

ReadyForCollection(o) ==
    /\ card[o].on
    /\ card' = [card EXCEPT ![o].ready = TRUE]
    /\ UNCHANGED <<method, starting, parcel, return, rejecting, arrived>>

\* Neither readiness nor an earlier collection is asked about.
Collected(o, name) ==
    /\ card[o].on
    /\ card' = [card EXCEPT ![o].by = name]
    /\ UNCHANGED <<method, starting, parcel, return, rejecting, arrived>>

--------------------------------------------------------------------------------
(* Parcels.                                                                  *)

\* The fulfilment and its shipment in one batch; a second parcel for the same
\* order is not refused.
RecordParcel(p, o) ==
    /\ parcel[p] = NoParcel
    /\ method[o] # "pickup"
    /\ parcel' = [parcel EXCEPT ![p] = [of |-> o, fulfilment |-> TRUE, delivered |-> FALSE]]
    /\ UNCHANGED <<method, card, starting, return, rejecting, arrived>>

ParcelDelivered(p) ==
    /\ parcel[p] # NoParcel
    /\ parcel' = [parcel EXCEPT ![p].delivered = TRUE]
    /\ UNCHANGED <<method, card, starting, return, rejecting, arrived>>

--------------------------------------------------------------------------------
(* Returns.                                                                  *)

\* Whether it is a withdrawal follows from the reason and never changes.
OpenReturn(r, withdrawal) ==
    /\ return[r] = NoReturn
    /\ return' = [return EXCEPT ![r] = [status |-> "requested", withdrawal |-> withdrawal,
                                        approved |-> FALSE, received |-> FALSE]]
    /\ UNCHANGED <<method, card, starting, parcel, rejecting, arrived>>

\* The CASE expressions of the UPDATE: a decision stamps its own date only.
Decided_Anew(row, status) ==
    [row EXCEPT !.status = status,
                !.approved = (status = "approved"),
                !.received = (status = "received")]
Decided(row, status) ==
    [row EXCEPT !.status = status,
                !.approved = @ \/ status = "approved",
                !.received = @ \/ status = "received"]

ApproveReturn(r) ==
    /\ return[r] # NoReturn
    /\ return' = [return EXCEPT ![r] = Decided(@, "approved")]
    /\ UNCHANGED <<method, card, starting, parcel, rejecting, arrived>>

GoodsReceived(r) ==
    /\ return[r] # NoReturn
    /\ return' = [return EXCEPT ![r] = Decided(@, "received")]
    /\ arrived' = arrived \cup {r}
    /\ UNCHANGED <<method, card, starting, parcel, rejecting>>

\* Within fourteen days the customer needs no reason.
Refusable(row) == ~row.withdrawal

AskToReject(r) ==
    /\ return[r] # NoReturn
    /\ ~rejecting[r]
    /\ Refusable(return[r])
    /\ rejecting' = [rejecting EXCEPT ![r] = TRUE]
    /\ UNCHANGED <<method, card, starting, parcel, return, arrived>>

RejectReturn(r) ==
    /\ rejecting[r]
    /\ return' = [return EXCEPT ![r] = Decided(@, "rejected")]
    /\ rejecting' = [rejecting EXCEPT ![r] = FALSE]
    /\ UNCHANGED <<method, card, starting, parcel, arrived>>

--------------------------------------------------------------------------------
FulfilmentNext ==
    \/ \E c \in Counter : OpenCollection(c) \/ \E o \in SoldOrder : LookForCard(c, o)
    \/ \E o \in SoldOrder : ReadyForCollection(o) \/ \E n \in Collector : Collected(o, n)
    \/ \E p \in Parcel : ParcelDelivered(p) \/ \E o \in SoldOrder : RecordParcel(p, o)
    \/ \E r \in Return :
          \/ \E w \in BOOLEAN : OpenReturn(r, w)
          \/ ApproveReturn(r)
          \/ GoodsReceived(r)
          \/ AskToReject(r)
          \/ RejectReturn(r)

FulfilmentSpec == FulfilmentInit /\ [][FulfilmentNext]_fulfilmentVars

--------------------------------------------------------------------------------
(* Properties.                                                               *)

FulfilmentTypeOK ==
    /\ method \in [SoldOrder -> {"pickup", "courier"}]
    /\ card \in [SoldOrder -> [ready : BOOLEAN, by : Collector \cup {Nobody}, on : BOOLEAN]]
    /\ starting \in [Counter -> SoldOrder \cup {Nobody}]
    /\ parcel \in [Parcel -> [of : SoldOrder \cup {Nobody}, fulfilment : BOOLEAN,
                              delivered : BOOLEAN]]
    /\ return \in [Return -> [status : {"none", "requested", "approved", "received", "rejected"},
                              withdrawal : BOOLEAN, approved : BOOLEAN, received : BOOLEAN]]
    /\ rejecting \in [Return -> BOOLEAN]
    /\ arrived \subseteq Return

\* Decisions about a return come in any order and from pages of any age, yet a
\* withdrawal is never rejected, and what has physically come back to the shop
\* stays recorded as received whatever is decided afterwards.
ReturnsKeepTheirRights ==
    /\ \A r \in Return : return[r].withdrawal => return[r].status # "rejected"
    /\ \A r \in arrived : return[r].received
================================================================================
