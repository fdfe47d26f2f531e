--------------------------------- MODULE Cart ---------------------------------
(***************************************************************************)
(* One customer's cart, several tabs of one browser:                       *)
(*                                                                         *)
(*   the cart           app/lib/cart.server.ts, app/routes/storefront/cart.tsx *)
(*   the checkout form  app/routes/storefront/checkout.tsx                 *)
(*                                                                         *)
(* The tabs share a cookie, so they share the token of the cart row.  The  *)
(* order itself is OrderStock's: here it is placed or refused.  A second   *)
(* level of a variant appears when a transfer is received elsewhere        *)
(* (StockLedger), and the query for the lines joins levels without a       *)
(* location.                                                               *)
(***************************************************************************)
EXTENDS Integers, FiniteSets, Sequences

CONSTANTS
    Article,        \* the variants a customer may choose
    CartTab,        \* requests sent by the tabs
    Typed,          \* the quantities a customer types
    CartCap,        \* the most units a line may have (99 in the code)
    MaxLevels,      \* bound: levels of one variant
    MaxExpiries     \* bound: how often thirty days pass

ASSUME CartAssumption ==
    /\ Typed \subseteq 0..CartCap
    /\ CartCap \in Nat \ {0}
    /\ MaxLevels \in Nat \ {0}
    /\ MaxExpiries \in Nat

VARIABLES
    cart,       \* the carts row of the token: none, live or expired
    item,       \* item[v]: quantity of the cart_items row, 0 when there is none
    tab,        \* tab[t]: locals of request t
    levels,     \* levels[v]: inventory_levels rows of v
    expiries,   \* how often the cart has expired
    chosen,     \* history: chosen[k][v], units of v customers asked to add or set
                \* between the clear before fill k of the cart and the next
    bought      \* history: bought[t], the fill and the units of the order of t

cartVars == <<cart, item, tab, levels, expiries, chosen, bought>>

Unsent   == [at |-> "unsent"]
Answered == [at |-> "answered"]
Empty    == [v \in Article |-> 0]
NoOrder  == [of |-> 0, units |-> Empty]
Smaller(a, b) == IF a <= b THEN a ELSE b

\* The fill of the cart that customers are at: it was cleared once less.
Fill == Len(chosen)

CartInit ==
    /\ cart \in {"none", "expired"}
    /\ item = Empty
    /\ tab = [t \in CartTab |-> Unsent]
    /\ levels = [v \in Article |-> 1]
    /\ expiries = 0
    /\ chosen = <<Empty>>
    /\ bought = [t \in CartTab |-> NoOrder]

\* Thirty days pass: the row stays, its lines too.
ExpireCart ==
    /\ cart = "live"
    /\ expiries < MaxExpiries
    /\ cart' = "expired"
    /\ expiries' = expiries + 1
    /\ UNCHANGED <<item, tab, levels, chosen, bought>>

SecondLevel(v) ==
    /\ levels[v] < MaxLevels
    /\ levels' = [levels EXCEPT ![v] = @ + 1]
    /\ UNCHANGED <<cart, item, tab, expiries, chosen, bought>>

--------------------------------------------------------------------------------
(* Changing the cart.                                                        *)

\* ensureCart: the row is looked up ...
LookUpCart(t) ==
    /\ tab[t] = Unsent
    /\ tab' = [tab EXCEPT ![t] = [at |-> IF cart = "live" THEN "has cart" ELSE "no cart"]]
    /\ UNCHANGED <<cart, item, levels, expiries, chosen, bought>>

\* ... and inserted under a new id, or renewed under its old one; the caller
\* goes on with the new id either way, and no line can refer to it.
InsertCart(t) ==
    /\ tab[t].at = "no cart"
    /\ tab' = [tab EXCEPT ![t] = [at |-> IF cart = "none" THEN "has cart" ELSE "wrong id"]]
    /\ cart' = "live"
    /\ UNCHANGED <<item, levels, expiries, chosen, bought>>

\* ON CONFLICT ... MIN(99, quantity + ?)
WithAdded(v, n) == Smaller(CartCap, item[v] + n)

AddToCart(t, v, n) ==
    /\ tab[t].at = "has cart"
    /\ n >= 1
    /\ item' = [item EXCEPT ![v] = WithAdded(v, n)]
    /\ chosen' = [chosen EXCEPT ![Fill][v] = @ + n]
    /\ tab' = [tab EXCEPT ![t] = Answered]
    /\ UNCHANGED <<cart, levels, expiries, bought>>

\* Updates the row of a line that is in the cart; 0 deletes it.
SetQuantity(t, v, n) ==
    /\ tab[t].at = "has cart"
    /\ item[v] > 0
    /\ item' = [item EXCEPT ![v] = n]
    /\ chosen' = [chosen EXCEPT ![Fill][v] = @ + n]
    /\ tab' = [tab EXCEPT ![t] = Answered]
    /\ UNCHANGED <<cart, levels, expiries, bought>>

\* The insert breaks the foreign key of cart_items; an update matches no row.
MissCart(t) ==
    /\ tab[t].at = "wrong id"
    /\ tab' = [tab EXCEPT ![t] = Answered]
    /\ UNCHANGED <<cart, item, levels, expiries, chosen, bought>>

--------------------------------------------------------------------------------
(* Checking out.                                                             *)

\* One line for every level of its variant.
Lines == [v \in Article |-> item[v] * levels[v]]

\* The lines are read, whether the cart has expired or not.
ReadLines(t) ==
    /\ tab[t] = Unsent
    /\ cart # "none"
    /\ item # Empty
    /\ tab' = [tab EXCEPT ![t] = [at |-> "lines", lines |-> Lines, of |-> Fill]]
    /\ UNCHANGED <<cart, item, levels, expiries, chosen, bought>>

\* The form sends no key, so the route makes one: no order is a replay.
Checkout(t) ==
    /\ tab[t].at = "lines"
    /\ bought' = [bought EXCEPT ![t] = [of |-> tab[t].of, units |-> tab[t].lines]]
    /\ tab' = [tab EXCEPT ![t] = [at |-> "placed"]]
    /\ UNCHANGED <<cart, item, levels, expiries, chosen>>

RefusedCheckout(t) ==
    /\ tab[t].at = "lines"
    /\ tab' = [tab EXCEPT ![t] = Answered]
    /\ UNCHANGED <<cart, item, levels, expiries, chosen, bought>>

\* DELETE FROM cart_items: whatever is there by now.
Cleared_Nothing == item
Cleared == Empty

ClearCart(t) ==
    /\ tab[t].at = "placed"
    /\ item' = Cleared
    /\ chosen' = Append(chosen, Empty)
    /\ tab' = [tab EXCEPT ![t] = Answered]
    /\ UNCHANGED <<cart, levels, expiries, bought>>

--------------------------------------------------------------------------------
CartNext ==
    \/ ExpireCart
    \/ \E v \in Article : SecondLevel(v)
    \/ \E t \in CartTab :
          \/ LookUpCart(t)
          \/ InsertCart(t)
          \/ \E v \in Article, n \in Typed : AddToCart(t, v, n) \/ SetQuantity(t, v, n)
          \/ MissCart(t)
          \/ ReadLines(t)
          \/ Checkout(t)
          \/ RefusedCheckout(t)
          \/ ClearCart(t)

CartSpec == CartInit /\ [][CartNext]_cartVars

--------------------------------------------------------------------------------
(* Properties.                                                               *)

CartTypeOK ==
    /\ cart \in {"none", "live", "expired"}
    /\ item \in [Article -> 0..CartCap]
    /\ tab \in [CartTab -> [at : {"unsent", "answered", "has cart", "no cart", "wrong id", "placed"}]
                  \cup [at : {"lines"}, lines : [Article -> Nat], of : 1..Fill]]
    /\ levels \in [Article -> 1..MaxLevels]
    /\ expiries \in 0..MaxExpiries
    /\ chosen \in Seq([Article -> Nat]) \ {<<>>}
    /\ bought \in [CartTab -> [of : 0..Fill, units : [Article -> Nat]]]

\* However the requests of the tabs interleave, the cart never holds more of a
\* variant than was asked for since its last clear, so nothing that an order took
\* survives it; and no order has more of it than was asked for in the one fill
\* it was read from, times the levels that the query for the lines joins.
SoldOnlyChosen ==
    \A v \in Article :
        /\ item[v] <= chosen[Fill][v]
        /\ \A t \in CartTab : bought[t].of # 0 =>
              bought[t].units[v] <= chosen[bought[t].of][v] * levels[v]

\* docs/invariants.md, 14: "Customers double-click. [...] Without idempotency a
\* double-submitted checkout [...] creates two orders": no two submissions order
\* what was put in the cart once.  The key of checkout.tsx is new each time, and
\* the second submission may read the lines before the first clears them.
NoOrderTwice ==
    \A t, u \in CartTab : bought[t].of # 0 /\ bought[t].of = bought[u].of => t = u
================================================================================
