---------------------------- MODULE CustomerProofs ----------------------------
(***************************************************************************)
(* Proofs about what a customer finds, does before and after an order, and *)
(* is told that it costs, for any number of tabs, articles, returns,       *)
(* parcels and rebuilds, any catalogue and any cart and price history:     *)
(* Cart, Fulfilment, Figures and SearchIndex.                              *)
(***************************************************************************)
EXTENDS Cart, Fulfilment, Figures, SearchIndex, SequenceTheorems, FiniteSums

--------------------------------------------------------------------------------
(* Cart: what is sold was chosen.                                            *)

CartStage == {"unsent", "answered", "has cart", "no cart", "wrong id", "placed"}
TabLocal == [at : CartStage] \cup [at : {"lines"}, lines : [Article -> Nat], of : Nat]
Receipt == [of : Nat, units : [Article -> Nat]]

CartTyped ==
    /\ item \in [Article -> Nat]
    /\ tab \in [CartTab -> TabLocal]
    /\ levels \in [Article -> Nat \ {0}]
    /\ chosen \in Seq([Article -> Nat]) /\ Fill \in Nat \ {0}
    /\ bought \in [CartTab -> Receipt]

LEMMA TabKinds ==
    ASSUME NEW j \in TabLocal
    PROVE  /\ j.at = "lines" => j.lines \in [Article -> Nat] /\ j.of \in Nat
           /\ j.at \in CartStage \cup {"lines"}
<1>1. CASE j \in [at : CartStage]
  BY <1>1 DEF CartStage
<1>2. CASE j \in [at : {"lines"}, lines : [Article -> Nat], of : Nat]
  BY <1>2
<1>. QED
  BY <1>1, <1>2 DEF TabLocal

LEMMA ProductOfNaturals ==
    ASSUME NEW a \in Nat, NEW b \in Nat
    PROVE  a * b \in Nat
OBVIOUS

LEMMA ProductMonotone ==
    ASSUME NEW a \in Nat, NEW b \in Nat, NEW c \in Nat, NEW d \in Nat, a <= b, c <= d
    PROVE  a * c \in Nat /\ b * d \in Nat /\ a * c <= b * d
<1>1. PICK x \in Nat, y \in Nat : b = a + x /\ d = c + y
  <2>1. b - a \in Nat /\ d - c \in Nat /\ b = a + (b - a) /\ d = c + (d - c)
    OBVIOUS
  <2>. QED
    BY <2>1
<1>2. (a + x) * (c + y) = a * c + a * y + x * c + x * y
  OBVIOUS
<1>3. a * c \in Nat /\ a * y \in Nat /\ x * c \in Nat /\ x * y \in Nat
  OBVIOUS
<1>. QED
  BY <1>1, <1>2, <1>3

(* The steps, by what they do to what was chosen.                            *)

LEMMA NoneChosen == Empty \in [Article -> Nat] /\ \A v \in Article : Empty[v] = 0
BY DEF Empty

LEMMA ClearTyped ==
    ASSUME CartTyped, NEW t \in CartTab, ClearCart(t)
    PROVE  /\ chosen' \in Seq([Article -> Nat]) /\ Fill' = Fill + 1
           /\ \A k \in 1..Fill : chosen'[k] = chosen[k]
           /\ chosen'[Fill'] = Empty /\ item' = Empty
<1>1. chosen' = Append(chosen, Empty) /\ item' = Empty
  BY DEF ClearCart, Cleared
<1>. QED
  BY <1>1, NoneChosen, AppendProperties DEF CartTyped, Fill

LEMMA ChoiceTyped ==
    ASSUME CartTyped, NEW t \in CartTab, NEW v \in Article, NEW n \in Typed,
           AddToCart(t, v, n) \/ SetQuantity(t, v, n)
    PROVE  /\ chosen' \in Seq([Article -> Nat]) /\ Fill' = Fill
           /\ \A k \in 1..Fill, u \in Article :
                 chosen'[k][u] = IF k = Fill /\ u = v THEN chosen[k][u] + n ELSE chosen[k][u]
           /\ item' \in [Article -> Nat]
           /\ \A u \in Article : item'[u] <= IF u = v THEN item[u] + n ELSE item[u]
<1>0. n \in Nat /\ CartCap \in Nat /\ item[v] \in Nat
  BY CartAssumption DEF CartAssumption, CartTyped
<1>1. /\ chosen' = [chosen EXCEPT ![Fill][v] = @ + n]
      /\ item' = [item EXCEPT ![v] = WithAdded(v, n)] \/ item' = [item EXCEPT ![v] = n]
  BY DEF AddToCart, SetQuantity
<1>2. PICK more : more = [chosen[Fill] EXCEPT ![v] = chosen[Fill][v] + n]
  OBVIOUS
<1>3. chosen[Fill] \in [Article -> Nat] /\ Fill \in 1..Len(chosen)
  BY ElementOfSeq DEF CartTyped, Fill
<1>4. /\ more \in [Article -> Nat]
      /\ \A u \in Article : more[u] = IF u = v THEN chosen[Fill][u] + n ELSE chosen[Fill][u]
  BY <1>0, <1>2, <1>3
<1>5. chosen' = [chosen EXCEPT ![Fill] = more]
  BY <1>1, <1>2
<1>6. /\ chosen' \in Seq([Article -> Nat]) /\ Len(chosen') = Len(chosen)
      /\ \A k \in 1..Len(chosen) : chosen'[k] = IF k = Fill THEN more ELSE chosen[k]
  BY <1>3, <1>4, <1>5, ExceptSeq DEF CartTyped
<1>7. WithAdded(v, n) \in Nat /\ WithAdded(v, n) <= item[v] + n /\ n <= item[v] + n
  BY <1>0 DEF WithAdded, Smaller
<1>8. PICK q \in Nat : item' = [item EXCEPT ![v] = q] /\ q <= item[v] + n
  BY <1>0, <1>1, <1>7
<1>9. /\ item' \in [Article -> Nat]
      /\ \A u \in Article : item'[u] <= IF u = v THEN item[u] + n ELSE item[u]
  BY <1>8 DEF CartTyped
<1>. QED
  BY <1>4, <1>6, <1>9 DEF Fill

LEMMA LinesTyped ==
    ASSUME CartTyped
    PROVE  Lines \in [Article -> Nat]
<1>1. ASSUME NEW v \in Article
      PROVE  item[v] * levels[v] \in Nat
  BY ProductMonotone DEF CartTyped
<1>. QED
  BY <1>1 DEF Lines

LEMMA CartTypes ==
    ASSUME CartTyped, [CartNext]_cartVars
    PROVE  CartTyped'
<1>. USE DEF CartTyped
<1>0. /\ \A a \in CartStage : [at |-> a] \in TabLocal
      /\ Answered \in TabLocal /\ Unsent \in TabLocal
  BY DEF TabLocal, CartStage, Answered, Unsent
<1>1. CASE UNCHANGED cartVars
  BY <1>1 DEF cartVars, Fill
<1>2. CASE ExpireCart
  BY <1>2 DEF ExpireCart, Fill
<1>3. ASSUME NEW v \in Article, SecondLevel(v)
      PROVE  CartTyped'
  <2>1. levels[v] + 1 \in Nat \ {0}
    OBVIOUS
  <2>. QED
    BY <1>3, <2>1 DEF SecondLevel, Fill
<1>4. ASSUME NEW t \in CartTab, LookUpCart(t) \/ InsertCart(t) \/ MissCart(t) \/ RefusedCheckout(t)
      PROVE  CartTyped'
  <2>1. PICK a \in CartStage : tab' = [tab EXCEPT ![t] = [at |-> a]]
    BY <1>4 DEF LookUpCart, InsertCart, MissCart, RefusedCheckout, CartStage, Answered
  <2>2. UNCHANGED <<item, levels, chosen, bought>>
    BY <1>4 DEF LookUpCart, InsertCart, MissCart, RefusedCheckout
  <2>. QED
    BY <1>0, <2>1, <2>2 DEF Fill
<1>5. ASSUME NEW t \in CartTab, ReadLines(t)
      PROVE  CartTyped'
  <2>1. [at |-> "lines", lines |-> Lines, of |-> Fill] \in TabLocal
    BY LinesTyped DEF TabLocal
  <2>. QED
    BY <1>5, <2>1 DEF ReadLines, Fill
<1>6. ASSUME NEW t \in CartTab, Checkout(t)
      PROVE  CartTyped'
  <2>1. [of |-> tab[t].of, units |-> tab[t].lines] \in Receipt
    BY <1>6, TabKinds DEF Checkout, Receipt
  <2>2. [at |-> "placed"] \in TabLocal
    BY <1>0 DEF CartStage
  <2>. QED
    BY <1>6, <2>1, <2>2 DEF Checkout, Fill
<1>7. ASSUME NEW t \in CartTab, ClearCart(t)
      PROVE  CartTyped'
  <2>1. chosen' \in Seq([Article -> Nat]) /\ Fill' \in Nat \ {0} /\ item' \in [Article -> Nat]
    BY <1>7, ClearTyped, NoneChosen
  <2>. QED
    BY <1>0, <1>7, <2>1 DEF ClearCart
<1>8. ASSUME NEW t \in CartTab, NEW v \in Article, NEW n \in Typed, AddToCart(t, v, n) \/ SetQuantity(t, v, n)
      PROVE  CartTyped'
  <2>1. chosen' \in Seq([Article -> Nat]) /\ Fill' \in Nat \ {0} /\ item' \in [Article -> Nat]
    BY <1>8, ChoiceTyped
  <2>2. UNCHANGED <<levels, bought>> /\ tab' = [tab EXCEPT ![t] = Answered]
    BY <1>8 DEF AddToCart, SetQuantity
  <2>. QED
    BY <1>0, <2>1, <2>2
<1>. QED
  BY <1>1, <1>2, <1>3, <1>4, <1>5, <1>6, <1>7, <1>8 DEF CartNext

(* What was sold, what is in the cart, what was read to be sold.             *)

\* Units that were read from fill k are no more than were chosen for it.
ChosenFor(k, units) ==
    /\ k \in 1..Fill
    /\ \A v \in Article : units[v] <= chosen[k][v] * levels[v]

CartInv ==
    /\ \A v \in Article : item[v] <= chosen[Fill][v]
    /\ \A t \in CartTab : tab[t].at = "lines" => ChosenFor(tab[t].of, tab[t].lines)
    /\ \A t \in CartTab : bought[t].of # 0 => ChosenFor(bought[t].of, bought[t].units)

\* No step takes back what was chosen for a fill, nor a level.
ChosenGrows ==
    /\ Fill <= Fill'
    /\ \A k \in 1..Fill, v \in Article : chosen[k][v] <= chosen'[k][v]
    /\ \A v \in Article : levels[v] <= levels'[v]

LEMMA ChosenStays ==
    ASSUME CartTyped, CartTyped', ChosenGrows
    PROVE  \A k \in Nat, units \in [Article -> Nat] :
              ChosenFor(k, units) =>
                 /\ k \in 1..Fill'
                 /\ \A v \in Article : units[v] <= chosen'[k][v] * levels'[v]
<1>. SUFFICES ASSUME NEW k \in Nat, NEW units \in [Article -> Nat], ChosenFor(k, units)
              PROVE  k \in 1..Fill' /\ \A v \in Article : units[v] <= chosen'[k][v] * levels'[v]
  OBVIOUS
<1>1. k \in 1..Fill /\ k \in 1..Fill'
  BY DEF ChosenFor, ChosenGrows, CartTyped
<1>2. chosen[k] \in [Article -> Nat] /\ chosen'[k] \in [Article -> Nat]
  BY <1>1, ElementOfSeq DEF CartTyped, Fill
<1>3. ASSUME NEW v \in Article
      PROVE  units[v] <= chosen'[k][v] * levels'[v]
  <2>1. PICK a, b, c, d \in Nat : a = chosen[k][v] /\ b = chosen'[k][v] /\ c = levels[v] /\ d = levels'[v]
    BY <1>2 DEF CartTyped
  <2>2. a <= b /\ c <= d
    BY <1>1, <2>1 DEF ChosenGrows
  <2>3. a * c \in Nat /\ b * d \in Nat /\ a * c <= b * d
    BY <2>2, ProductMonotone
  <2>4. units[v] <= a * c /\ units[v] \in Nat
    BY <2>1 DEF ChosenFor
  <2>5. units[v] <= b * d
    BY <2>3, <2>4
  <2>. QED
    BY <2>1, <2>5
<1>. QED
  BY <1>1, <1>3

\* What a step may do: read the lines as they are, or order the lines it has read.
LEMMA InvKept ==
    ASSUME CartTyped, CartTyped', CartInv, ChosenGrows,
           \A v \in Article : item'[v] <= chosen'[Fill'][v],
           \A t \in CartTab : tab'[t] = tab[t] \/ tab'[t].at # "lines",
           \A t \in CartTab : \/ bought'[t] = bought[t]
                              \/ /\ tab[t].at = "lines"
                                 /\ bought'[t].of = tab[t].of /\ bought'[t].units = tab[t].lines
    PROVE  CartInv'
<1>1. ASSUME NEW t \in CartTab, tab'[t].at = "lines"
      PROVE  ChosenFor(tab[t].of, tab[t].lines)'
  <2>1. tab[t].at = "lines" /\ tab[t] \in TabLocal /\ tab'[t] = tab[t]
    BY <1>1 DEF CartTyped
  <2>2. tab[t].of \in Nat /\ tab[t].lines \in [Article -> Nat] /\ ChosenFor(tab[t].of, tab[t].lines)
    BY <2>1, TabKinds DEF CartInv
  <2>. QED
    BY <2>1, <2>2, ChosenStays DEF ChosenFor
<1>2. ASSUME NEW t \in CartTab, bought'[t].of # 0
      PROVE  ChosenFor(bought[t].of, bought[t].units)'
  <2>1. CASE bought'[t] = bought[t]
    <3>1. bought[t].of \in Nat /\ bought[t].units \in [Article -> Nat]
      BY DEF CartTyped, Receipt
    <3>2. ChosenFor(bought[t].of, bought[t].units)
      BY <1>2, <2>1 DEF CartInv
    <3>. QED
      BY <2>1, <3>1, <3>2, ChosenStays DEF ChosenFor
  <2>2. CASE tab[t].at = "lines" /\ bought'[t].of = tab[t].of /\ bought'[t].units = tab[t].lines
    <3>1. tab[t].of \in Nat /\ tab[t].lines \in [Article -> Nat] /\ ChosenFor(tab[t].of, tab[t].lines)
      BY <2>2, TabKinds DEF CartInv, CartTyped
    <3>. QED
      BY <2>2, <3>1, ChosenStays DEF ChosenFor
  <2>. QED
    BY <2>1, <2>2
<1>. QED
  BY <1>1, <1>2 DEF CartInv

\* Nothing is chosen in this step.
LEMMA NothingChosen ==
    ASSUME CartTyped, CartInv, UNCHANGED <<item, chosen>>, \A v \in Article : levels[v] <= levels'[v]
    PROVE  ChosenGrows /\ \A v \in Article : item'[v] <= chosen'[Fill'][v]
<1>1. \A k \in 1..Fill, v \in Article : chosen[k][v] <= chosen[k][v]
  <2>1. \A k \in 1..Fill : chosen[k] \in [Article -> Nat]
    BY ElementOfSeq DEF CartTyped, Fill
  <2>. QED
    BY <2>1
<1>. QED
  BY <1>1 DEF ChosenGrows, CartInv, CartTyped, Fill

LEMMA ReadChosen ==
    ASSUME CartTyped, CartTyped', CartInv, NEW t \in CartTab, ReadLines(t)
    PROVE  CartInv'
<1>1. /\ UNCHANGED <<item, levels, chosen, bought>>
      /\ tab' = [tab EXCEPT ![t] = [at |-> "lines", lines |-> Lines, of |-> Fill]]
  BY DEF ReadLines
<1>2. Fill' = Fill /\ Fill \in 1..Fill
  BY <1>1 DEF CartTyped, Fill
<1>3. chosen[Fill] \in [Article -> Nat]
  BY <1>2, ElementOfSeq DEF CartTyped, Fill
<1>4. ASSUME NEW v \in Article
      PROVE  Lines[v] <= chosen[Fill][v] * levels[v]
  <2>1. /\ item[v] \in Nat /\ levels[v] \in Nat /\ chosen[Fill][v] \in Nat
        /\ item[v] <= chosen[Fill][v] /\ levels[v] <= levels[v]
    BY <1>3 DEF CartInv, CartTyped
  <2>2. item[v] * levels[v] <= chosen[Fill][v] * levels[v]
    BY <2>1, ProductMonotone
  <2>. QED
    BY <2>2 DEF Lines
<1>5. ChosenFor(Fill, Lines)
  BY <1>2, <1>4 DEF ChosenFor
<1>6. /\ tab'[t].of = Fill /\ tab'[t].lines = Lines
      /\ \A u \in CartTab : u # t => tab'[u] = tab[u]
  BY <1>1 DEF CartTyped
<1>. QED
  BY <1>1, <1>2, <1>5, <1>6 DEF CartInv, ChosenFor

LEMMA CartStep ==
    ASSUME CartTyped, CartInv, [CartNext]_cartVars
    PROVE  CartInv'
<1>0. CartTyped'
  BY CartTypes
<1>1. CASE UNCHANGED cartVars
  BY <1>1 DEF cartVars, CartInv, ChosenFor, Fill
<1>2. CASE ExpireCart
  BY <1>2 DEF ExpireCart, CartInv, ChosenFor, Fill
<1>3. ASSUME NEW u \in Article, SecondLevel(u)
      PROVE  CartInv'
  <2>1. UNCHANGED <<item, chosen, tab, bought>> /\ \A v \in Article : levels[v] <= levels'[v]
    BY <1>3 DEF SecondLevel, CartTyped
  <2>. QED
    BY <1>0, <2>1, NothingChosen, InvKept
<1>4. ASSUME NEW t \in CartTab, LookUpCart(t) \/ InsertCart(t) \/ MissCart(t) \/ RefusedCheckout(t)
      PROVE  CartInv'
  <2>1. PICK a \in CartStage : tab' = [tab EXCEPT ![t] = [at |-> a]]
    BY <1>4 DEF LookUpCart, InsertCart, MissCart, RefusedCheckout, CartStage, Answered
  <2>2. \A u \in CartTab : tab'[u] = tab[u] \/ tab'[u].at # "lines"
    BY <2>1 DEF CartTyped, CartStage
  <2>3. UNCHANGED <<item, levels, chosen, bought>>
    BY <1>4 DEF LookUpCart, InsertCart, MissCart, RefusedCheckout
  <2>4. \A v \in Article : levels[v] <= levels'[v]
    BY <2>3 DEF CartTyped
  <2>. QED
    BY <1>0, <2>2, <2>3, <2>4, NothingChosen, InvKept
<1>6. ASSUME NEW t \in CartTab, Checkout(t)
      PROVE  CartInv'
  <2>1. /\ UNCHANGED <<item, levels, chosen>> /\ tab[t].at = "lines"
        /\ tab' = [tab EXCEPT ![t] = [at |-> "placed"]]
        /\ bought' = [bought EXCEPT ![t] = [of |-> tab[t].of, units |-> tab[t].lines]]
    BY <1>6 DEF Checkout
  <2>2. \A u \in CartTab : tab'[u] = tab[u] \/ tab'[u].at # "lines"
    BY <2>1 DEF CartTyped
  <2>3. \A u \in CartTab : \/ bought'[u] = bought[u]
                           \/ /\ tab[u].at = "lines"
                              /\ bought'[u].of = tab[u].of /\ bought'[u].units = tab[u].lines
    BY <2>1 DEF CartTyped
  <2>4. \A v \in Article : levels[v] <= levels'[v]
    BY <2>1 DEF CartTyped
  <2>. QED
    BY <1>0, <2>1, <2>2, <2>3, <2>4, NothingChosen, InvKept
<1>7. ASSUME NEW t \in CartTab, ClearCart(t)
      PROVE  CartInv'
  <2>1. UNCHANGED <<levels, bought>> /\ tab' = [tab EXCEPT ![t] = Answered] /\ Answered.at = "answered"
    BY <1>7 DEF ClearCart, Answered
  <2>2. \A u \in CartTab : tab'[u] = tab[u] \/ tab'[u].at # "lines"
    BY <2>1 DEF CartTyped
  <2>3. \A k \in 1..Fill : chosen[k] \in [Article -> Nat]
    BY ElementOfSeq DEF CartTyped, Fill
  <2>4. ChosenGrows
    BY <1>7, <2>1, <2>3, ClearTyped DEF ChosenGrows, CartTyped
  <2>5. \A v \in Article : item'[v] <= chosen'[Fill'][v]
    BY <1>7, ClearTyped, NoneChosen
  <2>. QED
    BY <1>0, <2>1, <2>2, <2>4, <2>5, InvKept
<1>8. ASSUME NEW t \in CartTab, NEW v \in Article, NEW n \in Typed, AddToCart(t, v, n) \/ SetQuantity(t, v, n)
      PROVE  CartInv'
  <2>0. n \in Nat
    BY CartAssumption DEF CartAssumption
  <2>1. UNCHANGED <<levels, bought>> /\ tab' = [tab EXCEPT ![t] = Answered] /\ Answered.at = "answered"
    BY <1>8 DEF AddToCart, SetQuantity, Answered
  <2>2. \A u \in CartTab : tab'[u] = tab[u] \/ tab'[u].at # "lines"
    BY <2>1 DEF CartTyped
  <2>3. \A k \in 1..Fill : chosen[k] \in [Article -> Nat]
    BY ElementOfSeq DEF CartTyped, Fill
  <2>4. ChosenGrows
    <3>1. \A k \in 1..Fill, u \in Article : chosen[k][u] <= chosen'[k][u]
      <4>. SUFFICES ASSUME NEW k \in 1..Fill, NEW u \in Article
                    PROVE  chosen[k][u] <= chosen'[k][u]
        OBVIOUS
      <4>1. chosen[k][u] \in Nat
        BY <2>3
      <4>2. chosen'[k][u] = chosen[k][u] + n \/ chosen'[k][u] = chosen[k][u]
        BY <1>8, ChoiceTyped
      <4>. QED
        BY <2>0, <4>1, <4>2
    <3>. QED
      BY <1>8, <2>1, <3>1, ChoiceTyped DEF ChosenGrows, CartTyped
  <2>5. ASSUME NEW u \in Article
        PROVE  item'[u] <= chosen'[Fill'][u]
    <3>1. /\ Fill' = Fill /\ Fill \in 1..Fill
          /\ item[u] \in Nat /\ item'[u] \in Nat /\ chosen[Fill][u] \in Nat /\ item[u] <= chosen[Fill][u]
      BY <1>8, <2>3, ChoiceTyped DEF CartTyped, CartInv
    <3>2. CASE u = v
      <4>1. item'[u] <= item[u] + n /\ chosen'[Fill][u] = chosen[Fill][u] + n
        BY <1>8, <3>1, <3>2, ChoiceTyped
      <4>. QED
        BY <2>0, <3>1, <4>1
    <3>3. CASE u # v
      <4>1. item'[u] <= item[u] /\ chosen'[Fill][u] = chosen[Fill][u]
        BY <1>8, <3>1, <3>3, ChoiceTyped
      <4>. QED
        BY <3>1, <4>1
    <3>. QED
      BY <3>2, <3>3
  <2>. QED
    BY <1>0, <2>1, <2>2, <2>4, <2>5, InvKept
<1>. QED
  BY <1>0, <1>1, <1>2, <1>3, <1>4, <1>6, <1>7, <1>8, ReadChosen DEF CartNext

LEMMA CartInit_Inv == CartInit => CartTyped /\ CartInv
<1>. SUFFICES ASSUME CartInit
              PROVE  CartTyped /\ CartInv
  OBVIOUS
<1>1. Unsent \in TabLocal /\ Unsent.at = "unsent"
  BY DEF Unsent, TabLocal, CartStage
<1>2. chosen = <<Empty>> /\ chosen \in Seq([Article -> Nat]) /\ Fill = 1 /\ chosen[1] = Empty
  BY NoneChosen DEF CartInit, Fill
<1>3. NoOrder \in Receipt /\ NoOrder.of = 0
  BY NoneChosen DEF NoOrder, Receipt
<1>4. CartTyped
  <2>1. item \in [Article -> Nat] /\ levels \in [Article -> Nat \ {0}]
    BY NoneChosen DEF CartInit
  <2>2. tab \in [CartTab -> TabLocal] /\ bought \in [CartTab -> Receipt]
    BY <1>1, <1>3 DEF CartInit
  <2>. QED
    BY <1>2, <2>1, <2>2 DEF CartTyped
<1>5. \A t \in CartTab : tab[t].at = "unsent" /\ bought[t].of = 0
  BY <1>1, <1>3 DEF CartInit
<1>6. \A v \in Article : item[v] <= chosen[Fill][v]
  BY <1>2, NoneChosen DEF CartInit
<1>. QED
  BY <1>4, <1>5, <1>6 DEF CartInv

\* However the requests of the tabs interleave, nothing that was ordered stays in
\* the cart for the next order, and no order has more of a variant than was asked
\* for in the fill it was read from, times the levels of the variant
\* (cart.server.ts, checkout.tsx).
THEOREM SoldIsChosen == CartSpec => []SoldOnlyChosen
<1>1. CartTyped /\ CartInv /\ [CartNext]_cartVars => CartTyped' /\ CartInv'
  BY CartTypes, CartStep
<1>2. CartInv => SoldOnlyChosen
  BY DEF CartInv, ChosenFor, SoldOnlyChosen
<1>. QED
  BY CartInit_Inv, <1>1, <1>2, PTL DEF CartSpec

(* Cart, one checkout at a time.                                             *)

\* From the reading of the lines to the clear of the cart.
CheckingOut(t) == tab[t].at \in {"lines", "placed"}

OneCheckout == \A t, u \in CartTab : CheckingOut(t) /\ CheckingOut(u) => t = u

\* The orders were made from fills that were cleared, but for the one whose
\* checkout is about to clear.
ApartInv ==
    /\ NoOrderTwice
    /\ \A t \in CartTab : bought[t].of < Fill \/ (bought[t].of = Fill /\ \E u \in CartTab : tab[u].at = "placed")
    /\ \A t \in CartTab : tab[t].at = "lines" => tab[t].of = Fill

\* Steps of other tabs, and of a tab before its order.
LEMMA NoOrderKeepsApart ==
    ASSUME ApartInv, UNCHANGED <<chosen, bought>> \/ (UNCHANGED bought /\ Fill' = Fill),
           \A t \in CartTab : \/ tab'[t] = tab[t]
                              \/ tab[t].at # "placed" /\ (tab'[t].at = "lines" => tab'[t].of = Fill)
    PROVE  ApartInv'
BY DEF ApartInv, NoOrderTwice, Fill

LEMMA OrderKeepsApart ==
    ASSUME CartTyped, ApartInv, OneCheckout, NEW t \in CartTab, Checkout(t)
    PROVE  ApartInv'
<1>1. /\ tab[t].at = "lines" /\ UNCHANGED chosen /\ Fill' = Fill /\ tab[t].of = Fill
      /\ tab' = [tab EXCEPT ![t] = [at |-> "placed"]]
      /\ bought' = [bought EXCEPT ![t] = [of |-> tab[t].of, units |-> tab[t].lines]]
  BY DEF Checkout, ApartInv, Fill
<1>2. \A u \in CartTab : u # t => tab[u].at # "lines" /\ tab[u].at # "placed"
  BY <1>1 DEF OneCheckout, CheckingOut
<1>3. \A u \in CartTab : bought[u].of < Fill /\ bought[u].of \in Nat
  BY <1>1, <1>2 DEF ApartInv, CartTyped, Receipt
<1>4. /\ tab'[t].at = "placed" /\ bought'[t].of = Fill
      /\ \A u \in CartTab : u # t => tab'[u] = tab[u] /\ bought'[u] = bought[u]
  BY <1>1 DEF CartTyped
<1>5. \A u \in CartTab : tab'[u].at # "lines"
  BY <1>2, <1>4
<1>6. NoOrderTwice'
  <2>. SUFFICES ASSUME NEW u \in CartTab, NEW w \in CartTab, u # w, bought'[u].of # 0
                PROVE  bought'[u].of # bought'[w].of
    BY DEF NoOrderTwice
  <2>1. CASE u = t
    <3>1. bought'[w].of < Fill
      BY <1>3, <1>4, <2>1
    <3>. QED
      BY <1>4, <2>1, <3>1 DEF CartTyped
  <2>2. CASE w = t
    <3>1. bought'[u].of < Fill
      BY <1>3, <1>4, <2>2
    <3>. QED
      BY <1>4, <2>2, <3>1 DEF CartTyped
  <2>3. CASE u # t /\ w # t
    BY <1>4, <2>3 DEF ApartInv, NoOrderTwice
  <2>. QED
    BY <2>1, <2>2, <2>3
<1>. QED
  BY <1>1, <1>3, <1>4, <1>5, <1>6 DEF ApartInv

LEMMA ClearKeepsApart ==
    ASSUME CartTyped, ApartInv, OneCheckout, NEW t \in CartTab, ClearCart(t)
    PROVE  ApartInv'
<1>1. /\ UNCHANGED bought /\ tab[t].at = "placed" /\ Fill' = Fill + 1 /\ Fill \in Nat
      /\ tab' = [tab EXCEPT ![t] = Answered] /\ Answered.at = "answered"
  BY ClearTyped DEF ClearCart, Answered, CartTyped
<1>2. \A u \in CartTab : tab'[u].at # "lines"
  BY <1>1 DEF OneCheckout, CheckingOut, CartTyped
<1>3. \A u \in CartTab : bought'[u].of < Fill'
  <2>. SUFFICES ASSUME NEW u \in CartTab
                PROVE  bought[u].of < Fill + 1
    BY <1>1
  <2>1. bought[u].of \in Nat
    BY DEF CartTyped, Receipt
  <2>2. bought[u].of < Fill \/ bought[u].of = Fill
    BY DEF ApartInv
  <2>. QED
    BY <1>1, <2>1, <2>2
<1>4. NoOrderTwice'
  BY <1>1 DEF ApartInv, NoOrderTwice
<1>. QED
  BY <1>2, <1>3, <1>4 DEF ApartInv

LEMMA ApartStep == CartTyped /\ ApartInv /\ OneCheckout /\ [CartNext]_cartVars => ApartInv'
<1>. SUFFICES ASSUME CartTyped, ApartInv, OneCheckout, [CartNext]_cartVars
              PROVE  ApartInv'
  OBVIOUS
<1>0. tab \in [CartTab -> TabLocal]
  BY DEF CartTyped
<1>1. CASE UNCHANGED cartVars \/ ExpireCart \/ \E v \in Article : SecondLevel(v)
  BY <1>1, NoOrderKeepsApart DEF cartVars, ExpireCart, SecondLevel
<1>2. ASSUME NEW t \in CartTab, LookUpCart(t) \/ InsertCart(t) \/ MissCart(t) \/ RefusedCheckout(t)
      PROVE  ApartInv'
  <2>0. Unsent.at = "unsent"
    BY DEF Unsent
  <2>1. UNCHANGED <<chosen, bought>> /\ tab[t].at # "placed"
    <3>1. UNCHANGED <<chosen, bought>>
      BY <1>2 DEF LookUpCart, InsertCart, MissCart, RefusedCheckout
    <3>2. tab[t].at \in {"unsent", "no cart", "wrong id", "lines"}
      BY <1>2, <2>0, Zenon DEF LookUpCart, InsertCart, MissCart, RefusedCheckout
    <3>. QED
      BY <3>1, <3>2
  <2>2. PICK a \in CartStage : tab' = [tab EXCEPT ![t] = [at |-> a]]
    BY <1>2 DEF LookUpCart, InsertCart, MissCart, RefusedCheckout, CartStage, Answered
  <2>. QED
    BY <1>0, <2>1, <2>2, NoOrderKeepsApart DEF CartStage
<1>3. ASSUME NEW t \in CartTab, NEW v \in Article, NEW n \in Typed, AddToCart(t, v, n) \/ SetQuantity(t, v, n)
      PROVE  ApartInv'
  <2>1. UNCHANGED bought /\ Fill' = Fill
    BY <1>3, ChoiceTyped DEF AddToCart, SetQuantity
  <2>2. tab[t].at = "has cart" /\ tab' = [tab EXCEPT ![t] = Answered] /\ Answered.at = "answered"
    BY <1>3 DEF AddToCart, SetQuantity, Answered
  <2>. QED
    BY <1>0, <2>1, <2>2, NoOrderKeepsApart
<1>4. ASSUME NEW t \in CartTab, ReadLines(t)
      PROVE  ApartInv'
  <2>1. /\ UNCHANGED <<chosen, bought>> /\ tab[t].at # "placed"
        /\ tab' = [tab EXCEPT ![t] = [at |-> "lines", lines |-> Lines, of |-> Fill]]
    BY <1>4 DEF ReadLines, Unsent
  <2>. QED
    BY <1>0, <2>1, NoOrderKeepsApart
<1>. QED
  BY <1>1, <1>2, <1>3, <1>4, OrderKeepsApart, ClearKeepsApart DEF CartNext

\* docs/invariants.md, 14, holds of the storefront only while submissions do not
\* overlap: checkouts that come one after the other, each until its clear, never
\* order one fill of the cart twice (checkout.tsx, cart.server.ts).
THEOREM OneByOneSoldOnce == CartSpec /\ []OneCheckout => []NoOrderTwice
<1>1. ASSUME CartInit PROVE ApartInv
  <2>1. \A t \in CartTab : tab[t].at = "unsent" /\ bought[t].of = 0
    BY <1>1 DEF CartInit, Unsent, NoOrder
  <2>2. Fill = 1
    BY <1>1 DEF CartInit, Fill
  <2>. QED
    BY <2>1, <2>2 DEF ApartInv, NoOrderTwice
<1>2. CartTyped /\ [CartNext]_cartVars => CartTyped'
  BY CartTypes
<1>3. ApartInv => NoOrderTwice
  BY DEF ApartInv
<1>. QED
  BY CartInit_Inv, ApartStep, <1>1, <1>2, <1>3, PTL DEF CartSpec

--------------------------------------------------------------------------------
(* Fulfilment: the rights of a return.                                       *)

ReturnRow == [status : {"none", "requested", "approved", "received", "rejected"},
              withdrawal : BOOLEAN, approved : BOOLEAN, received : BOOLEAN]

\* A rejection under way is of a return that exists and may be refused, and the
\* goods of a return arrive once the return is open.
RejectsRefusable ==
    \A r \in Return : rejecting[r] => return[r] # NoReturn /\ ~return[r].withdrawal

FulfilmentInv == FulfilmentTypeOK /\ RejectsRefusable /\ ReturnsKeepTheirRights

LEMMA FulfilmentInit_Inv == FulfilmentInit => FulfilmentInv
<1>. SUFFICES ASSUME FulfilmentInit
              PROVE  FulfilmentInv
  OBVIOUS
<1>1. NoReturn \in ReturnRow /\ NoReturn.status = "none" /\ ~NoReturn.withdrawal
  BY DEF NoReturn, ReturnRow
<1>2. FulfilmentTypeOK
  BY <1>1 DEF FulfilmentInit, FulfilmentTypeOK, NoCard, NoParcel, ReturnRow
<1>. QED
  BY <1>1, <1>2 DEF FulfilmentInit, FulfilmentInv, RejectsRefusable, ReturnsKeepTheirRights

\* What a decision leaves of a return.
LEMMA DecisionKeeps ==
    ASSUME NEW row \in ReturnRow, NEW status \in {"approved", "received", "rejected"}
    PROVE  /\ Decided(row, status) \in ReturnRow
           /\ Decided(row, status) # NoReturn
           /\ Decided(row, status).status = status
           /\ Decided(row, status).withdrawal = row.withdrawal
           /\ row.received => Decided(row, status).received
           /\ status = "received" => Decided(row, status).received
<1>. DEFINE row0 == [row EXCEPT !.status = status]
<1>a. /\ row = [status |-> row.status, withdrawal |-> row.withdrawal,
               approved |-> row.approved, received |-> row.received]
      /\ row.withdrawal \in BOOLEAN /\ row.approved \in BOOLEAN /\ row.received \in BOOLEAN
  BY DEF ReturnRow
<1>b. PICK a \in BOOLEAN, c \in BOOLEAN :
          /\ Decided(row, status) = [status |-> status, withdrawal |-> row.withdrawal,
                                     approved |-> a, received |-> c]
          /\ row.received \/ status = "received" => c
  <2>1. DEFINE a == (row.approved \/ status = "approved")
              c == (row.received \/ status = "received")
  <2>2. a \in BOOLEAN /\ c \in BOOLEAN
    BY Zenon
  <2>3. Decided(row, status) = [row EXCEPT !.status = status, !.approved = a, !.received = c]
    BY <1>a DEF Decided
  <2>4. row.received \/ status = "received" => c
    OBVIOUS
  <2>. HIDE DEF a, c
  <2>5. Decided(row, status) = [status |-> status, withdrawal |-> row.withdrawal,
                               approved |-> a, received |-> c]
    BY <1>a, <2>3
  <2>. QED
    BY <2>2, <2>4, <2>5
<1>. QED
  BY <1>a, <1>b DEF ReturnRow, NoReturn

\* One return is decided about.
LEMMA DecidingKeepsInv ==
    ASSUME FulfilmentInv, NEW r \in Return, NEW status \in {"approved", "received", "rejected"},
           return[r] # NoReturn,
           return' = [return EXCEPT ![r] = Decided(@, status)],
           status = "rejected" => ~return[r].withdrawal,
           arrived' \in {arrived, arrived \cup {r}},
           arrived' # arrived => status = "received",
           rejecting' \in {rejecting, [rejecting EXCEPT ![r] = FALSE]},
           UNCHANGED <<method, card, starting, parcel>>
    PROVE  FulfilmentInv'
<1>. USE DEF FulfilmentInv
<1>1. return \in [Return -> ReturnRow] /\ rejecting \in [Return -> BOOLEAN] /\ arrived \subseteq Return
  BY DEF FulfilmentTypeOK, ReturnRow
<1>2. return[r] \in ReturnRow
  BY <1>1
<1>3. /\ return' \in [Return -> ReturnRow]
      /\ \A x \in Return : x # r => return'[x] = return[x]
      /\ return'[r] # NoReturn /\ return'[r].status = status
      /\ return'[r].withdrawal = return[r].withdrawal
      /\ return[r].received \/ status = "received" => return'[r].received
  BY <1>1, <1>2, DecisionKeeps
<1>4. rejecting' \in [Return -> BOOLEAN] /\ \A x \in Return : rejecting'[x] => rejecting[x]
  BY <1>1
<1>5. FulfilmentTypeOK'
  BY <1>1, <1>3, <1>4 DEF FulfilmentTypeOK, ReturnRow
<1>6. RejectsRefusable'
  BY <1>3, <1>4 DEF RejectsRefusable
<1>7. \A x \in arrived' : return'[x].received
  BY <1>1, <1>3 DEF ReturnsKeepTheirRights
<1>8. \A x \in Return : return'[x].withdrawal => return'[x].status # "rejected"
  BY <1>3 DEF ReturnsKeepTheirRights
<1>. QED
  BY <1>5, <1>6, <1>7, <1>8 DEF ReturnsKeepTheirRights

LEMMA OthersKeepReturns ==
    ASSUME FulfilmentInv, FulfilmentTypeOK', UNCHANGED <<return, rejecting, arrived>>
    PROVE  FulfilmentInv'
BY DEF FulfilmentInv, RejectsRefusable, ReturnsKeepTheirRights

LEMMA CollectionKeepsInv ==
    ASSUME FulfilmentInv,
           \/ \E c \in Counter : OpenCollection(c) \/ \E o \in SoldOrder : LookForCard(c, o)
           \/ \E o \in SoldOrder : ReadyForCollection(o) \/ \E n \in Collector : Collected(o, n)
    PROVE  FulfilmentInv'
<1>. DEFINE Card == [ready : BOOLEAN, by : Collector \cup {Nobody}, on : BOOLEAN]
<1>1. card \in [SoldOrder -> Card] /\ starting \in [Counter -> SoldOrder \cup {Nobody}]
  BY DEF FulfilmentInv, FulfilmentTypeOK
<1>2. UNCHANGED <<return, rejecting, arrived, method, parcel>>
  BY DEF OpenCollection, LookForCard, ReadyForCollection, Collected
<1>3. \A row \in Card : /\ WithCard(row) \in Card
                        /\ [row EXCEPT !.ready = TRUE] \in Card
                        /\ \A n \in Collector : [row EXCEPT !.by = n] \in Card
  BY DEF WithCard, NoCard
<1>. HIDE DEF Card
<1>4. card' \in [SoldOrder -> Card]
  <2>1. ASSUME NEW c \in Counter, OpenCollection(c)
        PROVE  card' \in [SoldOrder -> Card]
    <3>1. starting[c] \in SoldOrder /\ card' = [card EXCEPT ![starting[c]] = WithCard(@)]
      BY <2>1 DEF OpenCollection
    <3>2. WithCard(card[starting[c]]) \in Card
      BY <1>1, <1>3, <3>1
    <3>. QED
      BY <1>1, <3>1, <3>2
  <2>2. ASSUME NEW o \in SoldOrder, ReadyForCollection(o) \/ \E n \in Collector : Collected(o, n)
        PROVE  card' \in [SoldOrder -> Card]
    <3>1. card[o] \in Card
      BY <1>1
    <3>2. CASE ReadyForCollection(o)
      BY <1>1, <1>3, <3>1, <3>2 DEF ReadyForCollection
    <3>3. ASSUME NEW n \in Collector, Collected(o, n)
          PROVE  card' \in [SoldOrder -> Card]
      BY <1>1, <1>3, <3>1, <3>3 DEF Collected
    <3>. QED
      BY <2>2, <3>2, <3>3
  <2>3. ASSUME NEW c \in Counter, NEW o \in SoldOrder, LookForCard(c, o)
        PROVE  card' \in [SoldOrder -> Card]
    BY <1>1, <2>3 DEF LookForCard
  <2>. QED
    BY <2>1, <2>2, <2>3
<1>5. starting' \in [Counter -> SoldOrder \cup {Nobody}]
  BY <1>1 DEF OpenCollection, LookForCard, ReadyForCollection, Collected
<1>6. FulfilmentTypeOK'
  BY <1>2, <1>4, <1>5 DEF FulfilmentInv, FulfilmentTypeOK, Card
<1>. QED
  BY <1>2, <1>6, OthersKeepReturns

LEMMA ParcelKeepsInv ==
    ASSUME FulfilmentInv, NEW p \in Parcel,
           ParcelDelivered(p) \/ \E o \in SoldOrder : RecordParcel(p, o)
    PROVE  FulfilmentInv'
<1>. DEFINE ParcelRow == [of : SoldOrder \cup {Nobody}, fulfilment : BOOLEAN, delivered : BOOLEAN]
<1>1. parcel' \in [Parcel -> ParcelRow]
  <2>1. parcel \in [Parcel -> ParcelRow]
    BY DEF FulfilmentInv, FulfilmentTypeOK
  <2>2. /\ \A row \in ParcelRow : [row EXCEPT !.delivered = TRUE] \in ParcelRow
        /\ \A o \in SoldOrder : [of |-> o, fulfilment |-> TRUE, delivered |-> FALSE] \in ParcelRow
    OBVIOUS
  <2>. HIDE DEF ParcelRow
  <2>. QED
    BY <2>1, <2>2 DEF ParcelDelivered, RecordParcel
<1>2. FulfilmentTypeOK'
  BY <1>1 DEF ParcelDelivered, RecordParcel, FulfilmentInv, FulfilmentTypeOK
<1>. QED
  BY <1>2, OthersKeepReturns DEF ParcelDelivered, RecordParcel

LEMMA ReturnKeepsInv ==
    ASSUME FulfilmentInv, NEW r \in Return,
           \/ \E w \in BOOLEAN : OpenReturn(r, w)
           \/ ApproveReturn(r)
           \/ GoodsReceived(r)
           \/ AskToReject(r)
           \/ RejectReturn(r)
    PROVE  FulfilmentInv'
<1>. USE DEF FulfilmentInv
<1>1. ASSUME NEW w \in BOOLEAN, OpenReturn(r, w)
      PROVE  FulfilmentInv'
  <2>. DEFINE row == [status |-> "requested", withdrawal |-> w, approved |-> FALSE, received |-> FALSE]
  <2>1. row \in ReturnRow /\ row.status = "requested"
    BY DEF ReturnRow
  <2>2. return' = [return EXCEPT ![r] = row] /\ UNCHANGED <<method, card, starting, parcel, rejecting, arrived>>
    BY <1>1 DEF OpenReturn
  <2>3. ~rejecting[r] /\ r \notin arrived
    BY <1>1 DEF OpenReturn, RejectsRefusable, ReturnsKeepTheirRights, NoReturn
  <2>. HIDE DEF row
  <2>4. return' \in [Return -> ReturnRow] /\ \A x \in Return : return'[x] = IF x = r THEN row ELSE return[x]
    BY <2>1, <2>2 DEF FulfilmentTypeOK, ReturnRow
  <2>5. FulfilmentTypeOK'
    BY <2>2, <2>4 DEF FulfilmentTypeOK, ReturnRow
  <2>6. RejectsRefusable'
    BY <2>2, <2>3, <2>4 DEF RejectsRefusable
  <2>7. ReturnsKeepTheirRights'
    BY <2>1, <2>2, <2>3, <2>4 DEF ReturnsKeepTheirRights, FulfilmentTypeOK
  <2>. QED
    BY <2>5, <2>6, <2>7
<1>2. CASE ApproveReturn(r)
  BY <1>2, DecidingKeepsInv DEF ApproveReturn
<1>3. CASE GoodsReceived(r)
  BY <1>3, DecidingKeepsInv DEF GoodsReceived
<1>4. CASE AskToReject(r)
  <2>1. FulfilmentTypeOK'
    BY <1>4 DEF AskToReject, FulfilmentTypeOK
  <2>2. RejectsRefusable'
    BY <1>4 DEF AskToReject, RejectsRefusable, FulfilmentTypeOK, Refusable
  <2>. QED
    BY <1>4, <2>1, <2>2 DEF AskToReject, ReturnsKeepTheirRights
<1>5. CASE RejectReturn(r)
  BY <1>5, DecidingKeepsInv DEF RejectReturn, RejectsRefusable
<1>. QED
  BY <1>1, <1>2, <1>3, <1>4, <1>5

LEMMA FulfilmentInductive == FulfilmentSpec => []FulfilmentInv
<1>1. FulfilmentInv /\ [FulfilmentNext]_fulfilmentVars => FulfilmentInv'
  <2>1. CASE UNCHANGED fulfilmentVars
    BY <2>1 DEF fulfilmentVars, FulfilmentInv, FulfilmentTypeOK, RejectsRefusable, ReturnsKeepTheirRights
  <2>. QED
    BY <2>1, CollectionKeepsInv, ParcelKeepsInv, ReturnKeepsInv DEF FulfilmentNext
<1>. QED
  BY FulfilmentInit_Inv, <1>1, PTL DEF FulfilmentSpec

\* In whatever order staff decide about a return, and from however old a page, a
\* withdrawal is not rejected and goods that arrived stay received (returns.tsx).
THEOREM RightsKept == FulfilmentSpec => []ReturnsKeepTheirRights
<1>1. FulfilmentInv => ReturnsKeepTheirRights
  BY DEF FulfilmentInv
<1>. QED
  BY FulfilmentInductive, <1>1, PTL

--------------------------------------------------------------------------------
(* Figures: what the sums add up to, and what a percentage is of.            *)

\* The greatest of a set of indices.
LEMMA GreatestIndex ==
    ASSUME NEW n \in Nat, NEW T \in SUBSET (1..n), T # {}
    PROVE  Max(T) \in T /\ \A y \in T : Max(T) >= y
<1>1. \E x \in T : \A y \in T : x >= y
  <2>1. T \in SUBSET (0..n)
    OBVIOUS
  <2>. QED
    BY <2>1, HasGreatest
<1>. QED
  BY <1>1 DEF Max

\* A fold adds the terms of a sequence from the first to the last: the sums of
\* h over the sets of its indices ...
FoldOf(g, h, n) ==
    g = [T \in SUBSET (1..n) |-> IF T = {} THEN 0 ELSE g[T \ {Max(T)}] + h[Max(T)]]

\* ... exist ...
LEMMA FoldExists ==
    ASSUME NEW h
    PROVE  \A n \in Nat : \E g : FoldOf(g, h, n)
<1>. DEFINE Q == {n \in Nat : \E g : FoldOf(g, h, n)}
<1>1. 0 \in Q
  <2>. DEFINE g == [T \in SUBSET (1..0) |-> 0]
  <2>1. \A T \in SUBSET (1..0) : T = {}
    OBVIOUS
  <2>2. FoldOf(g, h, 0)
    BY <2>1 DEF FoldOf
  <2>. QED
    BY <2>2
<1>2. ASSUME NEW n \in Q
      PROVE  n + 1 \in Q
  <2>0. n \in Nat /\ n + 1 \in Nat
    OBVIOUS
  <2>1. PICK g : FoldOf(g, h, n)
    OBVIOUS
  <2>. DEFINE k == [T \in SUBSET (1..(n + 1)) |-> IF T = {} THEN 0 ELSE g[T \ {Max(T)}] + h[Max(T)]]
  <2>2. ASSUME NEW T \in SUBSET (1..(n + 1)), T # {}
        PROVE  T \ {Max(T)} \in SUBSET (1..n)
    <3>1. Max(T) \in T /\ \A y \in T : Max(T) >= y
      BY <2>0, <2>2, GreatestIndex
    <3>2. ASSUME NEW y \in T, y # Max(T)
          PROVE  y \in 1..n
      <4>1. Max(T) \in 1..(n + 1) /\ y \in 1..(n + 1) /\ Max(T) >= y
        BY <3>1
      <4>. QED
        BY <2>0, <3>2, <4>1
    <3>. QED
      BY <3>2
  <2>3. ASSUME NEW T \in SUBSET (1..n)
        PROVE  k[T] = g[T]
    <3>1. T \in SUBSET (1..(n + 1))
      BY <2>0
    <3>2. g[T] = IF T = {} THEN 0 ELSE g[T \ {Max(T)}] + h[Max(T)]
      BY <2>1 DEF FoldOf
    <3>. QED
      BY <3>1, <3>2
  <2>4. \A T \in SUBSET (1..(n + 1)) : T # {} => k[T \ {Max(T)}] = g[T \ {Max(T)}]
    BY <2>2, <2>3
  <2>5. FoldOf(k, h, n + 1)
    BY <2>4 DEF FoldOf
  <2>6. \E u : FoldOf(u, h, n + 1)
    <3>. HIDE DEF k
    <3>. QED
      BY <2>5
  <2>. QED
    BY <2>0, <2>6
<1>3. Q = Nat
  <2>1. Q \in SUBSET Nat
    OBVIOUS
  <2>. HIDE DEF Q
  <2>. QED
    BY <1>1, <1>2, <2>1, AllNumbers
<1>. QED
  BY <1>3

\* ... and grow by one term with every index.
LEMMA FoldGrows ==
    ASSUME NEW n \in Nat, NEW h, NEW g, FoldOf(g, h, n)
    PROVE  g[{}] = 0 /\ \A i \in 1..n : g[1..i] = g[1..(i - 1)] + h[i]
<1>1. g[{}] = 0
  BY DEF FoldOf
<1>2. ASSUME NEW i \in 1..n
      PROVE  g[1..i] = g[1..(i - 1)] + h[i]
  <2>1. 1..i \in SUBSET (1..n) /\ i \in 1..i /\ 1..i # {} /\ i \in Nat
    BY <1>2
  <2>2. Max(1..i) = i
    <3>1. Max(1..i) \in 1..i /\ Max(1..i) >= i
      BY <2>1, GreatestIndex
    <3>. QED
      BY <2>1, <3>1
  <2>3. (1..i) \ {i} = 1..(i - 1)
    BY <2>1
  <2>. QED
    BY <2>1, <2>2, <2>3 DEF FoldOf
<1>. QED
  BY <1>1, <1>2

LEMMA GrossSum ==
    ASSUME NEW lines \in Seq(Line)
    PROVE  \E g : /\ FoldOf(g, [i \in 1..Len(lines) |-> Gross(lines[i])], Len(lines))
                  /\ SumOver(Gross, lines) = g[1..Len(lines)]
<1>. DEFINE h == [i \in 1..Len(lines) |-> Gross(lines[i])]
            Sums(g) == g = [T \in SUBSET (DOMAIN lines) |->
                             IF T = {} THEN 0 ELSE g[T \ {Max(T)}] + Gross(lines[Max(T)])]
            total == CHOOSE g : Sums(g)
<1>1. Len(lines) \in Nat /\ DOMAIN lines = 1..Len(lines)
  OBVIOUS
<1>2. \A g : FoldOf(g, h, Len(lines)) <=> Sums(g)
  <2>1. \A T \in SUBSET (1..Len(lines)) : T # {} => h[Max(T)] = Gross(lines[Max(T)])
    <3>. SUFFICES ASSUME NEW T \in SUBSET (1..Len(lines)), T # {}
                  PROVE  h[Max(T)] = Gross(lines[Max(T)])
      OBVIOUS
    <3>1. Max(T) \in 1..Len(lines)
      BY <1>1, GreatestIndex
    <3>. QED
      BY <3>1
  <2>. HIDE DEF h
  <2>. QED
    BY <1>1, <2>1 DEF FoldOf
<1>3. \E g : Sums(g)
  <2>. HIDE DEF Sums, h
  <2>. QED
    BY <1>1, <1>2, FoldExists
<1>4. Sums(total)
  <2>. HIDE DEF Sums
  <2>. QED
    BY <1>3
<1>5. SumOver(Gross, lines) = total[DOMAIN lines]
  BY DEF SumOver, FoldLeft, MapThenFoldSet
<1>. HIDE DEF Sums, h, total
<1>6. FoldOf(total, h, Len(lines)) /\ SumOver(Gross, lines) = total[1..Len(lines)]
  BY <1>1, <1>2, <1>4, <1>5
<1>. QED
  BY <1>6 DEF h

LEMMA LineSum ==
    ASSUME NEW lines \in Seq(Line)
    PROVE  \E g : /\ FoldOf(g, [i \in 1..Len(lines) |-> LineTotal(lines[i])], Len(lines))
                  /\ SumOver(LineTotal, lines) = g[1..Len(lines)]
<1>. DEFINE h == [i \in 1..Len(lines) |-> LineTotal(lines[i])]
            Sums(g) == g = [T \in SUBSET (DOMAIN lines) |->
                             IF T = {} THEN 0 ELSE g[T \ {Max(T)}] + LineTotal(lines[Max(T)])]
            total == CHOOSE g : Sums(g)
<1>1. Len(lines) \in Nat /\ DOMAIN lines = 1..Len(lines)
  OBVIOUS
<1>2. \A g : FoldOf(g, h, Len(lines)) <=> Sums(g)
  <2>1. \A T \in SUBSET (1..Len(lines)) : T # {} => h[Max(T)] = LineTotal(lines[Max(T)])
    <3>. SUFFICES ASSUME NEW T \in SUBSET (1..Len(lines)), T # {}
                  PROVE  h[Max(T)] = LineTotal(lines[Max(T)])
      OBVIOUS
    <3>1. Max(T) \in 1..Len(lines)
      BY <1>1, GreatestIndex
    <3>. QED
      BY <3>1
  <2>. HIDE DEF h
  <2>. QED
    BY <1>1, <2>1 DEF FoldOf
<1>3. \E g : Sums(g)
  <2>. HIDE DEF Sums, h
  <2>. QED
    BY <1>1, <1>2, FoldExists
<1>4. Sums(total)
  <2>. HIDE DEF Sums
  <2>. QED
    BY <1>3
<1>5. SumOver(LineTotal, lines) = total[DOMAIN lines]
  BY DEF SumOver, FoldLeft, MapThenFoldSet
<1>. HIDE DEF Sums, h, total
<1>6. FoldOf(total, h, Len(lines)) /\ SumOver(LineTotal, lines) = total[1..Len(lines)]
  BY <1>1, <1>2, <1>4, <1>5
<1>. QED
  BY <1>6 DEF h

LEMMA OffSum ==
    ASSUME NEW lines \in Seq(Line)
    PROVE  \E g : /\ FoldOf(g, [i \in 1..Len(lines) |-> LineOff(lines[i])], Len(lines))
                  /\ SumOver(LineOff, lines) = g[1..Len(lines)]
<1>. DEFINE h == [i \in 1..Len(lines) |-> LineOff(lines[i])]
            Sums(g) == g = [T \in SUBSET (DOMAIN lines) |->
                             IF T = {} THEN 0 ELSE g[T \ {Max(T)}] + LineOff(lines[Max(T)])]
            total == CHOOSE g : Sums(g)
<1>1. Len(lines) \in Nat /\ DOMAIN lines = 1..Len(lines)
  OBVIOUS
<1>2. \A g : FoldOf(g, h, Len(lines)) <=> Sums(g)
  <2>1. \A T \in SUBSET (1..Len(lines)) : T # {} => h[Max(T)] = LineOff(lines[Max(T)])
    <3>. SUFFICES ASSUME NEW T \in SUBSET (1..Len(lines)), T # {}
                  PROVE  h[Max(T)] = LineOff(lines[Max(T)])
      OBVIOUS
    <3>1. Max(T) \in 1..Len(lines)
      BY <1>1, GreatestIndex
    <3>. QED
      BY <3>1
  <2>. HIDE DEF h
  <2>. QED
    BY <1>1, <2>1 DEF FoldOf
<1>3. \E g : Sums(g)
  <2>. HIDE DEF Sums, h
  <2>. QED
    BY <1>1, <1>2, FoldExists
<1>4. Sums(total)
  <2>. HIDE DEF Sums
  <2>. QED
    BY <1>3
<1>5. SumOver(LineOff, lines) = total[DOMAIN lines]
  BY DEF SumOver, FoldLeft, MapThenFoldSet
<1>. HIDE DEF Sums, h, total
<1>6. FoldOf(total, h, Len(lines)) /\ SumOver(LineOff, lines) = total[1..Len(lines)]
  BY <1>1, <1>2, <1>4, <1>5
<1>. QED
  BY <1>6 DEF h

LEMMA LineTyped ==
    ASSUME NEW line \in Line
    PROVE  /\ Gross(line) \in Nat /\ LineOff(line) \in Nat /\ LineTotal(line) \in Nat
           /\ WithinLine(line) => LineTotal(line) = Gross(line) - LineOff(line)
<1>1. line.price \in Nat /\ line.units \in Nat /\ line.off \in Nat
  BY FiguresAssumption DEF FiguresAssumption, Line
<1>2. PICK n \in Nat : n = line.price * line.units
  BY <1>1, ProductOfNaturals
<1>. QED
  BY <1>1, <1>2 DEF Gross, LineOff, LineTotal, Clamp, WithinLine

\* What a sequence of numbers adds up to is a number.
LEMMA FoldTyped ==
    ASSUME NEW n \in Nat, NEW h, \A i \in 1..n : h[i] \in Nat, NEW g, FoldOf(g, h, n)
    PROVE  \A i \in 0..n : g[1..i] \in Nat
<1>. DEFINE Q == {i \in Nat : i <= n => g[1..i] \in Nat}
<1>1. 0 \in Q
  <2>1. 1..0 = {}
    OBVIOUS
  <2>. QED
    BY <2>1, FoldGrows
<1>2. ASSUME NEW i \in Q
      PROVE  i + 1 \in Q
  <2>. SUFFICES ASSUME i + 1 <= n
                PROVE  g[1..(i + 1)] \in Nat
    OBVIOUS
  <2>1. i + 1 \in 1..n /\ (i + 1) - 1 = i /\ i <= n /\ i \in Nat
    OBVIOUS
  <2>2. g[1..(i + 1)] = g[1..i] + h[i + 1]
    BY <2>1, FoldGrows
  <2>3. g[1..i] \in Nat
    BY <2>1
  <2>4. h[i + 1] \in Nat
    BY <2>1
  <2>. QED
    BY <2>2, <2>3, <2>4
<1>3. Q = Nat
  <2>1. Q \in SUBSET Nat
    OBVIOUS
  <2>. HIDE DEF Q
  <2>. QED
    BY <1>1, <1>2, <2>1, AllNumbers
<1>. QED
  BY <1>3

LEMMA FoldNext ==
    \A n, i \in Nat : \A h, g :
        FoldOf(g, h, n) /\ i + 1 <= n => g[1..(i + 1)] = g[1..i] + h[i + 1]
<1>. SUFFICES ASSUME NEW n \in Nat, NEW i \in Nat, NEW h, NEW g, FoldOf(g, h, n), i + 1 <= n
              PROVE  g[1..(i + 1)] = g[1..i] + h[i + 1]
  OBVIOUS
<1>1. i + 1 \in 1..n /\ (i + 1) - 1 = i
  OBVIOUS
<1>. QED
  BY <1>1, FoldGrows

\* Two sequences that differ term by term by a third add up to that difference.
LEMMA FoldsSubtract ==
    \A n \in Nat : \A f, h, d, u, v, w :
        /\ \A i \in 1..n : f[i] \in Nat /\ h[i] \in Nat /\ d[i] = f[i] - h[i]
        /\ FoldOf(u, f, n) /\ FoldOf(v, h, n) /\ FoldOf(w, d, n)
        => w[1..n] = u[1..n] - v[1..n]
<1>. SUFFICES ASSUME NEW n \in Nat, NEW f, NEW h, NEW d, NEW u, NEW v, NEW w,
                     \A i \in 1..n : f[i] \in Nat /\ h[i] \in Nat /\ d[i] = f[i] - h[i],
                     FoldOf(u, f, n), FoldOf(v, h, n), FoldOf(w, d, n)
              PROVE  w[1..n] = u[1..n] - v[1..n]
  OBVIOUS
<1>. DEFINE Q == {i \in Nat : i <= n => w[1..i] = u[1..i] - v[1..i]}
<1>0. \A i \in 0..n : u[1..i] \in Nat /\ v[1..i] \in Nat
  BY FoldTyped
<1>1. 0 \in Q
  <2>1. 1..0 = {}
    OBVIOUS
  <2>2. u[{}] = 0 /\ v[{}] = 0 /\ w[{}] = 0
    BY FoldGrows
  <2>. QED
    BY <2>1, <2>2
<1>2. ASSUME NEW i \in Q
      PROVE  i + 1 \in Q
  <2>. SUFFICES ASSUME i + 1 <= n
                PROVE  w[1..(i + 1)] = u[1..(i + 1)] - v[1..(i + 1)]
    OBVIOUS
  <2>1. i + 1 \in 1..n /\ (i + 1) - 1 = i /\ i <= n /\ i \in 0..n
    OBVIOUS
  <2>2. u[1..(i + 1)] = u[1..i] + f[i + 1]
    BY FoldNext, i \in Nat
  <2>6. v[1..(i + 1)] = v[1..i] + h[i + 1]
    BY FoldNext, i \in Nat
  <2>7. w[1..(i + 1)] = w[1..i] + d[i + 1]
    BY FoldNext, i \in Nat
  <2>3. w[1..i] = u[1..i] - v[1..i]
    BY <2>1
  <2>4. u[1..i] \in Nat /\ v[1..i] \in Nat
    BY <1>0, <2>1
  <2>5. f[i + 1] \in Nat /\ h[i + 1] \in Nat /\ d[i + 1] = f[i + 1] - h[i + 1]
    BY <2>1
  <2>8. PICK a \in Nat, b \in Nat, p \in Nat, q \in Nat :
           u[1..i] = a /\ v[1..i] = b /\ f[i + 1] = p /\ h[i + 1] = q
    BY <2>4, <2>5
  <2>9. w[1..(i + 1)] = (a - b) + (p - q)
    BY <2>3, <2>5, <2>7, <2>8
  <2>10. (a - b) + (p - q) = (a + p) - (b + q)
    OBVIOUS
  <2>. QED
    BY <2>2, <2>6, <2>8, <2>9, <2>10
<1>3. Q = Nat
  <2>1. Q \in SUBSET Nat
    OBVIOUS
  <2>. HIDE DEF Q
  <2>. QED
    BY <1>1, <1>2, <2>1, AllNumbers
<1>4. n \in Q
  BY <1>3
<1>. QED
  BY <1>4

LEMMA LinesAddUp ==
    ASSUME NEW lines \in Seq(Line)
    PROVE  /\ SumOver(Gross, lines) \in Nat /\ SumOver(LineOff, lines) \in Nat
           /\ SumOver(LineTotal, lines) \in Nat
           /\ (\A i \in 1..Len(lines) : WithinLine(lines[i])) =>
                 SumOver(LineTotal, lines) = SumOver(Gross, lines) - SumOver(LineOff, lines)
<1>0. PICK n, f, h, d :
         /\ n = Len(lines)
         /\ f = [i \in 1..Len(lines) |-> Gross(lines[i])]
         /\ h = [i \in 1..Len(lines) |-> LineOff(lines[i])]
         /\ d = [i \in 1..Len(lines) |-> LineTotal(lines[i])]
  OBVIOUS
<1>1. n \in Nat /\ \A i \in 1..n : lines[i] \in Line
  BY <1>0
<1>2. \A i \in 1..n : f[i] \in Nat /\ h[i] \in Nat /\ d[i] \in Nat
  BY <1>0, <1>1, LineTyped
<1>3. PICK u : FoldOf(u, f, n) /\ SumOver(Gross, lines) = u[1..n]
  BY <1>0, GrossSum
<1>4. PICK v : FoldOf(v, h, n) /\ SumOver(LineOff, lines) = v[1..n]
  BY <1>0, OffSum
<1>5. PICK w : FoldOf(w, d, n) /\ SumOver(LineTotal, lines) = w[1..n]
  BY <1>0, LineSum
<1>6. ASSUME \A i \in 1..n : WithinLine(lines[i])
      PROVE  \A i \in 1..n : d[i] = f[i] - h[i]
  BY <1>0, <1>1, <1>6, LineTyped
<1>7. n \in 0..n
  BY <1>1
<1>8. u[1..n] \in Nat /\ v[1..n] \in Nat /\ w[1..n] \in Nat
  BY <1>1, <1>2, <1>3, <1>4, <1>5, <1>7, FoldTyped
<1>9. ASSUME \A i \in 1..n : WithinLine(lines[i])
      PROVE  w[1..n] = u[1..n] - v[1..n]
  <2>1. \A i \in 1..n : f[i] \in Nat /\ h[i] \in Nat /\ d[i] = f[i] - h[i]
    BY <1>2, <1>6, <1>9
  <2>2. FoldOf(u, f, n) /\ FoldOf(v, h, n) /\ FoldOf(w, d, n)
    BY <1>3, <1>4, <1>5
  <2>3. n \in Nat
    BY <1>1
  <2>. QED
    BY ONLY <2>1, <2>2, <2>3, FoldsSubtract
<1>. QED
  BY <1>0, <1>3, <1>4, <1>5, <1>8, <1>9

\* Rounding n / d moves it by at most a half.
LEMMA RoundedNear ==
    ASSUME NEW n \in Nat, NEW d \in Nat \ {0}
    PROVE  /\ Rounded(n, d) \in Nat
           /\ 2 * (Rounded(n, d) * d) <= 2 * n + d
           /\ 2 * n - d < 2 * (Rounded(n, d) * d)
<1>. DEFINE a == 2 * n + d
            b == 2 * d
            q == a \div b
<1>1. a \in Nat /\ b \in Nat /\ b > 0
  OBVIOUS
<1>2. q \in Int /\ q * b <= a /\ a < q * b + b
  BY <1>1
<1>3. q \in Nat
  BY <1>1
<1>4. q * b = 2 * (q * d) /\ q * d \in Nat
  BY <1>3
<1>. QED
  BY <1>2, <1>3, <1>4 DEF Rounded


(* What the answers follow from.                                             *)

FiguresInv ==
    /\ asked \in TotalsQuestion \cup ReductionQuestion
    /\ said # Null =>
          \/ asked \in TotalsQuestion /\ said = Totals(asked)
          \/ /\ asked \in ReductionQuestion
             /\ said \in DiscountDisplay(asked.current, asked.previous,
                                         LowestPriceInWindow(asked.history, asked.now))

LEMMA QuestionKinds ==
    /\ \A q \in TotalsQuestion : q.kind = "totals"
    /\ \A q \in ReductionQuestion : q.kind = "reduction"
BY DEF TotalsQuestion, ReductionQuestion

LEMMA FiguresInductive == FiguresSpec => []FiguresInv
<1>1. FiguresInit => FiguresInv
  BY DEF FiguresInit, FiguresInv
<1>2. FiguresInv /\ [FiguresNext]_figuresVars => FiguresInv'
  <2>. SUFFICES ASSUME FiguresInv, [FiguresNext]_figuresVars
                PROVE  FiguresInv'
    OBVIOUS
  <2>1. CASE AnswerTotals
    <3>1. asked' \in TotalsQuestion /\ said' = Totals(asked')
      BY <2>1, QuestionKinds DEF AnswerTotals, FiguresInv
    <3>. QED
      BY <3>1 DEF FiguresInv
  <2>2. CASE AnswerReduction
    <3>1. asked' \in ReductionQuestion
          /\ said' \in DiscountDisplay(asked'.current, asked'.previous,
                                        LowestPriceInWindow(asked'.history, asked'.now))
      BY <2>2, QuestionKinds DEF AnswerReduction, FiguresInv
    <3>. QED
      BY <3>1 DEF FiguresInv
  <2>3. CASE UNCHANGED figuresVars
    BY <2>3 DEF FiguresInv, figuresVars
  <2>. QED
    BY <2>1, <2>2, <2>3 DEF FiguresNext
<1>. QED
  BY <1>1, <1>2, PTL DEF FiguresSpec

(* Totals.                                                                   *)

LEMMA TimesOneMore ==
    ASSUME NEW a \in Nat, NEW b \in Nat
    PROVE  (a - 1) * b = a * b - b /\ (a + 1) * b = a * b + b
OBVIOUS

\* The VAT stated is at least as near to the exact part as its neighbours.
LEMMA VatNearest ==
    ASSUME NEW grand \in Nat, NEW rate \in Nat, NEW tax, tax = ExtractVat(grand, rate),
           NEW other \in {tax - 1, tax + 1}
    PROVE  VatError(tax, grand, rate) <= VatError(other, grand, rate)
<1>1. PICK exact \in Nat : exact = grand * rate
  BY ProductOfNaturals
<1>2. CASE rate = 0
  <2>1. tax = 0 /\ exact = 0
    BY <1>1, <1>2 DEF ExtractVat
  <2>2. \/ other = 1 /\ other * (10000 + rate) = 10000
        \/ other = -1 /\ other * (10000 + rate) = -10000
    BY <1>2, <2>1
  <2>3. tax * (10000 + rate) = 0
    BY <1>2, <2>1
  <2>. QED
    BY <1>1, <2>1, <2>2, <2>3 DEF VatError
<1>3. CASE rate # 0
  <2>1. PICK d \in Nat \ {0} : d = 10000 + rate
    OBVIOUS
  <2>2. tax = Rounded(exact, d)
    BY <1>1, <1>3, <2>1 DEF ExtractVat
  <2>3. tax \in Nat /\ 2 * (tax * d) <= 2 * exact + d /\ 2 * exact - d < 2 * (tax * d)
    BY <1>1, <2>2, RoundedNear
  <2>4. PICK n \in Nat : n = tax * d
    BY <2>3, ProductOfNaturals
  <2>5. other * d = n - d \/ other * d = n + d
    <3>1. (tax - 1) * d = tax * d - d /\ (tax + 1) * d = tax * d + d
      BY <2>3, TimesOneMore
    <3>. QED
      BY <2>4, <3>1
  <2>6. PICK m \in Int : m = other * d /\ (m = n - d \/ m = n + d)
    BY <2>5
  <2>7. (IF n >= exact THEN n - exact ELSE exact - n) <= (IF m >= exact THEN m - exact ELSE exact - m)
    BY <2>3, <2>4, <2>6
  <2>. QED
    BY <1>1, <2>1, <2>4, <2>6, <2>7 DEF VatError
<1>. QED
  BY <1>2, <1>3

\* Whatever is in the cart, the order says how its total comes about: the goods
\* less the discount announced plus shipping, with the nearest VAT
\* (calculateTotals, extractVat).
THEOREM TotalsAdd == FiguresSpec => []TotalsAddUp
<1>1. FiguresInv => TotalsAddUp
  <2>. SUFFICES ASSUME FiguresInv, asked.kind = "totals", said # Null
                PROVE  /\ (\A i \in 1..Len(asked.lines) : WithinLine(asked.lines[i])) =>
                             SumOver(Gross, asked.lines) - said.discount + asked.shipping = said.grand
                       /\ said.grand >= asked.shipping
                       /\ \A other \in {said.tax - 1, said.tax + 1} :
                             VatError(said.tax, said.grand, asked.rate)
                               <= VatError(other, said.grand, asked.rate)
    BY DEF TotalsAddUp
  <2>1. asked \in TotalsQuestion /\ said = Totals(asked)
    BY QuestionKinds DEF FiguresInv
  <2>2. asked.lines \in Seq(Line) /\ asked.off \in Nat /\ asked.shipping \in Nat /\ asked.rate \in Nat
    BY <2>1, FiguresAssumption DEF FiguresAssumption, TotalsQuestion
  <2>3. PICK gross \in Nat, offs \in Nat, sub \in Nat :
           /\ SumOver(Gross, asked.lines) = gross
           /\ SumOver(LineOff, asked.lines) = offs
           /\ SumOver(LineTotal, asked.lines) = sub
           /\ (\A i \in 1..Len(asked.lines) : WithinLine(asked.lines[i])) => sub = gross - offs
    BY <2>2, LinesAddUp
  <2>4. PICK off \in Nat : off = OrderDiscount(asked.off, sub) /\ off <= sub
    BY <2>2 DEF OrderDiscount
  <2>5. said.grand = Clamp(sub - off) + asked.shipping /\ said.discount = offs + off
        /\ said.tax = ExtractVat(said.grand, asked.rate)
    BY <2>1, <2>3, <2>4 DEF Totals
  <2>6. said.grand = sub - off + asked.shipping /\ said.grand \in Nat
    BY <2>2, <2>4, <2>5 DEF Clamp
  <2>7. (\A i \in 1..Len(asked.lines) : WithinLine(asked.lines[i])) =>
            SumOver(Gross, asked.lines) - said.discount + asked.shipping = said.grand
    BY <2>2, <2>3, <2>5, <2>6
  <2>8. said.grand >= asked.shipping
    BY <2>2, <2>4, <2>6
  <2>9. PICK grand \in Nat, rate \in Nat, tax \in {said.tax} :
           grand = said.grand /\ rate = asked.rate /\ tax = said.tax /\ tax = ExtractVat(grand, rate)
    BY <2>2, <2>5, <2>6
  <2>10. \A other \in {tax - 1, tax + 1} :
            VatError(tax, grand, rate) <= VatError(other, grand, rate)
    BY <2>9, VatNearest
  <2>. QED
    BY <2>7, <2>8, <2>9, <2>10
<1>. QED
  BY FiguresInductive, <1>1, PTL

(* Reductions.                                                               *)

\* A set of amounts has a least one.
LEMMA LeastAmount ==
    ASSUME NEW S \in SUBSET Nat, S # {}
    PROVE  Min(S) \in S /\ \A y \in S : Min(S) <= y
BY HasLeast DEF Min

Days(now) == {d \in 0..(now - 1) : d >= now - Window}

\* A row overlaps the window just when its price was charged on a day of it.
LEMMA OverlapIsCharge ==
    ASSUME NEW p \in Point, NEW now \in Nat
    PROVE  Overlaps(p, now) <=> \E d \in Days(now) : p.from <= d /\ (p.to = Null \/ d < p.to)
<1>1. p.from \in Nat /\ p.to \in Nat \cup {Null} /\ (p.to # Null => p.from < p.to)
  BY FiguresAssumption DEF Point, FiguresAssumption
<1>2. Window \in Nat /\ Window >= 1
  BY FiguresAssumption DEF FiguresAssumption
<1>3. ASSUME Overlaps(p, now)
      PROVE  \E d \in Days(now) : p.from <= d /\ (p.to = Null \/ d < p.to)
  <2>1. p.from < now /\ (p.to = Null \/ p.to > now - Window)
    BY <1>3 DEF Overlaps
  <2>2. CASE p.from >= now - Window
    <3>1. p.from \in Days(now)
      BY <1>1, <2>1, <2>2 DEF Days
    <3>. QED
      BY <1>1, <3>1
  <2>3. CASE p.from < now - Window
    <3>1. now - Window \in Days(now)
      BY <1>1, <1>2, <2>3 DEF Days
    <3>. QED
      BY <1>1, <1>2, <2>1, <2>3, <3>1
  <2>. QED
    BY <1>1, <1>2, <2>2, <2>3
<1>4. ASSUME NEW d \in Days(now), p.from <= d, p.to = Null \/ d < p.to
      PROVE  Overlaps(p, now)
  BY <1>1, <1>2, <1>4 DEF Days, Overlaps
<1>. QED
  BY <1>3, <1>4

\* So the reference price is the lowest really charged in the window.
LEMMA LowestIsCharged ==
    ASSUME NEW history \in SUBSET Point, NEW now \in Nat, LowestPriceInWindow(history, now) # Null
    PROVE  /\ Charged(history, Days(now)) # {}
           /\ LowestPriceInWindow(history, now) = Min(Charged(history, Days(now)))
           /\ LowestPriceInWindow(history, now) \in Nat
<1>. DEFINE amounts == {p.amount : p \in {h \in history : Overlaps(h, now)}}
<1>1. \A h \in history : Overlaps(h, now) <=> \E d \in Days(now) : h.from <= d /\ (h.to = Null \/ d < h.to)
  BY OverlapIsCharge
<1>2. amounts = Charged(history, Days(now))
  BY <1>1 DEF Charged
<1>3. amounts # {} /\ LowestPriceInWindow(history, now) = Min(amounts)
  BY DEF LowestPriceInWindow
<1>4. amounts \subseteq Nat
  BY FiguresAssumption DEF FiguresAssumption, Point
<1>. HIDE DEF amounts
<1>. QED
  BY <1>2, <1>3, <1>4, LeastAmount

\* A percentage is of what was saved from the reference price, rounded down.
LEMMA PercentageModest ==
    ASSUME NEW saving \in Nat, NEW prior \in Nat \ {0}, NEW n \in Percentages(saving, prior)
    PROVE  n * prior <= 100 * saving
<1>. DEFINE whole == (100 * saving) \div prior
<1>1. PICK a \in Nat : a = 100 * saving
  OBVIOUS
<1>2. whole \in Nat /\ whole * prior <= a
  BY <1>1
<1>3. (whole - 1) * prior = whole * prior - prior /\ whole * prior \in Nat
  BY <1>2
<1>4. n = whole \/ n = whole - 1
  BY DEF Percentages
<1>. HIDE DEF whole
<1>. QED
  BY <1>1, <1>2, <1>3, <1>4

LEMMA ReductionTyped ==
    ASSUME NEW q \in ReductionQuestion
    PROVE  q.history \in SUBSET Point /\ q.current \in Nat /\ q.now \in Nat
<1>1. \/ q.history = {}
      \/ \E p \in Point : q.history = {p}
      \/ \E p, r \in Point : q.history = {p, r}
  <2>1. q.history \in {{}} \cup {{p} : p \in Point} \cup {{p, r} : p, r \in Point}
    BY DEF ReductionQuestion
  <2>. HIDE DEF Point
  <2>. QED
    BY <2>1
<1>2. q.history \in SUBSET Point
  BY <1>1
<1>3. q.current \in Cents /\ q.now = Max(Instants)
  BY DEF ReductionQuestion
<1>4. Max(Instants) \in Nat
  <2>1. \E x \in Instants : \A y \in Instants : x >= y
    BY FiguresAssumption DEF FiguresAssumption
  <2>2. Max(Instants) \in Instants
    BY <2>1 DEF Max
  <2>. QED
    BY <2>2, FiguresAssumption DEF FiguresAssumption
<1>. QED
  BY <1>2, <1>3, <1>4, FiguresAssumption DEF FiguresAssumption

\* Whatever the history of a price, a percentage is announced only against the
\* lowest price charged in the window, and never overstates what is saved from
\* it (lowestPriceInWindow, discountDisplay).
THEOREM ReductionsModest == FiguresSpec => []ReductionsNeverOverstate
<1>1. FiguresInv => ReductionsNeverOverstate
  <2>. SUFFICES ASSUME FiguresInv, asked.kind = "reduction", said # Null, said.percentage # Null
                PROVE  /\ Charged(asked.history, Days(asked.now)) # {}
                       /\ said.strike
                       /\ said.percentage * Min(Charged(asked.history, Days(asked.now)))
                            <= 100 * (Min(Charged(asked.history, Days(asked.now))) - asked.current)
    BY DEF ReductionsNeverOverstate, Days
  <2>. DEFINE prior == LowestPriceInWindow(asked.history, asked.now)
  <2>1. asked \in ReductionQuestion /\ said \in DiscountDisplay(asked.current, asked.previous, prior)
    BY QuestionKinds DEF FiguresInv
  <2>2. asked.history \in SUBSET Point /\ asked.current \in Nat /\ asked.now \in Nat
    BY <2>1, ReductionTyped
  <2>. HIDE DEF prior
  <2>4. prior # Null /\ ~(prior <= asked.current) /\ said.strike = TRUE
        /\ said.percentage \in Percentages(prior - asked.current, prior)
    BY <2>1 DEF DiscountDisplay
  <2>5. prior \in Nat /\ Charged(asked.history, Days(asked.now)) # {}
        /\ prior = Min(Charged(asked.history, Days(asked.now)))
    BY <2>2, <2>4, LowestIsCharged DEF prior
  <2>6. prior - asked.current \in Nat /\ prior \in Nat \ {0}
    BY <2>2, <2>4, <2>5
  <2>7. said.percentage * prior <= 100 * (prior - asked.current)
    BY <2>4, <2>6, PercentageModest
  <2>. QED
    BY <2>4, <2>5, <2>7
<1>. QED
  BY FiguresInductive, <1>1, PTL

--------------------------------------------------------------------------------
(* SearchIndex: after an undisturbed rebuild every translation is found.      *)

IndexRow == [item : 1..Items, tongue : Tongue, words : Nat]

\* rows is the catalogue in the order of its products, every translation once.
Lists(rows) ==
    /\ rows \in Seq(IndexRow)
    /\ \A n \in 1..Len(rows) : rows[n].words = wording[rows[n].item][rows[n].tongue] /\ rows[n].words # 0
    /\ \A m, n \in 1..Len(rows) :
          m # n => <<rows[m].item, rows[m].tongue>> # <<rows[n].item, rows[n].tongue>>
    /\ \A i \in 1..Items, g \in Tongue :
          wording[i][g] # 0 => \E n \in 1..Len(rows) : rows[n].item = i /\ rows[n].tongue = g
    /\ Ordered(rows)

Of(row, i, g) == row.item = i /\ row.tongue = g

\* The first k rows are in the tables, but for the tokens of a product that a
\* later batch has taken up again.
Written(rows, k) ==
    \A i \in 1..Items, g \in Tongue :
        /\ document[i][g] = IF \E n \in 1..k : Of(rows[n], i, g) THEN wording[i][g] ELSE 0
        /\ \/ (\E n \in 1..k : Of(rows[n], i, g)) /\ token[i][g] = wording[i][g]
           \/ /\ token[i][g] = 0
              /\ \A n \in 1..k : Of(rows[n], i, g) =>
                    \E c \in Nat, m \in 1..k : rows[m].item = i /\ n <= BatchSize * c /\ BatchSize * c < m

Faithful(r) ==
    \E full \in Seq(IndexRow), k \in Nat :
        /\ Lists(full) /\ k <= Len(full)
        /\ rebuild[r].rows = SubSeq(full, k + 1, Len(full))
        /\ \/ rebuild[r].at = "loaded" /\ k = 0
           \/ rebuild[r].at = "no tokens" /\ k = 0 /\ token = Nothing
           \/ /\ rebuild[r].at = "filling"
              /\ k = Len(full) \/ \E b \in Nat : k = BatchSize * b
              /\ Written(full, k)

AllFound ==
    \A i \in 1..Items, g \in Tongue :
        /\ document[i][g] = wording[i][g]
        /\ token[i][g] = wording[i][g] \/ (Straddles(i) /\ token[i][g] = 0)

RebuildLocal ==
    [at : {"waiting", "done", "stopped"}] \cup [at : {"loaded", "no tokens", "filling"}, rows : Seq(IndexRow)]

SearchInv ==
    /\ wording \in [1..Items -> [Tongue -> Nat]]
    /\ rebuild \in [Rebuild -> RebuildLocal]
    /\ disturbed \in BOOLEAN
    /\ ~disturbed =>
        /\ \A r, o \in Rebuild : Going(r) /\ Going(o) => r = o
        /\ \A r \in Rebuild : Going(r) => Faithful(r)
        /\ (\E r \in Rebuild : rebuild[r].at = "done") /\ (\A r \in Rebuild : ~Going(r)) => AllFound

--------------------------------------------------------------------------------
Listed == {y \in Translation : wording[y[1]][y[2]] # 0}

LEMMA ListedFinite == IsFiniteSet(Listed) /\ IsFiniteSet(1..Items) /\ IsFiniteSet(Translation)
<1>. USE SearchIndexAssumption DEF SearchIndexAssumption
<1>1. IsFiniteSet(1..Items)
  BY FS_Interval
<1>2. IsFiniteSet(Translation)
  BY <1>1, FS_Product DEF Translation
<1>. QED
  BY <1>1, <1>2, FS_Subset DEF Listed

\* A product's translations are as many as its pairs in the catalogue.
LEMMA TranslationsCounted ==
    ASSUME NEW i \in 1..Items
    PROVE  TranslationsOf(i) \in Nat /\ TranslationsOf(i) = Cardinality({y \in Listed : y[1] = i})
<1>. DEFINE S == {g \in Tongue : wording[i][g] # 0}
            T == {y \in Listed : y[1] = i}
            f == [g \in S |-> <<i, g>>]
<1>1. IsFiniteSet(S)
  BY SearchIndexAssumption, FS_Subset DEF SearchIndexAssumption
<1>2. f \in [S -> T]
  BY DEF Listed, Translation
<1>3. \A g, h \in S : f[g] = f[h] => g = h
  OBVIOUS
<1>4. \A y \in T : \E g \in S : f[g] = y
  <2>. SUFFICES ASSUME NEW y \in T
                PROVE  \E g \in S : f[g] = y
    OBVIOUS
  <2>1. y = <<i, y[2]>> /\ y[2] \in S
    BY DEF Listed, Translation
  <2>. QED
    BY <2>1
<1>5. f \in Bijection(S, T)
  <2>. HIDE DEF f, S, T
  <2>. QED
    BY <1>2, <1>3, <1>4 DEF Bijection, Injection, Surjection, IsInjective
<1>6. Cardinality(T) = Cardinality(S)
  <2>. HIDE DEF f, S, T
  <2>. QED
    BY <1>1, <1>5, FS_Bijection DEF ExistsBijection
<1>. QED
  BY <1>1, <1>6, FS_CardinalityType DEF TranslationsOf

LEMMA RowsBeforeCounted ==
    ASSUME NEW i \in 1..Items
    PROVE  RowsBefore(i) = Cardinality({y \in Listed : y[1] < i})
<1>. DEFINE S == 1..(i - 1)
            f == [j \in S |-> TranslationsOf(j)]
            Sums(g) == g = [T \in SUBSET S |-> IF T = {} THEN 0 ELSE TranslationsOf(Pick(T)) + g[Others(T)]]
            total == CHOOSE g : Sums(g)
            Upon(T) == {y \in Listed : y[1] \in T}
            P == {T \in SUBSET S : total[T] = Cardinality(Upon(T))}
<1>1. IsFiniteSet(S) /\ S \subseteq 1..Items
  BY SearchIndexAssumption, FS_Interval DEF SearchIndexAssumption
<1>2. \A g : SumsOf(g, f, S) <=> Sums(g)
  <2>1. \A T \in SUBSET S : T # {} => f[Pick(T)] = TranslationsOf(Pick(T))
    BY <1>1, OthersSmaller
  <2>. QED
    BY <2>1 DEF SumsOf
<1>3. \E g : Sums(g)
  <2>. HIDE DEF Sums, S, f
  <2>. QED
    BY <1>1, <1>2, SumsExist
<1>4. Sums(total)
  <2>. HIDE DEF Sums
  <2>. QED
    BY <1>3
<1>5. RowsBefore(i) = total[S]
  BY DEF RowsBefore, MapThenSumSet, MapThenFoldSet, Pick, Others
<1>6. {} \in P
  <2>1. total[{}] = 0
    BY <1>4
  <2>2. Upon({}) = {}
    OBVIOUS
  <2>. QED
    BY <2>1, <2>2, FS_EmptySet
<1>7. ASSUME NEW T \in SUBSET S, T # {}, Others(T) \in P
      PROVE  T \in P
  <2>. DEFINE p == Pick(T)
              U == {y \in Listed : y[1] = p}
              V == Upon(Others(T))
  <2>1. p \in T /\ p \in 1..Items
    BY <1>1, <1>7, OthersSmaller
  <2>2. total[T] = TranslationsOf(p) + total[Others(T)]
    BY <1>4, <1>7
  <2>3. Upon(T) = U \cup V /\ U \cap V = {}
    BY <2>1 DEF Others
  <2>4. IsFiniteSet(U) /\ IsFiniteSet(V)
    BY ListedFinite, FS_Subset
  <2>5. Cardinality(Upon(T)) = Cardinality(U) + Cardinality(V)
    <3>. HIDE DEF U, V
    <3>. QED
      BY <2>3, <2>4, TogetherCounted
  <2>6. TranslationsOf(p) = Cardinality(U)
    BY <2>1, TranslationsCounted
  <2>7. total[Others(T)] = Cardinality(V)
    BY <1>7
  <2>. QED
    BY <2>2, <2>5, <2>6, <2>7
<1>8. P = SUBSET S
  <2>1. P \in SUBSET (SUBSET S)
    OBVIOUS
  <2>. HIDE DEF P, S
  <2>. QED
    BY <1>1, <1>6, <1>7, <2>1, AllSubsets
<1>9. RowsBefore(i) = Cardinality(Upon(S))
  <2>. HIDE DEF total, Upon
  <2>. QED
    BY <1>5, <1>8
<1>10. Upon(S) = {y \in Listed : y[1] < i}
  BY DEF Listed, Translation
<1>. QED
  BY <1>9, <1>10

\* What comes before a product and what it has, together.
LEMMA RowsUpTo ==
    ASSUME NEW i \in 1..Items
    PROVE  /\ RowsBefore(i) \in Nat /\ TranslationsOf(i) \in Nat
           /\ RowsBefore(i) + TranslationsOf(i) = Cardinality({y \in Listed : y[1] <= i})
<1>. DEFINE U == {y \in Listed : y[1] = i}
            V == {y \in Listed : y[1] < i}
            W == {y \in Listed : y[1] <= i}
<1>1. W = U \cup V /\ U \cap V = {}
  BY DEF Listed, Translation
<1>2. IsFiniteSet(U) /\ IsFiniteSet(V)
  BY ListedFinite, FS_Subset
<1>3. RowsBefore(i) = Cardinality(V) /\ TranslationsOf(i) = Cardinality(U)
  BY RowsBeforeCounted, TranslationsCounted
<1>. HIDE DEF U, V, W
<1>4. /\ Cardinality(U) \in Nat /\ Cardinality(V) \in Nat
      /\ Cardinality(W) = Cardinality(U) + Cardinality(V)
  BY <1>1, <1>2, TogetherCounted
<1>. QED
  BY <1>3, <1>4 DEF W

--------------------------------------------------------------------------------
\* In a list of the catalogue the rows of a product stand together, after those
\* of the products before it.
LEMMA RowsTogether ==
    ASSUME NEW full, Lists(full), NEW p \in 1..Len(full), NEW i \in 1..Items, full[p].item = i
    PROVE  RowsBefore(i) < p /\ p <= RowsBefore(i) + TranslationsOf(i)
<1>. DEFINE pair(n) == <<full[n].item, full[n].tongue>>
<1>0. full \in Seq(IndexRow) /\ Len(full) \in Nat /\ p \in Nat
  BY DEF Lists
<1>1. \A n \in 1..Len(full) : pair(n) \in Listed /\ pair(n)[1] = full[n].item /\ full[n].item \in 1..Items
  <2>. SUFFICES ASSUME NEW n \in 1..Len(full)
                PROVE  pair(n) \in Listed /\ pair(n)[1] = full[n].item /\ full[n].item \in 1..Items
    OBVIOUS
  <2>1. full[n] \in IndexRow /\ wording[full[n].item][full[n].tongue] # 0
    BY DEF Lists
  <2>. QED
    BY <2>1 DEF Listed, Translation, IndexRow
<1>2. \A m, n \in 1..Len(full) : m < n => full[m].item <= full[n].item
  BY DEF Lists, Ordered
<1>3. RowsBefore(i) < p
  <2>. DEFINE S == {n \in 1..(p - 1) : full[n].item < i}
              T == {y \in Listed : y[1] < i}
              f == [n \in S |-> pair(n)]
  <2>1. S \subseteq 1..(p - 1) /\ S \subseteq 1..Len(full)
    BY <1>0
  <2>2. f \in [S -> T]
    BY <1>1, <2>1
  <2>3. ASSUME NEW y \in T
        PROVE  \E n \in S : f[n] = y
    <3>1. y \in Translation /\ y = <<y[1], y[2]>> /\ y[1] \in 1..Items /\ y[2] \in Tongue /\ wording[y[1]][y[2]] # 0
      BY DEF Listed, Translation
    <3>2. PICK n \in 1..Len(full) : full[n].item = y[1] /\ full[n].tongue = y[2]
      BY <3>1 DEF Lists
    <3>3. full[n].item < i
      BY <3>2
    <3>4. n < p
      <4>1. n # p /\ (p < n => i <= full[n].item)
        BY <1>2, <3>3
      <4>2. full[n].item \in Int /\ i \in Int
        <5>1. full[n].item \in 1..Items /\ i \in 1..Items
          BY <1>1, Zenon
        <5>. QED
          BY <5>1
      <4>3. ~(p < n)
        BY <3>3, <4>1, <4>2
      <4>. QED
        BY <1>0, <4>1, <4>3
    <3>5. n \in S /\ f[n] = y
      BY <1>0, <3>1, <3>2, <3>3, <3>4
    <3>. QED
      BY <3>5
  <2>4. IsFiniteSet(1..(p - 1)) /\ Cardinality(1..(p - 1)) = p - 1
    <3>1. 1 \in Int /\ p - 1 \in Int /\ p >= 1
      BY <1>0
    <3>2. /\ IsFiniteSet(1..(p - 1))
          /\ Cardinality(1..(p - 1)) = IF 1 > p - 1 THEN 0 ELSE (p - 1) - 1 + 1
      BY <3>1, FS_Interval
    <3>. QED
      BY <1>0, <3>1, <3>2
  <2>5. IsFiniteSet(S) /\ Cardinality(S) <= p - 1 /\ Cardinality(S) \in Nat
    <3>. HIDE DEF S
    <3>. QED
      BY <2>1, <2>4, FS_Subset, FS_CardinalityType
  <2>6. Cardinality(T) <= Cardinality(S)
    <3>. HIDE DEF S, T, f
    <3>. QED
      BY <2>2, <2>3, <2>5, FS_Surjection DEF Surjection
  <2>7. Cardinality(T) = RowsBefore(i) /\ RowsBefore(i) \in Nat
    BY RowsBeforeCounted, RowsUpTo
  <2>. QED
    BY <1>0, <2>5, <2>6, <2>7
<1>4. p <= RowsBefore(i) + TranslationsOf(i)
  <2>. DEFINE W == {y \in Listed : y[1] <= i}
              f == [n \in 1..p |-> pair(n)]
  <2>1. \A n \in 1..p : n \in 1..Len(full) /\ full[n].item <= i
    BY <1>0, <1>1, <1>2
  <2>2. f \in [1..p -> W]
    BY <1>1, <2>1
  <2>3. \A m, n \in 1..p : f[m] = f[n] => m = n
    BY <2>1 DEF Lists
  <2>4. IsFiniteSet(W)
    BY ListedFinite, FS_Subset
  <2>5. Cardinality(1..p) <= Cardinality(W)
    <3>. HIDE DEF W, f
    <3>. QED
      BY <2>2, <2>3, <2>4, FS_Injection DEF Injection, IsInjective
  <2>6. Cardinality(1..p) = p
    BY <1>0, FS_Interval
  <2>. QED
    BY <2>5, <2>6, RowsUpTo
<1>. QED
  BY <1>3, <1>4

\* Batches end at the multiples of their size.
LEMMA BatchOf ==
    ASSUME NEW B \in Nat, B # 0, NEW x \in Nat, NEW c \in Nat
    PROVE  x \div B \in Nat /\ (x \div B < c <=> x < B * c)
<1>1. PICK q \in Nat, s \in Nat : q = x \div B /\ s < B /\ x = B * q + s
  OBVIOUS
<1>2. ASSUME q < c
      PROVE  x < B * c
  <2>1. PICK d \in Nat : c = q + 1 + d
    <3>1. c - q - 1 \in Nat /\ c = q + 1 + (c - q - 1)
      BY <1>2
    <3>. QED
      BY <3>1
  <2>2. B * c = B * q + B + B * d /\ B * d \in Nat /\ B * q \in Nat
    BY <2>1
  <2>. QED
    BY <1>1, <2>2
<1>3. ASSUME ~(q < c)
      PROVE  ~(x < B * c)
  <2>1. PICK d \in Nat : q = c + d
    <3>1. q - c \in Nat /\ q = c + (q - c)
      BY <1>3
    <3>. QED
      BY <3>1
  <2>2. B * q = B * c + B * d /\ B * d \in Nat /\ B * c \in Nat
    BY <2>1
  <2>. QED
    BY <1>1, <2>2
<1>. QED
  BY <1>1, <1>2, <1>3

\* Rows of one product on both sides of a batch's end: the product straddles.
LEMMA ApartStraddles ==
    ASSUME NEW full, Lists(full), NEW m \in 1..Len(full), NEW n \in 1..Len(full), NEW i \in 1..Items,
           full[m].item = i, full[n].item = i, NEW c \in Nat,
           n <= BatchSize * c, BatchSize * c < m
    PROVE  Straddles(i)
<1>1. /\ RowsBefore(i) < n /\ n <= RowsBefore(i) + TranslationsOf(i)
      /\ RowsBefore(i) < m /\ m <= RowsBefore(i) + TranslationsOf(i)
      /\ RowsBefore(i) \in Nat /\ TranslationsOf(i) \in Nat
  BY RowsTogether, RowsUpTo
<1>2. BatchSize \in Nat /\ BatchSize # 0 /\ m \in Nat /\ n \in Nat /\ Len(full) \in Nat
  BY SearchIndexAssumption DEF SearchIndexAssumption, Lists
<1>3. PICK limit \in Nat, before \in Nat, own \in Nat :
         limit = BatchSize * c /\ before = RowsBefore(i) /\ own = TranslationsOf(i)
  <2>1. BatchSize * c \in Nat
    BY <1>2
  <2>. QED
    BY <1>1, <2>1
<1>4. before < limit /\ ~(before + own - 1 < limit) /\ own > 1 /\ before + own - 1 \in Nat
  BY <1>1, <1>2, <1>3
<1>5. before \div BatchSize < c /\ before \div BatchSize \in Nat
  BY <1>2, <1>3, <1>4, BatchOf
<1>6. ~((before + own - 1) \div BatchSize < c)
  BY <1>2, <1>3, <1>4, BatchOf
<1>. QED
  BY <1>3, <1>4, <1>5, <1>6 DEF Straddles

\* What a rebuild loads lists the catalogue.
LEMMA LoadedLists ==
    ASSUME wording \in [1..Items -> [Tongue -> Nat]], NEW full \in LoadedRows
    PROVE  Lists(full)
<1>. DEFINE R == {[item |-> x[1], tongue |-> x[2], words |-> wording[x[1]][x[2]]] :
                     x \in {y \in Translation : wording[y[1]][y[2]] # 0}}
            N == Cardinality(R)
<1>1. \A x \in R : /\ x \in IndexRow /\ x.words = wording[x.item][x.tongue] /\ x.words # 0
  BY DEF Translation, IndexRow
<1>2. \A i \in 1..Items, g \in Tongue :
          wording[i][g] # 0 => [item |-> i, tongue |-> g, words |-> wording[i][g]] \in R
  <2>. SUFFICES ASSUME NEW i \in 1..Items, NEW g \in Tongue, wording[i][g] # 0
                PROVE  [item |-> i, tongue |-> g, words |-> wording[i][g]] \in R
    OBVIOUS
  <2>1. <<i, g>> \in {y \in Translation : wording[y[1]][y[2]] # 0}
    BY DEF Translation
  <2>. QED
    BY <2>1
<1>3. IsFiniteSet(R) /\ N \in Nat
  <2>1. IsFiniteSet(R)
    <3>. DEFINE L == {y \in Translation : wording[y[1]][y[2]] # 0}
                h == [y \in L |-> [item |-> y[1], tongue |-> y[2], words |-> wording[y[1]][y[2]]]]
    <3>1. IsFiniteSet(L)
      BY ListedFinite DEF Listed
    <3>2. h \in [L -> R] /\ \A x \in R : \E y \in L : h[y] = x
      OBVIOUS
    <3>. HIDE DEF L, h, R
    <3>3. h \in Surjection(L, R)
      BY <3>2 DEF Surjection
    <3>. QED
      BY <3>1, <3>3, FS_Surjection
  <2>. QED
    BY <2>1, FS_CardinalityType
<1>4. full \in [1..N -> R] /\ (\A m, n \in 1..N : m # n => full[m] # full[n]) /\ Ordered(full)
  BY DEF LoadedRows, SetToSeqs
<1>5. \A x \in R : \E n \in 1..N : full[n] = x
  <2>. HIDE DEF R
  <2>1. IsFiniteSet(1..N) /\ Cardinality(1..N) = N
    BY <1>3, FS_Interval
  <2>2. full \in Injection(1..N, R)
    BY <1>4 DEF Injection, IsInjective
  <2>3. full \in Surjection(1..N, R)
    BY <1>3, <2>1, <2>2, FS_Injection
  <2>. QED
    BY <2>3 DEF Surjection
<1>. HIDE DEF R, N
<1>6. full \in Seq(IndexRow) /\ Len(full) = N
  <2>1. full \in [1..N -> IndexRow]
    BY <1>1, <1>4
  <2>. QED
    BY <1>3, <2>1
<1>7. \A n \in 1..N : /\ full[n] \in R /\ full[n].words = wording[full[n].item][full[n].tongue]
                       /\ full[n].words # 0 /\ full[n] \in IndexRow
  BY <1>1, <1>4
<1>8. ASSUME NEW m \in 1..N, NEW n \in 1..N, full[m].item = full[n].item, full[m].tongue = full[n].tongue
      PROVE  m = n
  <2>1. full[m].words = full[n].words
    BY <1>7, <1>8
  <2>2. \A x, y \in IndexRow : x.item = y.item /\ x.tongue = y.tongue /\ x.words = y.words => x = y
    BY DEF IndexRow
  <2>3. full[m] = full[n]
    BY <1>7, <1>8, <2>1, <2>2
  <2>. QED
    BY <1>4, <2>3
<1>9. ASSUME NEW i \in 1..Items, NEW g \in Tongue, wording[i][g] # 0
      PROVE  \E n \in 1..N : full[n].item = i /\ full[n].tongue = g
  <2>1. PICK n \in 1..N : full[n] = [item |-> i, tongue |-> g, words |-> wording[i][g]]
    BY <1>2, <1>5, <1>9
  <2>. QED
    BY <2>1
<1>. QED
  BY <1>4, <1>6, <1>7, <1>8, <1>9 DEF Lists

--------------------------------------------------------------------------------
\* The batch is the next p rows of the list, and it begins where a batch may.
IsBatch(batch, full, k, p) ==
    /\ Lists(full) /\ k \in Nat /\ p \in Nat /\ p >= 1 /\ k + p <= Len(full)
    /\ Len(batch) = p /\ \A n \in 1..p : batch[n] = full[k + n]
    /\ \E b \in Nat : k = BatchSize * b

LEMMA WordsOfBatch ==
    ASSUME NEW full, NEW k, NEW p, NEW batch, IsBatch(batch, full, k, p),
           NEW i \in 1..Items, NEW g \in Tongue, NEW otherwise
    PROVE  WordsIn(batch, i, g, otherwise) =
             IF \E n \in 1..p : Of(full[k + n], i, g) THEN wording[i][g] ELSE otherwise
<1>. DEFINE mine == {n \in 1..Len(batch) : batch[n].item = i /\ batch[n].tongue = g}
<1>1. p \in Nat /\ k \in Nat /\ Len(full) \in Nat /\ k + p <= Len(full) /\ Len(batch) = p
  BY DEF IsBatch, Lists
<1>2. \A n \in 1..p : batch[n] = full[k + n] /\ k + n \in 1..Len(full)
  <2>1. \A n \in 1..p : batch[n] = full[k + n]
    BY DEF IsBatch
  <2>. QED
    BY <1>1, <2>1
<1>3. mine = {n \in 1..p : Of(full[k + n], i, g)}
  BY <1>1, <1>2 DEF Of
<1>4. ASSUME NEW n \in mine
      PROVE  batch[n].words = wording[i][g]
  <2>1. \A m \in 1..Len(full) : full[m].words = wording[full[m].item][full[m].tongue]
    BY DEF IsBatch, Lists
  <2>2. n \in 1..p /\ Of(full[k + n], i, g)
    BY <1>3
  <2>. QED
    BY <1>2, <2>1, <2>2 DEF Of
<1>5. WordsIn(batch, i, g, otherwise) = IF mine = {} THEN otherwise ELSE batch[CHOOSE n \in mine : TRUE].words
  BY DEF WordsIn
<1>6. mine # {} => (CHOOSE n \in mine : TRUE) \in mine
  OBVIOUS
<1>. HIDE DEF mine
<1>7. WordsIn(batch, i, g, otherwise) = IF mine = {} THEN otherwise ELSE wording[i][g]
  BY <1>4, <1>5, <1>6
<1>. QED
  BY <1>3, <1>7

\* Writing a batch extends what is written by it.
LEMMA BatchWrites ==
    ASSUME NEW full, NEW k, NEW p, NEW batch, IsBatch(batch, full, k, p), Written(full, k),
           token' = Retokened(batch),
           document' = [i \in 1..Items |-> [g \in Tongue |-> WordsIn(batch, i, g, document[i][g])]],
           wording' = wording
    PROVE  Written(full, k + p)'
<1>1. /\ p \in Nat /\ p >= 1 /\ k \in Nat /\ Len(full) \in Nat /\ k + p <= Len(full) /\ Len(batch) = p
      /\ \A n \in 1..p : batch[n] = full[k + n]
  BY DEF IsBatch, Lists
<1>2. PICK b \in Nat : k = BatchSize * b
  BY DEF IsBatch
<1>3. \A n \in 1..(k + p) : n \in 1..k \/ (n - k \in 1..p /\ n = k + (n - k))
  BY <1>1
<1>4. \A n \in 1..p : k + n \in 1..(k + p) /\ k + n > k
  BY <1>1
<1>5. \A n \in 1..k : n \in 1..(k + p) /\ n <= k
  BY <1>1
<1>. SUFFICES ASSUME NEW i \in 1..Items, NEW g \in Tongue
              PROVE  /\ document'[i][g] =
                          IF \E n \in 1..(k + p) : Of(full[n], i, g) THEN wording[i][g] ELSE 0
                     /\ \/ (\E n \in 1..(k + p) : Of(full[n], i, g)) /\ token'[i][g] = wording[i][g]
                        \/ /\ token'[i][g] = 0
                           /\ \A n \in 1..(k + p) : Of(full[n], i, g) =>
                                 \E c \in Nat, m \in 1..(k + p) :
                                    full[m].item = i /\ n <= BatchSize * c /\ BatchSize * c < m
  BY DEF Written
<1>6. /\ document[i][g] = IF \E n \in 1..k : Of(full[n], i, g) THEN wording[i][g] ELSE 0
      /\ \/ (\E n \in 1..k : Of(full[n], i, g)) /\ token[i][g] = wording[i][g]
         \/ /\ token[i][g] = 0
            /\ \A n \in 1..k : Of(full[n], i, g) =>
                  \E c \in Nat, m \in 1..k : full[m].item = i /\ n <= BatchSize * c /\ BatchSize * c < m
  BY DEF Written
<1>7. (\E n \in 1..(k + p) : Of(full[n], i, g))
        <=> (\E n \in 1..k : Of(full[n], i, g)) \/ (\E n \in 1..p : Of(full[k + n], i, g))
  BY <1>3, <1>4, <1>5
<1>8. \A otherwise : WordsIn(batch, i, g, otherwise) =
          IF \E n \in 1..p : Of(full[k + n], i, g) THEN wording[i][g] ELSE otherwise
  BY WordsOfBatch
<1>9. document'[i][g] = IF \E n \in 1..(k + p) : Of(full[n], i, g) THEN wording[i][g] ELSE 0
  BY <1>6, <1>7, <1>8
<1>10. CASE \E n \in 1..p : full[k + n].item = i
  <2>1. \E n \in 1..Len(batch) : batch[n].item = i
    BY <1>1, <1>10
  <2>2. token'[i][g] = WordsIn(batch, i, g, 0)
    BY <2>1 DEF Retokened
  <2>3. CASE \E n \in 1..p : Of(full[k + n], i, g)
    BY <1>7, <1>8, <1>9, <2>2, <2>3
  <2>4. CASE ~\E n \in 1..p : Of(full[k + n], i, g)
    <3>1. token'[i][g] = 0
      BY <1>8, <2>2, <2>4
    <3>2. PICK l \in 1..p : full[k + l].item = i
      BY <1>10
    <3>3. ASSUME NEW n \in 1..(k + p), Of(full[n], i, g)
          PROVE  \E c \in Nat, m \in 1..(k + p) :
                    full[m].item = i /\ n <= BatchSize * c /\ BatchSize * c < m
      <4>1. n \in 1..k
        BY <1>3, <2>4, <3>3
      <4>2. n <= BatchSize * b /\ BatchSize * b < k + l /\ k + l \in 1..(k + p)
        BY <1>2, <1>4, <1>5, <4>1
      <4>. QED
        BY <3>2, <4>2
    <3>. QED
      BY <1>9, <3>1, <3>3
  <2>. QED
    BY <2>3, <2>4
<1>11. CASE ~\E n \in 1..p : full[k + n].item = i
  <2>1. ~\E n \in 1..Len(batch) : batch[n].item = i
    BY <1>1, <1>11
  <2>2. token'[i][g] = token[i][g]
    BY <2>1 DEF Retokened
  <2>3. ~\E n \in 1..p : Of(full[k + n], i, g)
    BY <1>11 DEF Of
  <2>4. CASE (\E n \in 1..k : Of(full[n], i, g)) /\ token[i][g] = wording[i][g]
    BY <1>7, <1>9, <2>2, <2>4
  <2>5. CASE /\ token[i][g] = 0
             /\ \A n \in 1..k : Of(full[n], i, g) =>
                   \E c \in Nat, m \in 1..k : full[m].item = i /\ n <= BatchSize * c /\ BatchSize * c < m
    <3>1. ASSUME NEW n \in 1..(k + p), Of(full[n], i, g)
          PROVE  \E c \in Nat, m \in 1..(k + p) :
                    full[m].item = i /\ n <= BatchSize * c /\ BatchSize * c < m
      <4>1. n \in 1..k
        BY <1>3, <2>3, <3>1
      <4>2. PICK c \in Nat, m \in 1..k : full[m].item = i /\ n <= BatchSize * c /\ BatchSize * c < m
        BY <2>5, <3>1, <4>1
      <4>. QED
        BY <1>5, <4>2
    <3>. QED
      BY <1>9, <2>2, <2>5, <3>1
  <2>. QED
    BY <1>6, <2>4, <2>5
<1>. QED
  BY <1>10, <1>11

\* A list that is written to its end is found, but for straddling products.
LEMMA WrittenFound ==
    ASSUME NEW full, Lists(full), Written(full, Len(full))
    PROVE  AllFound
<1>. SUFFICES ASSUME NEW i \in 1..Items, NEW g \in Tongue
              PROVE  /\ document[i][g] = wording[i][g]
                     /\ token[i][g] = wording[i][g] \/ (Straddles(i) /\ token[i][g] = 0)
  BY DEF AllFound
<1>1. wording[i][g] # 0 <=> \E n \in 1..Len(full) : Of(full[n], i, g)
  BY DEF Lists, Of
<1>2. /\ document[i][g] = IF \E n \in 1..Len(full) : Of(full[n], i, g) THEN wording[i][g] ELSE 0
      /\ \/ token[i][g] = wording[i][g]
         \/ /\ token[i][g] = 0
            /\ \A n \in 1..Len(full) : Of(full[n], i, g) =>
                  \E c \in Nat, m \in 1..Len(full) :
                     full[m].item = i /\ n <= BatchSize * c /\ BatchSize * c < m
  BY DEF Written
<1>3. ASSUME NEW n \in 1..Len(full), Of(full[n], i, g),
             NEW c \in Nat, NEW m \in 1..Len(full),
             full[m].item = i, n <= BatchSize * c, BatchSize * c < m
      PROVE  Straddles(i)
  BY <1>3, ApartStraddles DEF Of
<1>. QED
  BY <1>1, <1>2, <1>3

--------------------------------------------------------------------------------
LEMMA IndexTypes ==
    ASSUME rebuild \in [Rebuild -> RebuildLocal], NEW r \in Rebuild
    PROVE  /\ rebuild[r].at \in {"waiting", "done", "stopped", "loaded", "no tokens", "filling"}
           /\ Going(r) <=> rebuild[r].at \in {"loaded", "no tokens", "filling"}
           /\ Going(r) => rebuild[r] \in [at : {"loaded", "no tokens", "filling"}, rows : Seq(IndexRow)]
<1>1. rebuild[r] \in RebuildLocal
  OBVIOUS
<1>. QED
  BY <1>1 DEF RebuildLocal, Going

LEMMA RebuildMoves ==
    ASSUME SearchInv, NEW r \in Rebuild, NEW j \in RebuildLocal, rebuild' = [rebuild EXCEPT ![r] = j]
    PROVE  /\ rebuild' \in [Rebuild -> RebuildLocal] /\ rebuild'[r] = j
           /\ \A o \in Rebuild : o # r => rebuild'[o] = rebuild[o] /\ (Going(o)' <=> Going(o))
BY DEF SearchInv, Going

\* A step of the one run under way that keeps what it is about.
LEMMA RunKeepsInv ==
    ASSUME SearchInv, NEW r \in Rebuild, Going(r), UNCHANGED <<wording, disturbed>>,
           NEW j \in RebuildLocal, rebuild' = [rebuild EXCEPT ![r] = j],
           j.at \in {"loaded", "no tokens", "filling"}, Faithful(r) => Faithful(r)'
    PROVE  SearchInv'
<1>1. /\ rebuild' \in [Rebuild -> RebuildLocal] /\ rebuild'[r] = j
      /\ \A o \in Rebuild : o # r => rebuild'[o] = rebuild[o] /\ (Going(o)' <=> Going(o))
  BY RebuildMoves
<1>2. Going(r)'
  BY <1>1 DEF Going
<1>3. SUFFICES ASSUME ~disturbed
               PROVE  /\ \A q, o \in Rebuild : Going(q)' /\ Going(o)' => q = o
                      /\ \A q \in Rebuild : Going(q)' => Faithful(q)'
  BY <1>1, <1>2 DEF SearchInv
<1>4. \A o \in Rebuild : o # r => ~Going(o)
  BY <1>3 DEF SearchInv
<1>5. \A o \in Rebuild : Going(o)' => o = r
  BY <1>1, <1>4
<1>6. Faithful(r)'
  BY <1>3 DEF SearchInv
<1>7. ASSUME NEW q \in Rebuild, Going(q)'
      PROVE  Faithful(q)'
  <2>1. q = r
    BY <1>5, <1>7
  <2>. QED
    BY <1>6, <2>1
<1>. QED
  BY <1>5, <1>7

LEMMA LoadKeepsInv ==
    ASSUME SearchInv, NEW r \in Rebuild, LoadCatalogue(r)
    PROVE  SearchInv'
<1>1. PICK full \in LoadedRows : rebuild' = [rebuild EXCEPT ![r] = [at |-> "loaded", rows |-> full]]
  BY DEF LoadCatalogue
<1>2. Lists(full) /\ wording' = wording
  BY LoadedLists DEF SearchInv, LoadCatalogue
<1>3. full \in Seq(IndexRow) /\ Len(full) \in Nat
  BY <1>2 DEF Lists
<1>4. PICK j \in RebuildLocal : j = [at |-> "loaded", rows |-> full]
  BY <1>3 DEF RebuildLocal
<1>5. /\ rebuild' \in [Rebuild -> RebuildLocal] /\ rebuild'[r] = j
      /\ \A o \in Rebuild : o # r => rebuild'[o] = rebuild[o] /\ (Going(o)' <=> Going(o))
  BY <1>1, <1>4, RebuildMoves
<1>6. Going(r)' /\ disturbed' = (\E o \in Rebuild \ {r} : Going(o))
  BY <1>4, <1>5 DEF Going, LoadCatalogue
<1>7. Faithful(r)'
  <2>1. full = SubSeq(full, 0 + 1, Len(full))
    BY <1>3, SubSeqFull
  <2>2. Lists(full)'
    BY <1>2 DEF Lists, Ordered
  <2>. QED
    BY <1>3, <1>4, <1>5, <2>1, <2>2 DEF Faithful
<1>8. ASSUME ~disturbed'
      PROVE  \A o \in Rebuild : Going(o)' => o = r
  BY <1>5, <1>6, <1>8
<1>9. ASSUME ~disturbed', NEW q \in Rebuild, Going(q)'
      PROVE  Faithful(q)'
  <2>1. q = r
    BY <1>8, <1>9
  <2>. QED
    BY <1>7, <2>1
<1>. QED
  BY <1>2, <1>5, <1>6, <1>8, <1>9 DEF SearchInv

LEMMA EmptyKeepsInv ==
    ASSUME SearchInv, NEW r \in Rebuild, EmptyTokens(r) \/ EmptyDocuments(r)
    PROVE  SearchInv'
<1>1. Going(r) /\ rebuild[r] \in [at : {"loaded", "no tokens", "filling"}, rows : Seq(IndexRow)]
  BY IndexTypes DEF SearchInv, EmptyTokens, EmptyDocuments, Going
<1>2. CASE EmptyTokens(r)
  <2>1. PICK j \in RebuildLocal : j = [rebuild[r] EXCEPT !.at = "no tokens"]
    BY <1>1 DEF RebuildLocal
  <2>2. j.at = "no tokens" /\ j.rows = rebuild[r].rows /\ rebuild[r].at = "loaded"
    BY <1>1, <1>2, <2>1 DEF EmptyTokens
  <2>3. rebuild' = [rebuild EXCEPT ![r] = j] /\ UNCHANGED <<wording, disturbed>> /\ token' = Nothing
    BY <1>2, <2>1 DEF EmptyTokens
  <2>4. rebuild'[r] = j
    BY <2>3, RebuildMoves
  <2>5. ASSUME Faithful(r)
        PROVE  Faithful(r)'
    <3>1. PICK full \in Seq(IndexRow) : /\ Lists(full)
                                       /\ rebuild[r].rows = SubSeq(full, 0 + 1, Len(full))
      BY <2>2, <2>5 DEF Faithful
    <3>2. Lists(full)'
      BY <2>3, <3>1 DEF Lists, Ordered
    <3>3. 0 \in Nat /\ 0 <= Len(full)
      OBVIOUS
    <3>4. Nothing' = Nothing
      BY DEF Nothing
    <3>. QED
      BY <2>2, <2>3, <2>4, <3>1, <3>2, <3>3, <3>4 DEF Faithful
  <2>. QED
    BY <1>1, <2>2, <2>3, <2>5, RunKeepsInv
<1>3. CASE EmptyDocuments(r)
  <2>1. PICK j \in RebuildLocal : j = [rebuild[r] EXCEPT !.at = "filling"]
    BY <1>1 DEF RebuildLocal
  <2>2. j.at = "filling" /\ j.rows = rebuild[r].rows /\ rebuild[r].at = "no tokens"
    BY <1>1, <1>3, <2>1 DEF EmptyDocuments
  <2>3. /\ rebuild' = [rebuild EXCEPT ![r] = j] /\ UNCHANGED <<wording, disturbed>>
        /\ document' = Nothing /\ token' = token
    BY <1>3, <2>1 DEF EmptyDocuments
  <2>4. rebuild'[r] = j
    BY <2>3, RebuildMoves
  <2>5. ASSUME Faithful(r)
        PROVE  Faithful(r)'
    <3>1. PICK full \in Seq(IndexRow) : /\ Lists(full) /\ token = Nothing
                                       /\ rebuild[r].rows = SubSeq(full, 0 + 1, Len(full))
      BY <2>2, <2>5 DEF Faithful
    <3>2. Lists(full)'
      BY <2>3, <3>1 DEF Lists, Ordered
    <3>3. 0 \in Nat /\ 0 <= Len(full) /\ 0 = BatchSize * 0
      BY SearchIndexAssumption DEF SearchIndexAssumption
    <3>4. Written(full, 0)'
      BY <2>3, <3>1 DEF Written, Nothing
    <3>5. rebuild'[r].rows = SubSeq(full, 0 + 1, Len(full)) /\ rebuild'[r].at = "filling"
      BY <2>2, <2>4, <3>1
    <3>. QED
      BY <3>1, <3>2, <3>3, <3>4, <3>5 DEF Faithful
  <2>. QED
    BY <1>1, <2>2, <2>3, <2>5, RunKeepsInv
<1>. QED
  BY <1>2, <1>3

\* The part of a sequence after its k-th element and up to its l-th.
LEMMA SliceIs ==
    ASSUME NEW S, NEW s \in Seq(S), NEW k \in Nat, NEW l \in Nat, k <= l, l <= Len(s)
    PROVE  /\ SubSeq(s, k + 1, l) \in Seq(S)
           /\ Len(SubSeq(s, k + 1, l)) = l - k
           /\ \A n \in 1..(l - k) : SubSeq(s, k + 1, l)[n] = s[k + n]
<1>1. \A n \in (k + 1)..l : s[n] \in S
  <2>1. Len(s) \in Nat /\ \A n \in 1..Len(s) : s[n] \in S
    OBVIOUS
  <2>. QED
    BY <2>1
<1>2. PICK f \in Int : f = k + 1
  <2>1. k + 1 \in Int
    OBVIOUS
  <2>. QED
    BY <2>1
<1>3. /\ SubSeq(s, f, l) \in Seq(S)
      /\ Len(SubSeq(s, f, l)) = IF f <= l THEN l - f + 1 ELSE 0
      /\ \A n \in 1..(l - f + 1) : SubSeq(s, f, l)[n] = s[f + n - 1]
  BY <1>1, <1>2, SubSeqProperties
<1>4. \A n \in 1..(l - k) : n \in 1..(l - f + 1) /\ f + n - 1 = k + n
  BY <1>2
<1>5. (IF f <= l THEN l - f + 1 ELSE 0) = l - k
  BY <1>2
<1>6. \A n \in 1..(l - k) : SubSeq(s, f, l)[n] = s[k + n]
  BY <1>3, <1>4
<1>. QED
  BY <1>2, <1>3, <1>5, <1>6

\* What is left of a list after k rows, cut again.
LEMMA CutAgain ==
    ASSUME NEW full \in Seq(IndexRow), NEW k \in Nat, k <= Len(full),
           NEW rows, rows = SubSeq(full, k + 1, Len(full)), NEW p \in Nat, p <= Len(rows)
    PROVE  /\ Len(rows) = Len(full) - k /\ rows \in Seq(IndexRow)
           /\ Len(SubSeq(rows, 1, p)) = p /\ \A n \in 1..p : SubSeq(rows, 1, p)[n] = full[k + n]
           /\ SubSeq(rows, p + 1, Len(rows)) = SubSeq(full, k + p + 1, Len(full))
<1>1. PICK t \in Nat : t = Len(full)
  <2>1. Len(full) \in Nat
    OBVIOUS
  <2>. QED
    BY <2>1
<1>2. PICK l \in Nat : l = t - k
  <2>1. t - k \in Nat
    BY <1>1
  <2>. QED
    BY <2>1
<1>3. rows \in Seq(IndexRow) /\ Len(rows) = l /\ \A n \in 1..l : rows[n] = full[k + n]
  <2>1. PICK w : w = SubSeq(full, k + 1, t)
    OBVIOUS
  <2>2. w \in Seq(IndexRow) /\ Len(w) = t - k /\ \A n \in 1..(t - k) : w[n] = full[k + n]
    <3>1. k <= t /\ t <= Len(full)
      BY <1>1
    <3>2. /\ SubSeq(full, k + 1, t) \in Seq(IndexRow)
          /\ Len(SubSeq(full, k + 1, t)) = t - k
          /\ \A n \in 1..(t - k) : SubSeq(full, k + 1, t)[n] = full[k + n]
      BY <1>1, <3>1, SliceIs
    <3>. QED
      BY <2>1, <3>2
  <2>3. rows = w
    BY <1>1, <2>1
  <2>4. w \in Seq(IndexRow) /\ Len(w) = l /\ \A n \in 1..l : w[n] = full[k + n]
    BY <1>2, <2>2
  <2>. QED
    BY <2>3, <2>4
<1>4. Len(SubSeq(rows, 1, p)) = p /\ \A n \in 1..p : SubSeq(rows, 1, p)[n] = full[k + n]
  <2>1. /\ Len(SubSeq(rows, 0 + 1, p)) = p - 0
        /\ \A n \in 1..(p - 0) : SubSeq(rows, 0 + 1, p)[n] = rows[0 + n]
    <3>1. 0 \in Nat /\ 0 <= p
      OBVIOUS
    <3>. QED
      BY <1>3, <3>1, SliceIs
  <2>2. 0 + 1 = 1 /\ p - 0 = p /\ \A n \in 1..p : 0 + n = n /\ n \in 1..l
    BY <1>3
  <2>. QED
    BY <1>3, <2>1, <2>2
<1>5. SubSeq(rows, p + 1, l) = SubSeq(full, k + p + 1, t)
  <2>1. PICK u : u = SubSeq(rows, p + 1, l)
    OBVIOUS
  <2>2. PICK v : v = SubSeq(full, (k + p) + 1, t)
    OBVIOUS
  <2>3. u \in Seq(IndexRow) /\ Len(u) = l - p /\ \A n \in 1..(l - p) : u[n] = rows[p + n]
    BY <1>3, <2>1, SliceIs
  <2>4. v \in Seq(IndexRow) /\ Len(v) = t - (k + p) /\ \A n \in 1..(t - (k + p)) : v[n] = full[(k + p) + n]
    <3>1. k + p \in Nat /\ k + p <= t
      BY <1>2, <1>3
    <3>. QED
      BY <1>1, <2>2, <3>1, SliceIs
  <2>5. l - p = t - (k + p) /\ \A n \in 1..(l - p) : p + n \in 1..l /\ k + (p + n) = (k + p) + n
    BY <1>2
  <2>6. \A n \in 1..(l - p) : u[n] = v[n]
    BY <1>3, <2>3, <2>4, <2>5
  <2>7. u = v
    BY <2>3, <2>4, <2>5, <2>6, SeqEqual
  <2>. QED
    BY <2>1, <2>2, <2>7
<1>. QED
  BY <1>1, <1>2, <1>3, <1>4, <1>5

BatchEnd(rows) == Min({BatchSize, Len(rows)})

\* A batch takes at least one of the rows that are left, and at most all.
LEMMA NextBatch ==
    ASSUME SearchInv, NEW r \in Rebuild, FillBatch(r),
           NEW rows, rows = rebuild[r].rows
    PROVE  /\ Going(r) /\ rebuild[r] \in [at : {"loaded", "no tokens", "filling"}, rows : Seq(IndexRow)]
           /\ rows \in Seq(IndexRow) /\ rows # <<>> /\ Len(rows) \in Nat /\ Len(rows) >= 1
           /\ BatchSize \in Nat /\ BatchSize >= 1
           /\ BatchEnd(rows) \in Nat /\ BatchEnd(rows) >= 1 /\ BatchEnd(rows) <= Len(rows)
           /\ BatchEnd(rows) = BatchSize \/ BatchEnd(rows) = Len(rows)
<1>. DEFINE p == BatchEnd(rows)
<1>1. Going(r) /\ rebuild[r] \in [at : {"loaded", "no tokens", "filling"}, rows : Seq(IndexRow)]
  BY IndexTypes DEF SearchInv, FillBatch, Going
<1>2. /\ rows \in Seq(IndexRow) /\ rows # <<>> /\ Len(rows) \in Nat /\ Len(rows) >= 1
      /\ BatchSize \in Nat /\ BatchSize >= 1
  <2>1. rows \in Seq(IndexRow) /\ rows # <<>>
    BY <1>1 DEF FillBatch
  <2>2. Len(rows) \in Nat /\ Len(rows) # 0
    BY <2>1, EmptySeq
  <2>. QED
    BY <2>1, <2>2, SearchIndexAssumption DEF SearchIndexAssumption
<1>3. p \in Nat /\ p >= 1 /\ p <= Len(rows) /\ (p = BatchSize \/ p = Len(rows))
  <2>1. \E x \in {BatchSize, Len(rows)} : \A y \in {BatchSize, Len(rows)} : x <= y
    BY <1>2
  <2>2. p \in {BatchSize, Len(rows)} /\ \A y \in {BatchSize, Len(rows)} : p <= y
    BY <2>1 DEF Min, BatchEnd
  <2>. QED
    BY <1>2, <2>2
<1>. QED
  BY <1>1, <1>2, <1>3

LEMMA FillKeepsInv ==
    ASSUME SearchInv, NEW r \in Rebuild, FillBatch(r)
    PROVE  SearchInv'
<1>. DEFINE rows == rebuild[r].rows
            p == BatchEnd(rows)
<1>1. Going(r) /\ rebuild[r] \in [at : {"loaded", "no tokens", "filling"}, rows : Seq(IndexRow)]
  BY NextBatch
<1>2. /\ rows \in Seq(IndexRow) /\ rows # <<>> /\ Len(rows) \in Nat /\ Len(rows) >= 1
      /\ BatchSize \in Nat /\ BatchSize >= 1
  BY NextBatch
<1>3. p \in Nat /\ p >= 1 /\ p <= Len(rows) /\ (p = BatchSize \/ p = Len(rows))
  BY NextBatch
<1>4. PICK j \in RebuildLocal : j = [rebuild[r] EXCEPT !.rows = Rest(rows)]
  <2>1. Rest(rows) \in Seq(IndexRow)
    <3>1. PICK q \in Nat, l \in Nat, left \in Seq(IndexRow) :
             q = p /\ left = rows /\ l = Len(left) /\ q <= l /\ l <= Len(left)
      BY <1>2, <1>3
    <3>2. SubSeq(left, q + 1, l) \in Seq(IndexRow)
      BY <3>1, SliceIs
    <3>. QED
      BY <3>1, <3>2 DEF Rest, BatchEnd
  <2>. QED
    BY <1>1, <2>1 DEF RebuildLocal
<1>5. /\ rebuild' = [rebuild EXCEPT ![r] = j] /\ UNCHANGED <<wording, disturbed>>
      /\ j.at = "filling" /\ j.rows = SubSeq(rows, p + 1, Len(rows)) /\ rebuild[r].at = "filling"
      /\ token' = Retokened(SubSeq(rows, 1, p))
      /\ document' = [i \in 1..Items |-> [g \in Tongue |-> WordsIn(SubSeq(rows, 1, p), i, g, document[i][g])]]
  BY <1>1, <1>4 DEF FillBatch, Rest, Batch, BatchEnd
<1>6. rebuild'[r] = j
  BY <1>5, RebuildMoves
<1>7. ASSUME Faithful(r)
      PROVE  Faithful(r)'
  <2>1. PICK full \in Seq(IndexRow), k \in Nat :
           /\ Lists(full) /\ k <= Len(full) /\ rows = SubSeq(full, k + 1, Len(full))
           /\ k = Len(full) \/ \E b \in Nat : k = BatchSize * b
           /\ Written(full, k)
    BY <1>5, <1>7 DEF Faithful
  <2>2. PICK q \in Nat, left \in Seq(IndexRow) : q = p /\ left = rows
    BY <1>2, <1>3
  <2>. HIDE DEF rows, p
  <2>3. /\ Len(left) = Len(full) - k
        /\ Len(SubSeq(left, 1, q)) = q /\ \A n \in 1..q : SubSeq(left, 1, q)[n] = full[k + n]
        /\ SubSeq(left, q + 1, Len(left)) = SubSeq(full, k + q + 1, Len(full))
    BY <1>3, <2>1, <2>2, CutAgain
  <2>4. Len(full) \in Nat /\ k + q <= Len(full) /\ k # Len(full)
    BY <1>3, <2>1, <2>2, <2>3
  <2>5. PICK b \in Nat : k = BatchSize * b
    BY <2>1, <2>4
  <2>6. IsBatch(SubSeq(left, 1, q), full, k, q)
    BY <1>3, <2>1, <2>2, <2>3, <2>4, <2>5 DEF IsBatch
  <2>7. Written(full, k + q)'
    BY <1>5, <2>1, <2>2, <2>6, BatchWrites
  <2>8. k + q = Len(full) \/ \E c \in Nat : k + q = BatchSize * c
    <3>1. CASE q = BatchSize
      <4>1. BatchSize * (b + 1) = BatchSize * b + BatchSize /\ b + 1 \in Nat
        BY <1>2
      <4>. QED
        BY <2>5, <3>1, <4>1
    <3>2. CASE q = Len(left)
      BY <2>3, <2>4, <3>2
    <3>. QED
      BY <1>3, <2>2, <3>1, <3>2
  <2>9. Lists(full)'
    BY <1>5, <2>1 DEF Lists, Ordered
  <2>10. /\ rebuild'[r].at = "filling" /\ rebuild'[r].rows = SubSeq(full, (k + q) + 1, Len(full))
         /\ k + q \in Nat
    <3>1. rebuild'[r].at = "filling" /\ rebuild'[r].rows = SubSeq(left, q + 1, Len(left))
      BY <1>5, <1>6, <2>2
    <3>2. rebuild'[r].rows = SubSeq(full, k + q + 1, Len(full))
      BY <2>3, <3>1, Zenon
    <3>3. k + q \in Nat
      OBVIOUS
    <3>. QED
      BY <3>1, <3>2, <3>3
  <2>. QED
    BY <2>4, <2>7, <2>8, <2>9, <2>10 DEF Faithful
<1>. QED
  BY <1>1, <1>5, <1>7, RunKeepsInv

LEMMA FoundStays ==
    ASSUME UNCHANGED <<wording, document, token>>, AllFound
    PROVE  AllFound'
<1>1. \A i \in 1..Items : TranslationsOf(i)' = TranslationsOf(i)
  BY DEF TranslationsOf
<1>2. \A i \in 1..Items : RowsBefore(i)' = RowsBefore(i)
  BY DEF RowsBefore, MapThenSumSet, MapThenFoldSet, TranslationsOf
<1>3. \A i \in 1..Items : Straddles(i) => Straddles(i)'
  BY <1>1, <1>2 DEF Straddles
<1>. QED
  BY <1>3 DEF AllFound

LEMMA EndKeepsInv ==
    ASSUME SearchInv, NEW r \in Rebuild, FinishRebuild(r) \/ StopRebuild(r)
    PROVE  SearchInv'
<1>1. CASE FinishRebuild(r)
  <2>1. PICK j \in RebuildLocal : j = [at |-> "done"]
    BY DEF RebuildLocal
  <2>2. rebuild' = [rebuild EXCEPT ![r] = j] /\ UNCHANGED <<wording, document, token, disturbed>>
    BY <1>1, <2>1 DEF FinishRebuild
  <2>3. /\ rebuild' \in [Rebuild -> RebuildLocal] /\ rebuild'[r] = j
        /\ \A o \in Rebuild : o # r => rebuild'[o] = rebuild[o] /\ (Going(o)' <=> Going(o))
    BY <2>2, RebuildMoves
  <2>4. Going(r) /\ ~Going(r)'
    BY <1>1, <2>1, <2>3 DEF FinishRebuild, Going
  <2>5. SUFFICES ASSUME ~disturbed
                 PROVE  (\A o \in Rebuild : ~Going(o)') /\ AllFound'
    BY <2>2, <2>3 DEF SearchInv
  <2>6. \A o \in Rebuild : ~Going(o)'
    BY <2>3, <2>4, <2>5 DEF SearchInv
  <2>7. Faithful(r)
    BY <2>4, <2>5 DEF SearchInv
  <2>8. PICK full \in Seq(IndexRow), k \in Nat :
           /\ Lists(full) /\ k <= Len(full) /\ rebuild[r].rows = SubSeq(full, k + 1, Len(full))
           /\ Written(full, k)
    BY <1>1, <2>7 DEF Faithful, FinishRebuild
  <2>9. Len(SubSeq(full, k + 1, Len(full))) = 0
    BY <1>1, <2>8 DEF FinishRebuild
  <2>10. k = Len(full)
    BY <2>8, <2>9
  <2>11. AllFound
    BY <2>8, <2>10, WrittenFound
  <2>. QED
    BY <2>2, <2>6, <2>11, FoundStays
<1>2. CASE StopRebuild(r)
  <2>1. PICK j \in RebuildLocal : j = [at |-> "stopped"]
    BY DEF RebuildLocal
  <2>2. rebuild' = [rebuild EXCEPT ![r] = j] /\ wording' = wording /\ disturbed' = TRUE
    BY <1>2, <2>1 DEF StopRebuild
  <2>. QED
    BY <2>2, RebuildMoves DEF SearchInv
<1>. QED
  BY <1>1, <1>2

LEMMA SearchInductive == SearchSpec => []SearchInv
<1>1. SearchInit => SearchInv
  <2>. SUFFICES ASSUME SearchInit
                PROVE  SearchInv
    OBVIOUS
  <2>1. rebuild \in [Rebuild -> RebuildLocal]
    BY DEF SearchInit, RebuildLocal, Waiting
  <2>2. \A r \in Rebuild : rebuild[r].at = "waiting" /\ ~Going(r)
    BY DEF SearchInit, Waiting, Going
  <2>3. wording \in [1..Items -> [Tongue -> Nat]]
    BY DEF SearchInit
  <2>. QED
    BY <2>1, <2>2, <2>3 DEF SearchInit, SearchInv
<1>2. SearchInv /\ [SearchNext]_searchVars => SearchInv'
  <2>. SUFFICES ASSUME SearchInv, [SearchNext]_searchVars
                PROVE  SearchInv'
    OBVIOUS
  <2>1. ASSUME NEW i \in 1..Items, NEW g \in Tongue, Reword(i, g)
        PROVE  SearchInv'
    <3>1. wording' \in [1..Items -> [Tongue -> Nat]]
      BY <2>1 DEF Reword, SearchInv
    <3>. QED
      BY <2>1, <3>1 DEF Reword, SearchInv
  <2>2. CASE UNCHANGED searchVars
    <3>1. UNCHANGED <<wording, document, token, rebuild, disturbed>>
      BY <2>2 DEF searchVars
    <3>2. \A r \in Rebuild : Going(r)' <=> Going(r)
      BY <3>1 DEF Going
    <3>3. ASSUME NEW r \in Rebuild, Faithful(r)
          PROVE  Faithful(r)'
      <4>1. \A full : Lists(full)' <=> Lists(full)
        BY <3>1 DEF Lists, Ordered
      <4>2. \A full, k : Written(full, k)' <=> Written(full, k)
        BY <3>1 DEF Written
      <4>3. Nothing' = Nothing
        BY DEF Nothing
      <4>. QED
        BY <3>1, <3>3, <4>1, <4>2, <4>3 DEF Faithful
    <3>. QED
      BY <3>1, <3>2, <3>3, FoundStays DEF SearchInv
  <2>. QED
    BY <2>1, <2>2, LoadKeepsInv, EmptyKeepsInv, FillKeepsInv, EndKeepsInv DEF SearchNext
<1>. QED
  BY <1>1, <1>2, PTL DEF SearchSpec

\* Whatever rebuilds start, overlap and stop, and whatever is renamed beside
\* them: after a rebuild that ran to its end undisturbed the index has every
\* document, and all tokens but those of products that straddle two batches.
THEOREM IndexIsComplete == SearchSpec => []IndexComplete
<1>1. SearchInv => IndexComplete
  BY DEF SearchInv, IndexComplete, AllFound
<1>. QED
  BY <1>1, SearchInductive, PTL
================================================================================
