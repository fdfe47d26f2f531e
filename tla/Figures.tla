-------------------------------- MODULE Figures --------------------------------
(***************************************************************************)
(* The arithmetic of money:                                                *)
(*                                                                         *)
(*   totals and VAT           app/domain/cart/totals.ts                    *)
(*   rounding                 app/domain/pricing/money.ts                  *)
(*   announced reductions     app/domain/pricing/resolve.ts                *)
(*                                                                         *)
(* Pure functions, so a question is asked once and answered once; the      *)
(* answers are compared with what they mean.  Amounts are whole cents.     *)
(* Division is in floating point in the code: a quotient is rounded after  *)
(* it, and these amounts are far too small for that to be a cent off,      *)
(* except where a whole percentage is floored (see Percentages).           *)
(***************************************************************************)
EXTENDS Integers, Sequences, FiniteSetsExt, SequencesExt

CONSTANTS
    Cents,          \* amounts
    Units,          \* quantities
    Rates,          \* VAT rates in basis points
    Baskets,        \* the lines a customer may have in the cart
    Instants,       \* times, in days; the last one is now
    Window,         \* days a reduction looks back (30 in the code)
    Null

Line == [price : Cents, units : Units, off : Cents]

ASSUME FiguresAssumption ==
    /\ Cents \subseteq Nat /\ Units \subseteq Nat /\ Rates \subseteq Nat
    /\ Baskets \subseteq Seq(Line)
    /\ Instants \subseteq Nat /\ \E last \in Instants : \A d \in Instants : d <= last
    /\ Window \in Nat \ {0}
    /\ Null \notin Nat

VARIABLES
    asked,      \* the question
    said        \* the answer, Null until it is given

figuresVars == <<asked, said>>

Clamp(n) == IF n < 0 THEN 0 ELSE n
\* Math.round(n / d) of a positive quotient: halves go up.
Rounded(n, d) == (2 * n + d) \div (2 * d)

--------------------------------------------------------------------------------
(* Totals.  A line is [price, units, off].                                   *)

LineTotal(line) == Clamp(line.price * line.units - line.off)
LineOff(line) == line.off
SumOver(f(_), lines) == FoldLeft(LAMBDA acc, line : acc + f(line), 0, lines)

\* A discount larger than the goods must not become a refund.
OrderDiscount_Whole(wanted, subtotal) == wanted
OrderDiscount(wanted, subtotal) == IF wanted > subtotal THEN subtotal ELSE wanted

\* Prices contain their VAT: gross = net * (1 + rate).
ExtractVat(gross, rate) == IF rate <= 0 THEN 0 ELSE Rounded(gross * rate, 10000 + rate)

Totals(q) ==
    LET subtotal == SumOver(LineTotal, q.lines)
        off      == OrderDiscount(q.off, subtotal)
        grand    == Clamp(subtotal - off) + q.shipping
    IN [subtotal |-> subtotal,
        discount |-> SumOver(LineOff, q.lines) + off,
        tax      |-> ExtractVat(grand, q.rate),
        grand    |-> grand]

TotalsQuestion ==
    [kind : {"totals"}, lines : Baskets, off : Cents, shipping : Cents, rate : Rates]

AnswerTotals ==
    /\ asked.kind = "totals"
    /\ said = Null
    /\ said' = Totals(asked)
    /\ UNCHANGED asked

--------------------------------------------------------------------------------
(* Reductions.  A price_history row is in force in [from, to).               *)

Overlaps_Anytime(p, now) == p.from < now
Overlaps(p, now) == p.from < now /\ (p.to = Null \/ p.to > now - Window)
LowestPriceInWindow(history, now) ==
    LET amounts == {p.amount : p \in {h \in history : Overlaps(h, now)}} IN
    IF amounts = {} THEN Null ELSE Min(amounts)

\* Math.floor((saving / prior) * 100): the product may fall just short of a
\* whole number it equals.
Percentages(saving, prior) ==
    LET whole == (100 * saving) \div prior IN
    IF (100 * saving) % prior = 0 /\ whole > 0 THEN {whole, whole - 1} ELSE {whole}

\* A percentage needs a previous price above the current one, a reference
\* price on record above it too, and at least one point of difference.
DiscountDisplay(current, previous, prior) ==
    IF previous = Null \/ previous <= current THEN {[strike |-> FALSE, percentage |-> Null]}
    ELSE IF prior = Null \/ prior <= current THEN {[strike |-> TRUE, percentage |-> Null]}
    ELSE {[strike |-> TRUE, percentage |-> IF n < 1 THEN Null ELSE n] :
             n \in Percentages(prior - current, prior)}

Point == {p \in [amount : Cents, from : Instants, to : Instants \cup {Null}] :
             p.to = Null \/ p.from < p.to}
ReductionQuestion ==
    [kind : {"reduction"}, history : {{}} \cup {{p} : p \in Point} \cup {{p, r} : p, r \in Point},
     current : Cents, previous : Cents \cup {Null}, now : {Max(Instants)}]

AnswerReduction ==
    /\ asked.kind = "reduction"
    /\ said = Null
    /\ said' \in DiscountDisplay(asked.current, asked.previous,
                                 LowestPriceInWindow(asked.history, asked.now))
    /\ UNCHANGED asked

--------------------------------------------------------------------------------
FiguresInit ==
    /\ asked \in TotalsQuestion \cup ReductionQuestion
    /\ said = Null

FiguresNext == AnswerTotals \/ AnswerReduction

FiguresSpec == FiguresInit /\ [][FiguresNext]_figuresVars

--------------------------------------------------------------------------------
(* Properties.                                                               *)

FiguresTypeOK ==
    /\ asked \in TotalsQuestion \cup ReductionQuestion
    /\ said = Null
       \/ said \in [subtotal : Nat, discount : Nat, tax : Nat, grand : Nat]
       \/ said \in [strike : BOOLEAN, percentage : 1..100 \cup {Null}]

\* The goods, less the discount announced, plus shipping, are what the customer
\* pays, whenever no single line is discounted by more than it costs; the VAT
\* stated is the one nearest to the exact part of that sum.
Gross(line) == line.price * line.units
WithinLine(line) == line.off <= Gross(line)
VatError(tax, gross, rate) ==
    LET exact == gross * rate
        meant == tax * (10000 + rate)
    IN  IF meant >= exact THEN meant - exact ELSE exact - meant
TotalsAddUp ==
    (asked.kind = "totals" /\ said # Null) =>
        /\ (\A i \in 1..Len(asked.lines) : WithinLine(asked.lines[i])) =>
              SumOver(Gross, asked.lines) - said.discount + asked.shipping = said.grand
        /\ said.grand >= asked.shipping
        /\ \A other \in {said.tax - 1, said.tax + 1} :
              VatError(said.tax, said.grand, asked.rate) <= VatError(other, said.grand, asked.rate)

\* The lowest price really charged on some day of the window.
Charged(history, days) == {p.amount : p \in {h \in history :
                              \E d \in days : h.from <= d /\ (h.to = Null \/ d < h.to)}}

\* A percentage is announced only against the lowest price that was charged in
\* the days before, and never says more than was really saved from it.
ReductionsNeverOverstate ==
    (asked.kind = "reduction" /\ said # Null) =>
        (said.percentage # Null =>
            LET days == {d \in 0..(asked.now - 1) : d >= asked.now - Window}
                charged == Charged(asked.history, days)
            IN /\ charged # {}
               /\ said.strike
               /\ said.percentage * Min(charged) <= 100 * (Min(charged) - asked.current))
================================================================================
