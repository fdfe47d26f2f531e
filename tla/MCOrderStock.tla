----------------------------- MODULE MCOrderStock -----------------------------
(***************************************************************************)
(* Small shops for TLC.  Two or three checkout requests compete for one or *)
(* two variants whose stock does not cover all of them.                    *)
(***************************************************************************)
EXTENDS OrderStock, TLC

CONSTANTS c1, c2, c3, v1, v2, k1, k2, r1, r2, u1

\* c1 wants two units of v1, c2 one: three units on the shelf serve both, two
\* serve either.
MCQtyOneVariant == [r \in Order \X Variant |-> IF r[1] = c2 THEN 1 ELSE 2]

\* c1 wants one unit of each variant, c2 one of v1 only: on shelves of one, the
\* second of them is refused v1.
MCQtyTwoLines == [r \in Order \X Variant |-> IF r[1] = c2 /\ r[2] = v2 THEN 0 ELSE 1]

\* c1 and its repeat, c3, want one unit, c2 wants two: on a shelf of two, c1 and
\* c3 would both fit, c1 and c2 do not.
MCQtyRepeat == [r \in Order \X Variant |-> IF r[1] = c2 THEN 2 ELSE 1]

\* Two customers, and a double click: c3 repeats the request of c1.
MCKeyOf == [c \in Order |-> IF c = c2 THEN k2 ELSE k1]

\* Sweeps are alike, and so are the requests of one user.
Alike == Permutations(Sweeper) \cup Permutations(Verification)

MCThree == [v \in Variant |-> 3]
MCTwo   == [v \in Variant |-> 2]
MCOne   == [v \in Variant |-> 1]

\* All verification requests come from one user with several tabs open.
MCOneUser == [r \in Verification |-> u1]
===============================================================================
