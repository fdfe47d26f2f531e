------------------------------- MODULE Homepage -------------------------------
(***************************************************************************)
(* The order of the sections of the home page:                             *)
(* app/routes/admin/homepage.tsx.                                          *)
(*                                                                         *)
(* A section is added below the last one and moved by changing places with *)
(* its neighbour.  Both read the positions first and write afterwards, so  *)
(* several members of staff, or one with two tabs, can cross.  The texts   *)
(* and the visibility of a section do not touch the order.                 *)
(***************************************************************************)
EXTENDS Integers, FiniteSets, FiniteSetsExt

CONSTANTS
    Section,        \* the sections that may ever be added
    Editing,        \* submissions by staff
    MaxPosition     \* bound: positions (the code counts in tens)

ASSUME HomepageAssumption == MaxPosition \in Nat

VARIABLES
    position,   \* position[s]: sort_order of the homepage_sections row, 0 when none
    editing,    \* editing[e]: locals of a submission
    mixed       \* history: a submission wrote after the positions it read had changed

homeVars == <<position, editing, mixed>>

Present(s) == position[s] # 0
Resting == [at |-> "resting"]

\* A write makes what the other submissions have read out of date.
AfterWriteBy(done) ==
    [e \in Editing |-> IF e \in done \/ editing[e] = Resting THEN Resting
                       ELSE [editing[e] EXCEPT !.stale = TRUE]]

HomeInit ==
    /\ position = [s \in Section |-> 0]
    /\ editing = [e \in Editing |-> Resting]
    /\ mixed = FALSE

LastPosition == Max({position[s] : s \in Section} \cup {0})

ReadLast(e, s) ==
    /\ editing[e] = Resting
    /\ ~Present(s)
    /\ \A o \in Editing : editing[o].at = "adding" => editing[o].section # s
    /\ editing' = [editing EXCEPT ![e] =
                      [at |-> "adding", section |-> s, last |-> LastPosition, stale |-> FALSE]]
    /\ UNCHANGED <<position, mixed>>

AddSection(e) ==
    LET j == editing[e] IN
    /\ j.at = "adding"
    /\ j.last < MaxPosition
    /\ position' = [position EXCEPT ![j.section] = j.last + 1]
    /\ mixed' = (mixed \/ j.stale)
    /\ editing' = AfterWriteBy({e})

\* The section's own position is read, then that of the nearest one beyond it;
\* the second query uses the first one's answer.
ReadSection(e, s, up) ==
    /\ editing[e] = Resting
    /\ Present(s)
    /\ editing' = [editing EXCEPT ![e] =
                      [at |-> "current", section |-> s, from |-> position[s], up |-> up, stale |-> FALSE]]
    /\ UNCHANGED <<position, mixed>>

Beyond(from, up) == {s \in Section : Present(s) /\ IF up THEN position[s] < from ELSE position[s] > from}
Nearest(from, up) ==
    {s \in Beyond(from, up) :
        \A t \in Beyond(from, up) : IF up THEN position[t] <= position[s] ELSE position[t] >= position[s]}

ReadNeighbour(e) ==
    LET j == editing[e] IN
    /\ j.at = "current"
    /\ \/ /\ Nearest(j.from, j.up) = {}
          /\ editing' = [editing EXCEPT ![e] = Resting]
       \/ \E n \in Nearest(j.from, j.up) :
             editing' = [editing EXCEPT ![e] =
                            [at |-> "swap", section |-> j.section, from |-> j.from,
                             other |-> n, to |-> position[n], stale |-> j.stale]]
    /\ UNCHANGED <<position, mixed>>

\* Two UPDATEs in one batch; a row removed meanwhile is not matched.
Placed(s, n) == IF Present(s) THEN n ELSE 0
Swapped_Half(j) == [position EXCEPT ![j.section] = Placed(j.section, j.to)]
Swapped(j) == [position EXCEPT ![j.section] = Placed(j.section, j.to),
                               ![j.other] = Placed(j.other, j.from)]

SwapSections(e) ==
    LET j == editing[e] IN
    /\ j.at = "swap"
    /\ position' = Swapped(j)
    /\ mixed' = (mixed \/ j.stale)
    /\ editing' = AfterWriteBy({e})

RemoveSection(s) ==
    /\ Present(s)
    /\ position' = [position EXCEPT ![s] = 0]
    /\ editing' = AfterWriteBy({})
    /\ UNCHANGED mixed

HomeNext ==
    \/ \E s \in Section : RemoveSection(s)
    \/ \E e \in Editing :
          \/ \E s \in Section : ReadLast(e, s) \/ \E up \in BOOLEAN : ReadSection(e, s, up)
          \/ AddSection(e)
          \/ ReadNeighbour(e)
          \/ SwapSections(e)

HomeSpec == HomeInit /\ [][HomeNext]_homeVars

--------------------------------------------------------------------------------
(* Properties.                                                               *)

HomeTypeOK ==
    /\ position \in [Section -> 0..MaxPosition]
    /\ mixed \in BOOLEAN
    /\ \A e \in Editing : editing[e].at \in {"resting", "adding", "current", "swap"}

\* Two sections with one position are drawn in no certain order and "move"
\* never separates them again.  Only submissions that crossed can cause it:
\* whatever is added, moved and removed one after the other, positions differ.
SectionsOrdered ==
    mixed \/ \A s, t \in Section : s # t /\ Present(s) /\ Present(t) => position[s] # position[t]
================================================================================
