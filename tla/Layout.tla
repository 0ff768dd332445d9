-------------------------------- MODULE Layout --------------------------------
(***************************************************************************)
(* internal/layout/layout.go: Solve divides the rows of a grid among the   *)
(* panels of a dashboard.  It drops panels that cannot all have their      *)
(* minimum, gives the others what they would like, takes back what is too  *)
(* much, hands out what is left, and puts the rest into a gap.             *)
(*                                                                         *)
(* Solve is sequential; each turn of one of its loops is a step here, so   *)
(* that what the loops maintain can be stated.  Screen.tla calls it.       *)
(***************************************************************************)
EXTENDS Integers, Sequences, FiniteSets, Functions

VARIABLES
    specs,      \* Solve's argument: what each panel asks for
    rows,       \* Solve's argument: the rows there are
    live,       \* the panels that are placed
    height,     \* h: the rows each of them has
    used,       \* the rows given away
    pending,    \* the panels the present loop has not come to
    step        \* "drop", "squeeze", "grow", "solved", "refused"

args == <<specs, rows>>
solveVars == <<specs, rows, live, height, used, pending, step>>

PanelSpec == [reserve : BOOLEAN, min : Nat, nat : Nat, elastic : Nat, max : Nat,
              drop : Nat, rule : BOOLEAN]

minOf(s) == IF s.min > 0 THEN s.min ELSE 1
Natural(s) == IF s.nat < minOf(s) THEN minOf(s) ELSE s.nat

\* The rows a set of panels needs, and has.
sumMin(panels) == SumFunctionOnSet([i \in panels |-> minOf(specs[i])], panels)
sumNatural(panels) == SumFunctionOnSet([i \in panels |-> Natural(specs[i])], panels)
sumHeight(panels) == SumFunctionOnSet(height, panels)

\* Panel i goes before panel j, if one must: DropRank, then position.
Before(i, j) ==
    \/ specs[i].drop < specs[j].drop
    \/ specs[i].drop = specs[j].drop /\ i <= j

LeastValuable(panels) == CHOOSE i \in panels : \A j \in panels : Before(i, j)

\* Solve is called, past its check of the floor.
Begin(newSpecs, newRows) ==
    /\ specs' = newSpecs
    /\ rows' = newRows
    /\ live' = DOMAIN newSpecs
    /\ height' = [i \in {} |-> 0]
    /\ used' = 0
    /\ pending' = {}
    /\ step' = "drop"

-------------------------------------------------------------------------------
(* Step 5, first: drop until the minimums fit.  A definition X_Slip is the X    *)
(* below it with a slip a programmer could make, and no part of the             *)
(* specification.                                                               *)

\* Any panel may go.
Droppable_All == live

Droppable == {i \in live : ~specs[i].reserve}

Drop ==
    /\ step = "drop"
    /\ live # {}
    /\ sumMin(live) > rows
    /\ IF Droppable = {}
       THEN step' = "refused" /\ UNCHANGED live
       ELSE live' = live \ {LeastValuable(Droppable)} /\ UNCHANGED step
    /\ UNCHANGED <<args, height, used, pending>>

\* Nothing more to drop; steps 2 and 3, natural heights.
Dropped ==
    /\ step = "drop"
    /\ live = {} \/ sumMin(live) <= rows
    /\ IF live = {}
       THEN step' = "refused" /\ UNCHANGED <<height, used, pending>>
       ELSE /\ height' = [i \in live |-> Natural(specs[i])]
            /\ used' = sumNatural(live)
            /\ pending' = live
            /\ step' = "squeeze"
    /\ UNCHANGED <<args, live>>

-------------------------------------------------------------------------------
(* Shrink towards the minimums, the least valuable first.                       *)

\* The panel with most to give is taken, whatever its rank.
Squeeze_MostSlack ==
    /\ step = "squeeze"
    /\ used > rows
    /\ pending # {}
    /\ LET slack(i) == height[i] - minOf(specs[i])
           i == CHOOSE x \in pending : \A y \in pending : slack(x) >= slack(y)
           take == IF used - rows > slack(i) THEN slack(i) ELSE used - rows
       IN  /\ height' = [height EXCEPT ![i] = @ - take]
           /\ used' = used - take
           /\ pending' = pending \ {i}
    /\ UNCHANGED <<args, live, step>>

Squeeze ==
    /\ step = "squeeze"
    /\ used > rows
    /\ pending # {}
    /\ LET i == LeastValuable(pending)
           slack == height[i] - minOf(specs[i])
           take == IF used - rows > slack THEN slack ELSE used - rows
       IN  /\ height' = [height EXCEPT ![i] = @ - take]
           /\ used' = used - take
           /\ pending' = pending \ {i}
    /\ UNCHANGED <<args, live, step>>

Squeezed ==
    /\ step = "squeeze"
    /\ used <= rows \/ pending = {}
    /\ pending' = live
    /\ step' = "grow"
    /\ UNCHANGED <<args, live, height, used>>

-------------------------------------------------------------------------------
(* Step 4: leftover rows by elastic rank, each panel up to its cap.             *)

Elastic == {i \in pending : specs[i].elastic > 0}

bestElastic ==
    CHOOSE i \in Elastic :
        \A j \in Elastic : \/ specs[i].elastic > specs[j].elastic
                           \/ specs[i].elastic = specs[j].elastic /\ i <= j

\* What panel i can take of the rows left over: none or less when it is at its cap.
Room(i) ==
    LET left == rows - used
    IN  IF specs[i].max > 0 /\ specs[i].max - height[i] < left
        THEN specs[i].max - height[i]
        ELSE left

\* The cap is ignored.
Grow_Uncapped ==
    /\ step = "grow"
    /\ used < rows
    /\ Elastic # {}
    /\ height' = [height EXCEPT ![bestElastic] = @ + rows - used]
    /\ used' = rows
    /\ pending' = pending \ {bestElastic}
    /\ UNCHANGED <<args, live, step>>

\* A panel at its cap is passed over without being marked as taken.
Grow_Again ==
    /\ step = "grow"
    /\ used < rows
    /\ Elastic # {}
    /\ IF Room(bestElastic) > 0
       THEN /\ height' = [height EXCEPT ![bestElastic] = @ + Room(bestElastic)]
            /\ used' = used + Room(bestElastic)
            /\ pending' = pending \ {bestElastic}
       ELSE UNCHANGED <<height, used, pending>>
    /\ UNCHANGED <<args, live, step>>

Grow ==
    /\ step = "grow"
    /\ used < rows
    /\ Elastic # {}
    /\ IF Room(bestElastic) > 0
       THEN /\ height' = [height EXCEPT ![bestElastic] = @ + Room(bestElastic)]
            /\ used' = used + Room(bestElastic)
       ELSE UNCHANGED <<height, used>>
    /\ pending' = pending \ {bestElastic}
    /\ UNCHANGED <<args, live, step>>

Grown ==
    /\ step = "grow"
    /\ used >= rows \/ Elastic = {}
    /\ step' = "solved"
    /\ UNCHANGED <<args, live, height, used, pending>>

Solve == Drop \/ Dropped \/ Squeeze \/ Squeezed \/ Grow \/ Grown

-------------------------------------------------------------------------------
(* The frame Solve returns.                                                     *)

Gap == rows - used

\* The reserved panels at the end, above which the gap goes.
Trailing == {i \in live : \A j \in live : j >= i => specs[j].reserve}

\* Every region's first row and height, that of the gap among them.
Regions ==
    LET above(i) == {j \in live : j < i}
        gapAt == sumHeight(live \ Trailing)
        panel(i) == [y |-> sumHeight(above(i)) + (IF i \in Trailing THEN Gap ELSE 0),
                     h |-> height[i]]
    IN  {[panel |-> i, y |-> panel(i).y, h |-> panel(i).h] : i \in live}
            \cup (IF Gap > 0 THEN {[panel |-> -1, y |-> gapAt, h |-> Gap]} ELSE {})

===============================================================================
