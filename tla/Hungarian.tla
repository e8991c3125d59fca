----------------------------- MODULE Hungarian ------------------------------
(***************************************************************************)
(* hungarian_solve: rows are added one at a time; for each, a tree of      *)
(* tight edges is grown from the new row until it reaches a free column,   *)
(* and the matching is changed along the path that leads there.            *)
(*                                                                         *)
(* Costs are natural numbers.  The variables are the function's, arrays    *)
(* with the virtual column 0 included; result is its return value.         *)
(***************************************************************************)
EXTENDS Integers, FiniteSets, FiniteSetsExt

CONSTANTS
  Rows,       \* number of rows of the caller's matrix
  Cols,       \* number of its columns
  Costs,      \* the costs it may hold
  Pad,        \* kPadCost
  Infinity    \* infinity(), above every number

N == IF Rows > Cols THEN Rows ELSE Cols

ASSUME HungarianAssumption ==
  /\ Rows \in Nat \ {0} /\ Cols \in Nat \ {0}
  /\ Costs \subseteq Nat
  /\ Pad \in Nat
  /\ Infinity \notin Int

VARIABLES
  a,      \* the costs, padded to a square
  u, v,   \* potentials of rows and columns
  p,      \* the row matched with each column, 0 when there is none
  way,    \* the column before each column on the path from the new row
  minv,   \* the least reduced cost found for each column
  used,   \* the columns in the tree
  i, j0,  \* the row being added, the column the tree has just reached
  pc

matching == <<p, way, j0, i>>
tree == <<u, v, minv, used>>
vars == <<a, matching, tree, pc>>

Index == 1..N
WithZero == 0..N

TypeOK ==
  /\ a \in [Index \X Index -> Costs \cup {Pad}]
  /\ u \in [WithZero -> Int] /\ v \in [WithZero -> Int]
  /\ p \in [WithZero -> WithZero]
  /\ way \in [WithZero -> WithZero]
  /\ minv \in [WithZero -> Int \cup {Infinity}]
  /\ used \subseteq WithZero
  /\ i \in 1..N + 1
  /\ j0 \in WithZero
  /\ pc \in {"row", "grow", "augment", "done"}

Padded(cost) ==
  [e \in Index \X Index |->
     IF e[1] <= Rows /\ e[2] <= Cols THEN cost[e] ELSE Pad]

Init ==
  /\ \E cost \in [(1..Rows) \X (1..Cols) -> Costs] : a = Padded(cost)
  /\ u = [k \in WithZero |-> 0]
  /\ v = [k \in WithZero |-> 0]
  /\ p = [k \in WithZero |-> 0]
  /\ way = [k \in WithZero |-> 0]
  /\ minv = [k \in WithZero |-> Infinity]
  /\ used = {}
  /\ i = 1
  /\ j0 = 0
  /\ pc = "row"

-----------------------------------------------------------------------------
RowsLeft == i <= N

\* The next row becomes the row of column 0, the root of a new tree.
StartRow ==
  /\ pc = "row" /\ RowsLeft /\ pc' = "grow"
  /\ p' = [p EXCEPT ![0] = i]
  /\ j0' = 0
  /\ minv' = [k \in WithZero |-> Infinity]
  /\ used' = {}
  /\ UNCHANGED <<a, u, v, way, i>>

Finish ==
  /\ pc = "row" /\ ~RowsLeft /\ pc' = "done"
  /\ UNCHANGED <<a, matching, tree>>


Reduced(r, k) == a[<<r, k>>] - u[r] - v[k]

\* Columns not in the tree, once j0 is.
Outside == Index \ (used \cup {j0})

\* The columns for which the row of j0 offers a cheaper way.
Cheaper == {k \in Outside : minv[k] = Infinity \/ Reduced(p[j0], k) < minv[k]}

LeastReduced(k) == IF k \in Cheaper THEN Reduced(p[j0], k) ELSE minv[k]

\* The first of the columns that are cheapest to reach.
IsNearest(k) ==
  /\ k \in Outside
  /\ \A l \in Outside : LeastReduced(k) <= LeastReduced(l)
  /\ \A l \in Outside : l < k => LeastReduced(k) < LeastReduced(l)

\* Mutant: the potentials of the rows in the tree are raised, those of the
\* columns are not lowered.
ShiftRowsOnly(delta) ==
  /\ u' = [r \in WithZero |->
             IF \E k \in used \cup {j0} : p[k] = r THEN u[r] + delta ELSE u[r]]
  /\ v' = v

\* The potentials change by delta so that an edge out of the tree gets tight.
Shift(delta) ==
  /\ u' = [r \in WithZero |->
             IF \E k \in used \cup {j0} : p[k] = r THEN u[r] + delta ELSE u[r]]
  /\ v' = [k \in WithZero |-> IF k \in used \cup {j0} THEN v[k] - delta ELSE v[k]]

\* One pass of the first inner loop.
Grow ==
  /\ pc = "grow"
  /\ used' = used \cup {j0}
  /\ way' = [k \in WithZero |-> IF k \in Cheaper THEN j0 ELSE way[k]]
  /\ \E j1 \in Outside :
       /\ IsNearest(j1)
       /\ Shift(LeastReduced(j1))
       /\ minv' = [k \in WithZero |->
                     IF k \in used \cup {j0} THEN minv[k]
                     ELSE LeastReduced(k) - LeastReduced(j1)]
       /\ j0' = j1
       /\ pc' = IF p[j1] = 0 THEN "augment" ELSE "grow"
  /\ UNCHANGED <<a, p, i>>

\* Mutant: the walk back misses the root.
PastRoot(j1) == j1 > N

\* The walk back has reached the root.
AtRoot(j1) == j1 = 0

\* One pass of the second inner loop: the edge before j0 is taken over.
Augment ==
  /\ pc = "augment"
  /\ LET j1 == way[j0]
     IN  /\ p' = [p EXCEPT ![j0] = p[j1]]
         /\ j0' = j1
         /\ pc' = IF AtRoot(j1) THEN "row" ELSE "augment"
         /\ i' = IF AtRoot(j1) THEN i + 1 ELSE i
  /\ UNCHANGED <<a, way, tree>>

Next == StartRow \/ Grow \/ Augment \/ Finish

Spec == Init /\ [][Next]_vars

\* The function runs on.
FairSpec == Spec /\ WF_vars(Next)

\* The returned column of a row, empty where the code returns -1.
Result(r) == {k \in 1..Cols : p[k] = r}

Assigned == {e \in (1..Rows) \X (1..Cols) : e[2] \in Result(e[1])}

-----------------------------------------------------------------------------
(***************************************************************************)
(* Properties.                                                             *)
(***************************************************************************)

\* The potentials never overrate an edge.
Feasible == \A r, k \in Index : u[r] + v[k] <= a[<<r, k>>]

\* Every matched edge is tight.
MatchedEdgesAreTight ==
  \A k \in Index : p[k] # 0 => u[p[k]] + v[k] = a[<<p[k], k>>]

\* What makes a full matching a cheapest one, through every shift of the tree
\* and while a path is being taken over.
DualFits == Feasible /\ MatchedEdgesAreTight

Cost(M) == MapThenSumSet(LAMBDA e : a[e], M)

OneToOne(M) == \A e, f \in M : e[1] = f[1] \/ e[2] = f[2] => e = f

\* The matchings that use as many rows and columns as the matrix has.
FullMatchings ==
  {M \in SUBSET ((1..Rows) \X (1..Cols)) :
     /\ Cardinality(M) = IF Rows < Cols THEN Rows ELSE Cols
     /\ OneToOne(M)}

\* The assignment returned is the reference definition's: full, and cheapest
\* of all that are.
Optimal ==
  pc = "done" =>
    /\ Assigned \in FullMatchings
    /\ \A M \in FullMatchings : Cost(Assigned) <= Cost(M)

\* The solver is right, and for the reason it is meant to be.
OptimalByDuals == DualFits /\ Optimal

\* Both inner loops end for every row: the tree reaches a free column, and the
\* walk back reaches the root.
Terminates == <>(pc = "done")

=============================================================================
