----------------------- MODULE TrackAssociationProofs -----------------------
(***************************************************************************)
(* The assignment of measurements to tracks, for every matrix of costs:    *)
(* the potentials stay feasible and the matched edges tight, so the        *)
(* assignment returned is a cheapest one, and what passes the gate of it   *)
(* is the best pairing inside the gates.                                   *)
(***************************************************************************)
EXTENDS TrackAssociation, Induction

(***************************************************************************)
(* Searching: a row has been added and has no column yet.  It is held by   *)
(* column 0 then; while the path is taken over, the column the walk is at  *)
(* holds a row that has already moved on.                                  *)
(***************************************************************************)
Searching == pc \in {"grow", "augment"}

Held == IF pc = "grow" THEN WithZero
        ELSE IF pc = "augment" THEN WithZero \ {j0}
        ELSE Index

Entered == IF Searching THEN 1..i ELSE 1..i - 1

RowsAreHeldOnce ==
  /\ \A k, l \in Held : p[k] = p[l] /\ p[k] # 0 => k = l
  /\ \A k \in Held : p[k] \in Entered \cup {0}
  /\ \A r \in Entered : \E k \in Held : p[k] = r

Places ==
  /\ Searching => i <= N
  /\ pc = "augment" => j0 # 0
  /\ pc = "done" => i = N + 1

\* What is known of the columns not in the tree: the cheapest way to each from
\* a row of the tree, once one row has been looked at.
TreeGrows ==
  pc = "grow" =>
    /\ j0 \notin used /\ 0 \in used \cup {j0}
    /\ \A k \in used \cup {j0} : p[k] # 0
    /\ used = {} => \A k \in WithZero : minv[k] = Infinity
    /\ used # {} =>
         \A k \in Outside :
           /\ minv[k] \in Int
           /\ way[k] \in used /\ minv[k] = Reduced(p[way[k]], k)
           /\ \A l \in used : minv[k] <= Reduced(p[l], k)

\* The tree's edges are tight, those not yet taken over.  The rank of a column
\* is above that of the column before it: the walk back meets none twice.
TreeIsTight ==
  Searching =>
    \E rank \in [WithZero -> Nat] :
      /\ pc = "grow" => \A k \in used : rank[k] < rank[j0]
      /\ \A k \in (used \cup {j0}) \ {0} :
           rank[k] <= rank[j0] =>
             /\ way[k] \in used /\ rank[way[k]] < rank[k]
             /\ u[p[way[k]]] + v[k] = a[<<p[way[k]], k>>]

HungarianInv ==
  /\ TypeOK
  /\ RowsAreHeldOnce
  /\ Places
  /\ TreeGrows
  /\ TreeIsTight
  /\ DualFits

-----------------------------------------------------------------------------
LEMMA Sides ==
  /\ N \in Nat \ {0} /\ Rows <= N /\ Cols <= N
  /\ Rows \in Nat \ {0} /\ Cols \in Nat \ {0}
  /\ Index \subseteq WithZero /\ 0 \in WithZero /\ 0 \notin Index
  /\ WithZero = Index \cup {0}
  /\ WithZero \subseteq Nat /\ Index = 1..N /\ WithZero = 0..N
  /\ Costs \subseteq Int /\ Pad \in Nat /\ Infinity \notin Int
BY HungarianAssumption DEF N, Index, WithZero

\* Column 0 is the one there is besides the matrix's.
LEMMA VirtualColumn ==
  /\ \A k \in Index : k \in WithZero /\ k # 0
  /\ \A k \in WithZero : k # 0 => k \in Index
  /\ 0 \in WithZero
BY Sides

LEMMA Values ==
  ASSUME TypeOK
  PROVE  /\ \A r, k \in Index : a[<<r, k>>] \in Nat
         /\ \A k \in WithZero : /\ u[k] \in Int /\ v[k] \in Int
                               /\ p[k] \in WithZero /\ way[k] \in WithZero
         /\ \A k \in used \cup {j0} : k \in WithZero
<1>1. ASSUME NEW r \in Index, NEW k \in Index
      PROVE  a[<<r, k>>] \in Nat
  <2>1. a \in [Index \X Index -> Costs \cup {Pad}] /\ Costs \cup {Pad} \subseteq Nat
    BY HungarianAssumption DEF TypeOK
  <2>2. <<r, k>> \in Index \X Index
    OBVIOUS
  <2>3. QED
    BY <2>1, <2>2
<1>2. QED
  BY <1>1 DEF TypeOK

LEMMA HungarianStarts == ASSUME Init PROVE HungarianInv
<1>1. PICK cost \in [(1..Rows) \X (1..Cols) -> Costs] : a = Padded(cost)
  BY DEF Init
<1>2. a \in [Index \X Index -> Costs \cup {Pad}]
  <2>1. ASSUME NEW e \in Index \X Index
        PROVE  (IF e[1] <= Rows /\ e[2] <= Cols THEN cost[e] ELSE Pad) \in Costs \cup {Pad}
    <3>1. CASE e[1] <= Rows /\ e[2] <= Cols
      <4>1. e \in (1..Rows) \X (1..Cols)
        BY <3>1, Sides
      <4>2. QED
        BY <1>1, <3>1, <4>1
    <3>2. QED
      BY <3>1
  <2>2. QED
    BY <1>1, <2>1 DEF Padded
<1>3. TypeOK
  BY <1>2, Sides DEF Init, TypeOK
<1>4. \A r, k \in Index : a[<<r, k>>] \in Nat
  BY <1>2, HungarianAssumption
<1>5. DualFits
  BY <1>4, Sides DEF Init, DualFits, Feasible, MatchedEdgesAreTight
<1>6. RowsAreHeldOnce /\ Places /\ TreeGrows /\ TreeIsTight
  BY Sides DEF Init, RowsAreHeldOnce, Places, TreeGrows, TreeIsTight, Held, Entered,
               Searching
<1>7. QED
  BY <1>3, <1>5, <1>6 DEF HungarianInv

LEMMA StartRowKeeps ==
  ASSUME HungarianInv, StartRow
  PROVE  HungarianInv'
<1>1. /\ pc = "row" /\ i <= N /\ pc' = "grow" /\ j0' = 0 /\ used' = {}
      /\ p' = [p EXCEPT ![0] = i] /\ minv' = [k \in WithZero |-> Infinity]
      /\ a' = a /\ u' = u /\ v' = v /\ way' = way /\ i' = i
      /\ i \in 1..N + 1 /\ p \in [WithZero -> WithZero]
  BY DEF StartRow, RowsLeft, HungarianInv, TypeOK
<1>2. TypeOK'
  BY <1>1, Sides, SMTT(30) DEF HungarianInv, TypeOK
<1>3. RowsAreHeldOnce'
  <2>1. /\ \A k, l \in Index : p[k] = p[l] /\ p[k] # 0 => k = l
        /\ \A k \in Index : p[k] \in 1..i - 1 \cup {0}
        /\ \A r \in 1..i - 1 : \E k \in Index : p[k] = r
    BY <1>1 DEF HungarianInv, RowsAreHeldOnce, Held, Entered, Searching
  <2>2. Held' = WithZero /\ Entered' = 1..i
    BY <1>1 DEF Held, Entered, Searching, WithZero
  <2>3. p'[0] = i /\ \A k \in Index : p'[k] = p[k]
    BY <1>1, Sides
  <2>4. \A k \in Index : p'[k] # i
    BY <1>1, <2>1, <2>3
  <2>5. \A k, l \in WithZero : p'[k] = p'[l] /\ p'[k] # 0 => k = l
    BY <2>1, <2>3, <2>4, Sides
  <2>6. \A k \in WithZero : p'[k] \in 1..i \cup {0}
    BY <1>1, <2>1, <2>3, Sides
  <2>7. ASSUME NEW r \in 1..i PROVE \E k \in WithZero : p'[k] = r
    <3>1. CASE r = i
      BY <2>3, <3>1, Sides
    <3>2. CASE r # i
      <4>1. r \in 1..i - 1
        BY <1>1, <3>2
      <4>2. QED
        BY <2>1, <2>3, <4>1, Sides
    <3>3. QED
      BY <3>1, <3>2
  <2>8. QED
    BY <2>2, <2>5, <2>6, <2>7 DEF RowsAreHeldOnce
<1>4. Places'
  BY <1>1 DEF Places, Searching, N
<1>5. TreeGrows'
  BY <1>1, Sides DEF TreeGrows, Outside, WithZero
<1>6. TreeIsTight'
  <2>1. [k \in WithZero |-> 0] \in [WithZero -> Nat] /\ WithZero' = WithZero
    BY DEF WithZero, N
  <2>2. (used' \cup {j0'}) \ {0} = {} /\ used' = {}
    BY <1>1
  <2>3. QED
    BY <2>1, <2>2 DEF TreeIsTight
<1>7. DualFits'
  BY <1>1, Sides DEF HungarianInv, DualFits, Feasible, MatchedEdgesAreTight, Index
<1>8. QED
  BY <1>2, <1>3, <1>4, <1>5, <1>6, <1>7 DEF HungarianInv

LEMMA FinishKeeps ==
  ASSUME HungarianInv, Finish
  PROVE  HungarianInv'
<1>1. /\ pc = "row" /\ ~(i <= N) /\ pc' = "done"
      /\ a' = a /\ u' = u /\ v' = v /\ p' = p /\ way' = way /\ i' = i /\ j0' = j0
      /\ minv' = minv /\ used' = used
  BY DEF Finish, RowsLeft, matching, tree
<1>2. TypeOK'
  BY <1>1 DEF HungarianInv, TypeOK, Index, WithZero, N
<1>3. RowsAreHeldOnce'
  <2>1. Held' = Held /\ Entered' = Entered
    BY <1>1 DEF Held, Entered, Searching, Index, N
  <2>2. QED
    BY <1>1, <2>1 DEF HungarianInv, RowsAreHeldOnce
<1>4. Places'
  BY <1>1, Sides DEF HungarianInv, TypeOK, Places, Searching
<1>5. TreeGrows' /\ TreeIsTight'
  BY <1>1 DEF TreeGrows, TreeIsTight, Searching
<1>6. DualFits'
  BY <1>1 DEF HungarianInv, DualFits, Feasible, MatchedEdgesAreTight, Index
<1>7. QED
  BY <1>2, <1>3, <1>4, <1>5, <1>6 DEF HungarianInv

-----------------------------------------------------------------------------
\* The part of a pass of the first inner loop that the other parts rest on: the
\* nearest column is as near as any to every row of the tree, and no nearer to
\* one of them than its potentials allow.
LEMMA NearestColumn ==
  ASSUME HungarianInv, pc = "grow", NEW j1 \in Outside, IsNearest(j1)
  PROVE  /\ LeastReduced(j1) \in Nat
         /\ \A k \in Outside :
              /\ LeastReduced(k) \in Int
              /\ LeastReduced(j1) <= LeastReduced(k)
              /\ \A l \in used \cup {j0} : LeastReduced(k) <= Reduced(p[l], k)
              /\ LET w == IF k \in Cheaper THEN j0 ELSE way[k]
                 IN  w \in used \cup {j0} /\ LeastReduced(k) = Reduced(p[w], k)
<1>1. /\ TypeOK /\ RowsAreHeldOnce /\ Feasible
      /\ \A k \in used \cup {j0} : p[k] # 0
      /\ used = {} => \A k \in WithZero : minv[k] = Infinity
      /\ used # {} =>
           \A k \in Outside :
             /\ minv[k] \in Int
             /\ way[k] \in used /\ minv[k] = Reduced(p[way[k]], k)
             /\ \A l \in used : minv[k] <= Reduced(p[l], k)
  BY DEF HungarianInv, TreeGrows, DualFits
<1>2. \A r, k \in Index : Reduced(r, k) \in Nat
  <2>1. ASSUME NEW r \in Index, NEW k \in Index PROVE Reduced(r, k) \in Nat
    <3>1. a[<<r, k>>] \in Int /\ u[r] \in Int /\ v[k] \in Int
      BY <1>1, Values, VirtualColumn
    <3>2. u[r] + v[k] <= a[<<r, k>>]
      BY <1>1 DEF Feasible
    <3>3. QED
      BY <3>1, <3>2 DEF Reduced
  <2>2. QED
    BY <2>1
<1>3. \A k \in Outside : k \in Index
  BY DEF Outside
<1>4. \A k \in used \cup {j0} : k \in WithZero /\ p[k] \in Index
  BY <1>1, Sides DEF TypeOK
<1>5. ASSUME NEW k \in Outside
      PROVE  /\ LeastReduced(k) \in Int
             /\ \A l \in used \cup {j0} : LeastReduced(k) <= Reduced(p[l], k)
             /\ LET w == IF k \in Cheaper THEN j0 ELSE way[k]
                IN  w \in used \cup {j0} /\ LeastReduced(k) = Reduced(p[w], k)
  <2>1. \A l \in used \cup {j0} : Reduced(p[l], k) \in Nat
    BY <1>2, <1>3, <1>4
  <2>2. CASE k \in Cheaper
    <3>1. LeastReduced(k) = Reduced(p[j0], k)
      BY <2>2 DEF LeastReduced
    <3>2. minv[k] = Infinity \/ Reduced(p[j0], k) < minv[k]
      BY <2>2 DEF Cheaper
    <3>3. ASSUME NEW l \in used PROVE LeastReduced(k) <= Reduced(p[l], k)
      <4>1. minv[k] \in Int /\ minv[k] <= Reduced(p[l], k)
        BY <1>1, <3>3
      <4>2. Reduced(p[j0], k) < minv[k]
        BY <3>2, <4>1, Sides
      <4>3. QED
        BY <2>1, <3>1, <4>1, <4>2
    <3>4. QED
      BY <2>1, <2>2, <3>1, <3>3
  <2>3. CASE k \notin Cheaper
    <3>1. LeastReduced(k) = minv[k]
      BY <2>3 DEF LeastReduced
    <3>2. minv[k] # Infinity /\ ~(Reduced(p[j0], k) < minv[k])
      BY <2>3 DEF Cheaper
    <3>3. used # {}
      BY <1>1, <1>3, <3>2, Sides
    <3>4. minv[k] \in Int /\ minv[k] <= Reduced(p[j0], k)
      BY <1>1, <2>1, <3>2, <3>3
    <3>5. QED
      BY <1>1, <2>3, <3>1, <3>3, <3>4
  <2>4. QED
    BY <2>2, <2>3
<1>6. LeastReduced(j1) \in Nat
  <2>1. PICK w \in used \cup {j0} : LeastReduced(j1) = Reduced(p[w], j1)
    BY <1>5
  <2>2. QED
    BY <1>2, <1>3, <1>4, <2>1
<1>7. \A k \in Outside : LeastReduced(j1) <= LeastReduced(k)
  BY DEF IsNearest
<1>8. QED
  BY <1>5, <1>6, <1>7

\* What the shift leaves as it is: the reduced costs inside the tree and outside
\* it; from the tree's rows to the outside they all fall by delta.
LEMMA ShiftOfReduced ==
  ASSUME HungarianInv, pc = "grow", NEW delta \in Nat, Shift(delta), a' = a
  PROVE  /\ u' \in [WithZero -> Int] /\ v' \in [WithZero -> Int]
         /\ \A k \in used \cup {j0} : u'[p[k]] = u[p[k]] + delta
         /\ \A k \in used \cup {j0} : v'[k] = v[k] - delta
         /\ \A k \in WithZero \ (used \cup {j0}) : v'[k] = v[k]
         /\ \A r \in WithZero :
              u'[r] = u[r] \/ \E k \in used \cup {j0} : p[k] = r
         /\ \A k \in WithZero \ (used \cup {j0}) : p[k] # 0 => u'[p[k]] = u[p[k]]
<1>1. /\ u \in [WithZero -> Int] /\ v \in [WithZero -> Int]
      /\ p \in [WithZero -> WithZero] /\ used \subseteq WithZero /\ j0 \in WithZero
  BY DEF HungarianInv, TypeOK
<1>2. \A k, l \in WithZero : p[k] = p[l] /\ p[k] # 0 => k = l
  BY DEF HungarianInv, RowsAreHeldOnce, Held
<1>3. \A r \in WithZero :
        u'[r] = IF \E k \in used \cup {j0} : p[k] = r THEN u[r] + delta ELSE u[r]
  BY DEF Shift
<1>4. \A k \in WithZero : v'[k] = IF k \in used \cup {j0} THEN v[k] - delta ELSE v[k]
  BY DEF Shift
<1>5. u' \in [WithZero -> Int] /\ v' \in [WithZero -> Int]
  BY <1>1 DEF Shift
<1>6. \A k \in used \cup {j0} : k \in WithZero /\ p[k] \in WithZero
  BY <1>1
<1>7. \A k \in WithZero \ (used \cup {j0}) : p[k] # 0 => u'[p[k]] = u[p[k]]
  BY <1>1, <1>2, <1>3, <1>6
<1>8. QED
  BY <1>3, <1>4, <1>5, <1>6, <1>7

LEMMA ShiftKeepsFeasible ==
  ASSUME HungarianInv, Grow
  PROVE  DualFits'
<1>1. PICK j1 \in Outside : IsNearest(j1) /\ Shift(LeastReduced(j1))
  BY DEF Grow
<1> DEFINE delta == LeastReduced(j1)
<1>2. pc = "grow" /\ a' = a /\ p' = p /\ Index' = Index
  BY DEF Grow, Index, N
<1>3. /\ delta \in Nat
      /\ \A k \in Outside : \A l \in used \cup {j0} : delta <= Reduced(p[l], k)
  <2>1. /\ delta \in Nat
        /\ \A k \in Outside :
              /\ LeastReduced(k) \in Int
              /\ delta <= LeastReduced(k)
              /\ \A l \in used \cup {j0} : LeastReduced(k) <= Reduced(p[l], k)
    BY <1>1, <1>2, NearestColumn
  <2>2. ASSUME NEW k \in Outside, NEW l \in used \cup {j0}
        PROVE  Reduced(p[l], k) \in Int
    <3>1. p[l] \in Index /\ k \in Index
      BY <1>2, Values, VirtualColumn DEF HungarianInv, TreeGrows, Outside
    <3>2. a[<<p[l], k>>] \in Int /\ u[p[l]] \in Int /\ v[k] \in Int
      BY <3>1, Values, VirtualColumn DEF HungarianInv
    <3>3. QED
      BY <3>2 DEF Reduced
  <2> HIDE DEF delta
  <2>3. QED
    BY <2>1, <2>2
<1>4. Shift(delta)
  BY <1>1
<1> HIDE DEF delta
<1>5. /\ u' \in [WithZero -> Int] /\ v' \in [WithZero -> Int]
      /\ \A k \in used \cup {j0} : u'[p[k]] = u[p[k]] + delta
      /\ \A k \in used \cup {j0} : v'[k] = v[k] - delta
      /\ \A k \in WithZero \ (used \cup {j0}) : v'[k] = v[k]
      /\ \A r \in WithZero :
           u'[r] = u[r] \/ \E k \in used \cup {j0} : p[k] = r
      /\ \A k \in WithZero \ (used \cup {j0}) : p[k] # 0 => u'[p[k]] = u[p[k]]
  BY <1>2, <1>3, <1>4, ShiftOfReduced
<1>6. /\ u \in [WithZero -> Int] /\ v \in [WithZero -> Int]
      /\ p \in [WithZero -> WithZero] /\ used \subseteq WithZero /\ j0 \in WithZero
      /\ \A r, k \in Index : a[<<r, k>>] \in Int
      /\ \A r, k \in Index : u[r] + v[k] <= a[<<r, k>>]
      /\ \A k \in Index : p[k] # 0 => u[p[k]] + v[k] = a[<<p[k], k>>]
  <2>1. \A r, k \in Index : a[<<r, k>>] \in Nat
    BY Values DEF HungarianInv
  <2>2. QED
    BY <2>1 DEF HungarianInv, TypeOK, DualFits, Feasible, MatchedEdgesAreTight
<1>7. ASSUME NEW r \in Index, NEW k \in Index
      PROVE  u'[r] + v'[k] <= a[<<r, k>>]
  <2>1. /\ u[r] \in Int /\ v[k] \in Int /\ a[<<r, k>>] \in Int
        /\ u[r] + v[k] <= a[<<r, k>>] /\ r \in WithZero /\ k \in WithZero
    BY <1>6, Sides
  <2>2. CASE \E l \in used \cup {j0} : p[l] = r
    <3>1. PICK l \in used \cup {j0} : p[l] = r
      BY <2>2
    <3>2. u'[r] = u[r] + delta
      BY <1>5, <3>1
    <3>3. CASE k \in used \cup {j0}
      <4>1. v'[k] = v[k] - delta
        BY <1>5, <3>3
      <4>2. QED
        BY <1>3, <2>1, <3>2, <4>1
    <3>4. CASE k \notin used \cup {j0}
      <4>1. v'[k] = v[k] /\ k \in Outside
        BY <1>5, <2>1, <3>4 DEF Outside
      <4>2. delta <= a[<<r, k>>] - u[r] - v[k]
        BY <1>3, <3>1, <4>1 DEF Reduced
      <4>3. QED
        BY <1>3, <2>1, <3>2, <4>1, <4>2
    <3>5. QED
      BY <3>3, <3>4
  <2>3. CASE ~\E l \in used \cup {j0} : p[l] = r
    <3>1. u'[r] = u[r]
      BY <1>5, <2>1, <2>3
    <3>2. v'[k] = v[k] \/ v'[k] = v[k] - delta
      BY <1>5, <2>1
    <3>3. QED
      BY <1>3, <2>1, <3>1, <3>2
  <2>4. QED
    BY <2>2, <2>3
<1>8. ASSUME NEW k \in Index, p[k] # 0
      PROVE  u'[p[k]] + v'[k] = a[<<p[k], k>>]
  <2>1. /\ k \in WithZero /\ p[k] \in WithZero /\ u[p[k]] \in Int /\ v[k] \in Int
        /\ u[p[k]] + v[k] = a[<<p[k], k>>]
    BY <1>6, <1>8, Sides
  <2>2. CASE k \in used \cup {j0}
    <3>1. u'[p[k]] = u[p[k]] + delta /\ v'[k] = v[k] - delta
      BY <1>5, <2>2
    <3>2. QED
      BY <1>3, <2>1, <3>1
  <2>3. CASE k \notin used \cup {j0}
    <3>1. u'[p[k]] = u[p[k]] /\ v'[k] = v[k]
      BY <1>5, <1>8, <2>1, <2>3
    <3>2. QED
      BY <2>1, <3>1
  <2>4. QED
    BY <2>2, <2>3
<1>9. QED
  BY <1>2, <1>7, <1>8 DEF DualFits, Feasible, MatchedEdgesAreTight

LEMMA GrowKeeps ==
  ASSUME HungarianInv, Grow
  PROVE  HungarianInv'
<1>1. PICK j1 \in Outside :
        /\ IsNearest(j1) /\ Shift(LeastReduced(j1))
        /\ minv' = [k \in WithZero |->
                      IF k \in used \cup {j0} THEN minv[k]
                      ELSE LeastReduced(k) - LeastReduced(j1)]
        /\ j0' = j1 /\ pc' = IF p[j1] = 0 THEN "augment" ELSE "grow"
  BY DEF Grow
<1>2. /\ pc = "grow" /\ used' = used \cup {j0}
      /\ way' = [k \in WithZero |-> IF k \in Cheaper THEN j0 ELSE way[k]]
      /\ a' = a /\ p' = p /\ i' = i
      /\ Index' = Index /\ WithZero' = WithZero
  BY DEF Grow, Index, WithZero, N
<1> DEFINE delta == LeastReduced(j1)
           reached == used \cup {j0}
           nearest == [k \in WithZero |-> IF k \in Cheaper THEN j0 ELSE way[k]]
<1>3. /\ delta \in Nat
      /\ \A k \in Outside :
           /\ LeastReduced(k) \in Int
           /\ delta <= LeastReduced(k)
           /\ \A l \in reached : LeastReduced(k) <= Reduced(p[l], k)
           /\ nearest[k] \in reached /\ LeastReduced(k) = Reduced(p[nearest[k]], k)
  <2>1. \A k \in Outside : k \in WithZero
    BY Sides DEF Outside
  <2>2. /\ LeastReduced(j1) \in Nat
        /\ \A k \in Outside :
              /\ LeastReduced(k) \in Int
              /\ LeastReduced(j1) <= LeastReduced(k)
              /\ \A l \in used \cup {j0} : LeastReduced(k) <= Reduced(p[l], k)
              /\ LET w == IF k \in Cheaper THEN j0 ELSE way[k]
                 IN  w \in used \cup {j0} /\ LeastReduced(k) = Reduced(p[w], k)
    BY <1>1, <1>2, NearestColumn
  <2>3. QED
    BY <2>1, <2>2
<1>4. Shift(delta)
  BY <1>1
<1>5. \A k \in WithZero : k \notin reached => minv'[k] = LeastReduced(k) - delta
  BY <1>1
<1>6. j1 \in Index /\ j1 \notin reached /\ j1 \in Outside
  BY DEF Outside
<1>7. way' = nearest /\ used' = reached
  BY <1>2
<1> HIDE DEF delta
<1>8. /\ u' \in [WithZero -> Int] /\ v' \in [WithZero -> Int]
      /\ \A k \in reached : u'[p[k]] = u[p[k]] + delta
      /\ \A k \in reached : v'[k] = v[k] - delta
      /\ \A k \in WithZero \ reached : v'[k] = v[k]
  BY <1>2, <1>3, <1>4, ShiftOfReduced
<1>9. /\ TypeOK /\ RowsAreHeldOnce /\ TreeGrows /\ TreeIsTight /\ Places
      /\ Searching /\ 0 \in reached
      /\ \A k \in reached : k \in WithZero /\ p[k] \in Index
  <2>1. TypeOK /\ RowsAreHeldOnce /\ TreeGrows /\ TreeIsTight /\ Places
    BY DEF HungarianInv
  <2>2. Searching /\ 0 \in reached /\ \A k \in reached : p[k] # 0
    BY <1>2, <2>1 DEF Searching, TreeGrows
  <2>3. QED
    BY <2>1, <2>2, Values, VirtualColumn
<1>10. nearest \in [WithZero -> WithZero]
  BY <1>9 DEF TypeOK
<1> HIDE DEF nearest
\* The reduced costs of the columns outside, seen from the tree, all fall by delta.
<1> DEFINE reducedNext(l, k) == a'[<<p'[l], k>>] - u'[p'[l]] - v'[k]
<1>11. \A k \in Index \ reached : \A l \in reached :
         reducedNext(l, k) = Reduced(p[l], k) - delta
  <2>1. ASSUME NEW k \in Index \ reached, NEW l \in reached
        PROVE  reducedNext(l, k) = Reduced(p[l], k) - delta
    <3>1. /\ a[<<p[l], k>>] \in Nat /\ u[p[l]] \in Int /\ v[k] \in Int
      BY <1>9, Values, VirtualColumn
    <3>2. u'[p[l]] = u[p[l]] + delta /\ v'[k] = v[k]
      BY <1>8, VirtualColumn
    <3>3. QED
      BY <1>2, <1>3, <3>1, <3>2 DEF Reduced
  <2>2. QED
    BY <2>1
<1>12. TypeOK'
  <2>1. minv' \in [WithZero -> Int \cup {Infinity}]
    <3>1. ASSUME NEW k \in WithZero, k \notin reached
          PROVE  LeastReduced(k) - delta \in Int
      <4>1. k \in Outside
        BY <1>9, <3>1, VirtualColumn DEF Outside
      <4>2. QED
        BY <1>3, <4>1
    <3>2. \A k \in WithZero : minv[k] \in Int \cup {Infinity}
      BY <1>9 DEF TypeOK
    <3>3. QED
      BY <1>1, <3>1, <3>2 DEF delta
  <2>2. pc' \in {"row", "grow", "augment", "done"} /\ j0' \in WithZero
    BY <1>1, <1>6, VirtualColumn
  <2>3. used' \subseteq WithZero
    BY <1>7, <1>9
  <2>4. a' \in [Index \X Index -> Costs \cup {Pad}] /\ p' \in [WithZero -> WithZero]
        /\ i' \in 1..N + 1
    BY <1>2, <1>9 DEF TypeOK
  <2>5. QED
    BY <1>2, <1>7, <1>8, <1>10, <2>1, <2>2, <2>3, <2>4 DEF TypeOK, N
<1>13. RowsAreHeldOnce'
  <2>1. /\ \A k, l \in WithZero : p[k] = p[l] /\ p[k] # 0 => k = l
        /\ \A k \in WithZero : p[k] \in 1..i \cup {0}
        /\ \A r \in 1..i : \E k \in WithZero : p[k] = r
    BY <1>2, <1>9 DEF RowsAreHeldOnce, Held, Entered
  <2>2. Entered' = 1..i /\ i \in 1..N + 1 /\ i \in Nat
    BY <1>1, <1>2, <1>9, Sides DEF Entered, Searching, TypeOK
  <2>3. CASE p[j1] = 0
    <3>1. Held' = WithZero \ {j1}
      BY <1>1, <1>2, <2>3 DEF Held
    <3>2. \A r \in 1..i : \E k \in WithZero \ {j1} : p[k] = r
      BY <2>1, <2>2, <2>3
    <3>3. QED
      BY <1>2, <2>1, <2>2, <3>1, <3>2 DEF RowsAreHeldOnce
  <2>4. CASE p[j1] # 0
    <3>1. Held' = WithZero
      BY <1>1, <1>2, <2>4 DEF Held
    <3>2. QED
      BY <1>2, <2>1, <2>2, <3>1 DEF RowsAreHeldOnce
  <2>5. QED
    BY <2>3, <2>4
<1>14. Places'
  BY <1>1, <1>2, <1>6, <1>9, VirtualColumn DEF Places, Searching, N
<1>15. TreeGrows'
  <2> SUFFICES ASSUME pc' = "grow"
               PROVE  TreeGrows'
    BY DEF TreeGrows
  <2>1. p[j1] # 0
    BY <1>1
  <2>2. j0' \notin used' /\ 0 \in used' \cup {j0'} /\ used' # {}
    BY <1>1, <1>6, <1>7, <1>9
  <2>3. \A k \in used' \cup {j0'} : p'[k] # 0
    BY <1>1, <1>2, <1>7, <1>9, <2>1, VirtualColumn
  <2>4. ASSUME NEW k \in Outside'
        PROVE  /\ minv'[k] \in Int
               /\ way'[k] \in used' /\ minv'[k] = reducedNext(way'[k], k)
               /\ \A l \in used' : minv'[k] <= reducedNext(l, k)
    <3>1. k \in Outside /\ k \in WithZero /\ k \in Index \ reached
      BY <1>2, <1>7, VirtualColumn DEF Outside
    <3>2. minv'[k] = LeastReduced(k) - delta
      BY <1>5, <3>1
    <3>3. /\ LeastReduced(k) \in Int
          /\ \A l \in reached : LeastReduced(k) <= Reduced(p[l], k)
          /\ nearest[k] \in reached /\ LeastReduced(k) = Reduced(p[nearest[k]], k)
      BY <1>3, <3>1
    <3>4. ASSUME NEW l \in reached
          PROVE  minv'[k] <= reducedNext(l, k)
      <4>1. Reduced(p[l], k) \in Int
        <5>1. a[<<p[l], k>>] \in Nat /\ u[p[l]] \in Int /\ v[k] \in Int
          BY <1>9, <3>1, Values, VirtualColumn
        <5>2. QED
          BY <5>1 DEF Reduced
      <4>2. LeastReduced(k) <= Reduced(p[l], k)
        BY <3>3
      <4>3. reducedNext(l, k) = Reduced(p[l], k) - delta
        BY <1>11, <3>1
      <4> DEFINE x == Reduced(p[l], k)
                 y == LeastReduced(k)
      <4> HIDE DEF x, y
      <4>4. y - delta <= x - delta
        BY <1>3, <3>3, <4>1, <4>2 DEF x, y
      <4>5. QED
        BY <3>2, <4>3, <4>4 DEF x, y
    <3>5. minv'[k] = reducedNext(way'[k], k)
      <4>1. reducedNext(nearest[k], k) = Reduced(p[nearest[k]], k) - delta
        BY <1>11, <3>1, <3>3
      <4>2. QED
        BY <1>7, <3>2, <3>3, <4>1
    <3>6. minv'[k] \in Int
      BY <1>3, <3>2, <3>3
    <3>7. QED
      BY <1>7, <3>3, <3>4, <3>5, <3>6
  <2>5. QED
    BY <1>2, <2>2, <2>3, <2>4 DEF TreeGrows, Reduced
<1>16. TreeIsTight'
  <2>1. PICK rank \in [WithZero -> Nat] :
          /\ \A k \in used : rank[k] < rank[j0]
          /\ \A k \in (used \cup {j0}) \ {0} :
               rank[k] <= rank[j0] =>
                 /\ way[k] \in used /\ rank[way[k]] < rank[k]
                 /\ u[p[way[k]]] + v[k] = a[<<p[way[k]], k>>]
    BY <1>2, <1>9 DEF TreeIsTight
  <2> DEFINE order == [rank EXCEPT ![j1] = rank[j0] + 1]
  <2>2. /\ order \in [WithZero -> Nat]
        /\ \A k \in reached : order[k] = rank[k] /\ rank[k] \in Nat /\ rank[k] <= rank[j0]
        /\ order[j1] = rank[j0] + 1 /\ rank[j0] \in Nat
    BY <1>6, <1>9, <2>1, VirtualColumn
  <2> HIDE DEF order
  <2>3. \A k \in used' : order[k] < order[j0']
    BY <1>1, <1>7, <2>2
  <2>4. ASSUME NEW k \in (used' \cup {j0'}) \ {0}
        PROVE  /\ way'[k] \in used' /\ order[way'[k]] < order[k]
               /\ u'[p'[way'[k]]] + v'[k] = a'[<<p'[way'[k]], k>>]
    <3>1. CASE k = j1
      <4>1. nearest[j1] \in reached /\ delta = Reduced(p[nearest[j1]], j1)
        BY <1>3, <1>6 DEF delta
      <4>2. reducedNext(nearest[j1], j1) = 0
        <5>1. reducedNext(nearest[j1], j1) = Reduced(p[nearest[j1]], j1) - delta
          BY <1>6, <1>11, <4>1
        <5>2. QED
          BY <1>3, <4>1, <5>1
      <4> DEFINE w == nearest[j1]
      <4>3. w \in reached
        BY <4>1
      <4>4. way'[j1] = w
        BY <1>7
      <4>5. a'[<<p'[w], j1>>] \in Nat /\ u'[p'[w]] \in Int /\ v'[j1] \in Int
        <5>1. p[w] \in Index /\ p[w] \in WithZero /\ j1 \in Index /\ j1 \in WithZero
          BY <1>6, <1>9, <4>3, VirtualColumn
        <5>2. a[<<p[w], j1>>] \in Nat
          BY <1>9, <5>1, Values
        <5>3. QED
          BY <1>2, <1>8, <5>1, <5>2
      <4>6. a'[<<p'[w], j1>>] - u'[p'[w]] - v'[j1] = 0
        BY <4>2
      <4> HIDE DEF w
      <4>7. u'[p'[w]] + v'[j1] = a'[<<p'[w], j1>>]
        BY <4>5, <4>6
      <4>8. order[w] < order[j1]
        BY <2>2, <4>3
      <4>9. QED
        BY <1>7, <3>1, <4>3, <4>4, <4>7, <4>8
    <3>2. CASE k # j1
      <4>1. k \in reached \ {0}
        BY <1>1, <1>7, <3>2
      <4>2. /\ way[k] \in used /\ rank[way[k]] < rank[k]
            /\ u[p[way[k]]] + v[k] = a[<<p[way[k]], k>>]
        BY <2>1, <2>2, <4>1
      <4>3. way'[k] = way[k]
        BY <1>2, <1>9, <4>1 DEF Cheaper, Outside
      <4>4. u[p[way[k]]] \in Int /\ v[k] \in Int
        BY <1>9, <4>1, <4>2, Values
      <4>5. u'[p[way[k]]] = u[p[way[k]]] + delta /\ v'[k] = v[k] - delta
        BY <1>8, <4>1, <4>2
      <4> DEFINE x == u[p[way[k]]]
                 y == v[k]
      <4> HIDE DEF x, y
      <4>6. (x + delta) + (y - delta) = x + y
        BY <1>3, <4>4 DEF x, y
      <4>7. u'[p[way[k]]] + v'[k] = a[<<p[way[k]], k>>]
        BY <4>2, <4>5, <4>6 DEF x, y
      <4>8. order[way[k]] < order[k]
        BY <2>2, <4>1, <4>2
      <4>9. QED
        BY <1>2, <1>7, <4>2, <4>3, <4>7, <4>8
    <3>3. QED
      BY <3>1, <3>2
  <2>5. \E f \in [WithZero' -> Nat] :
          /\ \A k \in used' : f[k] < f[j0']
          /\ \A k \in (used' \cup {j0'}) \ {0} :
               /\ way'[k] \in used' /\ f[way'[k]] < f[k]
               /\ u'[p'[way'[k]]] + v'[k] = a'[<<p'[way'[k]], k>>]
    BY <1>2, <2>2, <2>3, <2>4
  <2>6. QED
    BY <2>5, Zenon DEF TreeIsTight
<1>17. DualFits'
  BY ShiftKeepsFeasible
<1>18. QED
  BY <1>12, <1>13, <1>14, <1>15, <1>16, <1>17 DEF HungarianInv

LEMMA AugmentKeeps ==
  ASSUME HungarianInv, Augment
  PROVE  HungarianInv'
<1> DEFINE j1 == way[j0]
<1>1. /\ pc = "augment" /\ p' = [p EXCEPT ![j0] = p[j1]] /\ j0' = j1
      /\ pc' = (IF j1 = 0 THEN "row" ELSE "augment")
      /\ i' = (IF j1 = 0 THEN i + 1 ELSE i)
      /\ a' = a /\ way' = way /\ u' = u /\ v' = v /\ minv' = minv /\ used' = used
  BY DEF Augment, AtRoot, tree
<1>2. /\ TypeOK /\ RowsAreHeldOnce /\ Places /\ TreeIsTight /\ DualFits
      /\ Searching /\ i <= N /\ j0 # 0 /\ i \in 1..N + 1 /\ N \in Nat /\ i \in Nat
      /\ Index' = Index /\ WithZero' = WithZero /\ N' = N
  <2>1. Searching
    BY <1>1 DEF Searching
  <2>2. TypeOK /\ RowsAreHeldOnce /\ Places /\ TreeIsTight /\ DualFits
    BY DEF HungarianInv
  <2>3. i <= N /\ j0 # 0
    BY <1>1, <2>1, <2>2 DEF Places
  <2>4. i \in 1..N + 1 /\ N \in Nat
    BY <2>2, Sides DEF TypeOK
  <2>5. Index' = Index /\ WithZero' = WithZero /\ N' = N
    BY DEF Index, WithZero, N
  <2>6. QED
    BY <2>1, <2>2, <2>3, <2>4, <2>5
<1>3. PICK rank \in [WithZero -> Nat] :
        \A k \in (used \cup {j0}) \ {0} :
          rank[k] <= rank[j0] =>
            /\ way[k] \in used /\ rank[way[k]] < rank[k]
            /\ u[p[way[k]]] + v[k] = a[<<p[way[k]], k>>]
  BY <1>2, Zenon DEF TreeIsTight
<1>4. /\ j0 \in WithZero /\ j0 \in Index /\ used \subseteq WithZero
      /\ \A k \in WithZero : rank[k] \in Nat
  BY <1>2, VirtualColumn DEF TypeOK
<1>5. /\ j1 \in used /\ rank[j1] < rank[j0]
      /\ u[p[j1]] + v[j0] = a[<<p[j1], j0>>]
  BY <1>2, <1>3, <1>4
<1> HIDE DEF j1
<1>6. j1 \in WithZero /\ j1 # j0 /\ p[j1] \in WithZero
  BY <1>2, <1>4, <1>5, Values
<1>7. p'[j0] = p[j1] /\ \A k \in WithZero : k # j0 => p'[k] = p[k]
  BY <1>1, <1>2, <1>4 DEF TypeOK
<1>8. TypeOK'
  <2>1. p' \in [WithZero -> WithZero] /\ j0' \in WithZero
    BY <1>1, <1>2, <1>6 DEF TypeOK
  <2>2. i' \in 1..N + 1
    BY <1>1, <1>2
  <2>3. pc' \in {"row", "grow", "augment", "done"}
    BY <1>1
  <2>4. QED
    BY <1>1, <1>2, <2>1, <2>2, <2>3 DEF TypeOK
<1>9. RowsAreHeldOnce'
  <2>1. /\ \A k, l \in WithZero \ {j0} : p[k] = p[l] /\ p[k] # 0 => k = l
        /\ \A k \in WithZero \ {j0} : p[k] \in 1..i \cup {0}
        /\ \A r \in 1..i : \E k \in WithZero \ {j0} : p[k] = r
    BY <1>1, <1>2 DEF RowsAreHeldOnce, Held, Entered
  <2>2. Held' = WithZero \ {j1} /\ Entered' = 1..i
    <3>1. CASE j1 = 0
      <4>1. pc' = "row" /\ i' = i + 1 /\ (i + 1) - 1 = i
        BY <1>1, <1>2, <3>1
      <4>2. WithZero \ {j1} = Index
        BY <3>1, VirtualColumn
      <4>3. QED
        BY <1>2, <4>1, <4>2 DEF Held, Entered, Searching
    <3>2. CASE j1 # 0
      BY <1>1, <1>2, <3>2 DEF Held, Entered, Searching
    <3>3. QED
      BY <3>1, <3>2
  <2>3. \A k, l \in WithZero \ {j1} : p'[k] = p'[l] /\ p'[k] # 0 => k = l
    BY <1>6, <1>7, <2>1
  <2>4. \A k \in WithZero \ {j1} : p'[k] \in 1..i \cup {0}
    BY <1>6, <1>7, <2>1
  <2>5. \A r \in 1..i : \E k \in WithZero \ {j1} : p'[k] = r
    BY <1>4, <1>6, <1>7, <2>1
  <2>6. QED
    BY <2>2, <2>3, <2>4, <2>5 DEF RowsAreHeldOnce
<1>10. Places'
  BY <1>1, <1>2 DEF Places, Searching
<1>11. TreeGrows'
  BY <1>1 DEF TreeGrows
<1>12. TreeIsTight'
  <2>1. ASSUME NEW k \in (used' \cup {j0'}) \ {0}, rank[k] <= rank[j0']
        PROVE  /\ way'[k] \in used' /\ rank[way'[k]] < rank[k]
               /\ u'[p'[way'[k]]] + v'[k] = a'[<<p'[way'[k]], k>>]
    <3>1. k \in used /\ k # 0 /\ k \in WithZero /\ rank[k] <= rank[j1]
      BY <1>1, <1>4, <1>5, <2>1
    <3>2. rank[k] < rank[j0] /\ rank[k] \in Nat /\ rank[j0] \in Nat /\ rank[j1] \in Nat
      BY <1>4, <1>5, <1>6, <3>1
    <3>3. /\ way[k] \in used /\ rank[way[k]] < rank[k]
          /\ u[p[way[k]]] + v[k] = a[<<p[way[k]], k>>]
      BY <1>3, <3>1, <3>2
    <3>4. way[k] \in WithZero /\ rank[way[k]] \in Nat
      BY <1>4, <3>3
    <3>5. way[k] # j0
      BY <3>2, <3>3, <3>4
    <3>6. p'[way[k]] = p[way[k]]
      BY <1>7, <3>4, <3>5
    <3>7. QED
      BY <1>1, <3>3, <3>6
  <2>2. pc' # "grow"
    BY <1>1
  <2>3. \E f \in [WithZero' -> Nat] :
          \A k \in (used' \cup {j0'}) \ {0} :
            f[k] <= f[j0'] =>
              /\ way'[k] \in used' /\ f[way'[k]] < f[k]
              /\ u'[p'[way'[k]]] + v'[k] = a'[<<p'[way'[k]], k>>]
    BY <1>2, <2>1
  <2>4. QED
    BY <2>2, <2>3, Zenon DEF TreeIsTight
<1>13. DualFits'
  <2>1. ASSUME NEW k \in Index, p'[k] # 0
        PROVE  u'[p'[k]] + v'[k] = a'[<<p'[k], k>>]
    <3>1. CASE k = j0
      BY <1>1, <1>5, <1>7, <3>1
    <3>2. CASE k # j0
      <4>1. p'[k] = p[k]
        BY <1>7, <3>2, VirtualColumn
      <4>2. u[p[k]] + v[k] = a[<<p[k], k>>]
        BY <1>2, <2>1, <4>1 DEF DualFits, MatchedEdgesAreTight
      <4>3. QED
        BY <1>1, <4>1, <4>2
    <3>3. QED
      BY <3>1, <3>2
  <2>2. Feasible'
    BY <1>1, <1>2 DEF DualFits, Feasible
  <2>3. QED
    BY <1>2, <2>1, <2>2 DEF DualFits, MatchedEdgesAreTight
<1>14. QED
  BY <1>8, <1>9, <1>10, <1>11, <1>12, <1>13 DEF HungarianInv

\* Every column holds at most one row and every row entered is held, the edges of
\* the tree and of the matching are tight, no edge is violated, whatever the
\* matrix (hungarian_solve).
THEOREM HungarianInvariance == Spec => []HungarianInv
<1>1. Init => HungarianInv
  BY HungarianStarts
<1>2. HungarianInv /\ [Next]_vars => HungarianInv'
  <2> SUFFICES ASSUME HungarianInv, [Next]_vars
               PROVE  HungarianInv'
    OBVIOUS
  <2>1. CASE StartRow
    BY <2>1, StartRowKeeps
  <2>2. CASE Grow
    BY <2>2, GrowKeeps
  <2>3. CASE Augment
    BY <2>3, AugmentKeeps
  <2>4. CASE Finish
    BY <2>4, FinishKeeps
  <2>5. CASE UNCHANGED vars
    <3>1. /\ a' = a /\ u' = u /\ v' = v /\ p' = p /\ way' = way /\ i' = i /\ j0' = j0
          /\ minv' = minv /\ used' = used /\ pc' = pc
      BY <2>5 DEF vars, matching, tree
    <3>2. QED
      BY <3>1, ZenonT(30) DEF HungarianInv, TypeOK, RowsAreHeldOnce, Held, Entered, Searching, Places,
                  TreeGrows, TreeIsTight, DualFits, Feasible, MatchedEdgesAreTight,
                  Outside, Reduced, Index, WithZero, N
  <2>6. QED
    BY <2>1, <2>2, <2>3, <2>4, <2>5 DEF Next
<1>3. QED
  BY <1>1, <1>2, PTL DEF Spec

-----------------------------------------------------------------------------
(***************************************************************************)
(* One-to-one sets of pairs, whose rows and columns are as many as they    *)
(* are themselves.                                                         *)
(***************************************************************************)
Smaller == IF Rows < Cols THEN Rows ELSE Cols

LEMMA RestOfSet ==
  ASSUME NEW S, IsFiniteSet(S), NEW R \in SUBSET S
  PROVE  /\ IsFiniteSet(R) /\ IsFiniteSet(S \ R)
         /\ Cardinality(R) \in Nat /\ Cardinality(S) \in Nat
         /\ Cardinality(S \ R) = Cardinality(S) - Cardinality(R)
         /\ Cardinality(R) <= Cardinality(S)
<1>1. S \cap R = R
  OBVIOUS
<1>2. IsFiniteSet(R) /\ Cardinality(R) <= Cardinality(S)
  BY FS_Subset
<1>3. IsFiniteSet(S \ R) /\ Cardinality(S \ R) = Cardinality(S) - Cardinality(S \cap R)
  BY FS_Difference
<1>4. QED
  BY <1>1, <1>2, <1>3, FS_CardinalityType

LEMMA SidesAreFinite ==
  /\ IsFiniteSet(Index) /\ Cardinality(Index) = N
  /\ IsFiniteSet(1..Rows) /\ Cardinality(1..Rows) = Rows /\ 1..Rows \in SUBSET Index
  /\ IsFiniteSet(1..Cols) /\ Cardinality(1..Cols) = Cols /\ 1..Cols \in SUBSET Index
  /\ Smaller \in Nat /\ Smaller <= N /\ Smaller <= Rows /\ Smaller <= Cols
  /\ Smaller = Rows \/ Smaller = Cols
<1>1. \A n \in Nat \ {0} : IsFiniteSet(1..n) /\ Cardinality(1..n) = n
  <2> SUFFICES ASSUME NEW n \in Nat \ {0}
               PROVE  IsFiniteSet(1..n) /\ Cardinality(1..n) = n
    OBVIOUS
  <2>1. IsFiniteSet(1..n) /\ Cardinality(1..n) = IF 1 > n THEN 0 ELSE n - 1 + 1
    BY FS_Interval
  <2>2. QED
    BY <2>1
<1>2. /\ N \in Nat \ {0} /\ Rows \in Nat \ {0} /\ Cols \in Nat \ {0}
      /\ Rows <= N /\ Cols <= N /\ Index = 1..N
  BY Sides
<1>3. 1..Rows \in SUBSET Index /\ 1..Cols \in SUBSET Index
  BY <1>2
<1>4. QED
  BY <1>1, <1>2, <1>3 DEF Smaller

RowsOf(M) == {e[1] : e \in M}
ColsOf(M) == {e[2] : e \in M}

LEMMA CostIsTotal == \A M : Cost(M) = Total(a, M)
BY DEF Cost, Total

\* What the potentials say a pair costs.
Potential == [e \in Index \X Index |-> u[e[1]] + v[e[2]]]

LEMMA RowsAndColumns ==
  ASSUME TypeOK, NEW M \in SUBSET (Index \X Index), OneToOne(M)
  PROVE  /\ IsFiniteSet(M) /\ IsFiniteSet(RowsOf(M)) /\ IsFiniteSet(ColsOf(M))
         /\ RowsOf(M) \in SUBSET Index /\ ColsOf(M) \in SUBSET Index
         /\ Cardinality(M) \in Nat
         /\ Cardinality(RowsOf(M)) = Cardinality(M)
         /\ Cardinality(ColsOf(M)) = Cardinality(M)
         /\ Total(Potential, M) = Total(u, RowsOf(M)) + Total(v, ColsOf(M))
<1>1. IsFiniteSet(M) /\ IsFiniteSet(Index)
  BY SidesAreFinite, FS_Product, FS_Subset
<1>2. /\ \A k \in Index : u[k] \in Int /\ v[k] \in Int
      /\ \A e \in M : /\ e[1] \in Index /\ e[2] \in Index
                      /\ Potential[e] = u[e[1]] + v[e[2]] /\ Potential[e] \in Int
  <2>1. \A k \in Index : u[k] \in Int /\ v[k] \in Int
    BY Values, VirtualColumn
  <2>2. QED
    BY <2>1 DEF Potential
<1>3. \A A \in SUBSET M : /\ RowsOf(A) \in SUBSET Index /\ ColsOf(A) \in SUBSET Index
                          /\ IsFiniteSet(RowsOf(A)) /\ IsFiniteSet(ColsOf(A))
                          /\ IsFiniteSet(A)
  <2>1. ASSUME NEW A \in SUBSET M
        PROVE  RowsOf(A) \in SUBSET Index /\ ColsOf(A) \in SUBSET Index
    BY <1>2 DEF RowsOf, ColsOf
  <2>2. QED
    BY <1>1, <2>1, FS_Subset
<1>4. \A A \in SUBSET M : \A y \in M \ A :
        /\ Total(Potential, A \cup {y}) = Potential[y] + Total(Potential, A)
        /\ Total(Potential, A) \in Int
  <2>1. \A e \in M : Potential[e] \in Int
    BY <1>2
  <2>2. QED
    BY <1>1, <2>1, TotalGrows
<1>5. /\ \A A \in SUBSET Index : \A y \in Index \ A :
             /\ Total(u, A \cup {y}) = u[y] + Total(u, A)
             /\ Total(u, A) \in Int
      /\ \A A \in SUBSET Index : \A y \in Index \ A :
             /\ Total(v, A \cup {y}) = v[y] + Total(v, A)
             /\ Total(v, A) \in Int
  <2>1. (\A k \in Index : u[k] \in Int) /\ (\A k \in Index : v[k] \in Int)
    BY <1>2
  <2>2. QED
    BY <1>1, <2>1, TotalGrows
<1> DEFINE T == {A \in SUBSET M :
                   /\ Cardinality(RowsOf(A)) = Cardinality(A)
                   /\ Cardinality(ColsOf(A)) = Cardinality(A)
                   /\ Total(Potential, A) = Total(u, RowsOf(A)) + Total(v, ColsOf(A))}
<1>6. {} \in T
  <2>1. RowsOf({}) = {} /\ ColsOf({}) = {}
    BY DEF RowsOf, ColsOf
  <2>2. Total(Potential, {}) = 0 /\ Total(u, {}) = 0 /\ Total(v, {}) = 0
    BY TotalOfNone
  <2>3. /\ Cardinality(RowsOf({})) = Cardinality({})
        /\ Cardinality(ColsOf({})) = Cardinality({})
    BY <2>1
  <2>4. Total(Potential, {}) = Total(u, RowsOf({})) + Total(v, ColsOf({}))
    <3>1. 0 = 0 + 0
      OBVIOUS
    <3>2. QED
      BY <2>1, <2>2, <3>1, Zenon
  <2>5. QED
    BY <2>3, <2>4
<1>7. ASSUME NEW A \in T, NEW y \in M \ A
      PROVE  A \cup {y} \in T
  <2> DEFINE ra == RowsOf(A)
             ca == ColsOf(A)
  <2>1. RowsOf(A \cup {y}) = ra \cup {y[1]} /\ ColsOf(A \cup {y}) = ca \cup {y[2]}
    BY DEF RowsOf, ColsOf
  <2>2. y[1] \in Index \ ra /\ y[2] \in Index \ ca
    <3>1. ASSUME NEW e \in A
          PROVE  e[1] # y[1] /\ e[2] # y[2]
      BY <3>1 DEF OneToOne
    <3>2. QED
      BY <1>2, <3>1 DEF RowsOf, ColsOf
  <2>3. /\ Total(Potential, A \cup {y}) = Potential[y] + Total(Potential, A)
        /\ Total(Potential, A) \in Int
    BY <1>4
  <2>4. ra \in SUBSET Index /\ ca \in SUBSET Index
    BY <1>3
  <2>5. /\ Cardinality(ra) = Cardinality(A) /\ Cardinality(ca) = Cardinality(A)
        /\ Total(Potential, A) = Total(u, ra) + Total(v, ca)
    OBVIOUS
  <2>6. /\ Cardinality(A \cup {y}) = Cardinality(A) + 1
        /\ IsFiniteSet(ra) /\ IsFiniteSet(ca)
    BY <1>3, FS_AddElement
  <2> HIDE DEF ra, ca, T
  <2>7. /\ Total(u, ra \cup {y[1]}) = u[y[1]] + Total(u, ra)
        /\ Total(u, ra) \in Int /\ u[y[1]] \in Int
    BY <1>2, <1>5, <2>2, <2>4
  <2>8. /\ Total(v, ca \cup {y[2]}) = v[y[2]] + Total(v, ca)
        /\ Total(v, ca) \in Int /\ v[y[2]] \in Int
    BY <1>2, <1>5, <2>2, <2>4
  <2>9. /\ Cardinality(ra \cup {y[1]}) = Cardinality(ra) + 1
        /\ Cardinality(ca \cup {y[2]}) = Cardinality(ca) + 1
    BY <2>2, <2>6, FS_AddElement
  <2> DEFINE x1 == Total(u, ra)
             x2 == Total(v, ca)
             y1 == u[y[1]]
             y2 == v[y[2]]
  <2>10. Potential[y] = y1 + y2
    BY <1>2
  <2> HIDE DEF x1, x2, y1, y2
  <2>11. (y1 + y2) + (x1 + x2) = (y1 + x1) + (y2 + x2)
    BY <2>7, <2>8 DEF x1, x2, y1, y2
  <2> USE DEF T
  <2>12. Total(Potential, A \cup {y}) = Total(u, ra \cup {y[1]}) + Total(v, ca \cup {y[2]})
    BY <2>3, <2>5, <2>7, <2>8, <2>10, <2>11 DEF x1, x2, y1, y2
  <2>13. QED
    BY <2>1, <2>5, <2>6, <2>9, <2>12
<1>8. T \in SUBSET (SUBSET M)
  OBVIOUS
<1> HIDE DEF T
<1>9. M \in T
  BY <1>1, <1>6, <1>7, <1>8, SetsByInduction
<1>10. Cardinality(M) \in Nat
  BY <1>1, FS_CardinalityType
<1>11. QED
  BY <1>1, <1>3, <1>9, <1>10 DEF T

\* Rows and columns that are equally many, every row with every column within a
\* bound: together they are within the bound for that many pairs.
LEMMA TotalWithin ==
  ASSUME NEW X, IsFiniteSet(X), NEW f, \A x \in X : f[x] \in Int,
         NEW Y, IsFiniteSet(Y), NEW g, \A y \in Y : g[y] \in Int,
         Cardinality(X) = Cardinality(Y),
         NEW c \in Int, \A x \in X : \A y \in Y : f[x] + g[y] <= c
  PROVE  Total(f, X) + Total(g, Y) <= Cardinality(X) * c
<1> DEFINE Within(A, B) == Total(f, A) + Total(g, B) <= Cardinality(A) * c
           T == {A \in SUBSET X :
                   \A B \in SUBSET Y : Cardinality(B) = Cardinality(A) => Within(A, B)}
<1>1. {} \in T
  <2>1. ASSUME NEW B \in SUBSET Y, Cardinality(B) = Cardinality({})
        PROVE  Within({}, B)
    <3>1. IsFiniteSet(B) /\ Cardinality({}) = 0
      BY FS_Subset, FS_EmptySet
    <3>2. B = {}
      BY <2>1, <3>1, FS_EmptySet
    <3>3. Total(f, {}) = 0 /\ Total(g, {}) = 0
      BY TotalOfNone
    <3>4. QED
      BY <3>1, <3>2, <3>3
  <2> HIDE DEF Within
  <2>2. QED
    BY <2>1
<1>2. ASSUME NEW A \in T, NEW x \in X \ A
      PROVE  A \cup {x} \in T
  <2>1. IsFiniteSet(A) /\ A \in SUBSET X
    BY FS_Subset
  <2>2. Cardinality(A \cup {x}) = Cardinality(A) + 1 /\ Cardinality(A) \in Nat
    BY <2>1, FS_AddElement, FS_CardinalityType
  <2>3. ASSUME NEW B \in SUBSET Y, Cardinality(B) = Cardinality(A \cup {x})
        PROVE  Within(A \cup {x}, B)
    <3>1. IsFiniteSet(B)
      BY FS_Subset
    <3>2. B # {}
      <4>1. Cardinality({}) = 0
        BY FS_EmptySet
      <4>2. Cardinality(B) # 0
        BY <2>2, <2>3
      <4>3. QED
        BY <4>1, <4>2
    <3>3. PICK y \in B : TRUE
      BY <3>2
    <3> DEFINE C == B \ {y}
    <3>4. /\ C \in SUBSET Y /\ y \in Y \ C /\ C \cup {y} = B
          /\ Cardinality(C) = Cardinality(A)
      <4>1. Cardinality(C) = Cardinality(B) - 1 /\ Cardinality(B) \in Nat
        BY <3>1, <3>3, OneLess
      <4>2. QED
        BY <2>2, <2>3, <3>3, <4>1
    <3>5. Within(A, C)
      <4> HIDE DEF Within
      <4> QED
        BY <3>4
    <3> HIDE DEF C
    <3>6. /\ Total(f, A \cup {x}) = f[x] + Total(f, A)
          /\ Total(f, A) \in Int /\ f[x] \in Int
      BY <2>1, TotalWithOneMore
    <3>7. /\ Total(g, C \cup {y}) = g[y] + Total(g, C)
          /\ Total(g, C) \in Int /\ g[y] \in Int
      BY <3>4, TotalWithOneMore
    <3>8. f[x] + g[y] <= c
      BY <3>4
    <3> DEFINE x1 == Total(f, A)
               x2 == Total(g, C)
               n == Cardinality(A)
               m == n * c
    <3>9. m \in Int /\ (n + 1) * c = m + c
      <4>1. n \in Int
        BY <2>2
      <4> HIDE DEF n
      <4>2. n * c \in Int /\ (n + 1) * c = n * c + c
        BY <4>1
      <4>3. QED
        BY <4>2
    <3>10. x1 + x2 <= m
      BY <3>5
    <3> HIDE DEF x1, x2, n, m
    <3>11. (f[x] + x1) + (g[y] + x2) <= m + c
      BY <3>6, <3>7, <3>8, <3>9, <3>10 DEF x1, x2
    <3>12. QED
      BY <2>2, <3>4, <3>6, <3>7, <3>9, <3>11 DEF x1, x2, n
  <2> HIDE DEF Within
  <2>4. QED
    BY <2>1, <2>3
<1>3. T \in SUBSET (SUBSET X)
  OBVIOUS
<1> HIDE DEF T
<1>4. X \in T
  BY <1>1, <1>2, <1>3, SetsByInduction
<1>5. QED
  BY <1>4 DEF T

\* A part of a set, of any size up to the set's.
LEMMA PartOfSize ==
  ASSUME NEW S, IsFiniteSet(S), NEW n \in Nat, n <= Cardinality(S)
  PROVE  \E A \in SUBSET S : Cardinality(A) = n
<1> DEFINE Part(m) == m <= Cardinality(S) => \E A \in SUBSET S : Cardinality(A) = m
           T == {m \in Nat : Part(m)}
<1>1. Cardinality(S) \in Nat
  BY FS_CardinalityType
<1>2. 0 \in T
  <2>1. Part(0)
    BY FS_EmptySet
  <2> HIDE DEF Part
  <2>2. QED
    BY <2>1
<1>3. ASSUME NEW m \in T
      PROVE  m + 1 \in T
  <2>1. Part(m) /\ m \in Nat
    OBVIOUS
  <2>2. ASSUME m + 1 <= Cardinality(S)
        PROVE  \E A \in SUBSET S : Cardinality(A) = m + 1
    <3>1. m <= Cardinality(S) /\ m # Cardinality(S)
      BY <1>1, <2>1, <2>2
    <3>2. PICK A \in SUBSET S : Cardinality(A) = m
      BY <2>1, <3>1
    <3>3. PICK x \in S \ A : TRUE
      BY <3>1, <3>2
    <3>4. IsFiniteSet(A)
      BY FS_Subset
    <3>5. Cardinality(A \cup {x}) = m + 1 /\ A \cup {x} \in SUBSET S
      BY <3>2, <3>3, <3>4, FS_AddElement
    <3>6. QED
      BY <3>5
  <2>3. Part(m + 1)
    BY <2>2
  <2> HIDE DEF Part
  <2>4. QED
    BY <2>1, <2>3
<1>4. T = Nat
  <2>1. T \subseteq Nat
    OBVIOUS
  <2> HIDE DEF T
  <2>2. QED
    BY <1>2, <1>3, <2>1, NumbersByInduction
<1>5. Part(n)
  <2> HIDE DEF Part
  <2> QED
    BY <1>4
<1>6. QED
  BY <1>5

-----------------------------------------------------------------------------
(***************************************************************************)
(* The sum of the potentials is a bound from below on what any matching    *)
(* costs, with what its unmatched rows and columns would have to be paid;  *)
(* the assignment returned costs no more than that.                        *)
(***************************************************************************)
\* The caller's costs are where they were, and the rest is padding.
Squared ==
  \A r, k \in Index :
    IF r <= Rows /\ k <= Cols THEN a[<<r, k>>] \in Costs ELSE a[<<r, k>>] = Pad

LEMMA MatrixStays == Spec => []Squared
<1>1. Init => Squared
  <2> SUFFICES ASSUME Init, NEW r \in Index, NEW k \in Index
               PROVE  IF r <= Rows /\ k <= Cols THEN a[<<r, k>>] \in Costs
                      ELSE a[<<r, k>>] = Pad
    BY DEF Squared
  <2>1. PICK cost \in [(1..Rows) \X (1..Cols) -> Costs] : a = Padded(cost)
    BY DEF Init
  <2>2. a[<<r, k>>] = IF r <= Rows /\ k <= Cols THEN cost[<<r, k>>] ELSE Pad
    BY <2>1 DEF Padded
  <2>3. CASE r <= Rows /\ k <= Cols
    <3>1. <<r, k>> \in (1..Rows) \X (1..Cols)
      BY <2>3, Sides
    <3>2. QED
      BY <2>1, <2>2, <2>3, <3>1
  <2>4. CASE ~(r <= Rows /\ k <= Cols)
    BY <2>2, <2>4
  <2>5. QED
    BY <2>3, <2>4
<1>2. Squared /\ [Next]_vars => Squared'
  <2>1. [Next]_vars => a' = a
    BY DEF Next, StartRow, Grow, Augment, Finish, vars
  <2>2. QED
    BY <2>1 DEF Squared, Index, N
<1>3. QED
  BY <1>1, <1>2, PTL DEF Spec

LEMMA PotentialsBound ==
  ASSUME TypeOK, Squared, Feasible,
         NEW M \in SUBSET ((1..Rows) \X (1..Cols)), OneToOne(M), NEW C \in Int,
         \A r \in (1..Rows) \ RowsOf(M) : \A k \in (1..Cols) \ ColsOf(M) :
           a[<<r, k>>] <= C
  PROVE  /\ Total(u, Index) \in Int /\ Total(v, Index) \in Int /\ Total(a, M) \in Int
         /\ IsFiniteSet(M) /\ Cardinality(M) \in Nat /\ Cardinality(M) <= Smaller
         /\ Total(u, Index) + Total(v, Index)
              <= Total(a, M) + (Smaller - Cardinality(M)) * C + (N - Smaller) * Pad
<1> DEFINE rm == RowsOf(M)
           cm == ColsOf(M)
           m == Cardinality(M)
<1>1. /\ \A k \in Index : u[k] \in Int /\ v[k] \in Int
      /\ \A r, k \in Index : a[<<r, k>>] \in Nat /\ u[r] + v[k] <= a[<<r, k>>]
  BY Values, VirtualColumn DEF Feasible
<1>2. /\ \A k \in 1..Rows : k \in Index /\ u[k] \in Int
      /\ \A k \in 1..Cols : k \in Index /\ v[k] \in Int
  BY <1>1, SidesAreFinite
<1>3. M \in SUBSET (Index \X Index)
  <2>1. M \in SUBSET ((1..Rows) \X (1..Cols))
    OBVIOUS
  <2>2. QED
    BY <2>1, SidesAreFinite
<1>4. /\ IsFiniteSet(M) /\ rm \in SUBSET (1..Rows) /\ cm \in SUBSET (1..Cols)
      /\ m \in Nat /\ Cardinality(rm) = m /\ Cardinality(cm) = m
      /\ Total(Potential, M) = Total(u, rm) + Total(v, cm)
  <2>1. rm \in SUBSET (1..Rows) /\ cm \in SUBSET (1..Cols)
    BY DEF RowsOf, ColsOf
  <2>2. QED
    BY <1>3, <2>1, RowsAndColumns
<1>5. /\ \A e \in M : a[e] \in Int
      /\ \A e \in M : Potential[e] \in Int
      /\ \A e \in M : Potential[e] <= a[e]
  <2>1. \A e \in M : /\ e[1] \in Index /\ e[2] \in Index /\ e = <<e[1], e[2]>>
                     /\ Potential[e] = u[e[1]] + v[e[2]]
    BY <1>3 DEF Potential
  <2>2. QED
    BY <1>1, <2>1
<1>6. Total(a, M) \in Int /\ Total(Potential, M) <= Total(a, M)
  BY <1>4, <1>5, TotalCompares, TotalIsNumber
<1> HIDE DEF rm, cm, m
<1> DEFINE X == (1..Rows) \ rm
           Y == (1..Cols) \ cm
           s == Smaller - m
<1>7. /\ IsFiniteSet(X) /\ Cardinality(X) = Rows - m
      /\ IsFiniteSet(Y) /\ Cardinality(Y) = Cols - m
      /\ s \in Nat /\ s <= Rows - m /\ s <= Cols - m /\ m <= Smaller
  <2>1. IsFiniteSet(X) /\ Cardinality(X) = Rows - m /\ m <= Rows
    BY <1>4, RestOfSet, SidesAreFinite, ZenonT(30)
  <2>2. IsFiniteSet(Y) /\ Cardinality(Y) = Cols - m /\ m <= Cols
    BY <1>4, RestOfSet, SidesAreFinite, ZenonT(30)
  <2>3. m <= Smaller
    BY <2>1, <2>2, SidesAreFinite
  <2>4. s \in Nat /\ s <= Rows - m /\ s <= Cols - m
    BY <1>4, <2>3, SidesAreFinite, Sides
  <2>5. QED
    BY <2>1, <2>2, <2>3, <2>4
<1> HIDE DEF s
<1>8. PICK A \in SUBSET X : Cardinality(A) = s
  BY <1>7, PartOfSize
<1>9. PICK B \in SUBSET Y : Cardinality(B) = s
  BY <1>7, PartOfSize
<1> DEFINE X1 == (Index \ rm) \ A
           Y1 == (Index \ cm) \ B
\* The rows and columns that are priced, and those that are padded up.
<1>10. Total(u, A) + Total(v, B) <= s * C
  <2>1. IsFiniteSet(A) /\ IsFiniteSet(B)
    BY <1>7, FS_Subset
  <2>2. (\A x \in A : u[x] \in Int) /\ (\A y \in B : v[y] \in Int)
    BY <1>2
  <2>3. ASSUME NEW x \in A, NEW y \in B
        PROVE  u[x] + v[y] <= C
    <3>1. a[<<x, y>>] <= C
      BY DEF rm, cm
    <3>2. /\ u[x] \in Int /\ v[y] \in Int /\ a[<<x, y>>] \in Nat
          /\ u[x] + v[y] <= a[<<x, y>>]
      BY <1>1, <1>2
    <3>3. QED
      BY <3>1, <3>2
  <2>4. QED
    BY <1>8, <1>9, <2>1, <2>2, <2>3, TotalWithin
<1>11. /\ IsFiniteSet(X1) /\ IsFiniteSet(Y1)
       /\ Cardinality(X1) = N - Smaller /\ Cardinality(Y1) = N - Smaller
  <2>1. rm \in SUBSET Index /\ cm \in SUBSET Index
        /\ A \in SUBSET (Index \ rm) /\ B \in SUBSET (Index \ cm)
    BY <1>4, SidesAreFinite
  <2>2. IsFiniteSet(Index \ rm) /\ Cardinality(Index \ rm) = N - m
        /\ IsFiniteSet(Index \ cm) /\ Cardinality(Index \ cm) = N - m
    BY <1>4, <2>1, RestOfSet, SidesAreFinite, ZenonT(30)
  <2>3. /\ IsFiniteSet(X1) /\ IsFiniteSet(Y1)
        /\ Cardinality(X1) = N - m - s /\ Cardinality(Y1) = N - m - s
    <3> DEFINE R == Index \ rm
               K == Index \ cm
    <3>1. A \in SUBSET R /\ B \in SUBSET K /\ IsFiniteSet(R) /\ IsFiniteSet(K)
          /\ Cardinality(R) = N - m /\ Cardinality(K) = N - m
      BY <2>1, <2>2
    <3> HIDE DEF R, K
    <3>2. IsFiniteSet(R \ A) /\ Cardinality(R \ A) = N - m - s
      BY <1>8, <3>1, RestOfSet
    <3>3. IsFiniteSet(K \ B) /\ Cardinality(K \ B) = N - m - s
      BY <1>9, <3>1, RestOfSet
    <3>4. QED
      BY <3>2, <3>3 DEF R, K
  <2>4. N - m - s = N - Smaller
    BY <1>4, SidesAreFinite, Sides DEF s
  <2>5. QED
    BY <2>3, <2>4
<1>12. Total(u, X1) + Total(v, Y1) <= (N - Smaller) * Pad
  <2>1. (\A x \in X1 : u[x] \in Int) /\ (\A y \in Y1 : v[y] \in Int)
    BY <1>1
  <2>2. ASSUME NEW x \in X1, NEW y \in Y1
        PROVE  u[x] + v[y] <= Pad
    <3>1. x \notin 1..Rows \/ y \notin 1..Cols
      <4>1. CASE Smaller = Rows
        <5>1. Cardinality(A) = Cardinality(X)
          BY <1>7, <1>8, <4>1 DEF s
        <5>2. A = X
          BY <1>7, <5>1, FS_Subset
        <5>3. QED
          BY <5>2
      <4>2. CASE Smaller = Cols
        <5>1. Cardinality(B) = Cardinality(Y)
          BY <1>7, <1>9, <4>2 DEF s
        <5>2. B = Y
          BY <1>7, <5>1, FS_Subset
        <5>3. QED
          BY <5>2
      <4>3. QED
        BY <4>1, <4>2, SidesAreFinite
    <3>2. x \in Index /\ y \in Index
      OBVIOUS
    <3>3. ~(x <= Rows /\ y <= Cols)
      BY <3>1, <3>2, Sides
    <3>4. a[<<x, y>>] = Pad
      BY <3>2, <3>3 DEF Squared
    <3>5. QED
      BY <1>1, <3>2, <3>4
  <2>3. Pad \in Int
    BY HungarianAssumption
  <2> HIDE DEF X1, Y1
  <2>4. Total(u, X1) + Total(v, Y1) <= Cardinality(X1) * Pad
    BY <1>11, <2>1, <2>2, <2>3, TotalWithin
  <2>5. QED
    BY <1>11, <2>4
<1>13. /\ Total(u, Index) = Total(u, rm) + (Total(u, A) + Total(u, X1))
       /\ Total(u, Index) \in Int /\ Total(u, rm) \in Int
       /\ Total(u, A) \in Int /\ Total(u, X1) \in Int
  <2> DEFINE R == Index \ rm
  <2>1. IsFiniteSet(Index) /\ (\A x \in Index : u[x] \in Int) /\ rm \in SUBSET Index
    BY <1>1, <1>4, SidesAreFinite
  <2>2. /\ Total(u, Index) = Total(u, rm) + Total(u, R)
        /\ Total(u, rm) \in Int /\ Total(u, R) \in Int
    BY <2>1, TotalOfParts
  <2>3. IsFiniteSet(R) /\ (\A x \in R : u[x] \in Int) /\ A \in SUBSET R
    BY <2>1, FS_Subset, SidesAreFinite
  <2> HIDE DEF R
  <2>4. /\ Total(u, R) = Total(u, A) + Total(u, R \ A)
        /\ Total(u, A) \in Int /\ Total(u, R \ A) \in Int
    BY <2>3, TotalOfParts
  <2>5. R \ A = X1
    BY DEF R
  <2>6. QED
    BY <2>2, <2>4, <2>5, SMTT(30)
<1>14. /\ Total(v, Index) = Total(v, cm) + (Total(v, B) + Total(v, Y1))
       /\ Total(v, Index) \in Int /\ Total(v, cm) \in Int
       /\ Total(v, B) \in Int /\ Total(v, Y1) \in Int
  <2> DEFINE K == Index \ cm
  <2>1. IsFiniteSet(Index) /\ (\A x \in Index : v[x] \in Int) /\ cm \in SUBSET Index
    BY <1>1, <1>4, SidesAreFinite
  <2>2. /\ Total(v, Index) = Total(v, cm) + Total(v, K)
        /\ Total(v, cm) \in Int /\ Total(v, K) \in Int
    BY <2>1, TotalOfParts
  <2>3. IsFiniteSet(K) /\ (\A x \in K : v[x] \in Int) /\ B \in SUBSET K
    BY <2>1, FS_Subset, SidesAreFinite
  <2> HIDE DEF K
  <2>4. /\ Total(v, K) = Total(v, B) + Total(v, K \ B)
        /\ Total(v, B) \in Int /\ Total(v, K \ B) \in Int
    BY <2>3, TotalOfParts
  <2>5. K \ B = Y1
    BY DEF K
  <2> HIDE DEF Y1
  <2>6. QED
    BY <2>2, <2>4, <2>5
<1> DEFINE x1 == Total(u, rm)
           x2 == Total(u, A)
           x3 == Total(u, X1)
           y1 == Total(v, cm)
           y2 == Total(v, B)
           y3 == Total(v, Y1)
           q == Total(a, M)
           c1 == s * C
           c2 == (N - Smaller) * Pad
<1>15. c1 \in Int /\ c2 \in Int
  <2>1. s \in Int /\ C \in Int /\ N - Smaller \in Int /\ Pad \in Int
    BY <1>7, SidesAreFinite, Sides
  <2>2. s * C \in Int
    BY <2>1
  <2> DEFINE n == N - Smaller
  <2> HIDE DEF n
  <2>3. n * Pad \in Int
    BY <2>1 DEF n
  <2>4. QED
    BY <2>2, <2>3 DEF n
<1>16. x1 + y1 <= q /\ x2 + y2 <= c1 /\ x3 + y3 <= c2
  BY <1>4, <1>6, <1>10, <1>12
<1> HIDE DEF x1, x2, x3, y1, y2, y3, q, c1, c2
<1>17. (x1 + (x2 + x3)) + (y1 + (y2 + y3)) <= q + c1 + c2
  BY <1>6, <1>13, <1>14, <1>15, <1>16 DEF x1, x2, x3, y1, y2, y3, q
<1>18. Total(u, Index) + Total(v, Index) <= Total(a, M) + s * C + (N - Smaller) * Pad
  BY <1>13, <1>14, <1>17 DEF x1, x2, x3, y1, y2, y3, q, c1, c2
<1>19. QED
  BY <1>4, <1>6, <1>7, <1>13, <1>14, <1>18 DEF s, m

\* The assignment returned is the part of a matching of the whole square that
\* pads nothing up, and that matching costs what the potentials sum up to.
LEMMA AssignedIsFull ==
  ASSUME HungarianInv, Squared, pc = "done"
  PROVE  /\ Assigned \in SUBSET ((1..Rows) \X (1..Cols)) /\ OneToOne(Assigned)
         /\ IsFiniteSet(Assigned) /\ Cardinality(Assigned) = Smaller
         /\ Total(a, Assigned) \in Int
         /\ Total(u, Index) + Total(v, Index) = Total(a, Assigned) + (N - Smaller) * Pad
<1> DEFINE PM == {e \in Index \X Index : p[e[2]] = e[1]}
<1>1. /\ TypeOK
      /\ \A k, l \in Index : p[k] = p[l] /\ p[k] # 0 => k = l
      /\ \A r \in Index : \E k \in Index : p[k] = r
      /\ \A k \in Index : p[k] # 0 => u[p[k]] + v[k] = a[<<p[k], k>>]
  <2>1. TypeOK /\ RowsAreHeldOnce /\ Places /\ MatchedEdgesAreTight
    BY DEF HungarianInv, DualFits
  <2>2. Held = Index /\ Entered = 1..i - 1
    BY DEF Held, Entered, Searching
  <2>3. i = N + 1
    BY <2>1 DEF Places
  <2>4. Entered = Index
    BY <2>2, <2>3, Sides
  <2>5. QED
    BY <2>1, <2>2, <2>4 DEF RowsAreHeldOnce, MatchedEdgesAreTight
<1>2. PM \in SUBSET (Index \X Index) /\ OneToOne(PM)
  <2>1. PM \in SUBSET (Index \X Index)
    OBVIOUS
  <2>2. ASSUME NEW e \in PM, NEW f \in PM, e[1] = f[1] \/ e[2] = f[2]
        PROVE  e = f
    <3>1. /\ e = <<e[1], e[2]>> /\ f = <<f[1], f[2]>>
          /\ e[1] \in Index /\ e[2] \in Index /\ f[1] \in Index /\ f[2] \in Index
          /\ p[e[2]] = e[1] /\ p[f[2]] = f[1]
      OBVIOUS
    <3>2. e[1] = f[1] /\ e[2] = f[2]
      BY <1>1, <2>2, <3>1, VirtualColumn
    <3>3. QED
      BY <3>1, <3>2
  <2>3. QED
    BY <2>1, <2>2 DEF OneToOne
<1>3. RowsOf(PM) = Index
  <2>1. ASSUME NEW r \in Index
        PROVE  r \in RowsOf(PM)
    <3>1. PICK k \in Index : p[k] = r
      BY <1>1
    <3>2. <<r, k>> \in PM
      BY <3>1
    <3>3. QED
      BY <3>2 DEF RowsOf
  <2>2. \A e \in PM : e[1] \in Index
    OBVIOUS
  <2> HIDE DEF PM
  <2>3. QED
    BY <2>1, <2>2 DEF RowsOf
<1>4. \A e \in PM : /\ e[1] \in Index /\ e[2] \in Index /\ e = <<e[1], e[2]>>
                    /\ a[e] = Potential[e] /\ a[e] \in Int /\ p[e[2]] = e[1]
  <2> SUFFICES ASSUME NEW e \in PM
               PROVE  /\ e[1] \in Index /\ e[2] \in Index /\ e = <<e[1], e[2]>>
                      /\ a[e] = Potential[e] /\ a[e] \in Int /\ p[e[2]] = e[1]
    OBVIOUS
  <2>1. e[1] \in Index /\ e[2] \in Index /\ e = <<e[1], e[2]>> /\ p[e[2]] = e[1]
    OBVIOUS
  <2>2. Potential[e] = u[e[1]] + v[e[2]]
    BY <2>1 DEF Potential
  <2>3. u[e[1]] + v[e[2]] = a[<<e[1], e[2]>>]
    BY <1>1, <2>1, VirtualColumn
  <2>4. a[<<e[1], e[2]>>] \in Nat
    BY <1>1, <2>1, Values
  <2>5. QED
    BY <2>1, <2>2, <2>3, <2>4
<1>5. \A e \in Index \X Index :
        e \in PM /\ e[1] \in 1..Rows /\ e[2] \in 1..Cols <=> e \in Assigned
  BY SidesAreFinite DEF Assigned, Result
<1>6. Assigned \in SUBSET ((1..Rows) \X (1..Cols)) /\ Assigned \in SUBSET (Index \X Index)
  <2>1. Assigned \in SUBSET ((1..Rows) \X (1..Cols))
    BY DEF Assigned
  <2>2. QED
    BY <2>1, SidesAreFinite
<1> HIDE DEF PM
<1>7. Assigned \in SUBSET PM /\ OneToOne(Assigned)
  <2>1. Assigned \in SUBSET PM
    BY <1>5, <1>6
  <2>2. QED
    BY <1>2, <2>1 DEF OneToOne
<1>8. /\ IsFiniteSet(PM) /\ Cardinality(PM) = N /\ ColsOf(PM) = Index
      /\ Total(Potential, PM) = Total(u, Index) + Total(v, Index)
  <2>1. /\ IsFiniteSet(PM) /\ ColsOf(PM) \in SUBSET Index
        /\ Cardinality(RowsOf(PM)) = Cardinality(PM)
        /\ Cardinality(ColsOf(PM)) = Cardinality(PM)
        /\ Total(Potential, PM) = Total(u, RowsOf(PM)) + Total(v, ColsOf(PM))
    BY <1>1, <1>2, RowsAndColumns
  <2>2. Cardinality(PM) = N
    BY <1>3, <2>1, SidesAreFinite
  <2>3. ColsOf(PM) = Index
    BY <2>1, <2>2, SidesAreFinite, FS_Subset
  <2>4. QED
    BY <1>3, <2>1, <2>2, <2>3
<1>9. Total(a, PM) = Total(u, Index) + Total(v, Index)
  <2>1. /\ \A e \in PM : a[e] \in Int
        /\ \A e \in PM : Potential[e] \in Int
        /\ \A e \in PM : a[e] <= Potential[e]
        /\ \A e \in PM : Potential[e] <= a[e]
    BY <1>4
  <2>2. Total(a, PM) <= Total(Potential, PM)
    BY <1>8, <2>1, TotalCompares
  <2>3. Total(Potential, PM) <= Total(a, PM)
    BY <1>8, <2>1, TotalCompares
  <2>4. Total(a, PM) \in Int
    BY <1>8, <2>1, TotalIsNumber
  <2>5. Total(Potential, PM) \in Int
    BY <1>8, <2>1, TotalIsNumber
  <2> DEFINE x == Total(a, PM)
             y == Total(Potential, PM)
  <2> HIDE DEF x, y
  <2>6. x = y
    BY <2>2, <2>3, <2>4, <2>5 DEF x, y
  <2>7. QED
    BY <1>8, <2>6 DEF x, y
<1>10. Cardinality(Assigned) = Smaller
  <2>1. /\ RowsOf(Assigned) \in SUBSET Index /\ ColsOf(Assigned) \in SUBSET Index
        /\ Cardinality(RowsOf(Assigned)) = Cardinality(Assigned)
        /\ Cardinality(ColsOf(Assigned)) = Cardinality(Assigned)
    BY <1>1, <1>6, <1>7, RowsAndColumns
  <2>2. CASE Rows < Cols
    <3>1. 1..Cols = Index /\ Smaller = Rows
      BY <2>2, Sides DEF Smaller, N
    <3>2. ASSUME NEW r \in 1..Rows
          PROVE  r \in RowsOf(Assigned)
      <4>1. r \in RowsOf(PM)
        BY <1>3, SidesAreFinite
      <4>2. PICK e \in PM : e[1] = r
        BY <4>1 DEF RowsOf
      <4>3. e \in Assigned
        BY <1>2, <1>4, <1>5, <3>1, <4>2
      <4>4. QED
        BY <4>2, <4>3 DEF RowsOf
    <3>3. RowsOf(Assigned) = 1..Rows
      <4>1. \A e \in Assigned : e[1] \in 1..Rows
        BY <1>6
      <4>2. QED
        BY <3>2, <4>1 DEF RowsOf
    <3>4. QED
      BY <2>1, <3>1, <3>3, SidesAreFinite
  <2>3. CASE ~(Rows < Cols)
    <3>1. 1..Rows = Index /\ Smaller = Cols
      BY <2>3, Sides DEF Smaller, N
    <3>2. ASSUME NEW k \in 1..Cols
          PROVE  k \in ColsOf(Assigned)
      <4>1. k \in ColsOf(PM)
        BY <1>8, SidesAreFinite
      <4>2. PICK e \in PM : e[2] = k
        BY <4>1 DEF ColsOf
      <4>3. e \in Assigned
        BY <1>2, <1>4, <1>5, <3>1, <4>2
      <4>4. QED
        BY <4>2, <4>3 DEF ColsOf
    <3>3. ColsOf(Assigned) = 1..Cols
      <4>1. \A e \in Assigned : e[2] \in 1..Cols
        BY <1>6
      <4>2. QED
        BY <3>2, <4>1 DEF ColsOf
    <3>4. QED
      BY <2>1, <3>1, <3>3, SidesAreFinite
  <2>4. QED
    BY <2>2, <2>3
<1> DEFINE D == PM \ Assigned
<1>11. Total(a, D) = (N - Smaller) * Pad
  <2>1. ASSUME NEW e \in D
        PROVE  a[e] = Pad
    <3>1. /\ e[1] \in Index /\ e[2] \in Index /\ e = <<e[1], e[2]>>
          /\ ~(e[1] \in 1..Rows /\ e[2] \in 1..Cols)
      BY <1>2, <1>4, <1>5
    <3>2. ~(e[1] <= Rows /\ e[2] <= Cols)
      BY <3>1, Sides
    <3>3. a[<<e[1], e[2]>>] = Pad
      BY <3>1, <3>2 DEF Squared
    <3>4. QED
      BY <3>1, <3>3
  <2>2. IsFiniteSet(D) /\ Cardinality(D) = N - Smaller
    BY <1>7, <1>8, <1>10, RestOfSet
  <2>3. Pad \in Int
    BY HungarianAssumption
  <2> HIDE DEF D
  <2>4. Total(a, D) = Cardinality(D) * Pad
    BY <2>1, <2>2, <2>3, TotalOfSame
  <2>5. QED
    BY <2>2, <2>4
<1>12. /\ Total(a, PM) = Total(a, Assigned) + Total(a, D)
       /\ Total(a, Assigned) \in Int
  <2> DEFINE J == Assigned
  <2>1. /\ \A e \in PM : a[e] \in Int
        /\ IsFiniteSet(PM) /\ J \in SUBSET PM
    BY <1>4, <1>7, <1>8
  <2> HIDE DEF J
  <2>2. /\ Total(a, PM) = Total(a, J) + Total(a, PM \ J)
        /\ Total(a, J) \in Int
    BY <2>1, TotalOfParts
  <2>3. QED
    BY <2>2 DEF J
<1>13. IsFiniteSet(Assigned)
  BY <1>7, <1>8, FS_Subset
<1>14. QED
  BY <1>6, <1>7, <1>9, <1>10, <1>11, <1>12, <1>13

\* A full matching leaves no row over or no column.
LEMMA FullCoversASide ==
  ASSUME TypeOK, NEW M \in FullMatchings
  PROVE  /\ M \in SUBSET ((1..Rows) \X (1..Cols)) /\ OneToOne(M)
         /\ Cardinality(M) = Smaller
         /\ (1..Rows) \ RowsOf(M) = {} \/ (1..Cols) \ ColsOf(M) = {}
<1>1. /\ M \in SUBSET ((1..Rows) \X (1..Cols)) /\ OneToOne(M)
      /\ Cardinality(M) = Smaller
  BY DEF FullMatchings, Smaller
<1>2. M \in SUBSET (Index \X Index)
  BY <1>1, SidesAreFinite
<1>3. /\ Cardinality(RowsOf(M)) = Smaller /\ Cardinality(ColsOf(M)) = Smaller
  BY <1>1, <1>2, RowsAndColumns
<1>4. RowsOf(M) \in SUBSET (1..Rows) /\ ColsOf(M) \in SUBSET (1..Cols)
  BY <1>1 DEF RowsOf, ColsOf
<1>5. CASE Smaller = Rows
  <2>1. RowsOf(M) = 1..Rows
    BY <1>3, <1>4, <1>5, SidesAreFinite, FS_Subset
  <2>2. QED
    BY <1>1, <2>1
<1>6. CASE Smaller = Cols
  <2>1. ColsOf(M) = 1..Cols
    BY <1>3, <1>4, <1>6, SidesAreFinite, FS_Subset
  <2>2. QED
    BY <1>1, <2>1
<1>7. QED
  BY <1>5, <1>6, SidesAreFinite

LEMMA DoneIsOptimal ==
  ASSUME HungarianInv, Squared
  PROVE  Optimal
<1> SUFFICES ASSUME pc = "done"
             PROVE  /\ Assigned \in FullMatchings
                    /\ \A M \in FullMatchings : Cost(Assigned) <= Cost(M)
  BY DEF Optimal
<1>1. /\ Assigned \in SUBSET ((1..Rows) \X (1..Cols)) /\ OneToOne(Assigned)
      /\ Cardinality(Assigned) = Smaller /\ Total(a, Assigned) \in Int
      /\ Total(u, Index) + Total(v, Index) = Total(a, Assigned) + (N - Smaller) * Pad
  BY AssignedIsFull
<1>2. Assigned \in FullMatchings
  BY <1>1 DEF FullMatchings, Smaller
<1>3. ASSUME NEW M \in FullMatchings
      PROVE  Total(a, Assigned) <= Total(a, M)
  <2>1. /\ M \in SUBSET ((1..Rows) \X (1..Cols)) /\ OneToOne(M)
        /\ Cardinality(M) = Smaller
        /\ (1..Rows) \ RowsOf(M) = {} \/ (1..Cols) \ ColsOf(M) = {}
    BY FullCoversASide DEF HungarianInv
  <2>2. \A r \in (1..Rows) \ RowsOf(M) : \A k \in (1..Cols) \ ColsOf(M) : a[<<r, k>>] <= 0
    BY <2>1
  <2>3. TypeOK /\ Feasible /\ 0 \in Int
    BY DEF HungarianInv, DualFits
  <2>4. /\ Total(a, M) \in Int
        /\ Total(u, Index) + Total(v, Index)
             <= Total(a, M) + (Smaller - Cardinality(M)) * 0 + (N - Smaller) * Pad
    BY <2>1, <2>2, <2>3, PotentialsBound
  <2>5. Smaller - Cardinality(M) \in Int /\ N - Smaller \in Int /\ Pad \in Int
    BY <2>1, SidesAreFinite, Sides
  <2> DEFINE q == Total(a, Assigned)
             t == Total(a, M)
             n == N - Smaller
             padding == n * Pad
             left == Smaller - Cardinality(M)
  <2> HIDE DEF left, n
  <2>6. left * 0 = 0 /\ padding \in Int
    BY <2>5 DEF left, n
  <2>7. q + padding <= t + left * 0 + padding
    BY <1>1, <2>4 DEF left, n
  <2> HIDE DEF q, t, padding
  <2>8. q <= t
    BY <1>1, <2>4, <2>6, <2>7 DEF q, t
  <2>9. QED
    BY <2>8 DEF q, t
<1>4. QED
  BY <1>2, <1>3, CostIsTotal

\* For every matrix: the potentials always fit, and the assignment returned is
\* full and costs no more than any other full one (hungarian_solve).
THEOREM TheAssignmentIsCheapest == Spec => []OptimalByDuals
<1>1. HungarianInv /\ Squared => OptimalByDuals
  BY DoneIsOptimal DEF HungarianInv, OptimalByDuals
<1>2. QED
  BY <1>1, HungarianInvariance, MatrixStays, PTL

-----------------------------------------------------------------------------
(***************************************************************************)
(* The two ways of pairing tracks with measurements.                       *)
(***************************************************************************)
LEMMA PairsInPlace ==
  ASSUME TypeOK, Squared, NEW e \in (1..Rows) \X (1..Cols)
  PROVE  /\ a[e] \in Nat /\ a[e] \in Costs /\ a[e] <= Unassigned
         /\ Unassigned \in Nat
         /\ e[1] \in 1..Rows /\ e[2] \in 1..Cols /\ e = <<e[1], e[2]>>
<1>1. e[1] \in 1..Rows /\ e[2] \in 1..Cols /\ e = <<e[1], e[2]>>
  OBVIOUS
<1>2. e[1] \in Index /\ e[2] \in Index /\ e[1] <= Rows /\ e[2] <= Cols
  BY <1>1, SidesAreFinite, Sides
<1>3. a[<<e[1], e[2]>>] \in Costs
  BY <1>2 DEF Squared
<1>4. Costs \subseteq Nat /\ Unassigned \in Costs /\ \A c \in Costs : c <= Unassigned
  BY HungarianAssumption, AssociationAssumption
<1>5. QED
  BY <1>1, <1>3, <1>4

\* Sums over a one-to-one set of pairs inside the gates.
LEMMA GatedTotal ==
  ASSUME TypeOK, Squared, NEW M \in SUBSET ((1..Rows) \X (1..Cols)), IsFiniteSet(M),
         NEW Gate \in Nat, \A e \in M : a[e] <= Gate
  PROVE  Total(a, M) \in Nat /\ Total(a, M) <= Cardinality(M) * Gate
<1>1. \A e \in M : a[e] \in Int /\ a[e] >= 0 /\ a[e] \in Nat
  BY PairsInPlace
<1> DEFINE none == [e \in M |-> 0]
           most == [e \in M |-> Gate]
<1>2. /\ \A e \in M : none[e] = 0 /\ none[e] \in Int /\ none[e] <= a[e]
      /\ \A e \in M : most[e] = Gate /\ most[e] \in Int /\ a[e] <= most[e]
  BY <1>1
<1> HIDE DEF none, most
<1>3. Total(none, M) = Cardinality(M) * 0
  <2>1. 0 \in Int /\ \A e \in M : none[e] = 0
    BY <1>2
  <2>2. QED
    BY <2>1, TotalOfSame
<1>4. Total(most, M) = Cardinality(M) * Gate
  <2>1. Gate \in Int /\ \A e \in M : most[e] = Gate
    BY <1>2
  <2>2. QED
    BY <2>1, TotalOfSame
<1>5. Total(none, M) <= Total(a, M)
  <2>1. /\ \A e \in M : none[e] \in Int
        /\ \A e \in M : a[e] \in Int
        /\ \A e \in M : none[e] <= a[e]
    BY <1>1, <1>2
  <2>2. QED
    BY <2>1, TotalCompares
<1>6. Total(a, M) <= Total(most, M)
  <2>1. /\ \A e \in M : most[e] \in Int
        /\ \A e \in M : a[e] \in Int
        /\ \A e \in M : a[e] <= most[e]
    BY <1>1, <1>2
  <2>2. QED
    BY <2>1, TotalCompares
<1>7. Total(a, M) \in Int
  <2>1. \A e \in M : a[e] \in Int
    BY <1>1
  <2>2. QED
    BY <2>1, TotalIsNumber
<1>8. Cardinality(M) * 0 = 0
  <2>1. Cardinality(M) \in Nat
    BY FS_CardinalityType
  <2>2. QED
    BY <2>1
<1>9. QED
  BY <1>3, <1>4, <1>5, <1>6, <1>7, <1>8

\* The weighing of costs against each other: a pair more is worth more than all
\* that the pairs inside the gates may cost.
LEMMA OnePairMore ==
  ASSUME NEW s \in Nat, NEW h \in Nat, NEW m \in Nat, h <= s, m <= s,
         NEW q \in Nat, NEW t \in Nat, NEW U \in Nat, NEW Gate \in Nat,
         t <= m * Gate, s * Gate < U,
         q + (s - h) * U <= t + (s - m) * U
  PROVE  m < h \/ (m = h /\ q <= t)
<1>1. CASE m = h
  <2> DEFINE n == s - h
             b == n * U
  <2>1. n \in Int
    OBVIOUS
  <2> HIDE DEF n
  <2>2. b \in Int
    BY <2>1
  <2>3. q + b <= t + b
    BY <1>1 DEF n
  <2> HIDE DEF b
  <2>4. q <= t
    BY <2>2, <2>3
  <2>5. QED
    BY <1>1, <2>4
<1>2. CASE m > h
  <2>1. PICK d \in Nat : m = h + d + 1
    <3>1. m - h - 1 \in Nat /\ m = h + (m - h - 1) + 1
      BY <1>2
    <3>2. QED
      BY <3>1
  <2>2. PICK n \in Nat : s = m + n
    <3>1. s - m \in Nat /\ s = m + (s - m)
      OBVIOUS
    <3>2. QED
      BY <3>1
  <2>3. s - m = n /\ s - h = n + d + 1
    BY <2>1, <2>2
  <2>4. q + (n + d + 1) * U <= t + n * U
    BY <2>3
  <2>5. (n + d + 1) * U = n * U + d * U + U /\ n * U \in Nat /\ d * U \in Nat
    OBVIOUS
  <2>6. q + d * U + U <= t
    BY <2>4, <2>5
  <2>7. s * Gate = m * Gate + n * Gate /\ m * Gate \in Nat /\ n * Gate \in Nat
    BY <2>2
  <2>8. t < U
    BY <2>7
  <2>9. QED
    BY <2>5, <2>6, <2>8
<1>3. QED
  BY <1>1, <1>2

LEMMA DonePairsBest ==
  ASSUME HungarianInv, Squared,
         NEW Gate \in Nat, \A c \in Costs : c < Unassigned => c <= Gate,
         Smaller * Gate < Unassigned
  PROVE  HungarianPairsBest
<1> SUFFICES ASSUME pc = "done"
             PROVE  /\ HungarianMatches \in GatedMatchings
                    /\ \A M \in GatedMatchings :
                         \/ Cardinality(M) < Cardinality(HungarianMatches)
                         \/ /\ Cardinality(M) = Cardinality(HungarianMatches)
                            /\ Cost(HungarianMatches) <= Cost(M)
  BY DEF HungarianPairsBest
<1> DEFINE J == Assigned
           H == HungarianMatches
           D == J \ H
           h == Cardinality(H)
           padding == (N - Smaller) * Pad
<1>1. TypeOK /\ Feasible /\ Squared
  BY DEF HungarianInv, DualFits
<1>2. /\ J \in SUBSET ((1..Rows) \X (1..Cols)) /\ OneToOne(J)
      /\ IsFiniteSet(J) /\ Cardinality(J) = Smaller /\ Total(a, J) \in Int
      /\ Total(u, Index) + Total(v, Index) = Total(a, J) + padding
  BY AssignedIsFull
<1>3. /\ H \in SUBSET J /\ \A e \in J : e \in H <=> Gated(e)
  BY DEF HungarianMatches
<1> HIDE DEF J
<1>4. HungarianMatches \in GatedMatchings
  <2>1. OneToOne(H)
    BY <1>2, <1>3 DEF OneToOne
  <2>2. QED
    BY <1>2, <1>3, <2>1 DEF GatedMatchings
<1> HIDE DEF H
<1>5. IsFiniteSet(H) /\ IsFiniteSet(D) /\ Cardinality(D) = Smaller - h
      /\ h \in Nat /\ h <= Smaller /\ H \in SUBSET ((1..Rows) \X (1..Cols))
  BY <1>2, <1>3, RestOfSet
<1>6. \A e \in J : a[e] \in Int /\ a[e] \in Costs /\ a[e] <= Unassigned
                   /\ Unassigned \in Nat
  BY <1>1, <1>2, PairsInPlace
<1>7. Unassigned \in Nat
  BY HungarianAssumption, AssociationAssumption
<1>8. /\ Total(a, J) = Total(a, H) + Total(a, D)
      /\ Total(a, D) = (Smaller - h) * Unassigned
  <2>1. \A e \in J : a[e] \in Int
    BY <1>6
  <2>2. Total(a, J) = Total(a, H) + Total(a, D)
    BY <1>2, <1>3, <2>1, TotalOfParts
  <2>3. \A e \in D : a[e] = Unassigned
    BY <1>3, <1>6, <1>7 DEF Gated
  <2>4. Unassigned \in Int
    BY <1>7
  <2> HIDE DEF D
  <2>5. Total(a, D) = Cardinality(D) * Unassigned
    BY <1>5, <2>3, <2>4, TotalOfSame
  <2>6. QED
    BY <1>5, <2>2, <2>5
<1>9. Total(a, H) \in Nat
  <2>1. \A e \in H : a[e] <= Unassigned
    BY <1>3, <1>6
  <2>2. QED
    BY <1>1, <1>5, <1>7, <2>1, GatedTotal
<1>10. padding \in Int
  <2> DEFINE n == N - Smaller
  <2>1. n \in Int /\ Pad \in Int
    BY SidesAreFinite, Sides
  <2> HIDE DEF n
  <2>2. n * Pad \in Int
    BY <2>1
  <2>3. QED
    BY <2>2 DEF n
<1>11. ASSUME NEW M \in GatedMatchings
       PROVE  \/ Cardinality(M) < h
              \/ Cardinality(M) = h /\ Total(a, H) <= Total(a, M)
  <2> DEFINE m == Cardinality(M)
  <2>1. /\ M \in SUBSET ((1..Rows) \X (1..Cols)) /\ OneToOne(M)
        /\ \A e \in M : a[e] < Unassigned
    BY DEF GatedMatchings, Gated
  <2>2. \A r \in (1..Rows) \ RowsOf(M) : \A k \in (1..Cols) \ ColsOf(M) :
          a[<<r, k>>] <= Unassigned
    <3> TAKE r \in (1..Rows) \ RowsOf(M)
    <3> TAKE k \in (1..Cols) \ ColsOf(M)
    <3>1. <<r, k>> \in (1..Rows) \X (1..Cols)
      OBVIOUS
    <3>2. QED
      BY <1>1, <3>1, PairsInPlace
  <2>3. /\ IsFiniteSet(M) /\ m \in Nat /\ m <= Smaller
        /\ Total(u, Index) + Total(v, Index)
             <= Total(a, M) + (Smaller - m) * Unassigned + padding
    <3>1. Unassigned \in Int
      BY <1>7
    <3>2. QED
      BY <1>1, <2>1, <2>2, <3>1, PotentialsBound
  <2>4. Total(a, M) \in Nat /\ Total(a, M) <= m * Gate
    <3>1. \A e \in M : a[e] <= Gate
      <4> TAKE e \in M
      <4>1. a[e] \in Costs
        BY <1>1, <2>1, PairsInPlace
      <4>2. QED
        BY <2>1, <4>1
    <3>2. QED
      BY <1>1, <2>1, <2>3, <3>1, GatedTotal
  <2> DEFINE q == Total(a, H)
             t == Total(a, M)
             U == Unassigned
             c1 == (Smaller - h) * U
             c2 == (Smaller - m) * U
  <2>5. q + c1 + padding <= t + c2 + padding
    BY <1>2, <1>8, <2>3
  <2>6. c1 \in Int /\ c2 \in Int
    <3> DEFINE n1 == Smaller - h
               n2 == Smaller - m
    <3>1. n1 \in Int /\ n2 \in Int
      BY <1>5, <2>3, SidesAreFinite
    <3> HIDE DEF n1, n2
    <3>2. n1 * U \in Int /\ n2 * U \in Int
      BY <1>7, <3>1
    <3>3. QED
      BY <3>2 DEF n1, n2
  <2> HIDE DEF q, t, m, c1, c2, padding, h, U
  <2>7. q + c1 <= t + c2
    BY <1>9, <1>10, <2>4, <2>5, <2>6 DEF q, t
  <2>8. /\ Smaller \in Nat /\ h \in Nat /\ m \in Nat /\ h <= Smaller /\ m <= Smaller
        /\ q \in Nat /\ t \in Nat /\ U \in Nat /\ Gate \in Nat
        /\ t <= m * Gate /\ Smaller * Gate < U
        /\ q + (Smaller - h) * U <= t + (Smaller - m) * U
    BY <1>5, <1>7, <1>9, <2>3, <2>4, <2>7, SidesAreFinite DEF q, t, c1, c2, U
  <2> DEFINE s == Smaller
  <2> HIDE DEF s
  <2>9. m < h \/ (m = h /\ q <= t)
    BY <2>8, OnePairMore DEF s
  <2>10. QED
    BY <2>9 DEF m, q, t
<1>12. QED
  BY <1>4, <1>11, CostIsTotal DEF H, h

\* If all the costs inside the gates of as many pairs as there can be come to less
\* than the price of a pair outside, no pairing inside the gates has more pairs than
\* the Hungarian assignment, and none as many at less cost (associate_hungarian).
THEOREM TheHungarianPairsBest ==
  ASSUME NEW Gate \in Nat, \A c \in Costs : c < Unassigned => c <= Gate,
         Smaller * Gate < Unassigned
  PROVE  Spec => []HungarianPairsBest
<1>1. HungarianInv /\ Squared => HungarianPairsBest
  BY DonePairsBest
<1>2. QED
  BY <1>1, HungarianInvariance, MatrixStays, PTL

-----------------------------------------------------------------------------
\* Of the pairs of one track there is a first among the cheapest.
LEMMA BestIsIn ==
  ASSUME NEW S, S # {}, \A e \in S : a[e] \in Nat /\ e[2] \in Nat
  PROVE  Best(S) \in S
<1> DEFINE prices == {a[e] : e \in S}
<1>1. prices \in SUBSET Nat /\ prices # {}
  OBVIOUS
<1>2. PICK c \in prices : \A d \in prices : c <= d
  <2> HIDE DEF prices
  <2> QED
    BY <1>1, LeastNumber
<1> DEFINE cheap == {e[2] : e \in {f \in S : a[f] = c}}
<1>3. cheap \in SUBSET Nat /\ cheap # {}
  OBVIOUS
<1>4. PICK k \in cheap : \A l \in cheap : k <= l
  <2> HIDE DEF cheap
  <2> QED
    BY <1>3, LeastNumber
<1>5. PICK e \in S : a[e] = c /\ e[2] = k
  OBVIOUS
<1>6. ASSUME NEW f \in S
      PROVE  a[e] < a[f] \/ (a[e] = a[f] /\ e[2] <= f[2])
  <2>1. a[f] \in prices /\ a[f] \in Nat /\ a[e] \in Nat
    OBVIOUS
  <2>2. c <= a[f]
    BY <1>2, <2>1
  <2>3. CASE a[f] = c
    <3>1. f[2] \in cheap
      BY <2>3
    <3>2. QED
      BY <1>4, <1>5, <2>3, <3>1
  <2>4. CASE a[f] # c
    <3> HIDE DEF prices, cheap
    <3> QED
      BY <1>5, <2>1, <2>2, <2>4
  <2>5. QED
    BY <2>3, <2>4
<1>7. QED
  BY <1>5, <1>6 DEF Best

\* What the tracks before have taken, and what this one takes.
Taken(r, before) ==
  before \cup IF Open(r, before) = {} THEN {} ELSE {Best(Open(r, before))}

\* The tracks choose in turn: there is such a function.
LEMMA TakenInTurn ==
  \E After : /\ After = [r \in 0..Rows |-> IF r = 0 THEN {} ELSE Taken(r, After[r - 1])]
             /\ NearestMatches = After[Rows]
<1> DEFINE IsAfter(F, n) ==
             F = [r \in 0..n |-> IF r = 0 THEN {} ELSE Taken(r, F[r - 1])]
           T == {n \in Nat : \E F : IsAfter(F, n)}
<1>1. 0 \in T
  <2>1. IsAfter([r \in 0..0 |-> {}], 0)
    OBVIOUS
  <2>2. QED
    BY <2>1
<1>2. ASSUME NEW n \in T
      PROVE  n + 1 \in T
  <2>1. PICK F : IsAfter(F, n)
    OBVIOUS
  <2> DEFINE G == [r \in 0..n + 1 |-> IF r = n + 1 THEN Taken(r, F[n]) ELSE F[r]]
  <2>2. ASSUME NEW r \in 0..n + 1
        PROVE  G[r] = IF r = 0 THEN {} ELSE Taken(r, G[r - 1])
    <3>1. CASE r = n + 1
      BY <3>1
    <3>2. CASE r # n + 1
      <4>1. r \in 0..n /\ (r # 0 => r - 1 \in 0..n /\ r - 1 \in 0..n + 1 /\ r - 1 # n + 1)
        BY <3>2
      <4>2. \A k \in 0..n : F[k] = IF k = 0 THEN {} ELSE Taken(k, F[k - 1])
        BY <2>1
      <4>3. G[r] = F[r] /\ (r # 0 => G[r - 1] = F[r - 1])
        BY <3>2, <4>1
      <4>4. QED
        BY <4>1, <4>2, <4>3
    <3>3. QED
      BY <3>1, <3>2
  <2>3. IsAfter(G, n + 1)
    BY <2>2
  <2> HIDE DEF G
  <2>4. \E H : IsAfter(H, n + 1)
    BY <2>3
  <2>5. n + 1 \in Nat
    OBVIOUS
  <2> HIDE DEF IsAfter
  <2>6. QED
    BY <2>4, <2>5
<1>3. T = Nat
  <2>1. T \subseteq Nat
    OBVIOUS
  <2> HIDE DEF T
  <2>2. QED
    BY <1>1, <1>2, <2>1, NumbersByInduction
<1>4. \E F : IsAfter(F, Rows)
  BY <1>3, HungarianAssumption
<1> DEFINE F == CHOOSE F : IsAfter(F, Rows)
<1>5. IsAfter(F, Rows)
  BY <1>4
<1>6. NearestMatches = F[Rows]
  BY DEF NearestMatches, Taken
<1>7. QED
  BY <1>5, <1>6

LEMMA NearestPairsUp ==
  ASSUME TypeOK, Squared
  PROVE  NearestIsMaximal
<1> DEFINE Upto(r) == (1..r) \X (1..Cols)
           Fits(r, M) ==
             /\ M \in SUBSET Upto(r)
             /\ \A e \in M : Gated(e)
             /\ OneToOne(M)
             /\ \A e \in Upto(r) :
                  Gated(e) => \E f \in M : e[1] = f[1] \/ e[2] = f[2]
<1>1. PICK After : /\ After = [r \in 0..Rows |->
                                 IF r = 0 THEN {} ELSE Taken(r, After[r - 1])]
                   /\ NearestMatches = After[Rows]
  BY TakenInTurn
<1>2. /\ Rows \in Nat
      /\ \A r \in 0..Rows : After[r] = IF r = 0 THEN {} ELSE Taken(r, After[r - 1])
  BY <1>1, HungarianAssumption
<1>3. ASSUME NEW n \in Nat, n + 1 <= Rows, NEW M, Fits(n, M)
      PROVE  Fits(n + 1, Taken(n + 1, M))
  <2> DEFINE r == n + 1
             open == Open(r, M)
  <2>0. /\ M \in SUBSET Upto(n)
        /\ \A e \in M : Gated(e)
        /\ OneToOne(M)
        /\ \A e \in Upto(n) :
             Gated(e) => \E f \in M : e[1] = f[1] \/ e[2] = f[2]
    BY <1>3
  <2>1. /\ \A e \in Upto(n) : e \in Upto(r) /\ e[1] # r
        /\ \A e \in Upto(r) : e[1] = r \/ e \in Upto(n)
    <3>1. \A k \in 1..n : k \in 1..r /\ k # r
      OBVIOUS
    <3>2. \A k \in 1..r : k = r \/ k \in 1..n
      OBVIOUS
    <3>3. ASSUME NEW e \in Upto(n) PROVE e \in Upto(r) /\ e[1] # r
      <4>1. e = <<e[1], e[2]>> /\ e[1] \in 1..n /\ e[2] \in 1..Cols
        OBVIOUS
      <4>2. QED
        BY <3>1, <4>1
    <3>4. ASSUME NEW e \in Upto(r) PROVE e[1] = r \/ e \in Upto(n)
      <4>1. e = <<e[1], e[2]>> /\ e[1] \in 1..r /\ e[2] \in 1..Cols
        OBVIOUS
      <4>2. QED
        BY <3>2, <4>1
    <3>5. QED
      BY <3>3, <3>4
  <2>2. \A e \in open : /\ e \in Upto(r) /\ e[1] = r /\ Gated(e)
                        /\ \A f \in M : f[2] # e[2]
    <3>1. r \in 1..r
      OBVIOUS
    <3> HIDE DEF r
    <3>2. \A e \in {r} \X (1..Cols) : e \in Upto(r) /\ e[1] = r
      BY <3>1
    <3>3. QED
      BY <3>2 DEF Open
  <2>3. \A e \in Upto(r) : e[1] = r /\ Gated(e) =>
          e \in open \/ \E f \in M : f[2] = e[2]
    <3> TAKE e \in Upto(r)
    <3>1. e = <<e[1], e[2]>> /\ e[2] \in 1..Cols
      OBVIOUS
    <3>2. QED
      BY <3>1 DEF Open
  <2> HIDE DEF Upto, open, r
  <2>4. CASE open = {}
    <3>1. Taken(r, M) = M
      BY <2>4 DEF Taken, open
    <3>2. ASSUME NEW e \in Upto(r), Gated(e)
          PROVE  \E f \in M : e[1] = f[1] \/ e[2] = f[2]
      BY <2>0, <2>1, <2>3, <2>4, <3>2
    <3>3. M \in SUBSET Upto(r)
      BY <2>0, <2>1
    <3>4. Fits(r, M)
      BY <2>0, <3>2, <3>3
    <3> HIDE DEF Fits
    <3>5. QED
      BY <3>1, <3>4 DEF r
  <2>5. CASE open # {}
    <3> DEFINE b == Best(open)
    <3>1. b \in open
      <4>1. ASSUME NEW e \in open
            PROVE  a[e] \in Nat /\ e[2] \in Nat
        <5>1. e \in (1..Rows) \X (1..Cols)
          <6>1. e \in (1..r) \X (1..Cols)
            BY <2>2 DEF Upto
          <6>2. 1..r \subseteq 1..Rows
            BY <1>2, <1>3 DEF r
          <6>3. QED
            BY <6>1, <6>2
        <5>2. a[e] \in Nat /\ e[2] \in 1..Cols
          BY <5>1, PairsInPlace
        <5>3. QED
          BY <5>2, Sides
      <4>2. QED
        BY <2>5, <4>1, BestIsIn
    <3> HIDE DEF b
    <3>2. Taken(r, M) = M \cup {b}
      BY <2>5 DEF Taken, open, b
    <3> DEFINE M1 == M \cup {b}
    <3>3. M1 \in SUBSET Upto(r) /\ \A e \in M1 : Gated(e)
      BY <2>0, <2>1, <2>2, <3>1
    <3>4. OneToOne(M1)
      <4>1. \A e \in M : e[1] # b[1] /\ e[2] # b[2]
        BY <2>0, <2>1, <2>2, <3>1
      <4>2. ASSUME NEW e \in M1, NEW f \in M1, e[1] = f[1] \/ e[2] = f[2]
            PROVE  e = f
        <5>1. CASE e \in M /\ f \in M
          BY <2>0, <4>2, <5>1 DEF OneToOne
        <5>2. CASE e = b \/ f = b
          BY <4>1, <4>2, <5>2
        <5>3. QED
          BY <5>1, <5>2
      <4> HIDE DEF M1
      <4>3. QED
        BY <4>2 DEF OneToOne
    <3>5. ASSUME NEW e \in Upto(r), Gated(e)
          PROVE  \E f \in M1 : e[1] = f[1] \/ e[2] = f[2]
      <4>1. CASE e[1] = r
        BY <2>2, <3>1, <4>1
      <4>2. CASE e[1] # r
        BY <2>0, <2>1, <3>5, <4>2
      <4>3. QED
        BY <4>1, <4>2
    <3> HIDE DEF M1
    <3>6. Fits(r, M1)
      BY <3>3, <3>4, <3>5
    <3> HIDE DEF Fits
    <3>7. QED
      BY <3>2, <3>6 DEF r, M1
  <2>6. QED
    BY <2>4, <2>5
<1>4. Fits(0, {})
  BY DEF OneToOne
<1> HIDE DEF Fits
<1> DEFINE T == {n \in Nat : n <= Rows => Fits(n, After[n])}
<1>5. 0 \in T
  BY <1>2, <1>4
<1>6. ASSUME NEW n \in T
      PROVE  n + 1 \in T
  <2>1. n \in Nat /\ n + 1 \in Nat
    OBVIOUS
  <2>2. ASSUME n + 1 <= Rows
        PROVE  Fits(n + 1, After[n + 1])
    <3>1. n <= Rows /\ n + 1 \in 0..Rows /\ n + 1 # 0 /\ (n + 1) - 1 = n
      BY <1>2, <2>1, <2>2
    <3>2. Fits(n, After[n])
      BY <3>1
    <3>3. After[n + 1] = Taken(n + 1, After[n])
      BY <1>2, <3>1
    <3>4. QED
      BY <1>3, <2>1, <2>2, <3>2, <3>3
  <2>3. QED
    BY <2>1, <2>2
<1>7. T = Nat
  <2>1. T \subseteq Nat
    OBVIOUS
  <2> HIDE DEF T
  <2>2. QED
    BY <1>5, <1>6, <2>1, NumbersByInduction
<1>8. Fits(Rows, NearestMatches)
  <2>1. Rows \in T
    BY <1>2, <1>7
  <2>2. QED
    BY <1>1, <1>2, <2>1
<1>9. QED
  BY <1>8 DEF Fits, NearestIsMaximal, GatedMatchings

\* Nearest neighbor pairs one to one and leaves no pair inside a gate apart
\* (associate_nearest_neighbor).
THEOREM NearestLeavesNoPair == Spec => []NearestIsMaximal
<1>1. HungarianInv /\ Squared => NearestIsMaximal
  BY NearestPairsUp DEF HungarianInv
<1>2. QED
  BY <1>1, HungarianInvariance, MatrixStays, PTL

=============================================================================
