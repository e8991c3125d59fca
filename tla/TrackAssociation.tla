-------------------------- MODULE TrackAssociation --------------------------
(***************************************************************************)
(* Which radar measurement updates which track: the two ways the track     *)
(* manager has, the Hungarian assignment and nearest neighbor in the order *)
(* of the tracks.  Rows are tracks, columns measurements; a pair that does *)
(* not pass the gate costs Unassigned.                                     *)
(***************************************************************************)
EXTENDS Hungarian

CONSTANT Unassigned   \* unassigned_cost

ASSUME AssociationAssumption ==
  /\ Unassigned \in Costs
  /\ \A c \in Costs : c <= Unassigned /\ c < Pad

Gated(e) == a[e] < Unassigned

\* Mutant: pairs the solver had to fill up with are used.
AllAssigned == Assigned

\* associate_hungarian: the solver's pairs that pass the gate.
HungarianMatches == {e \in Assigned : Gated(e)}

-----------------------------------------------------------------------------
\* Mutant: a measurement may be taken twice.
OpenTwice(r, taken) == {e \in {r} \X (1..Cols) : Gated(e)}

Open(r, taken) ==
  {e \in {r} \X (1..Cols) : Gated(e) /\ \A f \in taken : f[2] # e[2]}

\* The first of the cheapest pairs.
Best(S) ==
  CHOOSE e \in S : \A f \in S : a[e] < a[f] \/ (a[e] = a[f] /\ e[2] <= f[2])

\* associate_nearest_neighbor: each track in turn takes the cheapest
\* measurement that is left.
NearestMatches ==
  LET After[r \in 0..Rows] ==
        IF r = 0 THEN {}
        ELSE LET open == Open(r, After[r - 1])
             IN  After[r - 1] \cup IF open = {} THEN {} ELSE {Best(open)}
  IN  After[Rows]

-----------------------------------------------------------------------------
GatedMatchings ==
  {M \in SUBSET {e \in (1..Rows) \X (1..Cols) : Gated(e)} : OneToOne(M)}

\* No way to pair tracks with measurements inside their gates pairs more of
\* them, or as many at less cost, than the Hungarian assignment, although it
\* was given a price for pairs outside the gates and a padded matrix.
HungarianPairsBest ==
  pc = "done" =>
    /\ HungarianMatches \in GatedMatchings
    /\ \A M \in GatedMatchings :
         \/ Cardinality(M) < Cardinality(HungarianMatches)
         \/ /\ Cardinality(M) = Cardinality(HungarianMatches)
            /\ Cost(HungarianMatches) <= Cost(M)

\* Nearest neighbor updates a track once and uses a measurement once, and it
\* leaves no track and measurement apart that pass the gate together.
NearestIsMaximal ==
  pc = "done" =>
    /\ NearestMatches \in GatedMatchings
    /\ \A e \in (1..Rows) \X (1..Cols) :
         Gated(e) => \E f \in NearestMatches : e[1] = f[1] \/ e[2] = f[2]

=============================================================================
