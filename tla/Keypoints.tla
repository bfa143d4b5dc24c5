------------------------------ MODULE Keypoints ------------------------------
(***************************************************************************)
(* What the keypoint extractors make of the response of every point: the   *)
(* non-maxima suppressions of harris3d, agast, susan, curvature, iss, mls  *)
(* and sift3d, and the classification of the LOAM features, which the code *)
(* has twice.                                                              *)
(*                                                                         *)
(* The response of a point is [valid, value, other]: one measure for most  *)
(* kinds, variation and curvature for mls, and for sift3d the value at the *)
(* scale and at the ones around it (here both the same, in other).  How    *)
(* the eigenvalues give a response is left out.  A response may be         *)
(* NoResponse whatever the point is: a task of the parallel computation    *)
(* that throws leaves its range as it was, and wait() does not say so.     *)
(***************************************************************************)
EXTENDS Integers, FiniteSets

CONSTANTS
  Kinds,       \* extractors to try
  Point,       \* the points of the cloud
  Values,      \* values of the measure
  Others,      \* values of the other measure
  Threshold,   \* the least or greatest value of a candidate
  Neighbours   \* which points are near each other: a set of functions to sets of points

VARIABLES
  kind, near, responses,
  keypoints,   \* extract_impl()
  labels,      \* classify_features(), for the LOAM features
  extracted
vars == <<kind, near, responses, keypoints, labels, extracted>>

\* Operators called Mutant_... are faulty variants of the definition that follows
\* them; no specification uses them.

NoResponse == [valid |-> FALSE, value |-> 0, other |-> 0]
Response == {NoResponse} \cup [valid : {TRUE}, value : Values, other : Others]

Init ==
  /\ kind \in Kinds /\ near \in Neighbours /\ responses \in [Point -> Response]
  /\ keypoints = {} /\ labels = [p \in Point |-> "none"] /\ extracted = FALSE

-------------------------------------------------------------------------------
(* Suppression.  Each operator is the loop of one extractor: the points that pass *)
(* its tests and that no neighbour beats.                                         *)

\* beats: the pairs of points of which the first suppresses the second.
Local(candidates, beats) ==
  {i \in candidates : \A n \in near[i] \ {i} : <<n, i>> \notin beats}

Higher ==
  {e \in Point \X Point :
     responses[e[1]].valid /\ responses[e[1]].value > responses[e[2]].value}
Lower ==
  {e \in Point \X Point :
     responses[e[1]].valid /\ responses[e[1]].value < responses[e[2]].value}

HarrisCandidates == {i \in Point : responses[i].valid /\ responses[i].value >= Threshold}
HarrisKeypoints == Local(HarrisCandidates, Higher)

\* score > 0 besides is_keypoint
AgastCandidates == {i \in Point : responses[i].valid /\ responses[i].value > 0}
AgastKeypoints == Local(AgastCandidates, Higher)

SusanCandidates == {i \in Point : responses[i].valid /\ responses[i].value <= Threshold}
SusanKeypoints == Local(SusanCandidates, Lower)

\* A curvature has no is_valid: a point without a result has curvature 0.
CurvatureCandidates == {i \in Point : responses[i].value >= Threshold}
CurvatureBeats == {e \in Point \X Point : responses[e[1]].value > responses[e[2]].value}
CurvatureKeypoints == Local(CurvatureCandidates, CurvatureBeats)

IssCandidates == {i \in Point : responses[i].valid /\ responses[i].value > 0}
IssKeypoints == Local(IssCandidates, Higher)

\* mls: one of two measures over its threshold; points are compared by the sum.
MlsCandidates ==
  {i \in Point : /\ responses[i].valid
                 /\ responses[i].value > Threshold \/ responses[i].other > Threshold}
Score(i) == responses[i].value + responses[i].other
MlsBeats == {e \in Point \X Point : responses[e[1]].valid /\ Score(e[1]) > Score(e[2])}
MlsKeypoints == Local(MlsCandidates, MlsBeats)

\* sift3d: an extremum over the scales, then over the points near at its scale; the
\* neighbours need not be extrema.  The edge test that follows is left out.
IsMax(i) == responses[i].value > responses[i].other
IsMin(i) == responses[i].value < responses[i].other
SiftCandidates ==
  {i \in Point : /\ IsMax(i) \/ IsMin(i)
                 /\ responses[i].value > Threshold \/ -responses[i].value > Threshold}
SiftBeats ==
  {e \in Point \X Point :
     \/ IsMax(e[2]) /\ responses[e[1]].value > responses[e[2]].value
     \/ IsMin(e[2]) /\ responses[e[1]].value < responses[e[2]].value}
SiftKeypoints == Local(SiftCandidates, SiftBeats)

-------------------------------------------------------------------------------
(* LOAM: planes from Threshold on, edges above Threshold + 1, which is neither.  *)

m_curvature_threshold == Threshold
m_edge_threshold == Threshold + 1
m_planar_threshold == Threshold + 1

FeatureLabel(i) ==
  LET curvature == responses[i].value
  IN IF ~responses[i].valid \/ curvature < m_curvature_threshold THEN "none"
     ELSE IF curvature > m_edge_threshold THEN "edge"
     ELSE IF curvature < m_planar_threshold THEN "planar" ELSE "none"

Mutant_LoamFeatures ==
  {i \in Point : /\ responses[i].valid
                 /\ \/ responses[i].value > m_edge_threshold
                    \/ responses[i].value < m_planar_threshold}
LoamFeatures ==
  {i \in Point : /\ responses[i].valid
                 /\ responses[i].value >= m_curvature_threshold
                 /\ \/ responses[i].value > m_edge_threshold
                    \/ responses[i].value < m_planar_threshold}

Keypoint ==
  CASE kind = "harris3d" -> HarrisKeypoints
    [] kind = "agast" -> AgastKeypoints
    [] kind = "susan" -> SusanKeypoints
    [] kind = "curvature" -> CurvatureKeypoints
    [] kind = "iss" -> IssKeypoints
    [] kind = "mls" -> MlsKeypoints
    [] kind = "sift3d" -> SiftKeypoints
    [] kind = "loam" -> LoamFeatures

\* extract_impl() and, for the LOAM features, extract_labeled_cloud().
Extract ==
  /\ ~extracted /\ extracted' = TRUE
  /\ keypoints' = Keypoint
  /\ labels' = IF kind = "loam" THEN [p \in Point |-> FeatureLabel(p)] ELSE labels
  /\ UNCHANGED <<kind, near, responses>>

Next == Extract

Spec == Init /\ [][Next]_vars

-------------------------------------------------------------------------------
(* Properties *)

TypeOK ==
  /\ kind \in Kinds /\ near \in Neighbours /\ responses \in [Point -> Response]
  /\ keypoints \subseteq Point /\ extracted \in BOOLEAN

\* What is a candidate before the suppression; mls and sift3d are not here, whose
\* candidates may be suppressed by a point that is none and is dropped itself.
Candidates ==
  CASE kind = "harris3d" -> HarrisCandidates
    [] kind = "agast" -> AgastCandidates
    [] kind = "susan" -> SusanCandidates
    [] kind = "curvature" -> CurvatureCandidates
    [] kind = "iss" -> IssCandidates
    [] OTHER -> {}

\* Suppression loses no region: any part of the cloud that is near no other part and
\* has a candidate keeps a keypoint, equal responses included, and keypoints near
\* each other are equal.  The LOAM features are the points with a label.
RegionsKept ==
  extracted =>
    /\ \A region \in SUBSET Point :
         /\ \A i \in region : near[i] \subseteq region
         /\ region \cap Candidates # {}
         => region \cap keypoints # {}
    /\ \A i, j \in Candidates \cap keypoints :
         j \in near[i] => responses[i].value = responses[j].value
    /\ kind = "loam" => keypoints = {i \in Point : labels[i] # "none"}

===============================================================================
