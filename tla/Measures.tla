------------------------------- MODULE Measures -------------------------------
(***************************************************************************)
(* toolbox::metrics and toolbox::math.  Numbers are exact: a fraction is   *)
(* <<numerator, denominator>>, a root is named by what it is the root of,  *)
(* an angle by the cosine it belongs to.  Logarithms and roots of products *)
(* are left at what the code compares them with.                           *)
(*                                                                         *)
(* Distances of vectors, directions and histograms, and the factory that   *)
(* makes them by name: one call is on three arguments, every one against   *)
(* every other, and gives nine answers.                                    *)
(*                                                                         *)
(* Metrics of clouds and the score of a registration: the points lie on    *)
(* the diagonal of space and are given by their distance from the origin,  *)
(* so that every distance is a whole number of units and a box is a cube   *)
(* between two points of the diagonal.                                     *)
(*                                                                         *)
(* Statistics and random numbers (statistics.hpp, random.hpp): what is     *)
(* computed of a container of numbers, and what is drawn.  The elements    *)
(* are unsigned and as wide as an int, so that their sums wrap around.  A  *)
(* random engine is any choice among what the distribution can give.       *)
(*                                                                         *)
(* The SHOT, PFH, 3DSC, VFH, CVFH and ROPS descriptors, and the matching   *)
(* functions of descriptors.hpp.  What two points say of each other        *)
(* (distances, angles) is a sequence of features, each on a scale from 0,  *)
(* the low end of the range that the code expects, to Full, the high end.  *)
(* A histogram is the bag of the bins that something was counted in; the   *)
(* weights by distance and the final normalization, which change no bin,   *)
(* are left out.                                                           *)
(***************************************************************************)
EXTENDS Integers, Sequences, SequencesExt, FiniteSetsExt

CONSTANTS
  Vector,     \* what vector and angular metrics compare
  Histogram,  \* what histogram metrics compare
  Powers,     \* the p of GeneralizedLpMetric
  Weights,    \* square roots of weights, and scales
  Script,     \* calls to the factory and the registry, in order
  Cloud,      \* sequences of points
  Ks,         \* the k of ModifiedHausdorffMetric
  Shifts,     \* motions of the source along the diagonal
  Threshold,  \* inlier thresholds
  Width,      \* bits of an element
  Data,       \* containers
  Portions,   \* the p of percentile(), as fractions
  Counts,     \* the k of min_k(), max_k() and sample()
  Limits,     \* bounds of random numbers
  Full,           \* the high end of the scale of a feature, a multiple of 8
  DescribedCloud, \* clouds: [size, near, features, smooth, coincident]
  Described,      \* sequences of points that are described
  MaxNeighbours,  \* arguments to set_num_neighbors()
  Subdivisions,   \* arguments to set_num_subdivisions()
  Rows            \* distances of descriptors that are matched: [sources][targets]

VARIABLES call, answer

vars == <<call, answer>>

-------------------------------------------------------------------------------
(* Numbers *)

Infinity == 1000000
Thrown == <<>>

Abs(x) == IF x < 0 THEN -x ELSE x
Total(s) == FoldLeft(LAMBDA x, y : x + y, 0, s)
Plus(x, y) == <<x[1] * y[2] + y[1] * x[2], x[2] * y[2]>>
AtMost(x, y) == x[1] * y[2] <= y[1] * x[2]
Same(x, y) == x[1] * y[2] = y[1] * x[2]

-------------------------------------------------------------------------------
(* Vector metrics: <<p, v>> is the p-th root of v. *)

Differences(a, b) == [i \in DOMAIN a |-> Abs(a[i] - b[i])]

L1(a, b) == Total(Differences(a, b))
SquaredL2(a, b) == Total([i \in DOMAIN a |-> (a[i] - b[i]) * (a[i] - b[i])])
Linf(a, b) == Max({0} \cup {Differences(a, b)[i] : i \in DOMAIN a})

Lp(p, a, b) ==
  <<p, IF p = 1 THEN L1(a, b)
       ELSE IF p = 2 THEN SquaredL2(a, b)
       ELSE Total([i \in DOMAIN a |-> Differences(a, b)[i] ^ p])>>

GeneralizedLp(p, a, b) ==
  IF p <= 0 THEN Thrown
  ELSE IF p = Infinity THEN <<1, Linf(a, b)>>
  ELSE Lp(p, a, b)

SquaredGeneralizedLp(p, a, b) ==
  LET d == GeneralizedLp(p, a, b)
  IN  IF d = Thrown THEN Thrown
      ELSE IF p = 2 THEN <<1, SquaredL2(a, b)>>
      ELSE <<d[1], d[2] * d[2]>>

\* A weighted metric multiplies both vectors by the roots of the weights.
Weighted(roots, a, b) ==
  IF Len(roots) # Len(a) THEN Thrown
  ELSE LET by(v) == [i \in DOMAIN v |-> v[i] * roots[i]]
       IN  <<L1(by(a), by(b)), SquaredL2(by(a), by(b))>>

SquaredScaled(scales, a, b) ==
  IF Len(scales) # Len(a) THEN Thrown
  ELSE FoldLeft(Plus, <<0, 1>>,
                [i \in DOMAIN a |-> <<Differences(a, b)[i] ^ 2, scales[i] ^ 2>>])

-------------------------------------------------------------------------------
(* Angular metrics: the square of the cosine, with the sign of the cosine. *)

Dot(a, b) == Total([i \in DOMAIN a |-> a[i] * b[i]])

Right == <<0, 1>>       \* the cosine of what distance 1 of CosineMetric stands for
Opposite == <<-1, 1>>   \* of pi, of 1 of the normalised angle and of the correlation
Aligned == <<1, 1>>     \* of distance 0

SignedSquare(a, b) == <<Dot(a, b) * Abs(Dot(a, b)), Dot(a, a) * Dot(b, b)>>
HasDirection(a) == Dot(a, a) # 0

Cosine(a, b) == IF HasDirection(a) /\ HasDirection(b) THEN SignedSquare(a, b) ELSE Right
Angular(a, b) == IF HasDirection(a) /\ HasDirection(b) THEN SignedSquare(a, b) ELSE Opposite

Centred(a) == [i \in DOMAIN a |-> Len(a) * a[i] - Total(a)]
Correlation(a, b) == IF a = <<>> THEN Aligned ELSE Angular(Centred(a), Centred(b))

InnerProduct(a, b) == 1 - Dot(a, b)

-------------------------------------------------------------------------------
(* Histogram metrics *)

ChiSquared(a, b) ==
  FoldLeft(Plus, <<0, 1>>,
           [i \in DOMAIN a |-> IF a[i] + b[i] > 0 THEN <<(a[i] - b[i]) ^ 2, 2 * (a[i] + b[i])>>
                               ELSE <<0, 1>>])

HistogramIntersection(a, b) ==
  LET common == Total([i \in DOMAIN a |-> IF a[i] < b[i] THEN a[i] ELSE b[i]])
      larger == Max({Total(a), Total(b)})
  IN  IF \E i \in DOMAIN a : a[i] < 0 \/ b[i] < 0 THEN Thrown
      ELSE IF larger = 0 THEN <<0, 1>>
      ELSE <<larger - common, larger>>

Empty(a) == Total(a) = 0
SameShape(a, b) == \A i \in DOMAIN a : a[i] * Total(b) = b[i] * Total(a)
Disjoint(a, b) == \A i \in DOMAIN a : a[i] = 0 \/ b[i] = 0

\* The coefficient is 1 for the same shape only, and 0 where nothing overlaps.
Bhattacharyya(a, b) ==
  IF Empty(a) \/ Empty(b) THEN "one"
  ELSE IF SameShape(a, b) THEN "zero" ELSE IF Disjoint(a, b) THEN "infinite" ELSE "between"

Hellinger(a, b) ==
  IF Empty(a) \/ Empty(b) \/ Disjoint(a, b) THEN "one"
  ELSE IF SameShape(a, b) THEN "zero" ELSE "between"

\* Sums of the first bins; the difference is taken after each.
EarthMover(a, b) ==
  IF Empty(a) \/ Empty(b) THEN <<Len(a), 1>>
  ELSE <<Total([i \in DOMAIN a |-> Abs(Total(SubSeq(a, 1, i)) * Total(b)
                                        - Total(SubSeq(b, 1, i)) * Total(a))]),
         Total(a) * Total(b)>>

\* The second sum is not tested: nothing by nothing is not a number.
KLDivergence(a, b) ==
  IF Empty(a) THEN "infinite"
  ELSE IF Empty(b) THEN "nan"
  ELSE IF \E i \in DOMAIN a : a[i] > 0 /\ b[i] = 0 THEN "infinite"
  ELSE IF SameShape(a, b) THEN "zero" ELSE "between"

JensenShannon(a, b) ==
  IF Empty(a) \/ Empty(b) THEN "one"
  ELSE IF SameShape(a, b) THEN "zero" ELSE IF Disjoint(a, b) THEN "most" ELSE "between"

-------------------------------------------------------------------------------
(* The factory and the registry *)

Defaults ==
  [l1 |-> "L1", manhattan |-> "L1", l2 |-> "L2", euclidean |-> "L2", linf |-> "Linf",
   chebyshev |-> "Linf", chi_squared |-> "ChiSquared",
   histogram_intersection |-> "HistogramIntersection", bhattacharyya |-> "Bhattacharyya",
   hellinger |-> "Hellinger", emd |-> "EMD", wasserstein |-> "EMD",
   kl_divergence |-> "KLDivergence", jensen_shannon |-> "JensenShannon", cosine |-> "Cosine",
   angular |-> "Angular", normalized_angular |-> "NormalizedAngular",
   correlation |-> "Correlation", inner_product |-> "InnerProduct", l3 |-> "Lp", l4 |-> "Lp"]

Put(f, name, v) == [n \in DOMAIN f \cup {name} |-> IF n = name THEN v ELSE f[n]]

\* The traits have no entry for metrics other than L1 and L2: the defaults say that a
\* metric is symmetric.
Info(metric) == [metric |-> metric, symmetric |-> TRUE, squared |-> metric = "L2"]

RegisterMetric(made, name, metric) == [made EXCEPT !.creators = Put(@, name, metric)]
RegisterInfo(made, name, metric) ==
  RegisterMetric([made EXCEPT !.infos = Put(@, name, Info(metric))], name, metric)
Clear(made) == [made EXCEPT !.creators = <<>>]

Done(made, step) ==
  CASE step.op = "register" -> RegisterMetric(made, step.name, step.metric)
    [] step.op = "inform" -> RegisterInfo(made, step.name, step.metric)
    [] step.op = "clear" -> Clear(made)

Create(made, name) == IF name \in DOMAIN made.creators THEN <<made.creators[name]>> ELSE Thrown

-------------------------------------------------------------------------------
(* Metrics of clouds *)

Unbounded == <<1, 0>>        \* also for the largest number, which compute_lcp_score() returns
NotANumber == <<0, 0>>

Larger(x, y) == IF x[1] * y[2] < y[1] * x[2] THEN y ELSE x

Distance(p, q) == Abs(p - q)

-------------------------------------------------------------------------------
(* From every point to the nearest point of the other cloud *)

Nearest(p, cloud) == Min({Distance(p, cloud[j]) : j \in DOMAIN cloud})
ToNearest(a, b) == [i \in DOMAIN a |-> Nearest(a[i], b)]

Hausdorff(a, b) ==
  IF a = <<>> \/ b = <<>> THEN Unbounded
  ELSE <<Max(ToSet(ToNearest(a, b)) \cup ToSet(ToNearest(b, a))), 1>>

\* The average of the k smallest, of none for k = 0.
AverageOfSmallest(s, k) ==
  LET n == Min({k, Len(s)})
  IN  <<Total(SubSeq(SortSeq(s, <), 1, n)), n>>

ModifiedHausdorff(k, a, b) ==
  IF a = <<>> \/ b = <<>> THEN Unbounded
  ELSE IF k = 0 THEN NotANumber
  ELSE Larger(AverageOfSmallest(ToNearest(a, b), k), AverageOfSmallest(ToNearest(b, a), k))

Chamfer(a, b) ==
  IF a = <<>> \/ b = <<>> THEN Unbounded
  ELSE <<Total(ToNearest(a, b)) * Len(b) + Total(ToNearest(b, a)) * Len(a),
         2 * Len(a) * Len(b)>>

-------------------------------------------------------------------------------
(* Greedy matching: each point of a in turn takes the nearest point of b that is left,    *)
(* the first of several.                                                                  *)

Take(b, state, p) ==
  LET left == DOMAIN b \ state.matched
      min_dist == Min({Distance(p, b[j]) : j \in left})
      best_match == Min({j \in left : Distance(p, b[j]) = min_dist})
  IN  [matched |-> state.matched \cup {best_match}, total_cost |-> state.total_cost + min_dist]

PointCloudEMD(a, b) ==
  IF a = <<>> \/ b = <<>> THEN Unbounded
  ELSE IF Len(a) = Len(b)
  THEN <<FoldLeft(LAMBDA state, p : Take(b, state, p), [matched |-> {}, total_cost |-> 0],
                  a).total_cost, Len(a)>>
  ELSE Chamfer(a, b)

-------------------------------------------------------------------------------
(* Centres and boxes *)

Centroid(a, b) ==
  IF a = <<>> \/ b = <<>> THEN Unbounded
  ELSE <<Abs(Total(a) * Len(b) - Total(b) * Len(a)), Len(a) * Len(b)>>

Box(cloud) == [min |-> Min(ToSet(cloud)), max |-> Max(ToSet(cloud))]
Volume(from, to) == IF to < from THEN 0 ELSE (to - from) ^ 3

BoundingBox(mode, a, b) ==
  IF a = <<>> \/ b = <<>> THEN Unbounded
  ELSE LET p == Box(a)
           q == Box(b)
           intersection == Volume(Max({p.min, q.min}), Min({p.max, q.max}))
           union == Volume(p.min, p.max) + Volume(q.min, q.max) - intersection
       IN  CASE mode = "center" -> <<Abs(p.min + p.max - (q.min + q.max)), 2>>
             [] mode = "min" -> <<Max({0, p.min - q.max, q.min - p.max}), 1>>
             [] mode = "iou" -> IF union = 0 THEN <<1, 1>> ELSE <<union - intersection, union>>

-------------------------------------------------------------------------------
(* LCPMetric: the average over the points that the motion brings near the target *)

LcpScore(source, target, shift, threshold) ==
  LET moved == [i \in DOMAIN source |-> source[i] + shift]
      near == SelectSeq([i \in DOMAIN source |-> i],
                        LAMBDA i : Nearest(moved[i], target) <= threshold)
  IN  IF source = <<>> \/ target = <<>> \/ near = <<>> THEN [score |-> Unbounded, inliers |-> <<>>]
      ELSE [score |-> <<Total([i \in DOMAIN near |-> Nearest(moved[near[i]], target)]), Len(near)>>,
            inliers |-> near]

-------------------------------------------------------------------------------
(* Elements of a container of numbers *)

ValueType == 0 .. 2 ^ Width - 1
Wrap(x) == x % 2 ^ Width

Sorted(s) == SortSeq(s, <)
Times(x, s) == Cardinality({i \in DOMAIN s : s[i] = x})

-------------------------------------------------------------------------------
(* Statistics *)

Mean(data) == IF data = <<>> THEN Thrown ELSE <<Total(data), Len(data)>>

\* The two in the middle are added as elements, before the division as a double.
Median(data) ==
  LET s == Sorted(data)
      n == Len(data)
  IN  IF n = 0 THEN Thrown
      ELSE IF n % 2 = 1 THEN <<s[n \div 2 + 1], 1>>
      ELSE <<Wrap(s[n \div 2] + s[n \div 2 + 1]), 2>>

Mode(data) ==
  LET most == Max({0} \cup {Times(x, data) : x \in ToSet(data)})
  IN  SetToSortSeq({x \in ToSet(data) : Times(x, data) = most}, <)

Variance(data, sample) ==
  LET n == Len(data)
      squares == Total([i \in DOMAIN data |-> (n * data[i] - Total(data)) ^ 2])
  IN  IF n < (IF sample THEN 2 ELSE 1) THEN Thrown
      ELSE <<squares, n * n * (IF sample THEN n - 1 ELSE n)>>

Sum(data) == Wrap(Total(data))
SumAsDouble(data) == Total(data)

Least(data) == IF data = <<>> THEN Thrown ELSE <<Min(ToSet(data)), 1>>
Greatest(data) == IF data = <<>> THEN Thrown ELSE <<Max(ToSet(data)), 1>>
ValueRange(data) == IF data = <<>> THEN Thrown ELSE <<Max(ToSet(data)) - Min(ToSet(data)), 1>>

\* Between two elements the value is interpolated.
Percentile(data, p) ==
  LET s == Sorted(data)
      scaled == p[1] * (Len(data) - 1)
      lower == scaled \div p[2]
      rest == scaled % p[2]
  IN  IF data = <<>> \/ p[1] < 0 \/ p[1] > p[2] THEN Thrown
      ELSE IF p[1] = 0 THEN <<Head(s), 1>>
      ELSE IF p[1] = p[2] THEN <<Last(s), 1>>
      ELSE IF rest = 0 THEN <<s[lower + 1], 1>>
      ELSE <<s[lower + 1] * p[2] + rest * (s[lower + 2] - s[lower + 1]), p[2]>>

\* For k = 0 an empty container is no error.
MinK(data, k) == SubSeq(Sorted(data), 1, Min({k, Len(data)}))
MaxK(data, k) == SubSeq(SortSeq(data, >), 1, Min({k, Len(data)}))
RefusesK(data, k) == k > 0 /\ data = <<>>

-------------------------------------------------------------------------------
(* Random numbers: the set of what can come *)

\* Bounds in the wrong order are exchanged.
Randint(a, b) == Min({a, b}) .. Max({a, b})

\* std::uniform_real_distribution demands a <= b, and random_float() does not exchange
\* them: nothing is known of the answer.  Only its bounds are modelled.
RandomFloat(a, b) == IF a <= b THEN a .. b ELSE Limits

\* The subscripts that choice() may take; none is an error.
Choice(data) == {data[i + 1] : i \in IF data = <<>> THEN {} ELSE Randint(0, Len(data) - 1)}

\* std::sample() keeps the order of what it takes.
Sample(data, k) ==
  {[i \in 1 .. k |-> data[SetToSortSeq(taken, <)[i]]] :
     taken \in {taken \in SUBSET DOMAIN data : Cardinality(taken) = k}}

Shuffled(data) ==
  {[i \in DOMAIN data |-> data[f[i]]] :
     f \in {f \in [DOMAIN data -> DOMAIN data] : \A i, j \in DOMAIN f : f[i] = f[j] => i = j}}

Generate(n, a, b) == [1 .. n -> Randint(a, b)]

-------------------------------------------------------------------------------
(* Histograms of descriptors *)

\* Operators called Mutant_... are faulty variants of the definition that follows
\* them; no specification uses them.

\* A conversion of what is below 0 to std::size_t is undefined; on the usual machine the
\* result is huge.
Mutant_Bin(feature, bins) ==
  IF feature >= 0 THEN (feature * bins) \div Full
  ELSE IF -feature * bins < Full THEN 0 ELSE bins - 1
Bin(feature, bins) ==
  IF feature >= 0 THEN Min({(feature * bins) \div Full, bins - 1})
  ELSE IF -feature * bins < Full THEN 0 ELSE bins - 1

\* The near list of a point has the point itself; so does the code's radius search.
Truncated(list, n) == SubSeq(list, 1, Min({Len(list), n}))
AllBut(list, i) == SelectSeq(list, LAMBDA j : j # i)

-------------------------------------------------------------------------------
(* SHOT *)

\* The features are radius, azimuth, elevation and the angle of the normals.  The azimuth
\* is on the side of the x axis strictly between a quarter and three quarters.
Positive(azimuth) == azimuth > Full \div 4 /\ azimuth < 3 * (Full \div 4)
TurnedRound(azimuth) == (azimuth + Full \div 2) % Full

\* The x axis of the reference frame turns round when fewer than half of the neighbours
\* are on its side.
Turns(cloud, i, neighbours) ==
  Cardinality({k \in DOMAIN neighbours :
                 neighbours[k] # i /\ Positive(cloud.features[i][neighbours[k]][2])})
    < Len(neighbours) \div 2

SpatialBin(f) == Bin(f[1], 2) * 16 + Bin(f[2], 4) * 4 + Bin(f[3], 4)
AngularBin(f) == Bin(f[4], 11)

ShotFeature(cloud, i, neighbours) ==
  LET others == AllBut(neighbours, i)
      turns == Turns(cloud, i, neighbours)
      Framed(f) == IF turns THEN [f EXCEPT ![2] = TurnedRound(@)] ELSE f
  IN  [k \in DOMAIN others |->
         LET f == Framed(cloud.features[i][others[k]]) IN SpatialBin(f) * 11 + AngularBin(f)]

Shot(cloud, i, most) ==
  LET neighbours == Truncated(cloud.near[i], most)
  IN  IF Len(neighbours) < 5 THEN <<>> ELSE ShotFeature(cloud, i, neighbours)

-------------------------------------------------------------------------------
(* PFH *)

\* A pair in one place has four zeros for features: the middle of three of the ranges.
PairFeatures(cloud, i, j) ==
  IF {i, j} \in cloud.coincident THEN [k \in 1 .. 4 |-> Full \div 2] ELSE cloud.features[i][j]

\* The fourth feature is not used; no subdivision at all leaves a single bin.
FeatureBinIndex(f, n) ==
  IF n = 0 THEN 0 ELSE Bin(f[1], n) * n * n + Bin(f[2], n) * n + Bin(f[3], n)

\* The pairs of a list, each once, in the order of the two loops.
PairsOf(list) ==
  FlattenSeq([a \in DOMAIN list |->
                [b \in 1 .. Len(list) - a |-> <<list[a], list[a + b]>>]])

PfhFeature(cloud, neighbours, n) ==
  LET pairs == PairsOf(neighbours)
  IN  SelectSeq([k \in DOMAIN pairs |->
                   FeatureBinIndex(PairFeatures(cloud, pairs[k][1], pairs[k][2]), n)],
                LAMBDA bin : bin < 125)

Pfh(cloud, i, most, n) ==
  LET neighbours == Truncated(cloud.near[i], most)
  IN  IF Len(neighbours) < 3 THEN <<>> ELSE PfhFeature(cloud, neighbours, n)

-------------------------------------------------------------------------------
(* 3DSC and ROPS *)

\* The features are radius, azimuth and the angle to the normal.  A radius below 0 on the
\* logarithmic scale is below the minimal one.  The x axis is towards a neighbour that is
\* not on the line of the normal; without one there is none, and no azimuth but the middle.
HasXAxis(cloud, i) ==
  \E j \in Range(cloud.near[i]) \ {i} : cloud.features[i][j][3] \notin {0, Full}
LocalFeatures(cloud, i, j) ==
  IF HasXAxis(cloud, i) THEN cloud.features[i][j]
  ELSE [cloud.features[i][j] EXCEPT ![2] = Full \div 2]

Dsc3dBin(f) == Bin(f[1], 11) * 12 * 15 + Bin(f[2], 12) * 15 + Bin(f[3], 15)
Dsc3d(cloud, i) ==
  IF Len(cloud.near[i]) < 3 THEN <<>>
  ELSE LET counted == SelectSeq(AllBut(cloud.near[i], i), LAMBDA j : cloud.features[i][j][1] >= 0)
       IN  [k \in DOMAIN counted |-> Dsc3dBin(LocalFeatures(cloud, i, counted[k]))]

\* The cell of each neighbour in the grid over the box around them, and the entries that
\* the cells of all rotations take up.
RopsSize == 135
RopsCell(f, n) == (Bin(f[1], n) * n + Bin(f[2], n)) * n + Bin(f[3], n)
Rops(cloud, i, partitions) ==
  IF Len(cloud.near[i]) < 3 THEN <<>>
  ELSE [k \in DOMAIN cloud.near[i] |-> RopsCell(cloud.features[i][cloud.near[i][k]], partitions)]
RopsEntries(rotations, partitions) == rotations * partitions * partitions * partitions

-------------------------------------------------------------------------------
(* VFH and CVFH *)

\* One entry for the angle to the viewpoint, and one in each of four histograms for every
\* pair that is not in one place.
ViewpointBin(cloud, i) == 180 + Bin(cloud.features[i][i][1], 128)
PairBins(f) == <<Bin(f[1], 45), 45 + Bin(f[2], 45), 90 + Bin(f[3], 45), 135 + Bin(f[4], 45)>>

ClusterVfh(cloud, cluster) ==
  LET apart == SelectSeq(PairsOf(cluster), LAMBDA p : {p[1], p[2]} \notin cloud.coincident)
  IN  [k \in DOMAIN cluster |-> ViewpointBin(cloud, cluster[k])]
        \o FlattenSeq([k \in DOMAIN apart |-> PairBins(cloud.features[apart[k][1]][apart[k][2]])])

\* The same over all points.
Vfh(cloud) == <<ClusterVfh(cloud, [i \in 1 .. cloud.size |-> i])>>

\* One round of the loop over the seeds: the last one joins the cluster, and those of its
\* neighbours with a normal like its own become seeds.
Grow(cloud, q) ==
  IF q.seeds = <<>> THEN q
  ELSE LET current == Last(q.seeds)
           found == SelectSeq(cloud.near[current],
                              LAMBDA j : j \notin q.processed /\ {current, j} \in cloud.smooth)
       IN  [cluster |-> Append(q.cluster, current), seeds |-> Front(q.seeds) \o found,
            processed |-> q.processed \cup Range(found)]

\* The cluster that starts at i.  No cluster takes more rounds than there are points.
ClusterFrom(cloud, i, processed) ==
  FoldLeft(LAMBDA q, round : Grow(cloud, q),
           [cluster |-> <<>>, seeds |-> <<i>>, processed |-> processed \cup {i}],
           [k \in 1 .. cloud.size |-> k])

SegmentSmoothClusters(cloud) ==
  FoldLeft(LAMBDA q, i :
             IF i \in q.processed THEN q
             ELSE LET grown == ClusterFrom(cloud, i, q.processed)
                  IN  [processed |-> grown.processed,
                       clusters |-> IF Len(grown.cluster) < 3 THEN q.clusters
                                    ELSE Append(q.clusters, grown.cluster)],
           [processed |-> {}, clusters |-> <<>>],
           [i \in 1 .. cloud.size |-> i]).clusters

\* One descriptor for every cluster, whatever the keypoints.
Cvfh(cloud) ==
  LET clusters == SegmentSmoothClusters(cloud)
  IN  [k \in DOMAIN clusters |-> ClusterVfh(cloud, clusters[k])]

-------------------------------------------------------------------------------
(* Matching *)

\* The first of the nearest targets, from 1; 0 when there is none.
Best(row) ==
  IF row = <<>> THEN 0 ELSE CHOOSE j \in DOMAIN row :
    /\ \A k \in DOMAIN row : row[k] >= row[j]
    /\ \A k \in 1 .. j - 1 : row[k] > row[j]

MatchDescriptors(rows, max_distance) ==
  {<<i, Best(rows[i])>> : i \in {i \in DOMAIN rows : rows[i] # <<>> /\ Min(Range(rows[i])) < max_distance}}

\* The scan that keeps the best two; Far is the largest number.
Far == 1000
BestTwo(row) ==
  FoldLeftDomain(LAMBDA q, j :
    IF row[j] < q.best THEN [best |-> row[j], second |-> q.best, match |-> j]
    ELSE IF row[j] < q.second THEN [q EXCEPT !.second = row[j]]
    ELSE q,
    [best |-> Far, second |-> Far, match |-> 0], row)

\* The threshold in hundredths.
MatchRatioTest(rows, ratio) ==
  {<<i, BestTwo(rows[i]).match>> :
     i \in {i \in DOMAIN rows : 100 * BestTwo(rows[i]).best < ratio * BestTwo(rows[i]).second}}

\* What precision and recall are quotients of; a true match that the caller lists twice
\* is expected twice.
Evaluate(matches, truth) ==
  [true |-> Cardinality(matches \cap Range(truth)), predicted |-> Cardinality(matches),
   expected |-> Len(truth)]

-------------------------------------------------------------------------------
(* Calls: nothing is kept between them, a behaviour is one call. *)

None == [op |-> "none"]
Init == call = None /\ answer = <<>>

Call(c, a) == call' = c /\ answer' = a

Pair == (1 .. 3) \X (1 .. 3)

VectorCalls ==
  \E a \in Vector, b \in Vector, c \in Vector :
    LET t == <<a, b, c>> IN
    /\ Len(a) = Len(b) /\ Len(b) = Len(c)
    /\ Call([op |-> "vectors", of |-> t],
            [l1 |-> [q \in Pair |-> L1(t[q[1]], t[q[2]])],
             l2 |-> [q \in Pair |-> SquaredL2(t[q[1]], t[q[2]])],
             linf |-> [q \in Pair |-> Linf(t[q[1]], t[q[2]])]])

PowerCalls ==
  \E p \in Powers, a \in Vector, b \in Vector, roots \in Weights :
    /\ Len(a) = Len(b)
    /\ Call([op |-> "powers", p |-> p, a |-> a, b |-> b, roots |-> roots],
            [lp |-> GeneralizedLp(p, a, b), squared |-> SquaredGeneralizedLp(p, a, b),
             weighted |-> Weighted(roots, a, b), scaled |-> SquaredScaled(roots, a, b)])

AngleCalls ==
  \E a \in Vector, b \in Vector, c \in Vector :
    LET t == <<a, b, c>> IN
    /\ Len(a) = Len(b) /\ Len(b) = Len(c)
    /\ Call([op |-> "angles", of |-> t],
            [cosine |-> [q \in Pair |-> Cosine(t[q[1]], t[q[2]])],
             angular |-> [q \in Pair |-> Angular(t[q[1]], t[q[2]])],
             correlation |-> [q \in Pair |-> Correlation(t[q[1]], t[q[2]])],
             inner |-> [q \in Pair |-> InnerProduct(t[q[1]], t[q[2]])]])

HistogramCalls ==
  \E a \in Histogram, b \in Histogram, c \in Histogram :
    LET t == <<a, b, c>> IN
    Call([op |-> "histograms", of |-> t],
         [chi |-> [q \in Pair |-> ChiSquared(t[q[1]], t[q[2]])],
          intersection |-> [q \in Pair |-> HistogramIntersection(t[q[1]], t[q[2]])],
          bhattacharyya |-> [q \in Pair |-> Bhattacharyya(t[q[1]], t[q[2]])],
          hellinger |-> [q \in Pair |-> Hellinger(t[q[1]], t[q[2]])],
          emd |-> [q \in Pair |-> EarthMover(t[q[1]], t[q[2]])],
          kl |-> [q \in Pair |-> KLDivergence(t[q[1]], t[q[2]])],
          js |-> [q \in Pair |-> JensenShannon(t[q[1]], t[q[2]])]])

FactoryCalls ==
  \E script \in Script :
    LET made == FoldLeft(Done, [creators |-> Defaults, infos |-> <<>>], script)
    IN  Call([op |-> "factory", script |-> script],
             [infos |-> made.infos,
              created |-> [n \in DOMAIN Defaults \cup {s.name : s \in {s \in ToSet(script) : s.op # "clear"}}
                             |-> Create(made, n)]])

CompareClouds ==
  \E a \in Cloud, b \in Cloud :
    Call([op |-> "compare", a |-> a, b |-> b],
         [hausdorff |-> Hausdorff(a, b),
          modified |-> [k \in Ks |-> ModifiedHausdorff(k, a, b)],
          chamfer |-> Chamfer(a, b), emd |-> PointCloudEMD(a, b), centroid |-> Centroid(a, b),
          box |-> [mode \in {"center", "min", "iou"} |-> BoundingBox(mode, a, b)]])

ScoreClouds ==
  \E a \in Cloud, b \in Cloud, shift \in Shifts, threshold \in Threshold :
    Call([op |-> "score", a |-> a, b |-> b, shift |-> shift, threshold |-> threshold],
         LcpScore(a, b, shift, threshold))

Describe ==
  \E data \in Data :
    Call([op |-> "describe", data |-> data],
         [mean |-> Mean(data), median |-> Median(data), mode |-> Mode(data),
          population |-> Variance(data, FALSE), sample |-> Variance(data, TRUE),
          sum |-> Sum(data), sum_d |-> SumAsDouble(data),
          min |-> Least(data), max |-> Greatest(data), range |-> ValueRange(data),
          percentile |-> [p \in Portions |-> Percentile(data, p)]])

TakeK ==
  \E data \in Data, k \in Counts :
    Call([op |-> "take", data |-> data, k |-> k],
         IF RefusesK(data, k) THEN [min |-> Thrown, max |-> Thrown, refused |-> TRUE]
         ELSE [min |-> MinK(data, k), max |-> MaxK(data, k), refused |-> FALSE])

DrawNumber ==
  \E a \in Limits, b \in Limits, n \in Counts :
    \/ \E r \in Randint(a, b) : Call([op |-> "int", a |-> a, b |-> b], r)
    \/ \E r \in RandomFloat(a, b) : Call([op |-> "float", a |-> a, b |-> b], r)
    \/ \E r \in Generate(n, a, b) : Call([op |-> "generate", a |-> a, b |-> b, n |-> n], r)

DrawElement ==
  \E data \in Data :
    \/ \E r \in Choice(data) : Call([op |-> "choice", data |-> data], <<r>>)
    \/ data = <<>> /\ Call([op |-> "choice", data |-> data], Thrown)
    \/ \E r \in Shuffled(data) : Call([op |-> "shuffle", data |-> data], r)

DrawSample ==
  \E data \in Data, k \in Counts :
    \/ k <= Len(data) /\ \E r \in Sample(data, k) :
         Call([op |-> "sample", data |-> data, k |-> k, refused |-> FALSE], r)
    \/ k > Len(data) /\ Call([op |-> "sample", data |-> data, k |-> k, refused |-> TRUE], Thrown)

ComputeShot ==
  \E cloud \in DescribedCloud, keypoints \in Described, most \in MaxNeighbours, knn \in BOOLEAN :
    Call([op |-> "shot", cloud |-> cloud, keypoints |-> keypoints, most |-> most, knn |-> knn],
         IF ~knn THEN <<>> ELSE [k \in DOMAIN keypoints |-> Shot(cloud, keypoints[k], most)])

ComputePfh ==
  \E cloud \in DescribedCloud, keypoints \in Described, most \in MaxNeighbours, n \in Subdivisions :
    Call([op |-> "pfh", cloud |-> cloud, keypoints |-> keypoints, most |-> most, n |-> n],
         [k \in DOMAIN keypoints |-> Pfh(cloud, keypoints[k], most, n)])

\* Without a cloud or a nearest-neighbour object, descriptors of zeros.
ComputeDsc3d ==
  \E cloud \in DescribedCloud, keypoints \in Described, set \in BOOLEAN :
    Call([op |-> "3dsc", cloud |-> cloud, keypoints |-> keypoints, set |-> set],
         [k \in DOMAIN keypoints |-> IF set THEN Dsc3d(cloud, keypoints[k]) ELSE <<>>])

ComputeRops ==
  \E cloud \in DescribedCloud, keypoints \in Described, set \in BOOLEAN, rotations \in 1 .. 5,
     partitions \in 1 .. 3 :
    Call([op |-> "rops", cloud |-> cloud, keypoints |-> keypoints, rotations |-> rotations,
          partitions |-> partitions],
         [k \in DOMAIN keypoints |-> IF set THEN Rops(cloud, keypoints[k], partitions) ELSE <<>>])

ComputeVfh == \E cloud \in DescribedCloud : Call([op |-> "vfh", cloud |-> cloud], Vfh(cloud))

\* Without a cloud or a nearest-neighbour object, no descriptor at all.
ComputeCvfh ==
  \E cloud \in DescribedCloud, set \in BOOLEAN :
    Call([op |-> "cvfh", cloud |-> cloud, set |-> set], IF set THEN Cvfh(cloud) ELSE <<>>)

MatchAll ==
  \E rows \in Rows, most \in {1, 2, Far}, ratio \in {50, 80},
     truth \in {<<>>, <<<<1, 1>>, <<2, 2>>>>, <<<<1, 2>>, <<1, 2>>, <<2, 1>>>>} :
    Call([op |-> "match", rows |-> rows, most |-> most, ratio |-> ratio, truth |-> truth],
         [nearest |-> MatchDescriptors(rows, most), ratio |-> MatchRatioTest(rows, ratio),
          evaluation |-> Evaluate(MatchDescriptors(rows, most), truth)])

Next ==
  /\ call = None
  /\ \/ VectorCalls \/ PowerCalls \/ AngleCalls \/ HistogramCalls \/ FactoryCalls
     \/ CompareClouds \/ ScoreClouds
     \/ Describe \/ TakeK \/ DrawNumber \/ DrawElement \/ DrawSample
     \/ ComputeShot \/ ComputePfh \/ ComputeDsc3d \/ ComputeRops \/ ComputeVfh \/ ComputeCvfh
     \/ MatchAll

Spec == Init /\ [][Next]_vars

-------------------------------------------------------------------------------
(* Properties *)

Symmetric(d) == \A q \in Pair : d[q] = d[<<q[2], q[1]>>]

\* The vector metrics are metrics: zero for equal vectors only, symmetric, and no detour
\* is shorter (for L2: a - b - c <= 2 * sqrt(b * c), of squares); and they bound each other.
VectorsMeasured ==
  call.op = "vectors" =>
    LET t == call.of
        ab == <<1, 2>>  bc == <<2, 3>>  ac == <<1, 3>>
        gap == answer.l2[ac] - answer.l2[ab] - answer.l2[bc]
    IN  /\ \A d \in {answer.l1, answer.l2, answer.linf} :
             Symmetric(d) /\ \A q \in Pair : d[q] = 0 <=> t[q[1]] = t[q[2]]
        /\ answer.l1[ac] <= answer.l1[ab] + answer.l1[bc]
        /\ answer.linf[ac] <= answer.linf[ab] + answer.linf[bc]
        /\ gap <= 0 \/ gap * gap <= 4 * answer.l2[ab] * answer.l2[bc]
        /\ \A q \in Pair : /\ answer.linf[q] <= answer.l1[q]
                           /\ answer.linf[q] ^ 2 <= answer.l2[q]
                           /\ answer.l2[q] <= answer.l1[q] ^ 2

\* Lp lies between the maximum and the sum of the differences for every p that is
\* accepted, and the squared form is its square; a weighted or scaled metric is the plain
\* one on stretched vectors, and refuses weights of another number.
PowersMeasured ==
  call.op = "powers" =>
    LET sum == Total(Differences(call.a, call.b))
        most == Max({0} \cup {Abs(call.a[i] - call.b[i]) : i \in DOMAIN call.a})
        stretched == [i \in DOMAIN call.a |-> call.a[i] * call.roots[i]]
    IN  /\ answer.lp = Thrown <=> call.p <= 0
        /\ call.p > 0 =>
             /\ most ^ answer.lp[1] <= answer.lp[2]
             /\ answer.lp[2] <= sum ^ answer.lp[1]
             /\ IF answer.squared[1] = answer.lp[1] THEN answer.squared[2] = answer.lp[2] ^ 2
                ELSE answer.squared[2] ^ answer.lp[1] = answer.lp[2] ^ (2 * answer.squared[1])
        /\ answer.weighted = Thrown <=> Len(call.roots) # Len(call.a)
        /\ answer.scaled = Thrown <=> Len(call.roots) # Len(call.a)
        /\ Len(call.roots) = Len(call.a) =>
             /\ answer.weighted[2] =
                  Total([i \in DOMAIN call.a |-> call.roots[i] ^ 2 * (call.a[i] - call.b[i]) ^ 2])
             /\ AtMost(answer.scaled, <<SquaredL2(call.a, call.b), 1>>)
             /\ Same(SquaredScaled(call.roots, stretched,
                                   [i \in DOMAIN call.a |-> call.b[i] * call.roots[i]]),
                     <<SquaredL2(call.a, call.b), 1>>)

\* Cosine and angle agree on which of two vectors is nearer, do not see lengths, and are 0
\* for the same direction only; a vector without one is far from everything, itself
\* included, and the correlation does not see an offset.
AnglesMeasured ==
  call.op = "angles" =>
    LET t == call.of
        parallel(a, b) == /\ \A i \in DOMAIN a, j \in DOMAIN a : a[i] * b[j] = a[j] * b[i]
                          /\ Dot(a, b) > 0
    IN  /\ \A d \in {answer.cosine, answer.angular, answer.correlation} : Symmetric(d)
        /\ Symmetric(answer.inner)
        /\ \A q \in Pair :
             /\ Same(answer.cosine[q], Aligned) <=> parallel(t[q[1]], t[q[2]])
             /\ AtMost(Opposite, answer.cosine[q]) /\ AtMost(answer.cosine[q], Aligned)
             /\ Same(answer.cosine[q], Cosine([i \in DOMAIN t[q[1]] |-> 3 * t[q[1]][i]], t[q[2]]))
             /\ Same(answer.correlation[q],
                     Correlation([i \in DOMAIN t[q[1]] |-> t[q[1]][i] + 5], t[q[2]]))
        /\ HasDirection(t[1]) /\ HasDirection(t[2]) /\ HasDirection(t[3]) =>
             (AtMost(answer.cosine[<<1, 2>>], answer.cosine[<<1, 3>>])
                <=> AtMost(answer.angular[<<1, 2>>], answer.angular[<<1, 3>>]))

\* On histograms that hold something: every distance but the divergence is symmetric, 0
\* means the same shape (or the same counts), and where one says that nothing overlaps,
\* so do the others; moving all of it by one bin costs one, and no detour is cheaper.
HistogramsMeasured ==
  call.op = "histograms" =>
    LET t == call.of
        filled == {q \in Pair : /\ ~Empty(t[q[1]]) /\ ~Empty(t[q[2]])
                                /\ \A v \in ToSet(t[q[1]]) \cup ToSet(t[q[2]]) : v >= 0}
    IN  /\ \A d \in {answer.bhattacharyya, answer.hellinger, answer.js} :
             /\ Symmetric(d)
             /\ \A q \in filled : d[q] = "zero" <=> SameShape(t[q[1]], t[q[2]])
        /\ \A q \in filled :
             /\ Same(answer.chi[q], <<0, 1>>) <=> t[q[1]] = t[q[2]]
             /\ Same(answer.intersection[q], <<0, 1>>) <=> t[q[1]] = t[q[2]]
             /\ Same(answer.intersection[q], <<1, 1>>) <=> answer.bhattacharyya[q] = "infinite"
             /\ answer.bhattacharyya[q] = "infinite" <=> answer.hellinger[q] = "one"
             /\ answer.bhattacharyya[q] = "infinite" <=> answer.js[q] = "most"
             /\ answer.bhattacharyya[q] = "infinite" => answer.kl[q] = "infinite"
             /\ answer.kl[q] = "zero" <=> answer.js[q] = "zero"
             /\ Same(answer.emd[q], <<0, 1>>) <=> SameShape(t[q[1]], t[q[2]])
             /\ AtMost(answer.emd[q], <<Len(t[1]) - 1, 1>>)
             /\ \A i \in 1 .. Len(t[1]) - 1 :
                  (\A k \in DOMAIN t[1] : t[q[1]][k] > 0 <=> k = i)
                    /\ (\A k \in DOMAIN t[1] : t[q[2]][k] > 0 <=> k = i + 1)
                    => Same(answer.emd[q], <<1, 1>>)
        /\ {<<1, 2>>, <<2, 3>>, <<1, 3>>} \subseteq filled =>
             AtMost(answer.emd[<<1, 3>>], Plus(answer.emd[<<1, 2>>], answer.emd[<<2, 3>>]))
        /\ \A q \in Pair : answer.intersection[q] = Thrown <=>
             \E v \in ToSet(t[q[1]]) \cup ToSet(t[q[2]]) : v < 0

\* A name makes what it was last registered as, through the factory or the registry; what
\* clear() removes stays listed by the registry, which cannot make it any more.
FactoryMakes ==
  call.op = "factory" =>
    \A n \in DOMAIN answer.created :
      LET after == {i \in DOMAIN call.script : call.script[i].op # "clear" => call.script[i].name = n}
          last == IF after = {} THEN 0 ELSE Max(after)
      IN  /\ last = 0 => answer.created[n] = <<Defaults[n]>>
          /\ last > 0 => answer.created[n] = IF call.script[last].op = "clear" THEN Thrown
                                             ELSE <<call.script[last].metric>>
          /\ n \in DOMAIN answer.infos <=>
               \E i \in DOMAIN call.script : call.script[i].op = "inform" /\ call.script[i].name = n

MeasuresAgree ==
  VectorsMeasured /\ PowersMeasured /\ AnglesMeasured /\ HistogramsMeasured /\ FactoryMakes

\* Pairings of two clouds of one size, and what they cost.
Pairings(n) == {f \in [1 .. n -> 1 .. n] : \A i, j \in 1 .. n : f[i] = f[j] => i = j}
Cost(a, b, f) == Total([i \in DOMAIN a |-> Distance(a[i], b[f[i]])])

\* All but the greedy matching are symmetric; the averages never exceed the Hausdorff
\* distance, which never falls below the gap between the boxes; the Hausdorff distance is 0
\* for the same set of points only; the greedy matching costs at least the best one, which
\* the Chamfer distance bounds from below, and nothing when the clouds are the same; each
\* distance is what the others say of an empty cloud.
CloudsMeasured ==
  call.op = "compare" =>
    LET a == call.a
        b == call.b
        some == a # <<>> /\ b # <<>>
        all == {answer.hausdorff, answer.chamfer, answer.emd, answer.centroid}
                 \cup {answer.box[m] : m \in DOMAIN answer.box}
    IN  /\ Hausdorff(b, a) = answer.hausdorff
        /\ Chamfer(b, a) = answer.chamfer
        /\ Centroid(b, a) = answer.centroid
        /\ \A m \in DOMAIN answer.box : BoundingBox(m, b, a) = answer.box[m]
        /\ ~some => all = {Unbounded}
        /\ some =>
             /\ \A d \in all : d[1] >= 0 /\ d[2] > 0
             /\ answer.hausdorff[1] = 0 <=> ToSet(a) = ToSet(b)
             /\ AtMost(answer.chamfer, answer.hausdorff)
             /\ AtMost(answer.centroid, answer.emd) \/ Len(a) # Len(b)
             /\ AtMost(answer.box["min"], answer.chamfer)
             /\ AtMost(answer.box["iou"], <<1, 1>>)
             /\ answer.box["iou"][1] = 0 => Box(a) = Box(b)
             /\ answer.box["min"][1] > 0 => answer.box["iou"][1] = answer.box["iou"][2]
             /\ \A k \in Ks \ {0} : AtMost(answer.modified[k], answer.hausdorff)
             /\ \A k \in Ks, l \in Ks \ {0} : k > l /\ k > 0 =>
                  AtMost(answer.modified[l], answer.modified[k])
             /\ Len(a) = Len(b) =>
                  LET best == Min({Cost(a, b, f) : f \in Pairings(Len(a))})
                  IN  /\ AtMost(<<best, Len(a)>>, answer.emd)
                      /\ AtMost(answer.chamfer, <<best, Len(a)>>)
             /\ a = b => answer.emd[1] = 0

\* The inliers are the points that the motion brings within the threshold, each once and in
\* order; the score is within the threshold, never better than a larger threshold would
\* count, and 0 for a source that the motion brings onto the target.
ScoreIsOfInliers ==
  call.op = "score" =>
    LET moved == [i \in DOMAIN call.a |-> call.a[i] + call.shift]
        isNear(i) == \E j \in DOMAIN call.b : Abs(moved[i] - call.b[j]) <= call.threshold
    IN  /\ ToSet(answer.inliers) = {i \in DOMAIN call.a : call.b # <<>> /\ isNear(i)}
        /\ \A i \in 1 .. Len(answer.inliers) - 1 : answer.inliers[i] < answer.inliers[i + 1]
        /\ answer.inliers # <<>> => AtMost(answer.score, <<call.threshold, 1>>)
        /\ answer.inliers = <<>> <=> answer.score = Unbounded
        /\ call.a # <<>> /\ ToSet(moved) \subseteq ToSet(call.b) =>
             answer.score[1] = 0 /\ Len(answer.inliers) = Len(call.a)
        /\ \A t \in Threshold : t < call.threshold /\ answer.inliers # <<>> =>
             AtMost(LcpScore(call.a, call.b, call.shift, t).score, answer.score)
               \/ LcpScore(call.a, call.b, call.shift, t).inliers = <<>>

CloudsAgree == CloudsMeasured /\ ScoreIsOfInliers

\* Every number about the data but the median and the sum, which are computed in the
\* element's type, lies where it belongs: the median is the percentile 1/2 unless the two
\* in the middle wrap around, percentiles grow from the least to the greatest, no other
\* number is nearer to the data, in squares, than the mean, and the modes are the elements
\* that no other outnumbers.
StatisticsAgree ==
  call.op = "describe" =>
    LET d == call.data
        n == Len(d)
        off(c) == Total([i \in DOMAIN d |-> (d[i] - c) ^ 2])
    IN  IF d = <<>>
        THEN /\ {answer.mean, answer.median, answer.mode, answer.min, answer.max,
                 answer.population, answer.sample} = {Thrown}
             /\ answer.sum = 0
        ELSE /\ AtMost(answer.min, answer.mean) /\ AtMost(answer.mean, answer.max)
             /\ answer.min[1] + answer.range[1] = answer.max[1]
             /\ answer.sum = answer.sum_d \/ answer.sum_d > Max(ValueType)
             /\ Same(answer.median, Percentile(d, <<1, 2>>))
                  \/ \E i, j \in DOMAIN d : i # j /\ d[i] + d[j] > Max(ValueType)
             /\ \A p \in Portions : p[1] \in 0 .. p[2] <=> answer.percentile[p] # Thrown
             /\ \A p \in Portions, q \in Portions :
                  answer.percentile[p] # Thrown /\ answer.percentile[q] # Thrown /\ AtMost(p, q) =>
                    /\ AtMost(answer.min, answer.percentile[p])
                    /\ AtMost(answer.percentile[p], answer.percentile[q])
                    /\ AtMost(answer.percentile[q], answer.max)
             /\ \A c \in ValueType : AtMost(<<answer.population[1] * n, answer.population[2]>>, <<off(c), 1>>)
             /\ answer.population[1] = 0 <=> answer.range[1] = 0
             /\ answer.sample = Thrown <=> n = 1
             /\ n > 1 => Same(<<answer.sample[1] * (n - 1), answer.sample[2]>>,
                              <<answer.population[1] * n, answer.population[2]>>)
             /\ \A x \in ToSet(d) : x \in ToSet(answer.mode) <=>
                  \A y \in ToSet(d) : Times(y, d) <= Times(x, d)

\* The k least and the n - k greatest are all there is, each in its order.
KeepsTheKBest ==
  call.op = "take" =>
    LET d == call.data
        others == MaxK(d, Len(d) - Min({call.k, Len(d)}))
    IN  /\ answer.refused <=> call.k > 0 /\ d = <<>>
        /\ ~answer.refused => Sorted(answer.min \o others) = Sorted(d)
        /\ ~answer.refused => answer.min \o Reverse(others) = Sorted(d)

\* A number lies between the bounds in whichever order they are given, for integers; a
\* sample takes no element more often than it is there and keeps their order; a shuffle
\* keeps them all.
DrawnFromWhatIsThere ==
  /\ call.op = "int" => answer <= Max({call.a, call.b}) /\ answer >= Min({call.a, call.b})
  /\ call.op = "float" /\ call.a <= call.b => answer \in call.a .. call.b
  /\ call.op = "generate" =>
       Len(answer) = call.n /\ \A x \in ToSet(answer) : x \in Randint(call.b, call.a)
  /\ call.op = "choice" => IF call.data = <<>> THEN answer = Thrown ELSE answer[1] \in ToSet(call.data)
  /\ call.op = "sample" /\ ~call.refused =>
       \E f \in [1 .. call.k -> DOMAIN call.data] :
         /\ \A i \in 1 .. call.k - 1 : f[i] < f[i + 1]
         /\ answer = [i \in 1 .. call.k |-> call.data[f[i]]]
  /\ call.op = "shuffle" => Sorted(answer) = Sorted(call.data)

NumbersDescribed == StatisticsAgree /\ KeepsTheKBest /\ DrawnFromWhatIsThere

Inside(bins, size) == \A k \in DOMAIN bins : bins[k] \in 0 .. size - 1

\* Every neighbour but the point itself is counted once in SHOT, in a bin of its own for
\* what can be told apart of it; and which way the eigenvector came out does not matter
\* when more than half of the neighbours are strictly on one side of it.
ShotCountsNeighbours ==
  call.op = "shot" /\ call.knn =>
    \A k \in DOMAIN call.keypoints :
      LET i == call.keypoints[k]
          near == Truncated(call.cloud.near[i], call.most)
          others == AllBut(near, i)
          mirror == [call.cloud EXCEPT !.features[i] =
                       [j \in DOMAIN @ |-> [@[j] EXCEPT ![2] = TurnedRound(@)]]]
          Side(test) == Cardinality({j \in Range(others) :
                                       Positive(call.cloud.features[i][j][2]) = test
                                         /\ call.cloud.features[i][j][2] \notin {Full \div 4, 3 * (Full \div 4)}})
      IN  Len(near) >= 5 =>
            /\ Len(answer[k]) = Len(others) /\ Inside(answer[k], 352)
            /\ 2 * Max({Side(TRUE), Side(FALSE)}) > Len(near) =>
                 ShotFeature(mirror, i, near) = answer[k]

\* Every pair is counted once in PFH, whatever the subdivision as long as the histogram
\* holds it.
PfhCountsPairs ==
  call.op = "pfh" =>
    \A k \in DOMAIN call.keypoints :
      LET n == Min({Len(call.cloud.near[call.keypoints[k]]), call.most})
      IN  /\ Inside(answer[k], 125)
          /\ call.n <= 5 /\ n >= 3 => 2 * Len(answer[k]) = n * (n - 1)
          /\ n < 3 => answer[k] = <<>>

\* 3DSC counts what is not too near, inside its histogram; the cells of ROPS are cells of
\* the grid, and with the rotations and partitions it starts with they fit.
DscAndRopsStayInside ==
  /\ call.op = "3dsc" /\ call.set =>
       \A k \in DOMAIN call.keypoints :
         LET i == call.keypoints[k]
         IN  /\ Inside(answer[k], 1980)
             /\ Len(call.cloud.near[i]) >= 3 =>
                  Len(answer[k]) = Cardinality({j \in Range(call.cloud.near[i]) \ {i} :
                                                  call.cloud.features[i][j][1] >= 0})
  /\ call.op = "rops" =>
       /\ RopsEntries(call.rotations, call.partitions) <= RopsSize
       /\ \A k \in DOMAIN answer :
            Inside(answer[k], RopsEntries(call.rotations, call.partitions) \div call.rotations)

\* The sets of points that no smooth step leaves.
Closed(cloud) ==
  {S \in SUBSET (1 .. cloud.size) :
     \A i \in S : \A j \in Range(cloud.near[i]) : {i, j} \in cloud.smooth => j \in S}
Regions(cloud) ==
  {S \in Closed(cloud) \ {{}} : \A T \in Closed(cloud) \ {{}, S} : ~(T \subseteq S)}

\* The clusters of CVFH are the regions that smooth steps connect, of three points or
\* more, each once; in each, every point counts once and every pair that is not in one
\* place four times.
ClustersAreRegions ==
  /\ call.op = "cvfh" /\ call.set =>
       LET clusters == SegmentSmoothClusters(call.cloud)
           large == {S \in Regions(call.cloud) : Cardinality(S) >= 3}
       IN  /\ {Range(clusters[k]) : k \in DOMAIN clusters} = large
           /\ Len(answer) = Cardinality(large)
           /\ \A k \in DOMAIN clusters : Cardinality(Range(clusters[k])) = Len(clusters[k])
  /\ call.op \in {"vfh", "cvfh"} =>
       \A k \in DOMAIN answer :
         /\ Inside(answer[k], 308)
         /\ LET points == Len(SelectSeq(answer[k], LAMBDA bin : bin >= 180))
            IN  /\ (Len(answer[k]) - points) % 4 = 0
                /\ \A b \in 0 .. 3 :
                     Len(SelectSeq(answer[k], LAMBDA bin : bin \div 45 = b)) = (Len(answer[k]) - points) \div 4

\* The ratio test accepts the nearest target, and only one that is alone or nearer than
\* every other by the ratio.
RatioTestIsSafe ==
  call.op = "match" =>
    /\ answer.ratio \subseteq {<<i, Best(call.rows[i])>> : i \in DOMAIN call.rows}
    /\ \A m \in answer.ratio : \A j \in DOMAIN call.rows[m[1]] \ {m[2]} :
         100 * call.rows[m[1]][m[2]] < call.ratio * call.rows[m[1]][j]
    /\ \A m \in answer.nearest : \A j \in DOMAIN call.rows[m[1]] :
         call.rows[m[1]][m[2]] <= call.rows[m[1]][j] /\ call.rows[m[1]][m[2]] < call.most
    /\ answer.evaluation.true <= Min({answer.evaluation.predicted, answer.evaluation.expected})

CountedOnce ==
  /\ ShotCountsNeighbours /\ PfhCountsPairs /\ DscAndRopsStayInside /\ ClustersAreRegions
  /\ RatioTestIsSafe
===============================================================================
