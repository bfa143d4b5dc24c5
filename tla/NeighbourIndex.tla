---------------------------- MODULE NeighbourIndex ----------------------------
(***************************************************************************)
(* The nearest-neighbour objects of the point cloud library (bfknn_t,      *)
(* bfknn_parallel_t, kdtree_t) and the extractors that borrow them.  An    *)
(* extractor keeps a pointer to an object it does not own, and fills it    *)
(* with its own cloud when it is set: the object answers about whatever    *)
(* cloud was put into it last, by whomever.                                *)
(*                                                                         *)
(* Four kinds of extractors use an object differently:                     *)
(*   "keypoints"  fills it in set_knn() only                               *)
(*   "normals"    fills it in set_knn() and in set_input()                 *)
(*   "local"      FPFH, PFH, SHOT: as "keypoints"; compute() takes a cloud *)
(*                of its own, and runs a normals extractor on it with the  *)
(*                same object unless it was given normals                  *)
(*   "context"    VFH, CVFH, 3DSC: never fills it, always runs a normals   *)
(*                extractor                                                *)
(* A cloud is an identity; that an object is filled copies the points.     *)
(***************************************************************************)
EXTENDS Integers, FiniteSets

CONSTANTS
  User, Kind,        \* extractors, and the kind of each
  Knn, KdTrees,      \* nearest-neighbour objects, and those that are kd-trees
  Cloud, EmptyCloud, \* clouds, one of which has no points
  None               \* no cloud, no object

VARIABLES
  m_cloud, m_knn, m_normals,     \* of each extractor; m_normals: whether normals were set
  m_data, m_kdtree, m_use_runtime_metric,   \* of each object; m_kdtree: the cloud the tree was built for
  last,      \* the query of this step: about which cloud, the cloud of the answer, whether the
             \* caller may count on that cloud
  alone,     \* extractors whose object was touched by nobody else since they took it
  ordered    \* extractors whose cloud is the one they had when they took their object
user_vars == <<m_cloud, m_knn, m_normals>>
knn_vars == <<m_data, m_kdtree, m_use_runtime_metric>>
ghost_vars == <<alone, ordered>>
vars == <<user_vars, knn_vars, last, ghost_vars>>

\* Operators called Mutant_... are faulty variants of the definition that follows
\* them; no specification uses them.

NoQuery == [about |-> None, answer |-> None, owed |-> FALSE]

Init ==
  /\ m_cloud = [u \in User |-> None]
  /\ m_knn = [u \in User |-> None]
  /\ m_normals = [u \in User |-> FALSE]
  /\ m_data = [k \in Knn |-> None]
  /\ m_kdtree = [k \in Knn |-> None]
  /\ m_use_runtime_metric = [k \in Knn |-> FALSE]
  /\ last = NoQuery
  /\ alone = {} /\ ordered = {}

-------------------------------------------------------------------------------
(* The objects *)

\* build_tree(): without points there is no tree.
Tree(data) == IF data \in {None, EmptyCloud} THEN None ELSE data

\* A kd-tree cannot use a metric chosen at run time: it is then not rebuilt, and
\* queries go to a brute force search of m_data instead.
Fill(k, cloud) ==
  /\ m_data' = [m_data EXCEPT ![k] = cloud]
  /\ m_kdtree' = [m_kdtree EXCEPT
       ![k] = IF k \in KdTrees /\ ~m_use_runtime_metric[k] THEN Tree(cloud) ELSE @]
  /\ UNCHANGED m_use_runtime_metric

\* The cloud whose points an object answers about, None if it answers nothing.
Answer(data, tree, k) ==
  IF data[k] \in {None, EmptyCloud} THEN None
  ELSE IF k \in KdTrees /\ ~m_use_runtime_metric[k] THEN tree[k]
  ELSE data[k]

\* Everyone but u who holds k no longer has it alone.
Disturb(u, k) == alone' = {v \in alone : v = u \/ m_knn[v] # k}

\* set_input() on the object itself, by the one who owns it; the variant for a
\* shared pointer leaves the tree as it was when the data is empty.
SetData(k, cloud) ==
  /\ \/ Fill(k, cloud)
     \/ /\ m_data' = [m_data EXCEPT ![k] = cloud]
        /\ m_kdtree' = [m_kdtree EXCEPT
             ![k] = IF k \in KdTrees /\ ~m_use_runtime_metric[k] /\ cloud # EmptyCloud
                    THEN Tree(cloud) ELSE @]
        /\ UNCHANGED m_use_runtime_metric
  /\ Disturb(None, k)
  /\ last' = NoQuery /\ UNCHANGED <<user_vars, ordered>>

SetRuntimeMetric(k) ==
  /\ m_use_runtime_metric' = [m_use_runtime_metric EXCEPT ![k] = TRUE]
  /\ last' = NoQuery /\ UNCHANGED <<user_vars, m_data, m_kdtree, ghost_vars>>

Mutant_SetMetric(k) ==
  /\ m_use_runtime_metric' = [m_use_runtime_metric EXCEPT ![k] = FALSE]
  /\ last' = NoQuery /\ UNCHANGED <<user_vars, m_data, m_kdtree, ghost_vars>>
SetMetric(k) ==
  /\ m_use_runtime_metric' = [m_use_runtime_metric EXCEPT ![k] = FALSE]
  /\ m_kdtree' = [m_kdtree EXCEPT
       ![k] = IF k \in KdTrees /\ m_data[k] \notin {None, EmptyCloud}
              THEN Tree(m_data[k]) ELSE @]
  /\ last' = NoQuery /\ UNCHANGED <<user_vars, m_data, ghost_vars>>

-------------------------------------------------------------------------------
(* The extractors *)

SetInput(u, cloud) ==
  /\ m_cloud' = [m_cloud EXCEPT ![u] = cloud]
  /\ IF Kind[u] = "normals" /\ m_knn[u] # None
     THEN Fill(m_knn[u], cloud) /\ Disturb(u, m_knn[u])
     ELSE UNCHANGED <<knn_vars, alone>>
  /\ ordered' = ordered \ {u}
  /\ last' = NoQuery /\ UNCHANGED <<m_knn, m_normals>>

SetKnn(u, k) ==
  /\ m_knn' = [m_knn EXCEPT ![u] = k]
  /\ IF Kind[u] # "context" /\ m_cloud[u] # None
     THEN Fill(k, m_cloud[u])
     ELSE UNCHANGED knn_vars
  /\ alone' = {v \in alone : m_knn[v] # k} \cup {u}
  /\ ordered' = IF m_cloud[u] = None THEN ordered \ {u} ELSE ordered \cup {u}
  /\ last' = NoQuery /\ UNCHANGED <<m_cloud, m_normals>>

SetNormals(u) ==
  /\ Kind[u] = "local"
  /\ m_normals' = [m_normals EXCEPT ![u] = TRUE]
  /\ last' = NoQuery /\ UNCHANGED <<m_cloud, m_knn, knn_vars, ghost_vars>>

\* extract() of keypoints and of normals, on the cloud that was set.
Extract(u) ==
  /\ Kind[u] \in {"keypoints", "normals"}
  /\ m_cloud[u] # None /\ m_knn[u] # None
  /\ last' = [about |-> m_cloud[u], answer |-> Answer(m_data, m_kdtree, m_knn[u]),
              owed |-> u \in alone /\ (Kind[u] = "normals" \/ u \in ordered)]
  /\ UNCHANGED <<user_vars, knn_vars, ghost_vars>>

\* compute() of a descriptor, on a cloud that the caller names.
Compute(u, cloud) ==
  /\ Kind[u] \in {"local", "context"}
  /\ m_knn[u] # None
  /\ Kind[u] = "context" => m_cloud[u] # None
  /\ IF m_normals[u]
     THEN UNCHANGED <<knn_vars, alone>>
     ELSE Fill(m_knn[u], cloud) /\ Disturb(u, m_knn[u])
  /\ last' = [about |-> cloud, answer |-> Answer(m_data', m_kdtree', m_knn[u]),
              owed |-> ~m_normals[u]]
  /\ UNCHANGED <<user_vars, ordered>>

Next ==
  \/ \E u \in User, cloud \in Cloud : SetInput(u, cloud) \/ Compute(u, cloud)
  \/ \E u \in User, k \in Knn : SetKnn(u, k)
  \/ \E u \in User : SetNormals(u) \/ Extract(u)
  \/ \E k \in Knn, cloud \in Cloud : SetData(k, cloud)
  \/ \E k \in Knn : SetRuntimeMetric(k) \/ SetMetric(k)

Spec == Init /\ [][Next]_vars

-------------------------------------------------------------------------------
(* Properties *)

TypeOK ==
  /\ m_cloud \in [User -> Cloud \cup {None}]
  /\ m_knn \in [User -> Knn \cup {None}]
  /\ m_data \in [Knn -> Cloud \cup {None}] /\ m_kdtree \in [Knn -> Cloud \cup {None}]
  /\ alone \subseteq User /\ ordered \subseteq User

\* An extractor that has its object for itself asks about its own cloud, whatever
\* was done to the metric and the data of the object before: one of keypoints if it
\* was given the cloud before the object, one of normals in either order.  A
\* descriptor that computes its normals asks about the cloud it was called with,
\* even from an object that it shares.
AsksAboutItsCloud ==
  last.owed => last.answer = Tree(last.about)
===============================================================================
