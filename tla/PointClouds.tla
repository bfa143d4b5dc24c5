----------------------------- MODULE PointClouds -----------------------------
(***************************************************************************)
(* point_cloud_t: points with their normals and colours, of which there    *)
(* are none or one for every point.  Clouds are put together, copied,      *)
(* moved and transformed.  A point is its number and how often it was      *)
(* moved; a normal and a colour are those of a point.  The cloud's         *)
(* intensity, a number that += adds up, is left out.                       *)
(***************************************************************************)
EXTENDS Integers, Sequences, FiniteSets

CONSTANTS
  Clouds,       \* the clouds' names
  MaxIds,       \* points that are ever made
  MaxPoints,    \* of a cloud
  MaxMoves

VARIABLES
  cloud,        \* [Clouds -> [points, normals, colors]]
  made          \* how many points were made

vars == <<cloud, made>>

Default == [id |-> 0, moves |-> 0]
Defaults(n) == [i \in 1 .. n |-> Default]
Empty == [points |-> <<>>, normals |-> <<>>, colors |-> <<>>]

Init == cloud = [c \in Clouds |-> Empty] /\ made = 0

-------------------------------------------------------------------------------
(* Sums                                                                    *)

\* What belongs to n points, to which m more come, some of which have their own.
Joined(own, n, others, m) ==
  CASE own # <<>> /\ others # <<>> -> own \o others
    [] own = <<>> /\ others # <<>> -> Defaults(n) \o others
    [] own # <<>> /\ others = <<>> -> own \o Defaults(m)
    [] own = <<>> /\ others = <<>> -> <<>>
Plus(a, b) ==
  LET n == Len(a.points)
      m == Len(b.points)
  IN  [points |-> a.points \o b.points, normals |-> Joined(a.normals, n, b.normals, m),
       colors |-> Joined(a.colors, n, b.colors, m)]
PlusPoint(a, p) ==
  [a EXCEPT !.points = Append(@, p), !.normals = IF @ = <<>> THEN @ ELSE Append(@, Default),
            !.colors = IF @ = <<>> THEN @ ELSE Append(@, Default)]

Fits(a) == Len(a.points) <= MaxPoints

-------------------------------------------------------------------------------
(* Operations                                                              *)

\* += point
AddPoint(c) ==
  /\ made < MaxIds
  /\ made' = made + 1
  /\ cloud' = [cloud EXCEPT ![c] = PlusPoint(@, [id |-> made + 1, moves |-> 0])]
  /\ Fits(cloud'[c])

\* += cloud leaves a cloud alone that is added to itself.
AddCloud(c, d) ==
  /\ cloud' = IF c = d THEN cloud ELSE [cloud EXCEPT ![c] = Plus(@, cloud[d])]
  /\ Fits(cloud'[c])
  /\ UNCHANGED made

AddMovedCloud(c, d) ==
  /\ cloud' = IF c = d THEN cloud ELSE [cloud EXCEPT ![c] = Plus(@, cloud[d]), ![d] = Empty]
  /\ Fits(cloud'[c])
  /\ UNCHANGED made

\* b = c + d adds to a copy of c, which c is not: c + c has every point twice.
Sum(b, c, d) ==
  /\ cloud' = [cloud EXCEPT ![b] = Plus(cloud[c], cloud[d])]
  /\ Fits(cloud'[b])
  /\ UNCHANGED made

Assign(c, d) == cloud' = [cloud EXCEPT ![c] = cloud[d]] /\ UNCHANGED made
MoveAssign(c, d) ==
  /\ cloud' = IF c = d THEN cloud ELSE [cloud EXCEPT ![c] = cloud[d], ![d] = Empty]
  /\ UNCHANGED made

Clear(c) == cloud' = [cloud EXCEPT ![c] = Empty] /\ UNCHANGED made

\* A new cloud has the points only; a cloud that is transformed in place keeps its normals
\* as they were.
MovedPoints(points) == [i \in DOMAIN points |-> [points[i] EXCEPT !.moves = @ + 1]]
Movable(c) == \A i \in DOMAIN cloud[c].points : cloud[c].points[i].moves < MaxMoves
TransformPointCloud(c, d) ==
  /\ Movable(d)
  /\ cloud' = [cloud EXCEPT ![c] = [Empty EXCEPT !.points = MovedPoints(cloud[d].points)]]
  /\ UNCHANGED made
TransformPointCloudInplace(c) ==
  /\ Movable(c)
  /\ cloud' = [cloud EXCEPT ![c].points = MovedPoints(@)]
  /\ UNCHANGED made

\* Whoever computes normals or colours gives one to every point.
AttachNormals(c) == cloud' = [cloud EXCEPT ![c].normals = cloud[c].points] /\ UNCHANGED made
AttachColors(c) == cloud' = [cloud EXCEPT ![c].colors = cloud[c].points] /\ UNCHANGED made

Next ==
  \/ \E c \in Clouds :
       \/ AddPoint(c) \/ Clear(c) \/ TransformPointCloudInplace(c)
       \/ AttachNormals(c) \/ AttachColors(c)
       \/ \E d \in Clouds :
            \/ AddCloud(c, d) \/ AddMovedCloud(c, d) \/ Assign(c, d) \/ MoveAssign(c, d)
            \/ TransformPointCloud(c, d)
            \/ \E b \in Clouds : Sum(b, c, d)

Spec == Init /\ [][Next]_vars

-------------------------------------------------------------------------------
(* Properties *)

\* What a cloud has of a kind belongs to its points one by one, or to none of them.
Belong(own, points) ==
  \/ own = <<>>
  \/ /\ Len(own) = Len(points)
     /\ \A i \in DOMAIN points : own[i] = Default \/ (own[i].id = points[i].id /\ own[i].moves <= points[i].moves)

\* However clouds are put together, a normal and a colour stay with the point they were
\* computed for, and points without one have the default; a normal may be older than the
\* last transformation in place.
PointsKeepTheirs ==
  \A c \in Clouds : Belong(cloud[c].normals, cloud[c].points) /\ Belong(cloud[c].colors, cloud[c].points)
===============================================================================
