------------------------------- MODULE Helpers --------------------------------
(***************************************************************************)
(* The value types and helpers that every call leaves as they were:        *)
(* toolbox::functional, stop watches and arrays of them, and points with   *)
(* their bounds.                                                           *)
(*                                                                         *)
(* compose(), bind_first(), what maps, filters and unwraps an optional,    *)
(* match() and map() of a variant, and map(), filter(), reduce() and the   *)
(* two zips of containers take functions over Value from their callers,    *)
(* which record when they are called, where that can be told.              *)
(*                                                                         *)
(* stop_watch_timer_t adds up the time between start() and stop();         *)
(* simple_timer_array_t is reached through a pointer.  A script is what    *)
(* one caller does while the clock ticks.                                  *)
(*                                                                         *)
(* point_t and minmax_t compute with coordinates that are integers that    *)
(* wrap, signed or not, or floating, where numbers Eps apart count as      *)
(* equal.  minmax_t of plain numbers is that of points of one coordinate.  *)
(***************************************************************************)
EXTENDS Integers, Sequences, FiniteSets, SequencesExt, FiniteSetsExt

CONSTANTS
  Value,        \* a finite set of numbers
  Function,     \* functions that callers pass: [Value -> Value]
  Predicate,    \* [Value -> BOOLEAN]
  Container,    \* sequences of values
  BinaryOp,     \* [Value \X Value -> Value], some of which do not commute
  Steps,        \* of a watch: start, stop, reset and tick
  Handling,     \* of a pointer: [op, id]
  Length,       \* of a script
  Width,        \* bits of an integer
  Eps,          \* a hundred times the machine epsilon
  Coordinates,  \* [{"signed", "unsigned", "float"} -> a set of coordinates]
  Shapes,       \* which coordinates of a point differ from 0
  NaN,
  Inputs,       \* sequences of points of which minmax is computed, NaN among their coordinates
  ChunkSizes,   \* elements of one task
  Threshold     \* fewer elements are not handed to tasks

VARIABLES call, answer

vars == <<call, answer>>

\* What is thrown, in place of a result.
Thrown == -1

-------------------------------------------------------------------------------
(* Functions *)

\* The first function is applied last; a list of none throws when it is composed.
Apply(f, g) == [v \in Value |-> f[g[v]]]
Compose(functions) ==
  LET rest[i \in DOMAIN functions] ==
        IF i = Len(functions) THEN functions[i] ELSE Apply(functions[i], rest[i + 1])
  IN  IF functions = <<>> THEN <<>> ELSE rest[1]

BindFirst(op, v) == [w \in Value |-> op[v, w]]

-------------------------------------------------------------------------------
(* Optionals and variants: a sequence of at most one value; a value with its index. *)

Nullopt == <<>>
MapOptional(opt, f) == IF opt # Nullopt THEN <<f[opt[1]]>> ELSE Nullopt
\* f returns optionals: no value for what f takes to nothing.
FlatMap(opt, f) == IF opt # Nullopt THEN f[opt[1]] ELSE Nullopt
OrElse(opt, default) == IF opt # Nullopt THEN opt[1] ELSE default
\* The default function is called only when it is needed.
OrElseGet(opt, default) ==
  IF opt # Nullopt THEN [result |-> opt[1], asked |-> FALSE]
  ELSE [result |-> default, asked |-> TRUE]
FilterOptional(opt, p) == IF opt # Nullopt /\ p[opt[1]] THEN opt ELSE Nullopt

Match(var, visitors) == visitors[var.index][var.value]
MapVariant(var, f) == [var EXCEPT !.value = f[@]]

-------------------------------------------------------------------------------
(* Containers *)

Map(input, f) == [i \in DOMAIN input |-> f[input[i]]]
Filter(input, p) == SelectSeq(input, LAMBDA v : p[v])
Accumulate(input, identity, op) == FoldLeft(LAMBDA r, v : op[r, v], identity, input)
Reduce(input, op) == IF input = <<>> THEN Thrown ELSE Accumulate(Tail(input), Head(input), op)

MinSize(a, b) == Min({Len(a), Len(b)})
ZipTwo(a, b) == [i \in 1 .. MinSize(a, b) |-> <<a[i], b[i]>>]

\* emplace() leaves an entry alone that is already there.
Emplace(map, pair) == IF \E entry \in map : entry[1] = pair[1] THEN map ELSE map \cup {pair}
ZipToUnorderedMap(keys, values) == FoldLeft(Emplace, {}, ZipTwo(keys, values))

-------------------------------------------------------------------------------
(* A watch, with the time that it reads.                                   *)

Fresh == [total_duration_ |-> 0, start_time_ |-> 0, running_ |-> FALSE, now |-> 0]

\* What runs already begins anew: the time since the last start is lost.
Start(w) == [w EXCEPT !.start_time_ = w.now, !.running_ = TRUE]
Stop(w) ==
  IF w.running_ THEN [w EXCEPT !.total_duration_ = @ + (w.now - w.start_time_), !.running_ = FALSE] ELSE w
Reset(w) == [w EXCEPT !.total_duration_ = 0, !.running_ = FALSE]
Elapsed(w) == w.total_duration_ + IF w.running_ THEN w.now - w.start_time_ ELSE 0
Tick(w) == [w EXCEPT !.now = @ + 1]

Done(w, step) ==
  CASE step = "start" -> Start(w)
    [] step = "stop" -> Stop(w)
    [] step = "reset" -> Reset(w)
    [] step = "tick" -> Tick(w)

-------------------------------------------------------------------------------
(* Arrays: a pointer to one that was created, or to none.                  *)

Null == <<>>
\* An array tells which of its watches run; live counts the arrays that exist.
Nobody == [array |-> Null, live |-> 0, thrown |-> FALSE]

\* The constructor throws before the pointer changes; the pointer's last array is not deleted.
CreateArray(size) == [i \in 1 .. size |-> FALSE]
CreateTimer(p, size) ==
  IF size <= 0 THEN [p EXCEPT !.thrown = TRUE]
  ELSE [array |-> <<CreateArray(size)>>, live |-> p.live + 1, thrown |-> FALSE]
DeleteTimer(p) ==
  IF p.array = Null THEN [p EXCEPT !.thrown = FALSE]
  ELSE [array |-> Null, live |-> p.live - 1, thrown |-> FALSE]

CheckId(p, index) == 0 <= index /\ index < Len(p.array[1])
\* With no array, nothing is done and nothing refused.
SetRunning(p, index, on) ==
  CASE p.array = Null -> [p EXCEPT !.thrown = FALSE]
    [] p.array # Null /\ ~CheckId(p, index) -> [p EXCEPT !.thrown = TRUE]
    [] p.array # Null /\ CheckId(p, index) ->
         [p EXCEPT !.array = <<[@[1] EXCEPT ![index + 1] = on]>>, !.thrown = FALSE]

Handled(p, step) ==
  CASE step.op = "create" -> CreateTimer(p, step.id)
    [] step.op = "delete" -> DeleteTimer(p)
    [] step.op = "start" -> SetRunning(p, step.id, TRUE)
    [] step.op \in {"stop", "reset"} -> SetRunning(p, step.id, FALSE)

-------------------------------------------------------------------------------
(* Points: the types of a coordinate *)

Throws == <<>>
Types == {"signed", "unsigned", "float"}
Half == 2 ^ (Width - 1)

\* An integer is computed as an int and cut to its type.
Wrap(t, x) ==
  CASE t = "float" -> x
    [] t = "unsigned" -> x % (2 * Half)
    [] t = "signed" -> ((x + Half) % (2 * Half)) - Half

-------------------------------------------------------------------------------
(* Arithmetic                                                              *)

Point(t, x, y, z) == <<Wrap(t, x), Wrap(t, y), Wrap(t, z)>>
Plus(t, p, q) == Point(t, p[1] + q[1], p[2] + q[2], p[3] + q[3])
Minus(t, p, q) == Point(t, p[1] - q[1], p[2] - q[2], p[3] - q[3])
Times(t, p, s) == Point(t, p[1] * s, p[2] * s, p[3] * s)
Toward0(x, s) == IF (x < 0) = (s < 0) THEN (IF x < 0 THEN -x ELSE x) \div (IF s < 0 THEN -s ELSE s)
                 ELSE -((IF x < 0 THEN -x ELSE x) \div (IF s < 0 THEN -s ELSE s))
\* A floating quotient is given by its whole part.
Over(t, p, s) ==
  IF s = 0 THEN Throws ELSE Point(t, Toward0(p[1], s), Toward0(p[2], s), Toward0(p[3], s))

Dot(t, p, q) == Wrap(t, p[1] * q[1] + p[2] * q[2] + p[3] * q[3])
Cross(t, p, q) ==
  Point(t, p[2] * q[3] - p[3] * q[2], p[3] * q[1] - p[1] * q[3], p[1] * q[2] - p[2] * q[1])

\* The norms are doubles, of which their powers are whole: the e-th of the e-norm.
Absolute(x) == IF x < 0 THEN -x ELSE x
PNorm(p, e) == Absolute(p[1]) ^ e + Absolute(p[2]) ^ e + Absolute(p[3]) ^ e
\* A direction is given by a point in it; of no length, it is no direction.
PNormalize(p, e) == IF PNorm(p, e) = 0 THEN <<0, 0, 0>> ELSE p
\* The difference is a point of the same type.
DistanceP(t, p, q, e) == PNorm(Minus(t, q, p), e)

AlmostEqual(t, x, y) == IF t = "float" THEN Absolute(x - y) <= Eps ELSE x = y
Equal(t, p, q) == \A k \in 1 .. 3 : AlmostEqual(t, p[k], q[k])
\* The first coordinate that is not near decides.
Less(t, p, q) ==
  \E k \in 1 .. 3 : (\A j \in 1 .. k - 1 : AlmostEqual(t, p[j], q[j])) /\ ~AlmostEqual(t, p[k], q[k]) /\ p[k] < q[k]

-------------------------------------------------------------------------------
(* Bounds: every coordinate for itself.                                    *)

\* std::min and std::max: the first, unless the other is less, or more.
MinOf(x, y) == IF x # NaN /\ y # NaN /\ y < x THEN y ELSE x
MaxOf(x, y) == IF x # NaN /\ y # NaN /\ x < y THEN y ELSE x

\* What the bounds are before there is any value counts for nothing.
Uninitialized == [min |-> <<>>, max |-> <<>>, initialized |-> FALSE]
Bounds(lo, hi) == [min |-> lo, max |-> hi, initialized |-> TRUE]
Add(mm, v) ==
  IF ~mm.initialized THEN Bounds(v, v)
  ELSE Bounds([k \in DOMAIN v |-> MinOf(mm.min[k], v[k])], [k \in DOMAIN v |-> MaxOf(mm.max[k], v[k])])

CombineMinmax(a, b) ==
  CASE ~a.initialized -> b
    [] a.initialized /\ ~b.initialized -> a
    [] a.initialized /\ b.initialized ->
         Bounds([k \in DOMAIN a.min |-> MinOf(a.min[k], b.min[k])],
                [k \in DOMAIN a.max |-> MaxOf(a.max[k], b.max[k])])

CalculateMinmax(input) == FoldLeft(Add, Uninitialized, input)

\* Every task takes chunk elements, the last what is left; the results in their order.
Chunk(input, chunk, i) == SubSeq(input, (i - 1) * chunk + 1, Min({i * chunk, Len(input)}))
CalculateMinmaxParallel(input, chunk) ==
  IF Len(input) < Threshold THEN CalculateMinmax(input)
  ELSE LET tasks == (Len(input) + chunk - 1) \div chunk
           results == [i \in 1 .. tasks |-> CalculateMinmax(Chunk(input, chunk, i))]
       IN  FoldLeft(CombineMinmax, Uninitialized, results)

-------------------------------------------------------------------------------
(* Calls: nothing is kept between them, a behaviour is one call. *)

None == [op |-> "none"]
Init == call = None /\ answer = <<>>

Call(c, a) == call' = c /\ answer' = a

ComposeCalls ==
  \E f \in Function, g \in Function, h \in Function, n \in 0 .. 3 :
    LET functions == SubSeq(<<f, g, h>>, 1, n)
    IN  Call([op |-> "compose", functions |-> functions], Compose(functions))

OptionalCalls ==
  \E opt \in {Nullopt} \cup {<<v>> : v \in Value}, f \in Function, p \in Predicate, v \in Value :
    Call([op |-> "optional", opt |-> opt, f |-> f, p |-> p, default |-> v],
         [map |-> MapOptional(opt, f), filter |-> FilterOptional(opt, p),
          flat |-> FlatMap(opt, [w \in Value |-> IF p[w] THEN <<f[w]>> ELSE Nullopt]),
          orElse |-> OrElse(opt, v), orElseGet |-> OrElseGet(opt, v)])

VariantCalls ==
  \E var \in [index : {1, 2}, value : Value], f \in Function, g \in Function :
    Call([op |-> "variant", var |-> var, f |-> f, g |-> g],
         [match |-> Match(var, <<f, g>>), map |-> MapVariant(var, f)])

ContainerCalls ==
  \E input \in Container, f \in Function, p \in Predicate, op \in BinaryOp, v \in Value :
    Call([op |-> "container", input |-> input, f |-> f, p |-> p, with |-> op, identity |-> v],
         [map |-> Map(input, f), filter |-> Filter(input, p),
          reduce |-> Reduce(input, op), fold |-> Accumulate(input, v, op)])

ZipCalls ==
  \E a \in Container, b \in Container :
    Call([op |-> "zip", a |-> a, b |-> b],
         [zip |-> ZipTwo(a, b), map |-> ZipToUnorderedMap(a, b)])

Watch ==
  \E script \in BoundedSeq(Steps, Length) :
    Call([op |-> "watch", script |-> script], Elapsed(FoldLeft(Done, Fresh, script)))
Handle ==
  \E script \in BoundedSeq(Handling, Length - 2) :
    Call([op |-> "handle", script |-> script], FoldLeft(Handled, Nobody, script))

Of(t) == {[k \in 1 .. 3 |-> IF k \in shape THEN x[k] ELSE 0] :
            shape \in Shapes, x \in [1 .. 3 -> Coordinates[t]]}

Compute ==
  \E t \in Types : \E p, q \in Of(t), s \in Coordinates[t] :
    Call([op |-> "compute", type |-> t, p |-> p, q |-> q, s |-> s],
         [plus |-> Plus(t, p, q), minus |-> Minus(t, p, q), times |-> Times(t, p, s), over |-> Over(t, p, s),
          dot |-> Dot(t, p, q), cross |-> Cross(t, p, q),
          distance |-> DistanceP(t, p, q, 2), back |-> DistanceP(t, q, p, 2), p3 |-> DistanceP(t, p, q, 3),
          direction |-> PNormalize(p, 2)])

Compare ==
  \E t \in Types : \E p, q, r \in Of(t) :
    Call([op |-> "compare", type |-> t, p |-> p, q |-> q, r |-> r],
         [equal |-> Equal(t, p, q), less |-> Less(t, p, q), more |-> Less(t, q, p),
          next |-> Less(t, q, r), last |-> Less(t, p, r)])

Bound ==
  \E input \in Inputs, chunk \in ChunkSizes :
    Call([op |-> "bound", input |-> input, chunk |-> chunk],
         [whole |-> CalculateMinmax(input), parallel |-> CalculateMinmaxParallel(input, chunk)])

Next ==
  /\ call = None
  /\ \/ ComposeCalls \/ OptionalCalls \/ VariantCalls \/ ContainerCalls \/ ZipCalls
     \/ Watch \/ Handle
     \/ Compute \/ Compare \/ Bound

Spec == Init /\ [][Next]_vars

-------------------------------------------------------------------------------
(* Properties *)

\* compose() applies the functions from right to left, and composing in two steps, from
\* either side, is composing at once.
ComposeAssociates ==
  call.op = "compose" /\ Len(call.functions) = 3 =>
    LET f == call.functions
    IN  /\ \A v \in Value : answer[v] = f[1][f[2][f[3][v]]]
        /\ answer = Compose(<<f[1], Compose(<<f[2], f[3]>>)>>)
        /\ answer = Compose(<<Compose(<<f[1], f[2]>>), f[3]>>)

\* flatMap() is a filter and a map; a value is never replaced by the default, and the
\* default function is not called for one.
OptionalLaws ==
  call.op = "optional" =>
    /\ answer.flat = MapOptional(answer.filter, call.f)
    /\ answer.orElse = answer.orElseGet.result
    /\ answer.orElseGet.asked <=> answer.map = Nullopt
    /\ OrElse(answer.map, call.default) =
         IF call.opt = Nullopt THEN call.default ELSE call.f[OrElse(call.opt, call.default)]

\* Visitor and value have the same index; mapping keeps the alternative.
VariantLaws ==
  call.op = "variant" =>
    /\ answer.match = (IF call.var.index = 1 THEN call.f ELSE call.g)[call.var.value]
    /\ answer.match = Match(answer.map, <<[v \in Value |-> v], call.g>>) \/ call.var.index = 2

\* filter() keeps the order; the reductions go from left to right, so that one without an
\* identity is the other from the first element on, and cutting the container does not
\* change a reduction, commutative or not.
ContainerLaws ==
  call.op = "container" =>
    /\ Filter(answer.map, call.p) =
         Map(Filter(call.input, [v \in Value |-> call.p[call.f[v]]]), call.f)
    /\ \A k \in 0 .. Len(call.input) :
         answer.fold = Accumulate(SubSeq(call.input, k + 1, Len(call.input)),
                                  Accumulate(SubSeq(call.input, 1, k), call.identity, call.with),
                                  call.with)
    /\ answer.reduce = Thrown <=> call.input = <<>>
    /\ call.input # <<>> /\ (\A v \in Value : call.with[call.identity, v] = v) =>
         answer.reduce = answer.fold

\* zip_to_unordered_map() takes the first value of a key that comes twice, and nothing of
\* what the longer container has more.
FirstKeyWins ==
  call.op = "zip" =>
    answer.map = {answer.zip[i] : i \in {i \in DOMAIN answer.zip :
                    \A j \in 1 .. i - 1 : answer.zip[j][1] # answer.zip[i][1]}}

LawsHold == ComposeAssociates /\ OptionalLaws /\ VariantLaws /\ ContainerLaws /\ FirstKeyWins

\* The time that a watch shows is that of the ticks since the last reset before which the
\* last call was a start, but for those after which it was started again.
TicksCounted ==
  call.op = "watch" =>
    LET s == call.script
        calls(from, to) == {i \in from .. to : s[i] # "tick"}
        counts(i) ==
          /\ s[i] = "tick"
          /\ \A j \in i .. Len(s) : s[j] # "reset"
          /\ calls(1, i) # {} /\ s[Max(calls(1, i))] = "start"
          /\ calls(i, Len(s)) = {} \/ s[Min(calls(i, Len(s)))] # "start"
    IN  answer = Cardinality({i \in DOMAIN s : counts(i)})

\* An array is left behind by every creation that finds one and by nothing else; a call
\* throws for an index or a size out of range, and through no array it does nothing.
ArraysDeleted ==
  call.op = "handle" =>
    LET s == call.script
        before(i) == FoldLeft(Handled, Nobody, SubSeq(s, 1, i - 1))
        lost == {i \in DOMAIN s : s[i].op = "create" /\ s[i].id > 0 /\ before(i).array # Null}
    IN  /\ answer.live = Cardinality(lost) + IF answer.array = Null THEN 0 ELSE 1
        /\ answer.thrown =>
             \/ s[Len(s)].op = "create" /\ s[Len(s)].id <= 0
             \/ s[Len(s)].op \in {"start", "stop", "reset"} /\ answer.array # Null

TimeAccounted == TicksCounted /\ ArraysDeleted

\* The operators undo one another, even where they wrap; a vector product is orthogonal to
\* its factors; only unsigned points can be farther from one another than back.
OperatorsAgree ==
  call.op = "compute" =>
    LET t == call.type
        p == call.p
        q == call.q
    IN  /\ Minus(t, answer.plus, q) = p /\ Plus(t, answer.minus, q) = p
        /\ answer.over = Throws <=> call.s = 0
        /\ call.s # 0 => \A k \in 1 .. 3 :
             p[k] * call.s = answer.times[k] => Over(t, answer.times, call.s)[k] = p[k]
        /\ answer.dot = Dot(t, q, p) /\ Plus(t, answer.cross, Cross(t, q, p)) = <<0, 0, 0>>
        /\ Dot(t, p, answer.cross) = 0 /\ Dot(t, q, answer.cross) = 0
        /\ t # "unsigned" => answer.distance = answer.back
        /\ answer.distance = 0 <=> p = q
        /\ answer.direction = <<0, 0, 0>> <=> p = <<0, 0, 0>>

\* Two points are equal or one is less; integers are ordered, and floating points too as
\* long as near coordinates are the same.
PointsOrdered ==
  call.op = "compare" =>
    LET t == call.type
        apart == \A a, b \in {call.p, call.q, call.r} : \A k \in 1 .. 3 : AlmostEqual(t, a[k], b[k]) => a[k] = b[k]
    IN  /\ Cardinality({x \in {1, 2, 3} : <<answer.equal, answer.less, answer.more>>[x]}) = 1
        /\ apart /\ answer.less /\ answer.next => answer.last

\* The bounds hold every number of the input and are two of them, in whatever chunks they
\* are computed.  A NaN stands when it comes first, and is passed over later; but a chunk
\* that begins with one is lost.
BoundsHold ==
  call.op = "bound" =>
    LET input == call.input
        bounds == answer.whole
        parallel == answer.parallel
        numbers(k) == {input[i][k] : i \in DOMAIN input} \ {NaN}
        led(k) == \E i \in DOMAIN input : (i - 1) % call.chunk = 0 /\ input[i][k] = NaN
    IN  /\ bounds.initialized <=> input # <<>>
        /\ parallel.initialized <=> input # <<>>
        /\ input # <<>> => \A k \in DOMAIN input[1] :
             /\ IF input[1][k] = NaN THEN bounds.min[k] = NaN /\ bounds.max[k] = NaN
                ELSE bounds.min[k] = Min(numbers(k)) /\ bounds.max[k] = Max(numbers(k))
             /\ ~led(k) => parallel.min[k] = bounds.min[k] /\ parallel.max[k] = bounds.max[k]
             /\ parallel.min[k] = NaN <=> input[1][k] = NaN

PointsAgree == OperatorsAgree /\ PointsOrdered /\ BoundsHold
===============================================================================
