------------------------------- MODULE Terminal -------------------------------
(***************************************************************************)
(* What toolbox::utils prints on a terminal.                               *)
(*                                                                         *)
(* table_t prints rows of cells with borders, and the container printers   *)
(* may leave out the middle of a container.  A text is a sequence of       *)
(* characters, of which Gap is white space.  Colours and the signs that    *)
(* borders are made of (of one character each) are left out, a title and a *)
(* footer too: they are printed as they are.                               *)
(*                                                                         *)
(* plot_t draws series of points and the lines between them.  Coordinates  *)
(* are whole numbers, and a cell is computed without rounding errors;      *)
(* title and labels are left out.                                          *)
(*                                                                         *)
(* A behaviour is one text that is wrapped, one table that is filled and   *)
(* printed, one container, or one plot that is filled and rendered.        *)
(***************************************************************************)
EXTENDS Integers, Sequences, FiniteSets, SequencesExt, FiniteSetsExt, TLC

CONSTANTS
  Gap,
  SizeBits,       \* of a size_t
  Texts, Widths, Ellipses,  \* what wrap_and_truncate() is called with
  Styles,         \* records [padding, border, header, align]
  Scripts,        \* sequences of what is done to a table, records [op, ...]
  Sizes, Counts,  \* of containers, and of what is shown of them at either end
  Log10,          \* of the positive coordinates
  PlotScripts,    \* sequences of what is done to a plot, records [op, ...]
  Canvases        \* pairs <<width, height>>

VARIABLES call, answer

vars == <<call, answer>>

Size(n) == n % 2^SizeBits
Total(numbers) == FoldLeft(LAMBDA a, b : a + b, 0, numbers)
Blanks(n) == [k \in 1 .. n |-> Gap]

-------------------------------------------------------------------------------
(* One cell.                                                               *)

SplitWords(text) ==
  LET Add(q, c) ==
        CASE c = Gap -> [q EXCEPT !.inside = FALSE]
          [] c # Gap /\ q.inside -> [q EXCEPT !.words[Len(q.words)] = Append(@, c)]
          [] c # Gap /\ ~q.inside -> [inside |-> TRUE, words |-> Append(q.words, <<c>>)]
  IN  FoldLeft(Add, [inside |-> FALSE, words |-> <<>>], text).words

\* substr(0, width - ellipsis.size()) + ellipsis; an ellipsis that is wider than the column
\* makes the length wrap around, and nothing is cut.
Cut(text, width, ellipsis) ==
  SubSeq(text, 1, Min({Size(width - Len(ellipsis)), Len(text)})) \o ellipsis

Wrapped(text, width, ellipsis) ==
  LET Add(q, w) ==
        CASE Len(w) <= width /\ q.current = <<>> -> [q EXCEPT !.current = w]
          [] Len(w) <= width /\ q.current # <<>> /\ Len(q.current) + 1 + Len(w) <= width ->
               [q EXCEPT !.current = @ \o <<Gap>> \o w]
          [] Len(w) <= width /\ q.current # <<>> /\ Len(q.current) + 1 + Len(w) > width ->
               [lines |-> Append(q.lines, q.current), current |-> w]
          [] Len(w) > width ->
               [lines |-> q.lines \o (IF q.current = <<>> THEN <<>> ELSE <<q.current>>)
                            \o <<Cut(w, width, ellipsis)>>,
                current |-> <<>>]
      done == FoldLeft(Add, [lines |-> <<>>, current |-> <<>>], SplitWords(text))
  IN  done.lines \o IF done.current = <<>> THEN <<>> ELSE <<done.current>>

WrapAndTruncate(text, width, wrap_enabled, ellipsis) ==
  CASE width = 0 -> <<<<>>>>
    [] width # 0 /\ ~wrap_enabled -> <<IF Len(text) <= width THEN text ELSE Cut(text, width, ellipsis)>>
    [] width # 0 /\ wrap_enabled ->
         LET lines == Wrapped(text, width, ellipsis) IN IF lines = <<>> THEN <<<<>>>> ELSE lines

AlignText(text, width, align) ==
  LET padding == IF Len(text) >= width THEN 0 ELSE width - Len(text)
      left == CASE align = "left" -> 0
                [] align = "right" -> padding
                [] align = "center" -> padding \div 2
  IN  Blanks(left) \o text \o Blanks(padding - left)

-------------------------------------------------------------------------------
(* A table; columns count from 1, and a header that is shown is row 0.     *)

NewTable(style) ==
  [style |-> style, headers |-> <<>>, rows |-> <<>>, fixed |-> <<>>, min_max |-> <<>>,
   height |-> <<>>, spans |-> <<>>, aligns |-> <<>>, wrap |-> FALSE, ellipsis |-> <<".", ".", ".">>]

\* set_column_align() gives the columns before it the alignment of the style.
SetColumnAlign(t, col, align) ==
  [t EXCEPT !.aligns = [c \in 1 .. Max({Len(@), col}) |->
     CASE c = col -> align [] c # col /\ c <= Len(@) -> @[c] [] c # col /\ c > Len(@) -> t.style.align]]

Step(t, s) ==
  CASE s.op = "headers" -> [t EXCEPT !.headers = s.cells]
    [] s.op = "row" -> [t EXCEPT !.rows = Append(@, s.cells)]
    [] s.op = "width" -> [t EXCEPT !.fixed = (s.col :> s.width) @@ @]
    [] s.op = "min max" -> [t EXCEPT !.min_max = (s.col :> <<s.min, s.max>>) @@ @]
    [] s.op = "height" -> [t EXCEPT !.height = (s.row :> s.height) @@ @]
    [] s.op = "wrap" -> [t EXCEPT !.wrap = s.on]
    [] s.op = "ellipsis" -> [t EXCEPT !.ellipsis = s.text]
    [] s.op = "span" -> [t EXCEPT !.spans = Append(@, s.span)]
    [] s.op = "align" -> SetColumnAlign(t, s.col, s.align)
    [] s.op = "align all" -> [t EXCEPT !.aligns = [c \in DOMAIN t.headers |-> s.align]]
Filled(style, script) == FoldLeft(Step, NewTable(style), script)

Columns(t) == [c \in DOMAIN t.headers |-> c]

ColumnWidths(t) ==
  LET Natural(c) ==
        Max({Len(t.headers[c])} \cup {Len(r[c]) : r \in {x \in Range(t.rows) : c <= Len(x)}})
      Fixed(c) == IF c \in DOMAIN t.fixed THEN t.fixed[c] ELSE Natural(c)
  IN  [c \in DOMAIN t.headers |->
         IF c \in DOMAIN t.min_max THEN Min({Max({Fixed(c), t.min_max[c][1]}), t.min_max[c][2]})
         ELSE Fixed(c)]

\* Covered by the first span that has the cell, but for the cell where that begins.
IsSpannedCell(t, row, col) ==
  LET over == {k \in DOMAIN t.spans :
                 /\ row \in t.spans[k].row .. t.spans[k].row + t.spans[k].row_span - 1
                 /\ col \in t.spans[k].col .. t.spans[k].col + t.spans[k].col_span - 1}
  IN  over # {} /\ LET s == t.spans[Min(over)] IN row # s.row \/ col # s.col

SpanColumns(t, row, col) ==
  LET here == {k \in DOMAIN t.spans : t.spans[k].row = row /\ t.spans[k].col = col}
  IN  IF here = {} THEN 1 ELSE t.spans[Min(here)].col_span

TextWidth(t, row, col) ==
  LET n == SpanColumns(t, row, col)
  IN  Total(SubSeq(ColumnWidths(t), col, Min({col + n - 1, Len(t.headers)})))
        + 2 * t.style.padding * (n - 1)

\* The columns at which something is printed: neither covered nor passed over by a span.
Printed(t, row) ==
  LET Visit(q, c) ==
        IF c < q.next \/ IsSpannedCell(t, row, c) THEN q
        ELSE [next |-> c + SpanColumns(t, row, c), columns |-> Append(q.columns, c)]
  IN  FoldLeft(Visit, [next |-> 1, columns |-> <<>>], Columns(t)).columns

\* The lines of one row: of each its cells, [column, text].
PrintWrappedRow(t, cells, row) ==
  LET columns == Printed(t, row)
      Text(c) == IF c <= Len(cells) THEN cells[c] ELSE <<>>
      Lines(c) == WrapAndTruncate(Text(c), TextWidth(t, row, c), t.wrap, t.ellipsis)
      Align(c) == IF c <= Len(t.aligns) THEN t.aligns[c] ELSE t.style.align
      height == IF row \in DOMAIN t.height THEN t.height[row]
                ELSE Max({0} \cup {Len(Lines(c)) : c \in Range(columns)})
  IN  [k \in 1 .. height |->
         [row |-> row,
          cells |-> [i \in DOMAIN columns |->
                       LET c == columns[i]
                       IN  [column |-> c,
                            text |-> AlignText(IF k <= Len(Lines(c)) THEN Lines(c)[k] ELSE <<>>,
                                               TextWidth(t, row, c), Align(c))]]]]

BorderWidth(t) ==
  1 + Total([c \in DOMAIN t.headers |-> ColumnWidths(t)[c] + 2 * t.style.padding + 1])
LineWidth(t, line) ==
  LET edge == IF t.style.border THEN 1 ELSE 0
  IN  edge + Total([i \in DOMAIN line.cells |-> Len(line.cells[i].text) + 2 * t.style.padding + edge])

\* The lines between the borders; a table without headers has none.
PrintTable(t) ==
  IF t.headers = <<>> THEN <<>>
  ELSE LET first == IF t.style.header THEN 1 ELSE 0
       IN  (IF t.style.header THEN PrintWrappedRow(t, t.headers, 0) ELSE <<>>)
             \o FlattenSeq([i \in DOMAIN t.rows |-> PrintWrappedRow(t, t.rows[i], i - 1 + first)])

-------------------------------------------------------------------------------
(* The content of a container: the places of elements, or the ellipsis.    *)

Dots == -1
Entry(place, comma) == [place |-> place, comma |-> comma]

Loop(from, to, total, more) ==
  [i \in 1 .. to - from |-> Entry(from + i - 1, more \/ from + i - 1 < total - 1)]
Ellipsis(tail_start, total) == <<Entry(Dots, tail_start < total)>>

PrintVector(total, enabled, head_count, tail_count) ==
  LET partial == enabled /\ total > head_count + tail_count
      head == IF partial THEN head_count ELSE total
      tail_start == IF partial THEN total - tail_count ELSE total
  IN  Loop(0, head, total, partial)
        \o (IF partial THEN Ellipsis(tail_start, total) ELSE <<>>)
        \o Loop(Max({head, tail_start}), total, total, FALSE)

\* The tail is reached from the beginning, and only if something was left out.
PrintMap(total, enabled, head_count, tail_count) ==
  LET partial == enabled /\ total > head_count + tail_count
      head == IF partial THEN Min({head_count, total}) ELSE total
      tail_start == total - tail_count
  IN  Loop(0, head, total, partial)
        \o IF partial THEN Ellipsis(tail_start, total) \o Loop(tail_start, total, total, FALSE)
           ELSE <<>>

\* The other containers are always shown whole.
PrintOther(total) == Loop(0, total, total, FALSE)

PrintContent(kind, total, enabled, head_count, tail_count) ==
  CASE kind = "vector" -> PrintVector(total, enabled, head_count, tail_count)
    [] kind = "map" -> PrintMap(total, enabled, head_count, tail_count)
    [] kind = "other" -> PrintOther(total)

-------------------------------------------------------------------------------
(* Plots: numbers, and what is drawn *)

Magnitude(n) == IF n < 0 THEN -n ELSE n
\* A conversion to int cuts what follows the point.
Truncated(n, d) == IF n < 0 THEN -(-n \div d) ELSE n \div d

NewPlot == [series |-> <<>>, x |-> "linear", y |-> "linear", axis_grid |-> "off", global_grid |-> "off"]

Series(s) == [xs |-> s.xs, ys |-> s.ys, color |-> s.color, line |-> s.op = "line", style |-> s.style]
\* A grid has a colour, or is off.
PlotStep(p, s) ==
  CASE s.op \in {"line", "scatter"} -> [p EXCEPT !.series = Append(@, Series(s))]
    [] s.op = "x axis" -> [p EXCEPT !.x = s.scale]
    [] s.op = "y axis" -> [p EXCEPT !.y = s.scale]
    [] s.op = "axis grid" -> [p EXCEPT !.axis_grid = s.color]
    [] s.op = "global grid" -> [p EXCEPT !.global_grid = s.color]
Drawing(script) == FoldLeft(PlotStep, NewPlot, script)

-------------------------------------------------------------------------------
(* From coordinates to cells, which count from 0, upwards.                 *)

\* The least and the greatest value, one more on either side if they are equal; on a
\* logarithmic axis what is not positive does not count.
Bounds(values, scale) ==
  LET counted == IF scale = "log" THEN {Log10[v] : v \in {w \in values : w > 0}} ELSE values
      low == Min(counted)
      high == Max(counted)
  IN  CASE counted = {} -> <<>>
        [] counted # {} /\ low = high -> <<low - 1, high + 1>>
        [] counted # {} /\ low # high -> <<low, high>>

\* With no value that counts, the range is infinite and everything is at its beginning.
\* What has no logarithm is taken as it is.
Mapped(v, scale, bounds, cells) ==
  LET value == IF scale = "log" /\ v > 0 THEN Log10[v] ELSE v
  IN  IF bounds = <<>> THEN 0
      ELSE Truncated((value - bounds[1]) * (cells - 1), bounds[2] - bounds[1])

XBounds(p) == Bounds(UNION {Range(s.xs) : s \in Range(p.series)}, p.x)
YBounds(p) == Bounds(UNION {Range(s.ys) : s \in Range(p.series)}, p.y)

\* As many points as there are both coordinates of.
Points(p, s, size) ==
  LET across == XBounds(p)
      up == YBounds(p)
  IN  [i \in 1 .. Min({Len(s.xs), Len(s.ys)}) |->
         <<Mapped(s.xs[i], p.x, across, size[1]), Mapped(s.ys[i], p.y, up, size[2])>>]

\* The cells from one to another, by Bresenham's algorithm.
Walk(from, to) ==
  LET dx == Magnitude(to[1] - from[1])
      dy == -Magnitude(to[2] - from[2])
      sx == IF from[1] < to[1] THEN 1 ELSE -1
      sy == IF from[2] < to[2] THEN 1 ELSE -1
      Go(q, k) ==
        LET across == 2 * q.err >= dy
            along == 2 * q.err <= dx
            next == <<q.at[1] + IF across THEN sx ELSE 0, q.at[2] + IF along THEN sy ELSE 0>>
        IN  IF q.at = to THEN q
            ELSE [at |-> next, cells |-> Append(q.cells, next),
                  err |-> q.err + (IF across THEN dy ELSE 0) + IF along THEN dx ELSE 0]
      none == [at |-> from, cells |-> <<from>>, err |-> dx + dy]
  IN  FoldLeft(Go, none, [k \in 1 .. dx - dy |-> k]).cells

-------------------------------------------------------------------------------
(* The canvas: a sign and a colour for each cell.                          *)

BlankCell == [sign |-> " ", color |-> "default"]
Canvas(size) == [cell \in (0 .. size[1] - 1) \X (0 .. size[2] - 1) |-> BlankCell]

\* The cells of a series that is drawn: its points, and the lines between them.
Drawn(p, s, size) ==
  LET points == Points(p, s, size)
  IN  Range(points)
        \cup IF s.line THEN UNION {Range(Walk(points[i - 1], points[i])) : i \in 2 .. Len(points)}
             ELSE {}
\* What is outside the canvas is not drawn.
DrawSeries(canvas, p, s, size) ==
  LET drawn == Drawn(p, s, size)
  IN  [cell \in DOMAIN canvas |->
         IF cell \in drawn THEN [sign |-> s.style, color |-> s.color] ELSE canvas[cell]]

\* A grid takes the cells that are blank; all of them get its colour.
Rule(canvas, cells, sign, color) ==
  [cell \in DOMAIN canvas |->
     IF cell \in cells THEN [sign |-> IF canvas[cell].sign = " " THEN sign ELSE canvas[cell].sign,
                             color |-> color]
     ELSE canvas[cell]]

TickCount == 4
TickColumns(canvas, size) ==
  {cell \in DOMAIN canvas : \E i \in 1 .. TickCount : cell[1] = i * (size[1] \div (TickCount + 1))}
TickRows(canvas, size) ==
  {cell \in DOMAIN canvas : \E i \in 1 .. TickCount : cell[2] = i * (size[2] \div (TickCount + 1))}

GlobalGrid(canvas, size, color) ==
  Rule(Rule(canvas, TickColumns(canvas, size), "|", color), TickRows(canvas, size), "-", color)

\* The ticks come last, where the axes have left no blank.
AxisGrid(canvas, size, color) ==
  LET below == {cell \in DOMAIN canvas : cell[2] = 0}
      left == {cell \in DOMAIN canvas : cell[1] = 0}
      axes == Rule(Rule(canvas, below, "-", color), left, "|", color)
  IN  Rule(axes, (below \cap TickColumns(canvas, size)) \cup (left \cap TickRows(canvas, size)),
           "+", color)

Render(p, size) ==
  LET Draw(canvas, s) == DrawSeries(canvas, p, s, size)
      data == FoldLeft(Draw, Canvas(size), p.series)
      ruled == IF p.global_grid = "off" THEN data ELSE GlobalGrid(data, size, p.global_grid)
  IN  CASE p.series = <<>> \/ 0 \in Range(size) -> <<>>
        [] p.series # <<>> /\ 0 \notin Range(size) /\ p.axis_grid = "off" -> ruled
        [] p.series # <<>> /\ 0 \notin Range(size) /\ p.axis_grid # "off" ->
             AxisGrid(ruled, size, p.axis_grid)

-------------------------------------------------------------------------------
(* Calls: nothing is kept between them, a behaviour is one call. *)

None == [op |-> "none"]
Init == call = None /\ answer = <<>>

Call(c, a) == call' = c /\ answer' = a

Wrap ==
  \E text \in Texts, width \in Widths, ellipsis \in Ellipses, wrap \in BOOLEAN :
    Call([op |-> "wrap", text |-> text, width |-> width, ellipsis |-> ellipsis, wrap |-> wrap],
         WrapAndTruncate(text, width, wrap, ellipsis))
FillAndShow ==
  \E style \in Styles, script \in Scripts :
    LET t == Filled(style, script) IN Call([op |-> "print", table |-> t], PrintTable(t))
PrintContainer ==
  \E kind \in {"vector", "map", "other"}, n \in Sizes, on \in BOOLEAN, h, t \in Counts :
    Call([op |-> "container", kind |-> kind, size |-> n, enabled |-> on, head |-> h, tail |-> t],
         PrintContent(kind, n, on, h, t))

RenderPlot ==
  \E script \in PlotScripts, size \in Canvases :
    Call([op |-> "render", plot |-> Drawing(script), size |-> size], Render(Drawing(script), size))

Next ==
  /\ call = None
  /\ \/ Wrap \/ FillAndShow \/ PrintContainer
     \/ RenderPlot

Spec == Init /\ [][Next]_vars

-------------------------------------------------------------------------------
(* Properties *)

Letters(text) == SelectSeq(text, LAMBDA c : c # Gap)
Shortened(w) == IF Len(w) <= call.width THEN w ELSE Cut(w, call.width, call.ellipsis)

\* wrap_and_truncate(): no line is wider than the column unless the ellipsis is; wrapping
\* loses no word and cuts only those that are wider than a line, and no line ends while the
\* next word would have fitted.
WrappingKeepsWords ==
  call.op = "wrap" /\ call.width > 0 =>
    LET fits == {k \in DOMAIN answer : Len(answer[k]) <= call.width}
    IN  /\ Len(call.ellipsis) <= call.width => fits = DOMAIN answer
        /\ call.wrap =>
             /\ FlattenSeq([k \in DOMAIN answer |-> SplitWords(answer[k])])
                  = [k \in DOMAIN SplitWords(call.text) |-> Shortened(SplitWords(call.text)[k])]
             /\ \A k \in fits \ {Len(answer)} :
                  Len(answer[k]) + 1 + Len(Head(SplitWords(answer[k + 1]))) > call.width
                    \/ \E w \in Range(SplitWords(call.text)) :
                         Len(w) > call.width /\ Shortened(w) \in {answer[k], answer[k + 1]}
        /\ ~call.wrap /\ Len(call.text) <= call.width => answer = <<call.text>>

PlainSpans(t) ==
  /\ \A i, j \in DOMAIN t.spans : t.spans[i].row = t.spans[j].row => i = j
  /\ \A s \in Range(t.spans) :
       /\ s.row_span = 1 /\ s.col + s.col_span - 1 <= Len(t.headers)
       /\ t.style.border => s.col_span = 1
WideEnough(t) ==
  \A row \in 0 .. Len(t.rows) : \A c \in Range(Printed(t, row)) :
    TextWidth(t, row, c) \in {0} \cup Len(t.ellipsis) .. TextWidth(t, row, c)

\* A table is a rectangle, whatever is wrapped, cut or missing - unless a column is narrower
\* than the ellipsis, a span covers rows, overlaps another or leaves the table, or there are
\* borders for a span over columns to swallow.
LinesEquallyWide ==
  call.op = "print" /\ PlainSpans(call.table) /\ WideEnough(call.table) =>
    \A k, l \in DOMAIN answer :
      /\ LineWidth(call.table, answer[k]) = LineWidth(call.table, answer[l])
      /\ call.table.style.border => LineWidth(call.table, answer[k]) = BorderWidth(call.table)

\* Every letter of every cell under a header is printed in its row and column, in order, as
\* long as the cell, or each of its words if the table wraps, fits its width, the row's height
\* is not set and no span covers the cell.
CellsShown ==
  call.op = "print" =>
    LET t == call.table
        first == IF t.style.header THEN 1 ELSE 0
        Fits(cell, width) ==
          \/ Len(cell) <= width
          \/ t.wrap /\ width > 0 /\ \A w \in Range(SplitWords(cell)) : Len(w) <= width
        Shown(r, c) ==
          FlattenSeq([k \in DOMAIN answer |->
            IF answer[k].row # r THEN <<>>
            ELSE FlattenSeq([i \in DOMAIN answer[k].cells |->
              IF answer[k].cells[i].column = c THEN Letters(answer[k].cells[i].text) ELSE <<>>])])
    IN  \A i \in DOMAIN t.rows :
          LET row == i - 1 + first
          IN  row \notin DOMAIN t.height =>
                \A c \in DOMAIN t.rows[i] \cap Range(Printed(t, row)) :
                  Fits(t.rows[i][c], TextWidth(t, row, c)) => Shown(row, c) = Letters(t.rows[i][c])

\* What is printed of a container are elements of it in their order, all of them or the first
\* and the last that were asked for, and every entry but the last is followed by a comma.
ContainerShown ==
  call.op = "container" =>
    LET places == SelectSeq([k \in DOMAIN answer |-> answer[k].place], LAMBDA p : p # Dots)
        all == [k \in 1 .. call.size |-> k - 1]
        short == call.enabled /\ call.kind # "other" /\ call.size > call.head + call.tail
    IN  /\ places =
             IF short THEN SubSeq(all, 1, call.head) \o SubSeq(all, call.size - call.tail + 1, call.size)
             ELSE all
        /\ Len(answer) - Len(places) = IF short THEN 1 ELSE 0
        /\ short => answer[call.head + 1].place = Dots
        /\ \A k \in DOMAIN answer : answer[k].comma <=> k < Len(answer)

TablesHold == WrappingKeepsWords /\ LinesEquallyWide /\ CellsShown /\ ContainerShown

Shown == call.op = "render" /\ answer # <<>>
Corners(s) == Points(call.plot, s, call.size)
ShowsData(cells) ==
  \A cell \in cells \cap DOMAIN answer :
    answer[cell].sign \in {t.style : t \in Range(call.plot.series)}

\* A line is drawn without a gap, from one point to the other, in no more cells than its
\* longer side has and none further than half a cell from the line itself; and what of it is
\* on the canvas shows the sign of some series.
LinesConnected ==
  Shown =>
    \A s \in Range(call.plot.series) : \A i \in 2 .. Len(Corners(s)) :
      LET from == Corners(s)[i - 1]
          to == Corners(s)[i]
          dx == to[1] - from[1]
          dy == to[2] - from[2]
          longer == Max({Magnitude(dx), Magnitude(dy)})
          walk == Walk(from, to)
      IN  /\ Len(walk) = longer + 1 /\ Last(walk) = to
          /\ \A k \in 2 .. Len(walk) :
               Max({Magnitude(walk[k][1] - walk[k - 1][1]), Magnitude(walk[k][2] - walk[k - 1][2])}) = 1
          /\ \A cell \in Range(walk) :
               2 * Magnitude(dx * (cell[2] - from[2]) - dy * (cell[1] - from[1])) <= longer
          /\ s.line => ShowsData(Range(walk))

\* A value further along an axis is never drawn before another; on a linear axis, and of the
\* positive values on a logarithmic one, the least is at the one end of the canvas, the
\* greatest at the other, and every point is on it.
Axis(values, scale, bounds, cells) ==
  LET counted == IF scale = "log" THEN {v \in values : v > 0} ELSE values
      At(v) == Mapped(v, scale, bounds, cells)
  IN  /\ \A v, w \in counted : v <= w => At(v) <= At(w)
      /\ \A v \in counted : At(v) \in 0 .. cells - 1
      /\ Cardinality(counted) > 1 => At(Min(counted)) = 0 /\ At(Max(counted)) = cells - 1
EndsReached ==
  Shown =>
    LET p == call.plot
    IN  /\ Axis(UNION {Range(s.xs) : s \in Range(p.series)}, p.x, XBounds(p), call.size[1])
        /\ Axis(UNION {Range(s.ys) : s \in Range(p.series)}, p.y, YBounds(p), call.size[2])

\* Every point on the canvas shows the sign of the last series that is drawn there, whatever
\* grids there are, and where no series is drawn there are the signs of grids only.
DataShown ==
  Shown =>
    LET p == call.plot
        drawn == [k \in DOMAIN p.series |-> Drawn(p, p.series[k], call.size)]
        Over(cell) == {k \in DOMAIN p.series : cell \in drawn[k]}
    IN  /\ \A cell \in DOMAIN answer :
             IF Over(cell) = {}
               THEN answer[cell].sign \in
                      {" "} \cup IF p.axis_grid = "off" /\ p.global_grid = "off" THEN {} ELSE {"-", "|"}
               ELSE answer[cell].sign = p.series[Max(Over(cell))].style
        /\ \A s \in Range(p.series) : ShowsData(Range(Corners(s)))

PlotsHold == LinesConnected /\ EndsReached /\ DataShown
===============================================================================
