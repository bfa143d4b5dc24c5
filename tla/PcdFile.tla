-------------------------------- MODULE PcdFile --------------------------------
(***************************************************************************)
(* toolbox::io::pcd_format_t: write() puts a header and one row of values  *)
(* for each point into a file, as text or as bytes; read() parses the      *)
(* header from a stream, asks for the size of the file, and takes the rows *)
(* from the stream or from a mapping of its own (MappedFile).  A writer    *)
(* that stops short, by an error or because its process ends, leaves a     *)
(* prefix of the file; reader and writer do not exclude each other.        *)
(*                                                                         *)
(* A value is known by where it belongs: <<i, f, e>> is element e of field *)
(* f of point i.  Bytes have the real sizes, texts of values have none.    *)
(***************************************************************************)
EXTENDS Integers, Sequences, FiniteSets, SequencesExt

CONSTANTS
  Clouds,    \* clouds to be written: [size, points, normals, colors], size
             \* being that of a coordinate, 4 or 8, the others numbers of points
  Foreign,   \* headers of files that others have written
  MaxWrites  \* how often the file is written

VARIABLES
  file,      \* [header, rows, values, cut]: the header, or NoHeader while it is not
             \* complete; whole rows, values of the row after them, and whether one
             \* more value has been cut in the middle
  writing,   \* the rows that write() still has to put; -1 when it is not running
  cloud,     \* what write() writes; the empty cloud in a foreign file
  writes,
  pc,        \* where read() is: idle, header, check, lines, open, rows
  header,    \* the header that read() has parsed
  line,      \* the lines of rows that it has taken from the stream
  rows,      \* the rows read() has put into its cloud
  result, data,        \* of the last read(): none, ok, failed, or unmapped when
                       \* open() or mmap() was the reason; the data it hands out
  quiet,     \* nobody has written since read() began
  over,      \* read() has looked behind the end of the mapping
  m_mapped_ptr, m_mapped_size, m_fd, step, fds, mappings   \* read()'s mapped file

file_vars == <<file, writing, cloud, writes>>
map_vars == <<m_mapped_ptr, m_mapped_size, m_fd, step, fds, mappings>>
read_vars == <<pc, header, line, rows, result, data, quiet, over>>

\* Operators called Mutant_... are faulty variants of the definition that follows
\* them; no specification uses them.

NoHeader == [fields |-> <<>>, types |-> <<>>, sizes |-> <<>>, counts |-> <<>>,
             width |-> 0, height |-> 0, points |-> 0, data |-> "none"]
Garbage == <<-1, "garbage", 0>>
Zero == <<-1, "zero", 0>>
CutValue == <<-1, "cut", 0>>
NoCloud == [size |-> 4, points |-> 0, normals |-> 0, colors |-> 0]
SumUpTo(s, n) == FoldLeft(LAMBDA a, b : a + b, 0, SubSeq(s, 1, n))

-------------------------------------------------------------------------------
(* Layout                                                                  *)

XYZ == <<"x", "y", "z">>
NORMAL == <<"normal_x", "normal_y", "normal_z">>
RGB == <<"r", "g", "b">>

HasNormals(c) == c.normals # 0 /\ c.normals = c.points
HasColors(c) == c.colors # 0 /\ c.colors = c.points
Three(x) == <<x, x, x>>
Parts(c, a, b, d) ==
  a \o (IF HasNormals(c) THEN b ELSE <<>>) \o (IF HasColors(c) THEN d ELSE <<>>)

SizesIn(c) == Parts(c, Three(c.size), Three(c.size), Three(1))

\* What write_internal() puts into the header.
HeaderOf(c, type) ==
  [fields |-> Parts(c, XYZ, NORMAL, RGB),
   types |-> Parts(c, Three("F"), Three("F"), Three("U")),
   sizes |-> SizesIn(c),
   counts |-> [n \in DOMAIN SizesIn(c) |-> 1],
   width |-> c.points, height |-> 1, points |-> c.points, data |-> type]

\* The values of a row, in the order in which they are in the file, with their sizes:
\* as write_internal() puts them, or as the header of another's file tells.
WrittenRow(c) ==
  LET names == Parts(c, XYZ, NORMAL, RGB)
  IN  [n \in DOMAIN names |-> [field |-> names[n], element |-> 1, size |-> IF names[n] \in ToSet(RGB) THEN 1 ELSE c.size]]

SameLengths(h) == Len(h.fields) = Len(h.sizes) /\ Len(h.fields) = Len(h.types) /\ Len(h.fields) = Len(h.counts)

RowOf(h) ==
  IF ~SameLengths(h) THEN <<>> ELSE
  FlattenSeq([n \in DOMAIN h.fields |->
    [e \in 1 .. h.counts[n] |-> [field |-> h.fields[n], element |-> e, size |-> h.sizes[n]]]])

\* Foreign headers are those of no cloud of Clouds.
Row == IF cloud = NoCloud THEN RowOf(file.header) ELSE WrittenRow(cloud)
RowBytes == SumUpTo([n \in DOMAIN Row |-> Row[n].size], Len(Row))
StartOf(n) == SumUpTo([k \in DOMAIN Row |-> Row[k].size], n - 1)

\* A header is longer the more fields it names.
HeaderBytes(h) == 100 + 10 * Len(h.fields)

FileSize ==
  IF file.header = NoHeader THEN 50   \* a header that has been cut
  ELSE HeaderBytes(file.header)
       + (IF file.rows = 0 /\ file.values = 0 THEN 0 ELSE file.rows * RowBytes + StartOf(file.values + 1))

\* What is at an offset behind the header, for a value of that size.
ValueAt(offset, size) ==
  LET found == {<<i, n>> \in (0 .. file.rows) \X DOMAIN Row :
                  /\ i * RowBytes + StartOf(n) = offset /\ Row[n].size = size
                  /\ i < file.rows \/ n <= file.values}
  IN  IF found = {} THEN Garbage
      ELSE LET at == CHOOSE x \in found : TRUE IN <<at[1], Row[at[2]].field, Row[at[2]].element>>

File == INSTANCE MappedFile WITH
  file_size <- FileSize, Descriptors <- {1}, Addresses <- {1}, Sizes <- {}

-------------------------------------------------------------------------------
(* write()                                                                 *)

Init ==
  /\ file = [header |-> NoHeader, rows |-> 0, values |-> 0, cut |-> FALSE]
  /\ writing = -1 /\ cloud = NoCloud /\ writes = 0
  /\ pc = "idle" /\ header = NoHeader /\ line = 0 /\ rows = <<>>
  /\ result = "none" /\ data = <<>> /\ quiet = TRUE /\ over = FALSE
  /\ File!InitMapped

Disturb == quiet' = FALSE /\ UNCHANGED <<pc, header, line, rows, result, data, over, map_vars>>

\* The file is truncated when it is opened, its header follows.
BeginWrite ==
  /\ writing = -1 /\ writes < MaxWrites
  /\ writes' = writes + 1
  /\ \E c \in Clouds, type \in {"ascii", "binary"} :
       /\ cloud' = c
       /\ file' = [header |-> HeaderOf(c, type), rows |-> 0, values |-> 0, cut |-> FALSE]
       /\ writing' = c.points
  /\ Disturb

WriteRow ==
  /\ writing > 0
  /\ file' = [file EXCEPT !.rows = @ + 1]
  /\ writing' = writing - 1
  /\ UNCHANGED <<cloud, writes>>
  /\ Disturb

EndWrite ==
  /\ writing = 0
  /\ writing' = -1
  /\ UNCHANGED <<file, cloud, writes>>
  /\ Disturb

\* The disk is full, or the process ends: what is there may end in the header, in a
\* row or in a value.
StopShort ==
  /\ writing >= 0
  /\ writing' = -1
  /\ \/ writing = cloud.points /\ file' = [file EXCEPT !.header = NoHeader]
     \/ writing > 0 /\ \E n \in 0 .. Len(Row) - 1, cut \in BOOLEAN : file' = [file EXCEPT !.values = n, !.cut = cut]
  /\ UNCHANGED <<cloud, writes>>
  /\ Disturb

ForeignFile ==
  /\ writing = -1 /\ writes < MaxWrites
  /\ writes' = writes + 1 /\ cloud' = NoCloud
  /\ \E h \in Foreign : file' = [header |-> h, rows |-> h.points, values |-> 0, cut |-> FALSE]
  /\ UNCHANGED writing
  /\ Disturb

-------------------------------------------------------------------------------
(* read()                                                                  *)

Goto(label) == pc' = label
Return(what) == pc' = "idle" /\ result' = what

Fail == Return("failed") /\ UNCHANGED <<header, line, rows, data, quiet, over, file_vars>>

Read ==
  /\ pc = "idle"
  /\ Goto("header")
  /\ header' = NoHeader /\ line' = 0 /\ rows' = <<>>
  /\ result' = "none" /\ data' = <<>> /\ quiet' = (writing = -1)
  /\ UNCHANGED <<over, file_vars, map_vars>>

\* parse_header_stream() finds no line DATA.
HeaderMissing ==
  /\ pc = "header"
  /\ file.header = NoHeader
  /\ Fail /\ UNCHANGED map_vars

ParseHeader ==
  /\ pc = "header"
  /\ file.header # NoHeader
  /\ header' = file.header
  /\ Goto("check")
  /\ UNCHANGED <<line, rows, result, data, quiet, over, file_vars, map_vars>>

PointStep(h) == SumUpTo([n \in DOMAIN h.fields |-> h.sizes[n] * h.counts[n]], Len(h.fields))

Supported(type, size) == (type = "F" /\ size \in {4, 8}) \/ (type \in {"I", "U"} /\ size \in {1, 2, 4, 8})

\* The difference is unsigned: a file cut down behind the reader's back to less than
\* its header passes.
BigEnough(h, size) ==
  size < HeaderBytes(h) \/ size - HeaderBytes(h) >= h.points * PointStep(h)

\* validate(), with the size the file has now.
Valid(h, size) ==
  /\ h.width # 0 /\ h.height # 0 /\ h.points # 0 /\ h.data # "unknown"
  /\ SameLengths(h)
  /\ h.points = h.width * h.height
  /\ \A n \in DOMAIN h.fields : Supported(h.types[n], h.sizes[n]) /\ h.counts[n] # 0
  /\ h.data \in {"binary", "compressed"} => BigEnough(h, size)

Rejected ==
  /\ pc = "check"
  /\ ~Valid(header, FileSize) \/ header.data = "compressed"
  /\ Fail /\ UNCHANGED map_vars

Accepted ==
  /\ pc = "check"
  /\ Valid(header, FileSize) /\ header.data # "compressed"
  /\ IF header.data = "ascii" THEN Goto("lines") /\ UNCHANGED map_vars ELSE Goto("open") /\ File!Open
  /\ UNCHANGED <<header, line, rows, result, data, quiet, over, file_vars>>

Names(h) == ToSet(h.fields)
Has(h, three) == ToSet(three) \subseteq Names(h)
IndexOf(h, f) == CHOOSE n \in DOMAIN h.fields : h.fields[n] = f /\ \A k \in DOMAIN h.fields : h.fields[k] = f => k <= n

\* "rgb" makes room for colours, but nothing is found in it.
AsciiColors(h) == Has(h, RGB) \/ "rgb" \in Names(h) \/ "rgba" \in Names(h)
AsciiFields(h) ==
  ToSet(XYZ) \cup (IF Has(h, NORMAL) THEN ToSet(NORMAL) ELSE {}) \cup (IF AsciiColors(h) THEN ToSet(RGB) ELSE {})

RowTokens == [n \in DOMAIN Row |-> <<line, Row[n].field, Row[n].element>>]
NextLine ==
  CASE line < file.rows -> RowTokens
    [] line = file.rows /\ file.cut -> Append(SubSeq(RowTokens, 1, file.values), CutValue)
    [] OTHER -> SubSeq(RowTokens, 1, IF line = file.rows THEN file.values ELSE 0)

\* parse_ascii_point_line(): the nth token belongs to the nth field.
LineParses(tokens) ==
  /\ Len(tokens) >= Len(header.fields)
  /\ \A n \in DOMAIN header.fields : header.types[n] \in {"I", "U"} => header.sizes[n] # 8
  /\ Has(header, XYZ)

RowFrom(tokens) ==
  [f \in AsciiFields(header) |-> IF f \in Names(header) THEN tokens[IndexOf(header, f)] ELSE Zero]

\* A line of a file that somebody has changed meanwhile can be anything.
ReadLine ==
  /\ pc = "lines"
  /\ Len(rows) < header.points /\ line <= header.points
  /\ line' = line + 1
  /\ \/ quiet /\ rows' = IF LineParses(NextLine) THEN Append(rows, RowFrom(NextLine)) ELSE rows
     \/ ~quiet /\ rows' \in {rows, Append(rows, [f \in AsciiFields(header) |-> Garbage])}
  /\ UNCHANGED <<pc, header, result, data, quiet, over, file_vars, map_vars>>

EndOfStream ==
  /\ pc = "lines"
  /\ line > header.points /\ Len(rows) < header.points
  /\ Fail /\ UNCHANGED map_vars

OpenMapping ==
  /\ pc = "open"
  /\ UNCHANGED file_vars
  /\ File!OpenStep
  /\ IF step' = "closed" THEN Return("unmapped")
     ELSE Goto(IF step' = "mapped" THEN "rows" ELSE "open") /\ UNCHANGED result
  /\ UNCHANGED <<header, line, rows, data, quiet, over>>

BinaryColors(h) ==
  Has(h, RGB) /\ \A f \in ToSet(RGB) : h.types[IndexOf(h, f)] = "U" /\ h.sizes[IndexOf(h, f)] = 1
BinaryFields(h) ==
  ToSet(XYZ) \cup (IF Has(h, NORMAL) THEN ToSet(NORMAL) ELSE {}) \cup (IF BinaryColors(h) THEN ToSet(RGB) ELSE {})

OffsetOf(h, f) == SumUpTo([n \in DOMAIN h.fields |-> h.sizes[n] * h.counts[n]], IndexOf(h, f) - 1)

Mutant_NoCheck == FALSE
PastMapping == HeaderBytes(header) + (Len(rows) + 1) * PointStep(header) > m_mapped_size

\* The destructor of the mapped file runs on every way out.
ReadRowFails ==
  /\ pc = "rows"
  /\ ~Has(header, XYZ) \/ (Len(rows) < header.points /\ PastMapping)
  /\ Fail
  /\ File!Close

ReadRow ==
  /\ pc = "rows"
  /\ Has(header, XYZ) /\ Len(rows) < header.points /\ ~PastMapping
  /\ LET size(f) == header.sizes[IndexOf(header, f)]
         offset(f) == Len(rows) * PointStep(header) + OffsetOf(header, f)
     IN  /\ rows' = Append(rows, [f \in BinaryFields(header) |->
                                    IF file.header = NoHeader THEN Garbage
                                    ELSE ValueAt(HeaderBytes(header) - HeaderBytes(file.header) + offset(f), size(f))])
         /\ over' = (over \/ \E f \in BinaryFields(header) :
                               HeaderBytes(header) + offset(f) + size(f) > m_mapped_size)
  /\ UNCHANGED <<pc, header, line, result, data, quiet, file_vars, map_vars>>

AllRead ==
  /\ pc \in {"lines", "rows"}
  /\ Has(header, XYZ) /\ Len(rows) = header.points
  /\ Return("ok")
  /\ data' = rows
  /\ IF pc = "rows" THEN File!Close ELSE UNCHANGED map_vars
  /\ UNCHANGED <<header, line, rows, quiet, over, file_vars>>

ReadStep ==
  \/ Read \/ HeaderMissing \/ ParseHeader \/ Rejected \/ Accepted \/ ReadLine \/ EndOfStream
  \/ OpenMapping \/ ReadRowFails \/ ReadRow \/ AllRead

Next == BeginWrite \/ WriteRow \/ EndWrite \/ StopShort \/ ForeignFile \/ ReadStep

Spec == Init /\ [][Next]_<<file_vars, read_vars, map_vars>>

-------------------------------------------------------------------------------
(* Properties                                                              *)

Whole == writing = -1 /\ file.header # NoHeader /\ file.rows = file.header.points
Counted(h) == \E n \in DOMAIN h.counts : h.counts[n] # 1
Wide(h) == \E n \in DOMAIN h.sizes : h.types[n] # "F" /\ h.sizes[n] = 8

\* Nothing behind the mapping is looked at, whatever happens to the file, and no way
\* out of read() leaves the file mapped or open.
ReadStaysInside == ~over /\ File!ResourcesAccounted /\ (pc = "idle" => step = "closed")

\* A file that nobody changes meanwhile is read as it is or not at all: as many rows as
\* the header tells, every value that of the field and the point it is put down for.
\* (The last value of a text that was cut in the middle cannot be told from a whole one,
\* and counts other than 1 are not for text.)
ReadIsTrue ==
  result = "ok" /\ quiet /\ pc = "idle" =>
    /\ Len(data) = header.points /\ Len(data) > 0
    /\ \A i \in DOMAIN data : \A f \in DOMAIN data[i] :
         \/ data[i][f] = <<i - 1, f, 1>>
         \/ data[i][f] = Zero /\ f \in ToSet(RGB) \ Names(header)
         \/ data[i][f] = CutValue /\ i = Len(data) /\ f = Last(header.fields)
         \/ header.data = "ascii" /\ Counted(header)

\* What write() has written completely is read back, text or bytes, with the normals
\* and colours that it had for every point; a cloud without points is not.  A failed
\* read hands out nothing.
WrittenIsReadBack ==
  pc = "idle" /\ quiet =>
    /\ result # "ok" => data = <<>>
    /\ result = "ok" /\ Whole /\ cloud # NoCloud =>
         \A i \in DOMAIN data : DOMAIN data[i] = ToSet(HeaderOf(cloud, "ascii").fields)
    /\ result = "failed" /\ Whole /\ cloud # NoCloud => cloud.points = 0
===============================================================================
