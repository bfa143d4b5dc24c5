----------------------------- MODULE MCComponents -----------------------------
(***************************************************************************)
(* The components that do not call each other, as TLC checks them: those   *)
(* of Keepers, and others.  part says which one a behaviour is about, and  *)
(* s1, s2, ... hold the variables of the others, in the order of their     *)
(* VARIABLES; what is left of them is 0.                                   *)
(***************************************************************************)
EXTENDS Keepers, SequencesExt, TLC

CONSTANTS NaN, Blank, Unset

VARIABLES
  s1, s2, s3, s4, s5, s6, s7, s8, s9, s10, s11, s12, s13, s14, s15, s16, s17, s18

\* The variables that a part leaves over, from the k-th on.
Rest16 == <<s16, s17, s18>>
Zero16 == s16 = 0 /\ s17 = 0 /\ s18 = 0
Rest8 == <<s8, s9, s10, s11, s12, s13, s14, s15, Rest16>>
Zero8 ==
  /\ s8 = 0 /\ s9 = 0 /\ s10 = 0 /\ s11 = 0 /\ s12 = 0 /\ s13 = 0 /\ s14 = 0
  /\ s15 = 0 /\ Zero16
Rest3 == <<s3, s4, s5, s6, s7, Rest8>>
Zero3 == s3 = 0 /\ s4 = 0 /\ s5 = 0 /\ s6 = 0 /\ s7 = 0 /\ Zero8
own_vars == <<s1, s2, Rest3>>
OwnZero == s1 = 0 /\ s2 = 0 /\ Zero3

vars == <<keeper_vars, own_vars>>

-------------------------------------------------------------------------------
(* Keepers: the constants that a configuration cannot write down. The second key   *)
(* needs the first one twice; three extractors share a kd-tree; lists of three and *)
(* one correspondences, two of them equally far.                                   *)

NeededKeys == <<<<>>, <<1, 1>>>>
ExtractorKinds == [kp |-> "keypoints", no |-> "normals", lo |-> "local"]

Ranked == {<<0, 24, 24>>, <<12>>}
Agreeing ==
  [list \in Ranked |-> [t \in {1, 2} |->
     IF Len(list) = 3 THEN {<<0, 12, 4>>, <<12, 0, 12>>} ELSE {<<4 * t>>}]]
Judged ==
  [f \in {"simple", "full"} |-> [list \in Ranked |->
     [i \in DOMAIN list |-> IF f = "full" THEN 12 * i ELSE -list[i]]]]
FunctionOf(id, full) == [id |-> id, full |-> full]
RatingFunctions == {FunctionOf("simple", FALSE), FunctionOf("full", TRUE)}
NoRating == FunctionOf("none", FALSE)

-------------------------------------------------------------------------------
(* CommandLine: app [-v] -n number file, with a subcommand                 *)
(*   run -o text [-t text] [count].                                        *)

Parents == [c \in {"run"} |-> "app"]
Declare(c, k, n, s, t, r) ==
  [command |-> c, kind |-> k, name |-> n, short |-> s, type |-> t, required |-> r]
Declared ==
  <<Declare("app", "flag", "verbose", "v", "flag", FALSE),
    Declare("app", "option", "num", "n", "number", TRUE),
    Declare("app", "argument", "file", "", "text", TRUE),
    Declare("run", "option", "out", "o", "text", TRUE),
    Declare("run", "option", "try", "t", "optional", FALSE),
    Declare("run", "argument", "count", "", "checked", FALSE)>>
Plain(x) == [form |-> "word", name |-> "", value |-> "none", text |-> x]
Dashed(f, n, v, x) == [form |-> f, name |-> n, value |-> v, text |-> x]
CommandTokens ==
  {Plain("7"), Plain("run"), Dashed("short", "5", "none", "-5"),
   Dashed("long", "verbose", "none", "raw"), Dashed("short", "v", "x", "raw"),
   Dashed("long", "num", "none", "raw"), Dashed("short", "n", "7", "raw"),
   Dashed("long", "out", "x", "raw"), Dashed("short", "t", "none", "raw"),
   Dashed("long", "help", "none", "raw"),
   Dashed("terminator", "", "none", "--"), Dashed("ini", "", "none", "raw"),
   Dashed("ini", "", "f", "raw")}
Files == ("f" :> (1 :> "false" @@ 2 :> "x" @@ 4 :> "y")) @@ ("7" :> (3 :> "f" @@ 6 :> "x"))

RunLengths == <<4, 1>>

-------------------------------------------------------------------------------
(* MappedFile on its own: a file that changes size, two mappings' addresses. *)

Mapping == INSTANCE MappedFile WITH
  Sizes <- {0, 1, 2, 3}, Descriptors <- {0, 1}, Addresses <- {1, 2}, file_size <- s1,
  m_mapped_ptr <- s2, m_mapped_size <- s3, m_fd <- s4, step <- s5, fds <- s6, mappings <- s7

-------------------------------------------------------------------------------
(* PcdFile: the headers below are read as they stand, or cut.              *)

Written(s, p, n, k) == [size |-> s, points |-> p, normals |-> n, colors |-> k]
WrittenClouds == {Written(4, 1, 1, 1), Written(8, 1, 0, 1), Written(4, 2, 1, 0), Written(8, 0, 0, 0)}
Header(f, t, s, c, w, h, p, d) ==
  [fields |-> f, types |-> t, sizes |-> s, counts |-> c, width |-> w, height |-> h,
   points |-> p, data |-> d]
F(n) == [i \in 1 .. n |-> "F"]
Ones(n) == [i \in 1 .. n |-> 1]
ForeignHeaders ==
  {Header(<<"intensity", "x", "y", "z">>, F(4), <<4, 4, 4, 8>>, <<2, 1, 1, 1>>, 1, 2, 2, "binary"),
   Header(<<"x", "y", "rgb", "z">>, <<"F", "F", "U", "F">>, <<4, 4, 4, 8>>, Ones(4), 1, 1, 1, "ascii"),
   Header(<<"x", "y", "z", "label">>, <<"F", "F", "F", "U">>, <<4, 4, 4, 8>>, Ones(4), 1, 1, 1, "ascii"),
   Header(<<"r", "g", "b", "x", "y", "z">>, <<"F", "F", "F", "I", "F", "U">>, <<4, 4, 4, 2, 4, 1>>,
          Ones(6), 1, 1, 1, "binary"),
   Header(<<"x", "y", "z">>, F(3), <<4, 4>>, Ones(3), 1, 1, 1, "binary"),
   Header(<<"x", "y">>, F(2), <<4, 4>>, Ones(2), 1, 1, 1, "binary"),
   Header(<<"x", "y", "z">>, F(3), <<4, 4, 4>>, Ones(3), 1, 1, 1, "compressed"),
   Header(<<"x", "y", "z">>, F(3), <<4, 4, 4>>, Ones(3), 2, 2, 1, "ascii")}

Pcd == INSTANCE PcdFile WITH
  Clouds <- WrittenClouds, Foreign <- ForeignHeaders, MaxWrites <- 2,
  file <- s1, writing <- s2, cloud <- s3, writes <- s4, pc <- s5, header <- s6,
  line <- s7, rows <- s8, result <- s9, data <- s10, quiet <- s11, over <- s12,
  m_mapped_ptr <- s13, m_mapped_size <- s14, m_fd <- s15, step <- s16,
  fds <- s17, mappings <- s18

-------------------------------------------------------------------------------
(* Strings: texts of a, b, A, hyphens, blanks and signs, as their codes; the lines *)
(* "", [a], [a=b], [, a=b, a : =c, a:b and ;a=b; the values "", " ", 1, -1, 8,     *)
(* 0xF, 0x and TRue; integers of four bits.                                        *)

ShortTexts ==
  BoundedSeq({97, 45, 32}, 2)
    \cup {<<97, 97, 97>>, <<97, 98, 97>>, <<98, 97, 98, 97>>, <<65, 33, 45>>}
NumberTexts ==
  BoundedSeq({43, 45, 46, 53, 101}, 3) \cup {<<53, 46, 101, 43, 53>>, <<45, 53, 101, 45, 46>>,
    <<45, 53, 46, 53>>, <<53, 101, 45, 53>>, <<53, 101, 53, 46>>, <<46, 53, 101, 53>>}
HexTexts ==
  BoundedSeq({48, 120, 45, 32, 70}, 3)
    \cup {<<48, 120, 48, 48>>, <<48, 120, 45, 70>>, <<48, 120, 48, 120, 70, 70>>,
          <<48, 120, 49>>, <<70, 70, 70, 70>>, <<49, 70, 70, 70, 70, 70>>}

(* Strings, KITTI files: scans of up to two points, poses of two lines, calibrations *)
(* of two rows, names of up to four characters, directories of up to six entries.    *)

Still == <<1, 0, 0, 0, 0, 1, 0, 0, 0, 0, 1, 0>>
Turned == <<0, -1, 0, 3, 1, 0, 0, 4, 0, 0, 1, 0>>
Tilted == <<1, 0, 0, -3, 0, 0, -1, 0, 0, 1, 0, -4>>
Mirrored == <<-1, 0, 0, 3, 0, 1, 0, 0, 0, 0, 1, 0>>
PoseLines ==
  {<<>>, <<Blank>>, Still, SubSeq(Still, 1, 11), Still \o <<NaN>>, [Still EXCEPT ![7] = NaN]}
Row(key, words) == [key |-> key, words |-> words]
CalibrationRows ==
  {Row("P1", Still), Row("P1", [k \in 1 .. 12 |-> 3]), Row("P1", <<3, NaN, 5>>),
   Row("P1", <<Blank, 7>>), Row("Tr", Still), Row("R0_rect", SubSeq(Still, 1, 9)),
   Row("Tr_imu_to_velo", <<5, 5>>)}
Entry(stem, extension, regular) == [stem |-> stem, extension |-> extension, regular |-> regular]
DirectoryEntries ==
  {Entry(<<48, 49>>, ".bin", TRUE), Entry(<<49, 48>>, ".bin", TRUE), Entry(<<57>>, ".bin", TRUE),
   Entry(<<48, 57>>, ".bin", FALSE), Entry(<<48, 49>>, ".label", TRUE), Entry(<<97>>, ".txt", TRUE)}

Text == INSTANCE Strings WITH
  Texts <- ShortTexts,
  Patterns <- {<<>>, <<97>>, <<45>>, <<97, 97>>, <<97, 98, 45>>},
  Numerals <- NumberTexts,
  Data <- BoundedSeq({0, 37, 43, 255}, 2) \cup BoundedSeq({77, 254}, 4),
  Hex <- HexTexts, Counts <- 0 .. 2, MaxCount <- 255, MaxInt <- 54, UllBits <- 16,
  Types <- {[bits |-> 8, signed |-> FALSE], [bits |-> 8, signed |-> TRUE],
            [bits |-> 16, signed |-> FALSE]},
  Line <- {<<>>, <<91, 97, 93>>, <<32, 91, 97, 61, 98, 93, 9>>, <<91>>, <<97, 61, 98>>,
           <<32, 97, 32, 58, 32, 61, 99>>, <<97, 58, 98, 32>>, <<59, 97, 61, 98>>},
  FileLength <- 3,
  Value <- {<<>>, <<32>>, <<49>>, <<45, 49>>, <<56>>, <<48, 120, 70>>, <<48, 120>>,
            <<84, 82, 117, 101>>},
  Bits <- 4, Numbers <- -17 .. 17,
  Exact <- 4, Unit <- 2, Scan <- {<<>>, <<<<1, 5, -7>>>>, <<<<0, 0, 0>>, <<2, -5, 9>>>>},
  Bytes <- {-16, -5, 0, 3}, LabelWords <- {0, 10, 52, 58, 135}, LabelBits <- 6,
  Number <- {-3, -1, 0, 1, 3, 4, NaN}, Motion <- {Still, Turned, Tilted, Mirrored},
  PoseFiles <- BoundedSeq(PoseLines, 2), CalibFiles <- BoundedSeq(CalibrationRows, 2),
  Stem <- BoundedSeq({48, 50, 45, 32, 97}, 3)
            \cup {<<49, 50, 56>>, <<45, 49, 50, 56>>, <<45, 49, 50, 57>>},
  FrameIds <- 0 .. 12 \cup {99, 127, 128}, MaxIndex <- 127, Directories <- SUBSET DirectoryEntries,
  Skips <- 0 .. 3, SizeBits <- 4, call <- s1, answer <- s2

-------------------------------------------------------------------------------
(* Terminal: texts of up to five characters; tables of up to three columns, filled in *)
(* up to two steps after the headers; containers of up to five elements; plots of one  *)
(* or two series of up to three points, on a canvas of up to eight cells by six.       *)

Letter == "a"
Does(op, fields) == [op |-> op] @@ fields
Filling ==
  {Does("row", [cells |-> <<<<"a", " ", "b", "b">>, <<"a">>>>]), Does("row", [cells |-> <<<<>>>>]),
   Does("row", [cells |-> <<<<"a">>, <<"b", "b", "b", "a">>, <<>>, <<"b">>>>]),
   Does("width", [col |-> 1, width |-> 3]), Does("width", [col |-> 2, width |-> 0]),
   Does("min max", [col |-> 2, min |-> 3, max |-> 4]),
   Does("height", [row |-> 1, height |-> 2]), Does("height", [row |-> 0, height |-> 0]),
   Does("ellipsis", [text |-> <<".">>]), Does("align", [col |-> 2, align |-> "right"]),
   Does("align all", [align |-> "center"]),
   Does("span", [span |-> [row |-> 1, col |-> 1, row_span |-> 1, col_span |-> 2]]),
   Does("span", [span |-> [row |-> 0, col |-> 2, row_span |-> 2, col_span |-> 1]])}
Headers == {<<>>, <<<<"b", "b">>, <<"a">>, <<>>>>, <<<<"a">>, <<"a", "a", "b">>>>}
Beginnings ==
  {<<Does("headers", [cells |-> h]), Does("row", [cells |-> <<<<"b", "a", " ", "a">>, <<"a">>>>]),
     Does("wrap", [on |-> w])>> : h \in Headers, w \in BOOLEAN}
Style(padding, border, header) ==
  [padding |-> padding, border |-> border, header |-> header, align |-> "left"]

Series(op, xs, ys, style) == [op |-> op, xs |-> xs, ys |-> ys, color |-> "red", style |-> style]
Lines ==
  {Series("line", xs, ys, "*") :
     xs \in {<<1, 100>>, <<10, -1, 0>>, <<0, 10, 7>>}, ys \in {<<0>>, <<100, 1, 10>>, <<10, 10, 7>>}}
Scatters == {Series("scatter", xs, ys, ".") : xs \in {<<>>, <<-1, 7, 100>>}, ys \in {<<10, 0, 1>>}}
Axes ==
  {<<Does("x axis", [scale |-> x]), Does("y axis", [scale |-> y])>> : x, y \in {"linear", "log"}}
Grids ==
  {<<>>, <<Does("axis grid", [color |-> "white"]), Does("global grid", [color |-> "cyan"])>>,
   <<Does("global grid", [color |-> "cyan"])>>}

Shown == INSTANCE Terminal WITH
  Gap <- " ", SizeBits <- 4, Texts <- BoundedSeq({" ", Letter}, 5), Widths <- 0 .. 4,
  Ellipses <- {<<>>, <<".">>, <<".", ".">>},
  Styles <- {Style(1, TRUE, TRUE), Style(1, FALSE, TRUE), Style(0, TRUE, FALSE)},
  Scripts <- {b \o f : b \in Beginnings, f \in BoundedSeq(Filling, 2)},
  Sizes <- 0 .. 5, Counts <- 0 .. 3, Log10 <- (1 :> 0 @@ 7 :> 1 @@ 10 :> 2 @@ 100 :> 4),
  PlotScripts <- {a \o g \o p : a \in Axes, g \in Grids,
                    p \in {<<>>} \cup {<<l>> : l \in Lines}
                            \cup {<<l, r>> : l \in Lines, r \in Scatters}},
  Canvases <- {<<0, 3>>, <<3, 0>>, <<1, 1>>, <<4, 5>>, <<8, 6>>}, call <- s1, answer <- s2

-------------------------------------------------------------------------------

OwnParts == {"mapping", "pcd", "text", "terminal"}

Init ==
  /\ part \in KeepersParts \cup OwnParts /\ KeepersStart
  /\ \/ part \in KeepersParts /\ OwnZero
     \/ part = "mapping" /\ Mapping!Init /\ Zero8
     \/ part = "pcd" /\ Pcd!Init
     \/ part = "text" /\ Text!Init /\ Zero3
     \/ part = "terminal" /\ Shown!Init /\ Zero3

OwnNext ==
  \/ part = "mapping" /\ Mapping!Next /\ UNCHANGED Rest8
  \/ part = "pcd" /\ Pcd!Next
  \/ part = "text" /\ Text!Next /\ UNCHANGED Rest3
  \/ part = "terminal" /\ Shown!Next /\ UNCHANGED Rest3

Next ==
  \/ KeepersNext /\ UNCHANGED own_vars
  \/ OwnNext /\ UNCHANGED keeper_vars

Spec == Init /\ [][Next]_vars

-------------------------------------------------------------------------------
(* Properties *)

\* PcdFile: a reader never looks past the bytes of the file that are mapped, a point that
\* it reads is one that the file holds, and what is written is read back; and MappedFile,
\* which it reads through, leaks no descriptor and no mapping.
ReadIsTrue ==
  /\ part = "pcd" => Pcd!ReadStaysInside /\ Pcd!ReadIsTrue /\ Pcd!WrittenIsReadBack
  /\ part = "mapping" => Mapping!ResourcesAccounted

\* What is computed in one call agrees with what it is defined to be.  Strings: what is cut,
\* replaced, trimmed, encoded or read can be put together again, where no estimate wraps
\* around and a number is one of its type; the last line of a key wins in an ini file, and every number is read
\* back; what is written in the files of KITTI is read back, and what is read is what they hold.
\* Terminal: wrapping loses no word, a table is a rectangle that shows every cell, the
\* printers leave out the middle of a container and nothing else; lines have no gaps, the
\* axes end where the data do, and no grid hides data.  And the variables of Sorters have
\* their types.
AnswersAreRight ==
  /\ part = "text" => Text!TextsAreRight /\ Text!IniRead /\ Text!FilesReadBack
  /\ part = "sort" => Ranks!TypeOK
  /\ part = "terminal" => Shown!TablesHold /\ Shown!PlotsHold
===============================================================================
