------------------------------- MODULE Strings --------------------------------
(***************************************************************************)
(* toolbox::container::string: cutting, joining, replacing, testing,       *)
(* measuring and encoding texts; and configuration files: ini_config_t,    *)
(* which reads sections of keys and values from lines, and                 *)
(* load_struct_from_ini(), which fills the members of a struct from it.    *)
(* A text is the sequence of its bytes, as char_traits<char> compares      *)
(* them; positions count from 1 and 0 is npos.                             *)
(*                                                                         *)
(* The functions keep no state: a behaviour is one call, with its          *)
(* arguments, and its answer.                                              *)
(*                                                                         *)
(* And the files of a KITTI sequence: scans (.bin), labels, poses,         *)
(* calibration and the directory that holds them; what is written into     *)
(* them and what is read from them.  Words are numbers; a float holds      *)
(* every number up to Exact and even ones above, a double all of them.  A  *)
(* number in a text keeps what lies Unit apart.                            *)
(***************************************************************************)
EXTENDS Integers, Sequences, FiniteSets, SequencesExt, FiniteSetsExt, TLC

CONSTANTS
  Texts,       \* what is cut, searched and changed
  Patterns,    \* delimiters, old values and new values
  Numerals,    \* texts that are tested for numbers
  Data,        \* bytes that are encoded, or decoded as if they were an encoding
  Hex,         \* texts that are read as hexadecimal numbers
  Counts,      \* counts and widths of padding
  MaxCount,    \* the largest std::size_t
  MaxInt,      \* the largest int of try_parse_int()
  UllBits,     \* bits of an unsigned long long (64)
  Types,       \* the integers hex_to_integral() makes: [bits, signed]
  Line,        \* lines of text
  FileLength,  \* lines of a file
  Value,       \* values of the fields of a struct, as texts
  Bits,        \* of an integer
  Numbers,     \* what integers hold that are written to a file
  Exact, Unit,
  Blank,        \* what a line holds that is blank, but not empty
  NaN,          \* a number whose text no stream reads back
  Unset,        \* what a matrix holds that nobody initialised
  Scan,         \* clouds: sequences of points, which are three numbers
  Bytes,        \* by how many bytes a file is longer than what was written, or shorter
  LabelWords, LabelBits,
  Number,       \* the numbers of poses and calibrations, as a file may hold them
  Motion,       \* poses with determinant 1 or -1: twelve numbers, row by row
  PoseFiles,    \* sequences of lines, which are sequences of words
  CalibFiles,   \* sequences of [key, words]
  Stem, FrameIds, MaxIndex, Directories,
  Skips, SizeBits

VARIABLES call, answer

vars == <<call, answer>>

\* Operators called Mutant_... are faulty variants of the definition that follows
\* them; no specification uses them.

-------------------------------------------------------------------------------
(* Bytes: the C locale's classes. *)

Space == 32
IsSpace(c) == c = Space \/ c \in 9 .. 13
IsDigit(c) == c \in 48 .. 57
IsLower(c) == c \in 97 .. 122
IsUpper(c) == c \in 65 .. 90
IsAlnum(c) == IsDigit(c) \/ IsLower(c) \/ IsUpper(c)
ToLower(c) == IF IsUpper(c) THEN c + 32 ELSE c
ToUpper(c) == IF IsLower(c) THEN c - 32 ELSE c
IsHexDigit(c) == IsDigit(c) \/ ToUpper(c) \in 65 .. 70
HexValue(c) == IF IsDigit(c) THEN c - 48 ELSE ToUpper(c) - 55
HexDigit(v) == IF v < 10 THEN 48 + v ELSE 55 + v

Plus == 43
Hyphen == 45
Percent == 37
Signs == {Plus, Hyphen}

From(s, i) == SubSeq(s, i, Len(s))
Repeat(c, n) == [i \in 1 .. n |-> c]

\* Where p begins in s, at position from or behind it.
Find(s, p, from) ==
  LET at == {i \in from .. Len(s) - Len(p) + 1 : SubSeq(s, i, i + Len(p) - 1) = p}
  IN  IF at = {} THEN 0 ELSE Min(at)

-------------------------------------------------------------------------------
(* Cutting and joining *)

Split(s, delimiter) ==
  IF delimiter = <<>> THEN [i \in DOMAIN s |-> <<s[i]>>]
  ELSE LET cut[start \in 1 .. Len(s) + 1] ==
             LET end == Find(s, delimiter, start)
             IN  IF end = 0 THEN <<From(s, start)>>
                 ELSE <<SubSeq(s, start, end - 1)>> \o cut[end + Len(delimiter)]
       IN  cut[1]

\* The overload for one character.
SplitAt(s, c) ==
  LET cut[start \in 1 .. Len(s) + 1] ==
        LET end == Find(s, <<c>>, start)
        IN  IF end = 0 THEN <<From(s, start)>> ELSE <<SubSeq(s, start, end - 1)>> \o cut[end + 1]
  IN  cut[1]

Join(parts, glue) ==
  IF parts = <<>> THEN <<>>
  ELSE FoldLeft(LAMBDA joined, part : joined \o glue \o part, Head(parts), Tail(parts))

TrimLeft(s) ==
  LET kept == {i \in DOMAIN s : ~IsSpace(s[i])}
  IN  IF kept = {} THEN <<>> ELSE From(s, Min(kept))

TrimRight(s) ==
  LET kept == {i \in DOMAIN s : ~IsSpace(s[i])}
  IN  IF kept = {} THEN <<>> ELSE SubSeq(s, 1, Max(kept))

Trim(s) ==
  LET kept == {i \in DOMAIN s : ~IsSpace(s[i])}
  IN  IF kept = {} THEN <<>> ELSE SubSeq(s, Min(kept), Max(kept))

StartsWith(s, prefix) == Len(s) >= Len(prefix) /\ SubSeq(s, 1, Len(prefix)) = prefix
EndsWith(s, suffix) == Len(s) >= Len(suffix) /\ From(s, Len(s) - Len(suffix) + 1) = suffix
ContainsText(s, part) == Find(s, part, 1) # 0
IsEmptyOrWhitespace(s) == \A i \in DOMAIN s : IsSpace(s[i])

-------------------------------------------------------------------------------
(* Replacing and removing *)

\* Between the characters, before the first and behind the last.
InsertEverywhere(s, new, count) ==
  LET After(k) == IF k < count THEN new ELSE <<>>
  IN  FoldLeftDomain(LAMBDA t, i : t \o <<s[i]>> \o After(i), After(0), s)

\* What is thrown, in place of bytes or a number.
TooLong == <<-1>>
InvalidArgument == <<-2>>
OutOfRange == <<-3>>

\* reserve() throws length_error for more than half of what a size_t counts.
Reserved(s, old, new, count) ==
  IF Len(new) > Len(old) THEN (Len(s) + count * (Len(new) - Len(old))) % (MaxCount + 1) ELSE Len(s)

\* Len(s) is as good as any larger count.
Replaced(s, old, new, count) ==
  LET from[start \in 1 .. Len(s) + 1, left \in 0 .. Len(s)] ==
        LET at == IF left = 0 THEN 0 ELSE Find(s, old, start)
        IN  IF at = 0 THEN From(s, start)
            ELSE SubSeq(s, start, at - 1) \o new \o from[at + Len(old), left - 1]
  IN  from[1, Min({count, Len(s)})]

Replace(s, old, new, count) ==
  IF old = <<>> THEN InsertEverywhere(s, new, count)
  ELSE IF Reserved(s, old, new, count) > MaxCount \div 2 THEN TooLong
  ELSE Replaced(s, old, new, count)

ReplaceEvery(s, old, new) == Replace(s, old, new, MaxCount)

ReplaceByNth(s, old, new, n) ==
  LET from[start \in 1 .. Len(s) + 1, occurrence \in 0 .. Len(s)] ==
        LET at == Find(s, old, start)
        IN  IF start > Len(s) \/ at = 0 THEN s
            ELSE IF occurrence + 1 = n THEN SubSeq(s, 1, at - 1) \o new \o From(s, at + Len(old))
            ELSE from[at + Len(old), occurrence + 1]
  IN  IF n = 0 \/ old = <<>> THEN s ELSE from[1, 0]

RemoveNth(s, part, n) == ReplaceByNth(s, part, <<>>, n)
RemoveText(s, part, count) == IF part = <<>> THEN s ELSE Replaced(s, part, <<>>, count)
RemoveEvery(s, part) == Replace(s, part, <<>>, MaxCount)
RemoveChar(s, c) == SelectSeq(s, LAMBDA d : d # c)

ToLowerText(s) == [i \in DOMAIN s |-> ToLower(s[i])]
ToUpperText(s) == [i \in DOMAIN s |-> ToUpper(s[i])]
LeftPad(s, width, c) == IF Len(s) >= width THEN s ELSE Repeat(c, width - Len(s)) \o s
RightPad(s, width, c) == IF Len(s) >= width THEN s ELSE s \o Repeat(c, width - Len(s))
Pad(s, width, c, position) == IF position = 0 THEN LeftPad(s, width, c) ELSE RightPad(s, width, c)

-------------------------------------------------------------------------------
(* Numbers *)

AfterSign(s) == IF s # <<>> /\ s[1] \in Signs THEN 2 ELSE 1

IsInteger(s) ==
  LET first == AfterSign(s) IN first <= Len(s) /\ \A i \in first .. Len(s) : IsDigit(s[i])

Point == 46
IsE(c) == c \in {69, 101}

\* One round of the loop over the significand; it ends at the exponent.
Seen(q, c) ==
  IF q.exponent \/ ~q.ok THEN q
  ELSE IF IsDigit(c) THEN [q EXCEPT !.at = @ + 1, !.digit = TRUE]
  ELSE IF c = Point THEN [q EXCEPT !.at = @ + 1, !.ok = ~q.point, !.point = TRUE]
  ELSE IF IsE(c) /\ q.digit THEN [q EXCEPT !.at = @ + 1, !.exponent = TRUE]
  ELSE [q EXCEPT !.ok = FALSE]

Scanned(s) ==
  FoldLeft(Seen,
           [at |-> AfterSign(s), digit |-> FALSE, point |-> FALSE, exponent |-> FALSE, ok |-> TRUE],
           From(s, AfterSign(s)))

ExponentIsValid(s, at) == IsInteger(From(s, at))

IsNumeric(s) ==
  LET q == Scanned(s)
  IN  q.ok /\ IF q.exponent THEN ExponentIsValid(s, q.at) ELSE q.digit

IsFloat(s) ==
  LET q == Scanned(s)
  IN  q.ok /\ IF q.exponent THEN ExponentIsValid(s, q.at) ELSE q.digit /\ q.point

\* The numbers of std::from_chars(), of which it takes the longest prefix.
Digits(s) == \A i \in DOMAIN s : IsDigit(s[i])
NumberAt(digits) == FoldLeft(LAMBDA n, c : 10 * n + c - 48, 0, digits)
AfterMinus(s) == IF s # <<>> /\ s[1] = Hyphen THEN 2 ELSE 1
IsMantissa(s) ==
  \E k \in 0 .. Len(s) :
    /\ Digits(SubSeq(s, 1, k)) /\ Digits(From(s, k + 2))
    /\ k < Len(s) => s[k + 1] = Point
    /\ \E i \in DOMAIN s : IsDigit(s[i])
IsDecimal(s) ==
  \E k \in 0 .. Len(s) :
    /\ IsMantissa(SubSeq(s, 1, k))
    /\ k < Len(s) => IsE(s[k + 1]) /\ IsInteger(From(s, k + 2))

\* What is returned, and what out is afterwards.
Unchanged == "unchanged"
TryParseInt(s) ==
  LET first == AfterMinus(s)
      ends == {k \in first .. Len(s) : Digits(SubSeq(s, first, k))}
      n == NumberAt(SubSeq(s, first, Max(ends)))
      value == IF first = 2 THEN -n ELSE n
  IN  IF ends = {} \/ value \notin -MaxInt - 1 .. MaxInt THEN [ok |-> FALSE, out |-> Unchanged]
      ELSE [ok |-> Max(ends) = Len(s), out |-> value]

TryParseDouble(s) ==
  LET first == AfterMinus(s)
      ends == {k \in first .. Len(s) : IsDecimal(SubSeq(s, first, k))}
  IN  ends # {} /\ Max(ends) = Len(s)

\* The same code for a float.
TryParseFloat(s) == TryParseDouble(s)

-------------------------------------------------------------------------------
(* Distances, of which the code keeps one or two rows of the table. *)

Zeros(t) == [j \in 0 .. Len(t) |-> 0]

Mutant_EditRow(s, t, dp, i) ==
  FoldLeftDomain(
    LAMBDA q, j :
      [dp |-> [q.dp EXCEPT ![j] =
                 Min({@ + 1, q.dp[j - 1] + 1, q.corner + IF s[i] = t[j] THEN 0 ELSE 1})],
       corner |-> dp[0]],
    [dp |-> [dp EXCEPT ![0] = i], corner |-> dp[0]], t).dp

EditRow(s, t, dp, i) ==
  FoldLeftDomain(
    LAMBDA q, j :
      [dp |-> [q.dp EXCEPT ![j] =
                 Min({@ + 1, q.dp[j - 1] + 1, q.corner + IF s[i] = t[j] THEN 0 ELSE 1})],
       corner |-> q.dp[j]],
    [dp |-> [dp EXCEPT ![0] = i], corner |-> dp[0]], t).dp

LevenshteinDistance(s, t) ==
  IF s = <<>> THEN Len(t) ELSE IF t = <<>> THEN Len(s)
  ELSE FoldLeftDomain(LAMBDA dp, i : EditRow(s, t, dp, i), [j \in 0 .. Len(t) |-> j], s)[Len(t)]

SubsequenceRow(s, t, before, i) ==
  FoldLeftDomain(
    LAMBDA row, j : [row EXCEPT ![j] = IF s[i] = t[j] THEN 1 + before[j - 1]
                                       ELSE Max({before[j], row[j - 1]})],
    before, t)

LongestCommonSubsequenceLength(s1, s2) ==
  LET s == IF Len(s1) < Len(s2) THEN s2 ELSE s1
      t == IF Len(s1) < Len(s2) THEN s1 ELSE s2
  IN  IF t = <<>> THEN 0
      ELSE FoldLeftDomain(LAMBDA row, i : SubsequenceRow(s, t, row, i), Zeros(t), s)[Len(t)]

SubstringRow(s, t, before, i) ==
  FoldLeftDomain(
    LAMBDA q, j :
      LET length == IF s[i] = t[j] THEN 1 + q.diagonal ELSE 0
      IN  [dp |-> [q.dp EXCEPT ![j] = length], diagonal |-> q.dp[j],
           longest |-> Max({q.longest, length})],
    [dp |-> before.dp, diagonal |-> 0, longest |-> before.longest], t)

LongestCommonSubstringLength(s1, s2) ==
  LET s == IF Len(s1) < Len(s2) THEN s2 ELSE s1
      t == IF Len(s1) < Len(s2) THEN s1 ELSE s2
  IN  IF t = <<>> THEN 0
      ELSE FoldLeftDomain(LAMBDA q, i : SubstringRow(s, t, q, i),
                          [dp |-> Zeros(t), diagonal |-> 0, longest |-> 0], s).longest

-------------------------------------------------------------------------------
(* Encodings *)

UrlEncode(s) ==
  FoldLeft(LAMBDA t, c : t \o IF IsAlnum(c) \/ c \in {Hyphen, 95, Point, 126} THEN <<c>>
                              ELSE <<Percent, HexDigit(c \div 16), HexDigit(c % 16)>>,
           <<>>, s)

UrlDecode(s) ==
  LET from[i \in 1 .. Len(s) + 3] ==
        IF i > Len(s) THEN <<>>
        ELSE IF s[i] # Percent THEN <<IF s[i] = Plus THEN Space ELSE s[i]>> \o from[i + 1]
        ELSE IF i + 2 <= Len(s) /\ IsHexDigit(s[i + 1]) /\ IsHexDigit(s[i + 2])
             THEN <<16 * HexValue(s[i + 1]) + HexValue(s[i + 2])>> \o from[i + 3]
        ELSE <<Percent>> \o from[i + 1]
  IN  from[1]

Equals == 61
\* base64_chars, and the table that inverts it; 255 marks what is in neither.
Base64Char(v) ==
  CASE v < 26 -> 65 + v [] v \in 26 .. 51 -> 71 + v [] v \in 52 .. 61 -> v - 4
    [] v = 62 -> Plus [] v = 63 -> 47
Base64Value(c) ==
  CASE IsUpper(c) -> c - 65 [] IsLower(c) -> c - 71 [] IsDigit(c) -> c + 4
    [] c = Plus -> 62 [] c = 47 -> 63 [] OTHER -> 255

\* Of three bytes, of which those that are missing are 0.
Sextets(a, b, c) == <<a \div 4, (a % 4) * 16 + b \div 16, (b % 16) * 4 + c \div 64, c % 64>>

Base64Encode(s) ==
  LET Byte(i) == IF i <= Len(s) THEN s[i] ELSE 0
      block[i \in 1 .. Len(s) + 3] ==
        IF i > Len(s) THEN <<>>
        ELSE LET present == Min({3, Len(s) - i + 1})
                 four == Sextets(Byte(i), Byte(i + 1), Byte(i + 2))
             IN  [k \in 1 .. 4 |-> IF k <= present + 1 THEN Base64Char(four[k]) ELSE Equals]
                   \o block[i + 3]
  IN  block[1]

\* The bytes of two to four sextets.
Octets(b) ==
  SubSeq(<<b[1] * 4 + b[2] \div 16,
           IF Len(b) > 2 THEN (b[2] % 16) * 16 + b[3] \div 4 ELSE 0,
           IF Len(b) > 3 THEN (b[3] % 4) * 64 + b[4] ELSE 0>>, 1, Len(b) - 1)

\* A block is taken when it is full; a single sextet is left over in vain.
Base64Decode(s) ==
  LET read == SelectSeq(s, LAMBDA c : ~IsSpace(c))
      pads == {i \in DOMAIN read : read[i] = Equals}
      value == [i \in 1 .. (IF pads = {} THEN Len(read) ELSE Min(pads) - 1) |-> Base64Value(read[i])]
      block[i \in 1 .. Len(value) + 4] ==
        IF i > Len(value) THEN <<>>
        ELSE Octets(SubSeq(value, i, Min({i + 3, Len(value)}))) \o block[i + 4]
  IN  IF (\E i \in DOMAIN value : value[i] = 255) \/ Len(value) % 4 = 1 THEN <<>> ELSE block[1]

Slugify(s) ==
  LET Slug(q, ch) ==
        LET c == ToLower(ch)
        IN  IF IsAlnum(c) THEN [text |-> Append(q.text, c), hyphen |-> FALSE]
            ELSE IF c \in {Space, Hyphen} /\ ~q.hyphen
            THEN [text |-> Append(q.text, Hyphen), hyphen |-> TRUE]
            ELSE q
      slug == FoldLeft(Slug, [text |-> <<>>, hyphen |-> TRUE], s).text
  IN  IF slug # <<>> /\ Last(slug) = Hyphen THEN Front(slug) ELSE slug

HexPrefix == <<48, 120>>
Hexview(s, with_prefix) ==
  FoldLeft(LAMBDA t, c : t \o <<HexDigit(c \div 16), HexDigit(c % 16)>>,
           IF with_prefix THEN HexPrefix ELSE <<>>, s)

HasPrefix(s) == Len(s) >= 2 /\ s[1] = 48 /\ s[2] \in {88, 120}
WithoutPrefix(s, with_prefix) == IF with_prefix /\ HasPrefix(s) THEN From(s, 3) ELSE s
HexNumber(digits) == FoldLeft(LAMBDA n, c : 16 * n + HexValue(c), 0, digits)

\* std::stoull() in base 16, which takes blanks, a sign and a prefix of its own, and a
\* minus to the modulus; end is what it has consumed.
Stoull(s) ==
  LET blanks == {i \in DOMAIN s : ~IsSpace(s[i])}
      sign == IF blanks = {} THEN Len(s) + 1 ELSE Min(blanks)
      number == IF sign <= Len(s) /\ s[sign] \in Signs THEN sign + 1 ELSE sign
      first == IF HasPrefix(From(s, number)) /\ number + 2 <= Len(s) /\ IsHexDigit(s[number + 2])
               THEN number + 2 ELSE number
      ends == {k \in first .. Len(s) : \A i \in first .. k : IsHexDigit(s[i])}
      n == HexNumber(SubSeq(s, first, Max(ends)))
      minus == sign <= Len(s) /\ s[sign] = Hyphen
  IN  IF ends = {} THEN [end |-> 0, value |-> 0]
      ELSE [end |-> Max(ends), value |-> IF minus /\ n # 0 /\ n < 2 ^ UllBits THEN 2 ^ UllBits - n ELSE n]

HexToIntegral(text, with_prefix, type) ==
  LET s == WithoutPrefix(text, with_prefix)
      read == Stoull(s)
      largest == 2 ^ (IF type.signed THEN type.bits - 1 ELSE type.bits) - 1
  IN  IF s = <<>> \/ (Len(s) % 2 # 0 /\ s # <<48>>) \/ read.end = 0 THEN InvalidArgument
      ELSE IF read.value >= 2 ^ UllBits THEN OutOfRange
      ELSE IF read.end # Len(s) THEN InvalidArgument
      ELSE IF read.value > largest THEN OutOfRange
      ELSE <<read.value>>

HexToBytes(text, with_prefix) ==
  LET s == WithoutPrefix(text, with_prefix)
  IN  IF Len(s) % 2 # 0 \/ (\E i \in DOMAIN s : ~IsHexDigit(s[i])) THEN InvalidArgument
      ELSE [i \in 1 .. Len(s) \div 2 |-> 16 * HexValue(s[2 * i - 1]) + HexValue(s[2 * i])]

-------------------------------------------------------------------------------
(* Configuration files *)

Tab == 9
BlankChar == 32
Hash == 35
Minus == 45
Zero == 48
Colon == 58
Semicolon == 59
Open == 91
Close == 93

-------------------------------------------------------------------------------
(* Lines                                                                   *)

TrimBlanks(t) ==
  LET kept == {i \in DOMAIN t : t[i] \notin {BlankChar, Tab}}
  IN  IF kept = {} THEN <<>> ELSE SubSeq(t, Min(kept), Max(kept))

\* Where the key ends: at the first '=', or else at the first ':'.
First(t, c) == Min({i \in DOMAIN t : t[i] = c})
Separator(t) ==
  CASE Equals \in ToSet(t) -> First(t, Equals)
    [] Equals \notin ToSet(t) /\ Colon \in ToSet(t) -> First(t, Colon)
    [] Equals \notin ToSet(t) /\ Colon \notin ToSet(t) -> 0

Ignored(t) == t = <<>> \/ t[1] \in {Semicolon, Hash}
\* "[" alone begins and does not end a section.
IsSection(t) == ~Ignored(t) /\ t[1] = Open /\ t[Len(t)] = Close
KeyOf(t) == TrimBlanks(SubSeq(t, 1, Separator(t) - 1))
ValueOf(t) == TrimBlanks(SubSeq(t, Separator(t) + 1, Len(t)))

ReadLine(read, line) ==
  LET t == TrimBlanks(line)
  IN  CASE IsSection(t) -> [read EXCEPT !.section = SubSeq(t, 2, Len(t) - 1)]
        [] ~IsSection(t) /\ (Ignored(t) \/ Separator(t) = 0) -> read
        [] ~IsSection(t) /\ ~Ignored(t) /\ Separator(t) # 0 ->
             [read EXCEPT !.data = (<<read.section, KeyOf(t)>> :> ValueOf(t)) @@ @]

\* A file that cannot be opened leaves the data alone; one that is loaded adds to them.
Load(data, lines) == FoldLeft(ReadLine, [section |-> <<>>, data |-> data], lines).data
Nothing == [name \in {} |-> <<>>]
Has(data, section, key) == <<section, key>> \in DOMAIN data
GetString(data, section, key, default) ==
  IF Has(data, section, key) THEN data[<<section, key>>] ELSE default

-------------------------------------------------------------------------------
(* Values: <<v>> when a text is one, <<>> when it is not.                  *)

No == <<>>
Lower(c) == IF c \in 65 .. 90 THEN c + 32 ELSE c
True == <<116, 114, 117, 101>>
False == <<102, 97, 108, 115, 101>>
ParseBool(t) ==
  LET lower == [i \in DOMAIN t |-> Lower(t[i])]
  IN  CASE lower = True \/ t = <<Zero + 1>> -> <<1>>
        [] lower = False \/ t = <<Zero>> -> <<0>>
        [] OTHER -> No

Digit(c, base) ==
  CASE c \in Zero .. Zero + 9 -> c - Zero
    [] c \in 97 .. 102 /\ base = 16 -> c - 87
    [] c \in 65 .. 70 /\ base = 16 -> c - 55
    [] OTHER -> base
Amount(digits, base) == FoldLeft(LAMBDA v, c : v * base + Digit(c, base), 0, digits)
IsHex(t) == Len(t) > 2 /\ t[1] = Zero /\ t[2] \in {120, 88}

\* operator>> must read the whole text and nothing less; a negative number is one that
\* an unsigned type holds, modulo its size.
ParseInteger(t, signed) ==
  LET base == IF IsHex(t) THEN 16 ELSE 10
      sign == t # <<>> /\ t[1] \in {Plus, Minus}
      digits == IF IsHex(t) THEN SubSeq(t, 3, Len(t)) ELSE IF sign THEN Tail(t) ELSE t
      negative == sign /\ t[1] = Minus
      v == Amount(digits, base)
      limit == IF ~signed THEN 2 ^ Bits - 1 ELSE IF negative THEN 2 ^ (Bits - 1) ELSE 2 ^ (Bits - 1) - 1
  IN  IF digits = <<>> \/ (\E i \in DOMAIN digits : Digit(digits[i], base) = base) \/ v > limit THEN No
      ELSE IF negative THEN <<IF signed THEN -v ELSE (2 ^ Bits - v) % 2 ^ Bits>> ELSE <<v>>

\* A type of one byte is read as a character, which does not look whether the text ends.
ParseByte == No

ParseNonOptional(t, type) ==
  CASE type = "bool" -> ParseBool(t)
    [] type = "int" -> ParseInteger(t, TRUE)
    [] type = "unsigned" -> ParseInteger(t, FALSE)
    [] type = "byte" -> ParseByte

\* The member's new value, and whether it was read: an optional is empty for an empty text;
\* what is not a value changes no member.
ParseValue(old, t, type, optional) ==
  IF optional /\ t = <<>> THEN [read |-> TRUE, value |-> No]
  ELSE LET v == ParseNonOptional(t, type)
       IN  [read |-> v # No, value |-> IF v # No THEN v ELSE old]

-------------------------------------------------------------------------------
(* Structs: [section, key, type, optional] for each field.                 *)

Dotted(base, section) ==
  IF section = <<>> THEN base ELSE IF base = <<>> THEN section ELSE base \o <<46>> \o section

\* Every field is tried, whatever became of those before.
LoadField(loaded, field, data, base) ==
  IF ~Has(data, Dotted(base, field.section), field.key)
  THEN [loaded EXCEPT !.object = Append(@, field.old)]
  ELSE LET v == ParseValue(field.old, data[<<Dotted(base, field.section), field.key>>], field.type, field.optional)
       IN  [success |-> loaded.success /\ v.read, object |-> Append(loaded.object, v.value)]
LoadStructFromIni(fields, data, base) ==
  FoldLeft(LAMBDA loaded, field : LoadField(loaded, field, data, base),
           [success |-> TRUE, object |-> <<>>], fields)

-------------------------------------------------------------------------------
(* KITTI files *)

Throws == <<>>

-------------------------------------------------------------------------------
(* Scans                                                                   *)

PointStep == 16
Float(x) == IF x \in -Exact .. Exact \/ x % 2 = 0 THEN x ELSE IF (x + 1) % 4 = 0 THEN x + 1 ELSE x - 1

\* A point's four floats; the intensity of the cloud is not among them.
Record(p) == <<Float(p[1]), Float(p[2]), Float(p[3]), 0>>
WriteInternal(cloud) == FlattenSeq([i \in DOMAIN cloud |-> Record(cloud[i])])

File(words, extra) == [words |-> words, size |-> 4 * Len(words) + extra]

\* An empty file is not mapped.  What is left of the last point is passed over, and
\* the cloud's intensity is the last point's.
NoCloud == [success |-> FALSE, points |-> <<>>, intensity |-> 0]
ReadBinaryData(file) ==
  LET n == file.size \div PointStep
  IN  IF file.size = 0 THEN NoCloud
      ELSE [success |-> TRUE,
            points |-> [i \in 1 .. n |-> SubSeq(file.words, 4 * i - 3, 4 * i - 1)],
            intensity |-> IF n = 0 THEN 0 ELSE file.words[4 * n]]

\* read() makes a cloud of floats, which is no cloud of doubles.
ReadKittiBin(file, type) == IF type = "float" THEN ReadBinaryData(file) ELSE NoCloud

-------------------------------------------------------------------------------
(* Labels                                                                  *)

ReadKittiLabels(file) == IF file.size % 4 # 0 THEN Throws ELSE <<SubSeq(file.words, 1, file.size \div 4)>>

\* labels is read before its size is compared: it has changed when the call throws.
ReadKittiWithLabels(scan, labels, type) ==
  LET cloud == ReadKittiBin(scan, type)
      read == ReadKittiLabels(labels)
  IN  IF ~cloud.success \/ read = Throws THEN Throws
      ELSE IF Len(read[1]) # Len(cloud.points) THEN Throws ELSE <<[points |-> cloud.points, labels |-> read[1]]>>

LabelId(full) == full % 2 ^ LabelBits
InstanceId(full) == full \div 2 ^ LabelBits
FullLabel(id, instance) == instance * 2 ^ LabelBits + id

Static == {40, 44, 48, 49, 50, 51, 52, 70, 71, 72, 80, 81}
Dynamic == {10, 11, 13, 15, 18, 20, 30, 31, 32}
Named == {0, 1, 10, 11, 13, 15, 18, 20, 30, 31, 32, 40, 44, 48, 49, 50, 51, 52, 70, 71, 72, 80, 81}

\* The points whose label is in ids; none when there is not one label for every point.
Labeled(points, labels, ids) ==
  IF Len(points) # Len(labels) THEN <<>>
  ELSE LET kept == SelectSeq([i \in DOMAIN points |-> i], LAMBDA i : LabelId(labels[i]) \in ids)
       IN  [k \in DOMAIN kept |-> points[kept[k]]]

UniqueLabels(labels) == SetToSortSeq({LabelId(labels[i]) : i \in DOMAIN labels}, LAMBDA a, b : a < b)
LabelStatistics(labels) ==
  [id \in ToSet(UniqueLabels(labels)) |-> Len(SelectSeq(labels, LAMBDA full : LabelId(full) = id))]
ExtractStaticPoints(points, labels) == Labeled(points, labels, Static)
ExtractDynamicPoints(points, labels) == Labeled(points, labels, Dynamic)

-------------------------------------------------------------------------------
(* Poses: three rows of four numbers; the rotation's columns come first.   *)

\* The nearest multiple of Unit, of two the even one.
Rounded(x) ==
  LET q == x \div Unit
      r == x % Unit
  IN  Unit * (IF 2 * r > Unit \/ (2 * r = Unit /\ q % 2 = 1) THEN q + 1 ELSE q)
Text(x) == IF x \in {NaN, Unset} THEN x ELSE Rounded(x)

\* Lines of blanks only are not empty: they do not hold a pose.
IsNumber(word) == word # NaN /\ word # Blank
NumbersOf(line) ==
  LET words == SelectSeq(line, LAMBDA w : w # Blank)
      good == {n \in 0 .. Len(words) : \A i \in 1 .. n : IsNumber(words[i])}
  IN  SubSeq(words, 1, Max(good))

ParseKittiPoseLine(line) ==
  IF Len(NumbersOf(line)) < 12 THEN Throws ELSE <<SubSeq(NumbersOf(line), 1, 12)>>
ReadKittiPoses(lines) ==
  LET read == [i \in DOMAIN lines |-> ParseKittiPoseLine(lines[i])]
      lined == SelectSeq([i \in DOMAIN lines |-> i], LAMBDA i : lines[i] # <<>>)
  IN  IF \E i \in ToSet(lined) : read[i] = Throws THEN Throws
      ELSE <<[k \in DOMAIN lined |-> read[lined[k]][1]]>>
FormatKittiPose(pose) == [i \in 1 .. 12 |-> Text(pose[i])]
WriteKittiPoses(poses) == [i \in DOMAIN poses |-> FormatKittiPose(poses[i])]

\* kitti_pose_reader_t::load(): what was loaded before is gone when it fails.
LoadPoses(lines) ==
  LET read == ReadKittiPoses(lines)
  IN  [loaded |-> read # Throws /\ read # <<<<>>>>, poses |-> IF read = Throws THEN <<>> ELSE read[1]]

Entry(pose, row, column) == pose[4 * (row - 1) + column]
Position(pose) == [row \in 1 .. 3 |-> Entry(pose, row, 4)]
Row(k) == (k - 1) \div 4 + 1
Column(k) == ((k - 1) % 4) + 1
Dot3(f, g) == f[1] * g[1] + f[2] * g[2] + f[3] * g[3]

Product(p, q) ==
  [k \in 1 .. 12 |->
    Dot3([j \in 1 .. 3 |-> Entry(p, Row(k), j)], [j \in 1 .. 3 |-> Entry(q, j, Column(k))])
      + IF Column(k) = 4 THEN Entry(p, Row(k), 4) ELSE 0]

\* The inverse of the rotation by its cofactors, for a determinant of 1 or -1.
Cofactor(p, row, column) ==
  LET r == (row % 3) + 1
      c == (column % 3) + 1
  IN  Entry(p, r, c) * Entry(p, (r % 3) + 1, (c % 3) + 1) - Entry(p, r, (c % 3) + 1) * Entry(p, (r % 3) + 1, c)
Determinant(p) == Dot3([c \in 1 .. 3 |-> Entry(p, 1, c)], [c \in 1 .. 3 |-> Cofactor(p, 1, c)])
InverseMotion(p) ==
  [k \in 1 .. 12 |->
    Determinant(p) *
      IF Column(k) < 4 THEN Cofactor(p, Column(k), Row(k))
      ELSE -Dot3([j \in 1 .. 3 |-> Cofactor(p, j, Row(k))], Position(p))]

ComputeRelativeTransform(from, to) == Product(to, InverseMotion(from))
Moved(motion, p) ==
  [row \in 1 .. 3 |-> Dot3([k \in 1 .. 3 |-> Entry(motion, row, k)], p) + Entry(motion, row, 4)]
TransformPointCloud(points, motion) == [i \in DOMAIN points |-> Moved(motion, points[i])]

GetPose(poses, index) == IF index >= Len(poses) THEN Throws ELSE poses[index + 1]

\* Both indices are looked at before anything is computed.
GetRelativeTransform(poses, from, to) ==
  IF from >= Len(poses) \/ to >= Len(poses) THEN Throws
  ELSE ComputeRelativeTransform(poses[from + 1], poses[to + 1])

\* The motions have moves of whole length.
Square(p, q) == LET d == [k \in 1 .. 3 |-> p[k] - q[k]] IN Dot3(d, d)
WholeRoot(n) == CHOOSE r \in 0 .. n : r * r <= n /\ (r + 1) * (r + 1) > n
ComputeTrajectoryLength(poses) ==
  FoldLeft(LAMBDA sum, i : sum + WholeRoot(Square(Position(poses[i]), Position(poses[i + 1]))),
           0, [i \in 1 .. Len(poses) - 1 |-> i])
GetTrajectoryBounds(poses) ==
  IF poses = <<>> THEN <<<<0, 0, 0>>, <<0, 0, 0>>>>
  ELSE LET at(k) == {Position(poses[i])[k] : i \in DOMAIN poses}
       IN  <<[k \in 1 .. 3 |-> Min(at(k))], [k \in 1 .. 3 |-> Max(at(k))]>>

-------------------------------------------------------------------------------
(* Calibration                                                             *)

Lengths == [P0 |-> 12, P1 |-> 12, P2 |-> 12, P3 |-> 12, R0_rect |-> 9, Tr_velo_to_cam |-> 12,
            Tr_imu_to_velo |-> 12]
Identity == [k \in 1 .. 12 |-> IF Column(k) = Row(k) THEN 1 ELSE 0]
Uninitialized == [key \in DOMAIN Lengths |->
                    IF key = "Tr_imu_to_velo" THEN <<>> ELSE [k \in 1 .. Lengths[key] |-> Unset]]

\* The first word that is no number is read as 0 and ends the reading, as the end of the
\* line does: what follows keeps its value.
Fill(row, line) ==
  LET words == SelectSeq(line, LAMBDA w : w # Blank)
      n == Len(NumbersOf(line))
  IN  [k \in DOMAIN row |-> IF k <= n THEN words[k] ELSE IF k = n + 1 /\ k <= Len(words) THEN 0 ELSE row[k]]

\* Keys that are not known are passed over, and a key that comes again is read again.
ReadRow(calib, line) ==
  IF line.key \notin DOMAIN Lengths THEN calib
  ELSE [calib EXCEPT ![line.key] = Fill(IF line.key = "Tr_imu_to_velo" THEN Identity ELSE @, line.words)]
ReadKittiCalibration(lines) == FoldLeft(ReadRow, Uninitialized, lines)

\* No row for what calib does not have.
Written(calib) ==
  LET keys == <<"P0", "P1", "P2", "P3", "R0_rect", "Tr_velo_to_cam", "Tr_imu_to_velo">>
      row(key) == [key |-> key, words |-> [k \in DOMAIN calib[key] |-> Text(calib[key][k])]]
  IN  SelectSeq([i \in DOMAIN keys |-> row(keys[i])], LAMBDA line : line.words # <<>>)

-------------------------------------------------------------------------------
(* Directories: sets of [stem, extension, regular], a stem being a sequence of codes. *)

IsBlank(c) == c = 32

\* std::stoi: blanks, a sign, digits, and whatever follows.
ParseKittiFrameIndex(stem) ==
  LET blanks == Max({n \in 0 .. Len(stem) : \A i \in 1 .. n : IsBlank(stem[i])})
      body == SubSeq(stem, blanks + 1, Len(stem))
      signed == body # <<>> /\ body[1] \in {43, 45}
      rest == IF signed THEN Tail(body) ELSE body
      digits == SubSeq(rest, 1, Max({n \in 0 .. Len(rest) : \A i \in 1 .. n : IsDigit(rest[i])}))
      value == FoldLeft(LAMBDA v, c : 10 * v + (c - 48), 0, digits)
      index == IF signed /\ body[1] = 45 THEN -value ELSE value
  IN  IF digits = <<>> \/ index \notin -MaxIndex - 1 .. MaxIndex THEN -1 ELSE index

DigitsOf(index) ==
  LET n == CHOOSE k \in 1 .. 10 : index < 10 ^ k /\ (k = 1 \/ index >= 10 ^ (k - 1))
  IN  [i \in 1 .. n |-> 48 + ((index \div 10 ^ (n - i)) % 10)]
FormatKittiFrameIndex(index, width) ==
  LET d == DigitsOf(index) IN [i \in 1 .. Max({0, width - Len(d)}) |-> 48] \o d

Extension == ".bin"
Dot == 46
\* The paths are compared as texts, where the dot of the extension counts.
Before(a, b) ==
  LET s == Append(a.stem, Dot)
      t == Append(b.stem, Dot)
  IN  \E n \in 0 .. Len(s) :
        /\ n <= Len(t) /\ SubSeq(s, 1, n) = SubSeq(t, 1, n)
        /\ \/ n = Len(s) /\ n < Len(t)
           \/ n < Len(s) /\ n < Len(t) /\ s[n + 1] < t[n + 1]
Sorted(entries) == SetToSortSeq(entries, Before)

\* Whatever has the extension, directories too.
ListKittiCloudFiles(directory) == Sorted({e \in directory : e.extension = Extension})
ListKittiLabelFiles(directory) == Sorted({e \in directory : e.extension = ".label"})
NumFrames(directory) == Cardinality({e \in directory : e.extension = Extension})

\* kitti_pcd_dataset_t and kitti_pcd_pair_t look for files only.
BinaryPaths(directory) == Sorted({e \in directory : e.extension = Extension /\ e.regular})
At(paths, index) == IF index >= Len(paths) THEN <<>> ELSE <<paths[index + 1]>>
PairSize(paths, skip) == (Len(paths) - skip) % 2 ^ SizeBits
\* Reads that lie behind the end are Undefined.
Undefined == <<<<>>>>
PairAt(paths, skip, index) ==
  IF index >= PairSize(paths, skip) THEN <<>>
  ELSE IF index + skip >= Len(paths) THEN Undefined
  ELSE <<paths[index + 1], paths[index + skip + 1]>>

-------------------------------------------------------------------------------
(* Calls: nothing is kept between them, a behaviour is one call. *)

None == [op |-> "none"]
Init == call = None /\ answer = <<>>

Call(c, a) == call' = c /\ answer' = a

SplitText ==
  \E s \in Texts, p \in Patterns : Call([op |-> "split", text |-> s, by |-> p], Split(s, p))

ReplaceText ==
  \E s \in Texts, p \in Patterns, q \in Patterns, n \in Counts \cup {MaxCount} :
    Call([op |-> "replace", text |-> s, by |-> p, new |-> q, count |-> n], Replace(s, p, q, n))

ReplaceNth ==
  \E s \in Texts, p \in Patterns, q \in Patterns, n \in Counts :
    Call([op |-> "nth", text |-> s, by |-> p, new |-> q, count |-> n], ReplaceByNth(s, p, q, n))

TrimText == \E s \in Texts : Call([op |-> "trim", text |-> s], Trim(s))

PadText ==
  \E s \in Texts, n \in Counts, position \in 0 .. 1 :
    Call([op |-> "pad", text |-> s, position |-> position], Pad(s, n, Space, position))

TestNumber ==
  \E s \in Numerals :
    Call([op |-> "number", text |-> s],
         [integer |-> IsInteger(s), numeric |-> IsNumeric(s), float |-> IsFloat(s),
          int |-> TryParseInt(s), double |-> TryParseDouble(s)])

Compare ==
  \E s \in Texts, t \in Texts :
    Call([op |-> "compare", text |-> s, with |-> t],
         [edit |-> LevenshteinDistance(s, t), sequence |-> LongestCommonSubsequenceLength(s, t),
          substring |-> LongestCommonSubstringLength(s, t)])

Encode ==
  \E s \in Data, prefix \in BOOLEAN :
    Call([op |-> "encode", text |-> s, prefix |-> prefix],
         [url |-> UrlEncode(s), base64 |-> Base64Encode(s), hex |-> Hexview(s, prefix)])

MakeSlug == \E s \in Texts \cup Data : Call([op |-> "slug", text |-> s], Slugify(s))

ReadHex ==
  \E s \in Hex, prefix \in BOOLEAN, type \in Types :
    Call([op |-> "hex", text |-> s, prefix |-> prefix, type |-> type], HexToIntegral(s, prefix, type))

LoadFile ==
  \E lines \in BoundedSeq(Line, FileLength) :
    Call([op |-> "load", lines |-> lines],
         [data |-> Load(Nothing, lines),
          halves |-> {Load(Load(Nothing, SubSeq(lines, 1, n)), SubSeq(lines, n + 1, Len(lines))) :
                        n \in 0 .. Len(lines)}])

\* Two fields of section s: the first key is k, the second x.
Field(key, type, optional) == [section |-> <<115>>, key |-> key, type |-> type, optional |-> optional, old |-> <<1>>]
LoadStruct ==
  \E a, b \in Value, type \in {"bool", "int", "unsigned", "byte"}, o, missing \in BOOLEAN, base \in {<<>>, <<98>>} :
    /\ missing => a = b
    /\ LET section == <<Open>> \o Dotted(base, <<115>>) \o <<Close>>
           lines == <<section, <<107, Equals>> \o a>> \o IF missing THEN <<>> ELSE <<<<120, Colon>> \o b>>
           fields == <<Field(<<107>>, type, o), Field(<<120>>, "int", FALSE)>>
       IN  Call([op |-> "struct", a |-> a, b |-> b, type |-> type, optional |-> o, missing |-> missing],
                LoadStructFromIni(fields, Load(Nothing, lines), base))

Decimal(n) ==
  LET digits[m \in 0 .. 99] == IF m < 10 THEN <<Zero + m>> ELSE Append(digits[m \div 10], Zero + (m % 10))
  IN  IF n < 0 THEN <<Minus>> \o digits[-n] ELSE digits[n]
RoundTrip ==
  \E n \in Numbers : Call([op |-> "integer", number |-> n],
                          [signed |-> ParseInteger(Decimal(n), TRUE), unsigned |-> ParseInteger(Decimal(n), FALSE)])

ReadScan ==
  \E cloud \in Scan, extra \in Bytes, type \in {"float", "double"} :
    4 * Len(WriteInternal(cloud)) + extra >= 0 /\
    Call([op |-> "scan", cloud |-> cloud, extra |-> extra, type |-> type],
         ReadKittiBin(File(WriteInternal(cloud), extra), type))

ReadLabels ==
  \E cloud \in Scan, labels \in BoundedSeq(LabelWords, 2), extra \in Bytes, type \in {"float", "double"} :
    4 * Len(labels) + extra >= 0 /\
    Call([op |-> "labels", cloud |-> cloud, labels |-> labels, extra |-> extra, type |-> type],
         [read |-> ReadKittiLabels(File(labels, extra)),
          both |-> ReadKittiWithLabels(File(WriteInternal(cloud), 0), File(labels, extra), type)])

Select ==
  \E cloud \in Scan, labels \in BoundedSeq(LabelWords, 2) :
    Call([op |-> "select", cloud |-> cloud, labels |-> labels],
         [unique |-> UniqueLabels(labels), statistics |-> LabelStatistics(labels),
          each |-> [id \in ToSet(UniqueLabels(labels)) |-> Labeled(cloud, labels, {id})],
          static |-> ExtractStaticPoints(cloud, labels),
          dynamic |-> ExtractDynamicPoints(cloud, labels)])

ReadPoses ==
  \E lines \in PoseFiles :
    Call([op |-> "poses", lines |-> lines], [read |-> ReadKittiPoses(lines), load |-> LoadPoses(lines)])

WritePoses ==
  \E a \in Motion, b \in Motion, n \in Number :
    Call([op |-> "write poses", poses |-> <<a, [b EXCEPT ![4] = n]>>],
         ReadKittiPoses(WriteKittiPoses(<<a, [b EXCEPT ![4] = n]>>)))

Relate ==
  \E a \in Motion, b \in Motion, cloud \in Scan :
    Call([op |-> "relate", poses |-> <<a, b>>, cloud |-> cloud],
         [relative |-> GetRelativeTransform(<<a, b>>, 0, 1),
          beyond |-> GetRelativeTransform(<<a, b>>, 0, 2), last |-> GetPose(<<a, b>>, 1),
          moved |-> TransformPointCloud(cloud, a),
          length |-> ComputeTrajectoryLength(<<a, b, a>>),
          bounds |-> GetTrajectoryBounds(<<a, b>>)])

ReadCalibration ==
  \E lines \in CalibFiles :
    Call([op |-> "calibration", lines |-> lines],
         [read |-> ReadKittiCalibration(lines),
          again |-> ReadKittiCalibration(Written(ReadKittiCalibration(lines)))])

Name ==
  \/ \E stem \in Stem : Call([op |-> "parse", stem |-> stem], ParseKittiFrameIndex(stem))
  \/ \E index \in FrameIds, width \in 0 .. 3 :
       Call([op |-> "format", index |-> index, width |-> width], FormatKittiFrameIndex(index, width))

List ==
  \E directory \in Directories, skip \in Skips, index \in 0 .. 3 :
    Call([op |-> "list", directory |-> directory, skip |-> skip, index |-> index],
         [clouds |-> ListKittiCloudFiles(directory), labels |-> ListKittiLabelFiles(directory),
          frames |-> NumFrames(directory), at |-> At(BinaryPaths(directory), index),
          size |-> PairSize(BinaryPaths(directory), skip),
          pair |-> PairAt(BinaryPaths(directory), skip, index)])

Next ==
  /\ call = None
  /\ \/ SplitText \/ ReplaceText \/ ReplaceNth \/ TrimText \/ PadText
     \/ TestNumber \/ Compare \/ Encode \/ MakeSlug \/ ReadHex
     \/ LoadFile \/ LoadStruct \/ RoundTrip
     \/ ReadScan \/ ReadLabels \/ Select
     \/ ReadPoses \/ WritePoses \/ Relate
     \/ ReadCalibration \/ Name \/ List

Spec == Init /\ [][Next]_vars

-------------------------------------------------------------------------------
(* Properties *)

\* The text with the seams for which Glue(i) is defined to be something else.
Rejoined(parts, glue) ==
  Head(parts) \o FlattenSeq([i \in 1 .. Len(parts) - 1 |-> glue[i] \o parts[i + 1]])

\* split() is undone by join() and leaves no delimiter in a part; the overload for a
\* character cuts at the same places.
SplitIsUndone ==
  call.op = "split" =>
    /\ Join(answer, call.by) = call.text
    /\ call.by # <<>> => \A i \in DOMAIN answer : ~ContainsText(answer[i], call.by)
    /\ Len(call.by) = 1 => answer = SplitAt(call.text, call.by[1])

\* Where all is replaced by something that is longer by more than the whole text,
\* the estimate for reserve() wraps around.
EstimateWraps ==
  /\ call.by # <<>> /\ call.count = MaxCount
  /\ Len(call.new) - Len(call.by) > Len(call.text)

\* Unless the estimate wraps around, replace() changes the first count seams of the parts
\* that split() cuts, and nothing else, even where the new text makes another occurrence;
\* remove() and remove_all() are replace() by nothing.
ReplaceChangesSeams ==
  call.op = "replace" /\ ~EstimateWraps =>
    /\ call.by # <<>> =>
         answer = LET parts == Split(call.text, call.by)
                  IN  Rejoined(parts, [i \in DOMAIN parts |->
                                         IF i <= call.count THEN call.new ELSE call.by])
    /\ call.new = <<>> => answer = RemoveText(call.text, call.by, call.count)
    /\ call.count = MaxCount /\ call.new = <<>> => answer = RemoveEvery(call.text, call.by)
    /\ call.new = <<>> /\ call.count = MaxCount /\ Len(call.by) = 1 =>
         answer = RemoveChar(call.text, call.by[1])

\* replace_by_nth() changes the n-th seam only.
NthSeamOnly ==
  call.op = "nth" /\ call.by # <<>> =>
    LET parts == Split(call.text, call.by)
    IN  answer = Rejoined(parts, [i \in DOMAIN parts |-> IF i = call.count THEN call.new ELSE call.by])

\* trim() is both halves of it in either order and leaves nothing of a blank text; what
\* pad() has added comes off again.
TrimAndPadAgree ==
  /\ call.op = "trim" =>
       /\ answer = TrimLeft(TrimRight(call.text)) /\ answer = TrimRight(TrimLeft(call.text))
       /\ (answer = <<>>) <=> IsEmptyOrWhitespace(call.text)
  /\ call.op = "pad" =>
       IF call.position = 0 THEN EndsWith(answer, call.text) /\ TrimLeft(answer) = TrimLeft(call.text)
       ELSE StartsWith(answer, call.text) /\ TrimRight(answer) = TrimRight(call.text)

\* What is numeric is either an integer or a floating-point number; the library parses
\* exactly that, but for a plus in front and an int that is too large.
NumbersAgree ==
  call.op = "number" =>
    LET unsigned == call.text # <<>> => call.text[1] # Plus
        n == NumberAt(From(call.text, AfterMinus(call.text)))
    IN  /\ answer.numeric <=> (answer.integer \/ answer.float)
        /\ ~(answer.integer /\ answer.float)
        /\ answer.double <=> (answer.numeric /\ unsigned)
        /\ answer.int.ok <=> /\ answer.integer /\ unsigned
                             /\ (IF AfterMinus(call.text) = 2 THEN n - 1 ELSE n) <= MaxInt

\* What is left of s when elements are taken out.
Subsequences(s) ==
  {[i \in 1 .. Cardinality(kept) |-> s[SetToSortSeq(kept, <)[i]]] : kept \in SUBSET DOMAIN s}

\* One row, or two, give what the whole table gives, and what the sets of all common
\* subsequences and substrings give.
RowsAreTables ==
  call.op = "compare" =>
    LET s == call.text
        t == call.with
        edit[i \in 0 .. Len(s), j \in 0 .. Len(t)] ==
          IF i = 0 \/ j = 0 THEN i + j
          ELSE Min({edit[i - 1, j] + 1, edit[i, j - 1] + 1,
                    edit[i - 1, j - 1] + IF s[i] = t[j] THEN 0 ELSE 1})
    IN  /\ answer.edit = edit[Len(s), Len(t)]
        /\ answer.sequence = Max({Len(u) : u \in Subsequences(s) \cap Subsequences(t)})
        /\ answer.substring = Max({Len(u) : u \in SubSeqs(s) \cap SubSeqs(t)} \cup {0})

\* What is encoded is decoded to what it was, blanks in base64 or not; the number that
\* hexview() shows is the one that hex_to_integral() reads when its type has that number,
\* and too large when its type has not so many bits.
EncodingsAreUndone ==
  call.op = "encode" =>
    /\ UrlDecode(answer.url) = call.text
    /\ Base64Decode(answer.base64) = call.text
    /\ Base64Decode(Join(Split(answer.base64, <<>>), <<Space>>)) = call.text
    /\ HexToBytes(answer.hex, call.prefix) = call.text
    /\ \A type \in Types :
         LET n == FoldLeft(LAMBDA m, c : 256 * m + c, 0, call.text)
         IN  call.text # <<>> /\ 8 * Len(call.text) <= UllBits =>
               /\ n < 2 ^ (IF type.signed THEN type.bits - 1 ELSE type.bits) =>
                    HexToIntegral(answer.hex, call.prefix, type) = <<n>>
               /\ n >= 2 ^ type.bits =>
                    HexToIntegral(answer.hex, call.prefix, type) = OutOfRange

\* A slug is the words of the text in small letters, without what is neither a letter, a
\* digit, a space nor a hyphen; a slug is its own slug.
SlugIsWords ==
  call.op = "slug" =>
    LET kept == SelectSeq(ToLowerText(call.text), LAMBDA c : IsAlnum(c) \/ c \in {Space, Hyphen})
        words == SelectSeq(Split(ReplaceEvery(kept, <<Space>>, <<Hyphen>>), <<Hyphen>>),
                           LAMBDA w : w # <<>>)
    IN  answer = Join(words, <<Hyphen>>) /\ Slugify(answer) = answer

\* hex_to_integral() reads what hex_to_bytes() refuses only if it is a single 0, or
\* begins with what stoull() takes by itself: a blank, a sign or another prefix.
HexReadersAgree ==
  call.op = "hex" =>
    LET s == WithoutPrefix(call.text, call.prefix)
    IN  answer # InvalidArgument /\ answer # OutOfRange =>
          IF HexToBytes(call.text, call.prefix) = InvalidArgument
          THEN s = <<48>> \/ IsSpace(s[1]) \/ s[1] \in Signs \/ HasPrefix(s)
          ELSE answer = <<HexNumber(s)>>

TextsAreRight ==
  /\ SplitIsUndone /\ ReplaceChangesSeams /\ NthSeamOnly /\ TrimAndPadAgree /\ NumbersAgree
  /\ RowsAreTables /\ EncodingsAreUndone /\ SlugIsWords /\ HexReadersAgree

\* A key has the value of its last line in its section, which is that of the last header
\* before it; blanks around a line, a key and a value are no part of them, a comment counts
\* for nothing.  A file that is loaded in two parts is not what it is in one, unless the
\* second part begins in no section.
LastLineWins ==
  call.op = "load" =>
    LET lines == [i \in DOMAIN call.lines |-> TrimBlanks(call.lines[i])]
        headers(i) == {j \in 1 .. i : IsSection(lines[j])}
        section(i) == IF headers(i) = {} THEN <<>> ELSE LET h == lines[Max(headers(i))] IN SubSeq(h, 2, Len(h) - 1)
        assigns == {i \in DOMAIN lines :
                      ~IsSection(lines[i]) /\ ~Ignored(lines[i]) /\ {Equals, Colon} \cap ToSet(lines[i]) # {}}
        name(i) == <<section(i), KeyOf(lines[i])>>
    IN  /\ DOMAIN answer.data = {name(i) : i \in assigns}
        /\ \A i \in assigns : (\A j \in assigns : j > i => name(j) # name(i)) =>
             answer.data[name(i)] = ValueOf(lines[i])
        /\ \A n \in DOMAIN answer.data : TrimBlanks(n[2]) = n[2] /\ TrimBlanks(answer.data[n]) = answer.data[n]
        /\ headers(Len(lines)) = {} => answer.halves = {answer.data}

\* A field that cannot be read makes the call fail and no other field: each has what the
\* file says, or what it had.  A field of one byte is never read.
FieldsIndependent ==
  call.op = "struct" =>
    LET alone(t, type, o) == LoadStructFromIni(<<Field(<<107>>, type, o)>>, <<<<115>>, <<107>>>> :> TrimBlanks(t), <<>>)
        first == alone(call.a, call.type, call.optional)
        second == alone(call.b, "int", FALSE)
    IN  /\ answer.object[1] = first.object[1]
        /\ answer.object[2] = IF call.missing THEN <<1>> ELSE second.object[1]
        /\ answer.success <=> first.success /\ (call.missing \/ second.success)
        /\ call.type = "byte" /\ answer.success => call.optional /\ TrimBlanks(call.a) = <<>>

\* Every number that a type holds is read back; an unsigned type takes negative ones too.
NumbersReadBack ==
  call.op = "integer" =>
    LET n == call.number
        half == 2 ^ (Bits - 1)
    IN  /\ answer.signed = IF n \in -half .. half - 1 THEN <<n>> ELSE No
        /\ answer.unsigned = IF n \in 1 - 2 * half .. 2 * half - 1 THEN <<n % (2 * half)>> ELSE No

IniRead == LastLineWins /\ FieldsIndependent /\ NumbersReadBack

\* A scan that was written is read as the floats it was written with, but for a last point
\* that is cut; an empty one, and one that is asked for as doubles, is not read at all.
\* What was read is written as it stands in the file.
ScansReadBack ==
  call.op = "scan" =>
    LET size == 16 * Len(call.cloud) + call.extra
        n == size \div PointStep
    IN  /\ answer.success <=> call.type = "float" /\ size > 0
        /\ answer.success =>
             /\ answer.points = [i \in 1 .. n |-> [k \in 1 .. 3 |-> Float(call.cloud[i][k])]]
             /\ answer.intensity = 0
             /\ WriteInternal(answer.points) = SubSeq(WriteInternal(call.cloud), 1, 4 * n)

\* A frame with labels has one for each point; their two halves make them up again.
LabelsFit ==
  call.op = "labels" =>
    /\ answer.read = Throws <=> call.extra % 4 # 0
    /\ answer.both # Throws =>
         /\ call.cloud # <<>> /\ call.type = "float"
         /\ Len(answer.both[1].points) = Len(answer.both[1].labels)
    /\ answer.both = Throws =>
         call.cloud = <<>> \/ call.type = "double" \/ call.extra # 0 \/ Len(call.cloud) # Len(call.labels)
    /\ \A full \in ToSet(call.labels) : FullLabel(LabelId(full), InstanceId(full)) = full

\* The labelled parts of a cloud make it up; a point that has a name is unlabelled, an
\* outlier, static or dynamic, and nothing twice.
PartsMakeTheCloud ==
  /\ Static \cap Dynamic = {} /\ Static \cup Dynamic \cup {0, 1} = Named
  /\ call.op = "select" =>
       LET sizes(f) == FoldFunction(LAMBDA x, sum : x + sum, 0, f)
           each == [id \in DOMAIN answer.each |-> Len(answer.each[id])]
           moves == Len(SelectSeq(call.labels, LAMBDA full : LabelId(full) \in Static \cup Dynamic))
       IN  /\ sizes(answer.statistics) = Len(call.labels)
           /\ DOMAIN answer.statistics = ToSet(answer.unique)
           /\ IF Len(call.cloud) # Len(call.labels)
              THEN sizes(each) = 0 /\ answer.static = <<>> /\ answer.dynamic = <<>>
              ELSE each = answer.statistics /\ Len(answer.static) + Len(answer.dynamic) = moves

\* Poses are read from lines of twelve numbers, whatever follows these, or not at all; a
\* reader has none after a file that it could not read.
PosesRead ==
  /\ call.op = "poses" =>
       LET held(line) == \A k \in 1 .. 12 : k <= Len(line) /\ IsNumber(line[k])
       IN  /\ answer.read # Throws <=> \A i \in DOMAIN call.lines : call.lines[i] = <<>> \/ held(call.lines[i])
           /\ answer.load.loaded <=> answer.load.poses # <<>>
           /\ answer.load.loaded =>
                \A k \in DOMAIN answer.load.poses : \E i \in DOMAIN call.lines :
                  /\ i >= k /\ Len(call.lines[i]) >= 12
                  /\ answer.load.poses[k] = SubSeq(call.lines[i], 1, 12)
  /\ call.op = "write poses" =>
       /\ answer = Throws <=> call.poses[2][4] = NaN
       /\ answer # Throws =>
            /\ \A i \in 1 .. 2, k \in 1 .. 12 :
                 LET off == answer[1][i][k] - call.poses[i][k] IN 2 * off \in -Unit .. Unit
            /\ ReadKittiPoses(WriteKittiPoses(answer[1])) = answer

\* The relative transform takes the first pose to the second, and every point with it.
RelativeMotionIsRight ==
  call.op = "relate" =>
    LET from == call.poses[1]
        to == call.poses[2]
    IN  /\ Product(answer.relative, from) = to
        /\ answer.beyond = Throws /\ answer.last = to
        /\ \A i \in DOMAIN call.cloud : Moved(answer.relative, answer.moved[i]) = Moved(to, call.cloud[i])
        /\ answer.length = 2 * WholeRoot(Square(Position(from), Position(to)))
        /\ \A k \in 1 .. 3 : {answer.bounds[1][k], answer.bounds[2][k]} = {Position(from)[k], Position(to)[k]}
        /\ \A k \in 1 .. 3 : answer.bounds[1][k] <= answer.bounds[2][k]

\* The last complete row of a key stands, and what no row gave is nothing anybody set; what
\* was read is written and read again to within Unit.
CalibrationRead ==
  call.op = "calibration" =>
    \A key \in DOMAIN Lengths :
      LET rows == SelectSeq(call.lines, LAMBDA line : line.key = key)
          complete(line) == Len(NumbersOf(line.words)) >= Lengths[key]
      IN  /\ rows # <<>> /\ complete(rows[Len(rows)]) =>
               answer.read[key] = SubSeq(rows[Len(rows)].words, 1, Lengths[key])
          /\ rows = <<>> => answer.read[key] = Uninitialized[key]
          /\ NaN \notin ToSet(answer.read[key])
          /\ answer.again[key] = [k \in DOMAIN answer.read[key] |-> Text(answer.read[key][k])]

\* A frame's name is read as its index, and names of equal length are in the order of the
\* frames; a directory with fewer files than the skip has pairs that are not there.
NamesInOrder ==
  /\ call.op = "format" /\ call.index <= MaxIndex =>
       ParseKittiFrameIndex(answer) = call.index /\ Len(answer) >= call.width
  /\ call.op = "parse" /\ answer # -1 => \E i \in DOMAIN call.stem : IsDigit(call.stem[i])
  /\ call.op = "list" =>
       LET files == answer.clouds
           paths == BinaryPaths(call.directory)
           alike == \A i, j \in DOMAIN files :
             Len(files[i].stem) = Len(files[j].stem) /\ \A k \in DOMAIN files[i].stem : IsDigit(files[i].stem[k])
       IN  /\ Len(files) = answer.frames /\ Len(paths) <= answer.frames
           /\ ToSet(files) \cap ToSet(answer.labels) = {}
           /\ alike => \A i, j \in DOMAIN files :
                i < j => ParseKittiFrameIndex(files[i].stem) <= ParseKittiFrameIndex(files[j].stem)
           /\ Len(answer.at) = IF call.index < Len(paths) THEN 1 ELSE 0
           /\ answer.pair = Undefined <=> call.skip > Len(paths)
           /\ call.skip <= Len(paths) => (answer.pair = <<>> <=> call.index + call.skip >= Len(paths))

FilesReadBack ==
  /\ ScansReadBack /\ LabelsFit /\ PartsMakeTheCloud
  /\ PosesRead /\ RelativeMotionIsRight /\ CalibrationRead /\ NamesInOrder
===============================================================================
