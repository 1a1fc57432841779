-------------------------------- MODULE Units --------------------------------
(* The units of a window among which the judge names the place of a finding: *)
(* units, split and mergeShort of cq/units.go, and what locate (cq/judge.go) *)
(* makes of the answer.                                                      *)
(*                                                                           *)
(* Abstractions. A line is its indentation and what it holds: "blank",       *)
(* "code", "closer" (it closes something), or "cr", a line of a CRLF source  *)
(* with nothing on it, which is blank to TrimSpace and not to depth. Quoted  *)
(* lines begin inside a string (inString of BlankComments). A key names a    *)
(* unit by its first and last line.                                          *)
EXTENDS Order, Sequences, SequencesExt

CONSTANTS LineTexts,   \* the texts, sequences of lines
          OptionLimit  \* the units locate offers at most

Line == [kind : {"blank", "code", "closer", "cr"}, depth : Nat, quoted : BOOLEAN]
\* strings.Split returns at least one line.
ASSUME LineTextsAssumption == LineTexts \subseteq Seq(Line) \ {<<>>}
ASSUME OptionLimitAssumption == OptionLimit \in Nat

VARIABLES lines  \* the text looked at

-----------------------------------------------------------------------------
(* split: from and to are positions between lines, as in Go                  *)

Blank(i) == lines[i + 1].kind \in {"blank", "cr"}
Depth(i) == lines[i + 1].depth

\* Mutant: a line that closes something may begin a unit.
OpensAny(i) == lines[i + 1].kind # "blank" /\ ~ lines[i + 1].quoted

Opens(i) == lines[i + 1].kind \in {"code", "cr"} /\ ~ lines[i + 1].quoted

\* The shallowest lines that open something.
Siblings(from, to) ==
    {i \in from .. to - 1 : Opens(i) /\ \A j \in from .. to - 1 : Opens(j) => Depth(i) <= Depth(j)}

Split(from, to) ==
    LET starts == Sorted(Siblings(from, to))
        n == Len(starts)
    IN  IF n = 0 THEN << <<from, to>> >>
        ELSE [k \in 1 .. n |-> <<IF k = 1 THEN from ELSE starts[k],
                                 IF k < n THEN starts[k + 1] ELSE to>>]

-----------------------------------------------------------------------------
(* units                                                                     *)

CodeLines(s) == Cardinality({i \in s[1] .. s[2] - 1 : ~ Blank(i)})

\* Neighbours of one line each become one unit, which begins with its head.
MergeShort(spans) ==
    LET n == Len(spans)
        One(k) == CodeLines(spans[k]) = 1
        heads == Sorted({k \in 1 .. n : k = 1 \/ ~ (One(k - 1) /\ One(k))})
    IN  [m \in 1 .. Len(heads) |->
            <<spans[heads[m]][1],
              spans[IF m < Len(heads) THEN heads[m + 1] - 1 ELSE n][2]>>]

\* A single declaration is cut once more, below its first line.
Spans ==
    LET outer == Split(0, Len(lines))
        inner == Split(1, Len(lines))
    IN  MergeShort(IF Len(outer) = 1 /\ Len(inner) > 1 THEN << <<0, 1>> >> \o inner ELSE outer)

LastNonBlank(s) ==
    LET full == {i \in s[1] + 1 .. s[2] - 1 : ~ Blank(i)}
    IN  IF full = {} THEN s[1] ELSE CHOOSE i \in full : \A j \in full : j <= i

\* empty: the text of the unit is the empty string
UnitOf(s) == [first |-> s[1], last |-> LastNonBlank(s), span |-> s,
              empty |-> s[2] = s[1] + 1 /\ lines[s[2]].kind = "blank" /\ Depth(s[1]) = 0]

Units == LET spans == Spans IN [k \in 1 .. Len(spans) |-> UnitOf(spans[k])]

-----------------------------------------------------------------------------
(* locate                                                                    *)

Asked(units) == Len(units) >= 2 /\ Len(units) <= OptionLimit

KeyOf(unit) == <<unit.first, unit.last>>

CannotLocalize == <<>>  \* the choice that is no key

\* The reason there is no location, or "". An answer names a key or declines,
\* with a confidence that is enough or not.
Locate(units, answer) ==
    LET named == {unit \in ToSet(units) : KeyOf(unit) = answer.choice /\ ~ unit.empty}
    IN  CASE Len(units) > OptionLimit -> "location_option_limit"
          [] Len(units) < 2 -> "single_unit_not_localized"
          [] Asked(units) /\ answer.choice = CannotLocalize -> "cannot_localize"
          [] Asked(units) /\ answer.choice # CannotLocalize /\ named = {} ->
                "invalid_location_key"
          [] Asked(units) /\ named # {} /\ answer.confidence # "enough" ->
                "low_location_confidence"
          [] OTHER -> ""

-----------------------------------------------------------------------------
SomeLines == lines \in LineTexts

(* The units are the whole window, in order, each line once; every line with *)
(* something on it lies within the first and last line of exactly one unit,  *)
(* so a location can name any line, and names one place.                     *)
UnitsCover(units) ==
    /\ units[1].span[1] = 0 /\ Last(units).span[2] = Len(lines)
    /\ \A k \in 2 .. Len(units) : units[k].span[1] = units[k - 1].span[2]
    /\ \A i \in 0 .. Len(lines) - 1 : ~ Blank(i) =>
        Cardinality({k \in 1 .. Len(units) : units[k].first <= i /\ i <= units[k].last}) = 1

(* A unit begins on a line that opens something, outside strings, and no     *)
(* line below the header that does so is shallower. The first unit takes     *)
(* what comes before its first such line; so does the one after a header     *)
(* that was cut off, wherever that begins (NoUnitInString).                  *)
HeaderCut == Cardinality(Siblings(0, Len(lines))) <= 1

UnitsAreSiblings(units) ==
    LET starts == {units[k].span[1] : k \in 2 .. Len(units)} \ {i \in {1} : HeaderCut}
    IN  /\ \A i \in starts : ~ lines[i + 1].quoted /\ lines[i + 1].kind \notin {"closer", "blank"}
        /\ \A i \in starts : \A j \in 1 .. Len(lines) - 1 :
            (lines[j + 1].kind = "code" /\ ~ lines[j + 1].quoted) => Depth(i) <= Depth(j)

(* Every unit that is offered can be taken: when the judge names its key     *)
(* with enough confidence, the finding gets that place. In a source without  *)
(* CRLF no unit is blank; with it, an empty line may be a unit of its own.   *)
OfferedCanBeTaken(units) ==
    Asked(units) => \A k \in 1 .. Len(units) :
        /\ Locate(units, [choice |-> KeyOf(units[k]), confidence |-> "enough"]) = ""
        /\ \A l \in 1 .. Len(units) : KeyOf(units[l]) = KeyOf(units[k]) => l = k
        /\ (\A i \in 1 .. Len(lines) : lines[i].kind # "cr") =>
            \E i \in units[k].first .. units[k].last : ~ Blank(i)

(* What CHANGELOG.md says of 0.1.10: the splitter never starts a unit on a   *)
(* line that begins inside a string.                                         *)
NoUnitInString ==
    LET units == Units
    IN  \A k \in 2 .. Len(units) : ~ lines[units[k].span[1] + 1].quoted

UnitsPartition ==
    LET units == Units
    IN  UnitsCover(units) /\ UnitsAreSiblings(units) /\ OfferedCanBeTaken(units)
=============================================================================
