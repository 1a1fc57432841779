-------------------------------- MODULE Lexer --------------------------------
(* The two comment lexers of the plugin. windowBlank (cq/windows.go) masks   *)
(* the comments of a source before it is cut; BlankComments (cq/blank.go)    *)
(* reads the masked text of a window again and marks the lines that begin    *)
(* inside a string, where no unit may begin. Neither knows of the other.     *)
(*                                                                           *)
(* Abstractions. A text is a sequence of characters; a language is its       *)
(* markers and which of the three kinds of quotes mean something in it. The  *)
(* character "key" stands for those of a secret that is one word; what the   *)
(* redaction matches with quotes or blanks in it is left out. Of             *)
(* BlankComments' output the masked text, which nobody uses, is left out.    *)
EXTENDS Integers, Sequences, FiniteSets

CONSTANTS Sources  \* pairs of a text and its language

VARIABLES source   \* the pair looked at

Quotes == {"single", "double", "tick"}

\* [line, blocks: the markers; python: triple quotes are comments, strings have
\*  prefixes and may hold newlines; quotes: those that open a string; chars: a
\*  single quote opens a character literal]
Text == source[1]
Lang == source[2]

-----------------------------------------------------------------------------
(* Looking ahead                                                             *)

HasPrefix(t, i, p) == i + Len(p) - 1 <= Len(t) /\ SubSeq(t, i, i + Len(p) - 1) = p

Found(t, i, p) == {j \in i .. Len(t) : HasPrefix(t, j, p)}
Least(S) == CHOOSE x \in S : \A y \in S : x <= y

\* The position after the first p at or after i, or after the text.
After(t, i, p) == IF Found(t, i, p) = {} THEN Len(t) + 1 ELSE Least(Found(t, i, p)) + Len(p)
EndOfLine(t, i) == Least(Found(t, i, <<"newline">>) \cup {Len(t) + 1})

Triple(t, i, L) == {q \in {"single", "double"} : L.python /\ HasPrefix(t, i, <<q, q, q>>)}
OpenBlocks(t, i, L) == {k \in 1 .. Len(L.blocks) : HasPrefix(t, i, L.blocks[k][1])}

\* charLiteral: the length of a literal of one or two units at i, or 0.
CharLiteral(t, i) ==
    LET Unit(j) == IF j > Len(t) \/ t[j] \in {"single", "newline"} THEN Len(t) + 1
                   ELSE IF t[j] = "escape" THEN j + 2 ELSE j + 1
        Closed(j) == j <= Len(t) /\ t[j] = "single"
        one == Unit(i + 1)
        two == Unit(one)
    IN  IF Closed(one) THEN one + 1 - i ELSE IF Closed(two) THEN two + 1 - i ELSE 0

\* A prefix makes a string of python raw; a backtick always does.
RawAt(t, i, L) == t[i] = "tick" \/ (L.python /\ i > 1 /\ t[i - 1] = "r")

-----------------------------------------------------------------------------
(* windowBlank: i is the next character, quote the string it is in           *)

WindowStart == [i |-> 1, quote |-> "", raw |-> FALSE, lost |-> FALSE, spans |-> <<>>]

\* Mutant: a string goes on over the end of its line.
InQuoteOpen(t, L, s) ==
    LET c == t[s.i] IN
    CASE c = "escape" /\ ~ s.raw /\ s.i < Len(t) -> [s EXCEPT !.i = @ + 2]
      [] c = s.quote -> [s EXCEPT !.i = @ + 1, !.quote = ""]
      [] OTHER -> [s EXCEPT !.i = @ + 1]

InQuote(t, L, s) ==
    LET c == t[s.i] IN
    CASE c = "escape" /\ ~ s.raw /\ s.i < Len(t) -> [s EXCEPT !.i = @ + 2]
      [] c = s.quote -> [s EXCEPT !.i = @ + 1, !.quote = ""]
      [] c = "newline" /\ s.quote # "tick" /\ ~ L.python ->
            [s EXCEPT !.i = @ + 1, !.quote = "", !.lost = TRUE]
      [] OTHER -> [s EXCEPT !.i = @ + 1]

Mask(s, to) == [s EXCEPT !.spans = Append(@, <<s.i, to>>), !.i = to]

OutsideQuote(t, L, s) ==
    LET c == t[s.i]
        triple == Triple(t, s.i, L)
        blocks == IF L.python THEN {} ELSE OpenBlocks(t, s.i, L)
    IN  IF triple # {}
        THEN LET q == CHOOSE q \in triple : TRUE
             IN  IF Found(t, s.i + 3, <<q, q, q>>) = {}
                 THEN [s EXCEPT !.i = Len(t) + 1, !.lost = TRUE]
                 ELSE Mask(s, After(t, s.i + 3, <<q, q, q>>))
        ELSE IF blocks # {}
        THEN LET b == L.blocks[Least(blocks)]
                 from == s.i + Len(b[1])
             IN  Mask([s EXCEPT !.lost = @ \/ Found(t, from, b[2]) = {}], After(t, from, b[2]))
        ELSE IF L.line # <<>> /\ HasPrefix(t, s.i, L.line) THEN Mask(s, EndOfLine(t, s.i))
        ELSE IF c \notin Quotes \/ c \notin L.quotes THEN [s EXCEPT !.i = @ + 1]
        ELSE IF c = "single" /\ L.chars
        THEN [s EXCEPT !.i = @ + (IF CharLiteral(t, s.i) = 0 THEN 1 ELSE CharLiteral(t, s.i))]
        ELSE [s EXCEPT !.i = @ + 1, !.quote = c, !.raw = RawAt(t, s.i, L)]

RECURSIVE WindowFrom(_, _, _)
WindowFrom(t, L, s) ==
    IF s.i > Len(t) THEN s
    ELSE WindowFrom(t, L, IF s.quote # "" THEN InQuote(t, L, s) ELSE OutsideQuote(t, L, s))

\* The comments and whether the lexer lost track.
WindowBlank(t, L) ==
    LET s == WindowFrom(t, L, WindowStart)
    IN  [spans |-> s.spans, lost |-> s.lost \/ s.quote # ""]

InSpans(spans, i) == \E k \in 1 .. Len(spans) : i \in spans[k][1] .. spans[k][2] - 1

\* The code as it is sent: comments are spaces, newlines stay, and then
\* windowRedactBytes writes '#' over the secrets that are left.
Masked(t, spans) ==
    [i \in 1 .. Len(t) |->
        CASE t[i] # "newline" /\ InSpans(spans, i) -> "space"
          [] t[i] = "key" /\ ~ InSpans(spans, i) -> "#"
          [] OTHER -> t[i]]

-----------------------------------------------------------------------------
(* BlankComments: quoted are the newlines passed inside a string             *)

BlankStart == [i |-> 1, str |-> <<>>, raw |-> FALSE, lost |-> FALSE, cm |-> <<>>, quoted |-> {}]

InString(t, L, s) ==
    LET c == t[s.i] IN
    CASE c = "escape" /\ ~ s.raw /\ s.i < Len(t) ->
            [s EXCEPT !.i = @ + 2,
                      !.quoted = @ \cup (IF t[s.i + 1] = "newline" THEN {s.i + 1} ELSE {})]
      [] c = "newline" /\ s.str # <<"tick">> /\ ~ L.python ->
            [s EXCEPT !.i = @ + 1, !.lost = TRUE, !.str = <<>>]
      [] HasPrefix(t, s.i, s.str) ->
            [s EXCEPT !.i = @ + Len(s.str), !.str = <<>>, !.raw = FALSE]
      [] OTHER -> [s EXCEPT !.i = @ + 1, !.quoted = @ \cup (IF c = "newline" THEN {s.i} ELSE {})]

Comment(s, to) == [s EXCEPT !.cm = Append(@, <<s.i, to>>), !.i = to]

OutsideString(t, L, s) ==
    LET c == t[s.i]
        triple == Triple(t, s.i, L)
        blocks == IF L.python THEN {} ELSE OpenBlocks(t, s.i, L)
    IN  IF triple # {}
        THEN LET q == CHOOSE q \in triple : TRUE
             IN  IF Found(t, s.i + 3, <<q, q, q>>) = {}
                 THEN [s EXCEPT !.i = Len(t) + 1, !.lost = TRUE]
                 ELSE Comment(s, After(t, s.i + 3, <<q, q, q>>))
        ELSE IF blocks # {}
        THEN LET b == L.blocks[Least(blocks)]
                 from == s.i + Len(b[1])
             IN  IF Found(t, from, b[2]) = {}
                 THEN Comment([s EXCEPT !.lost = TRUE], Len(t) + 1)
                 ELSE Comment(s, After(t, from, b[2]))
        ELSE IF L.line # <<>> /\ HasPrefix(t, s.i, L.line) THEN Comment(s, EndOfLine(t, s.i))
        ELSE IF c \notin Quotes \/ c \notin L.quotes THEN [s EXCEPT !.i = @ + 1]
        ELSE IF c = "single" /\ L.chars
        THEN [s EXCEPT !.i = @ + (IF CharLiteral(t, s.i) > 0 THEN CharLiteral(t, s.i) ELSE 1)]
        ELSE [s EXCEPT !.i = @ + 1, !.str = <<c>>, !.raw = RawAt(t, s.i, L)]

RECURSIVE BlankFrom(_, _, _)
BlankFrom(t, L, s) ==
    IF s.i > Len(t) THEN s
    ELSE BlankFrom(t, L, IF s.str # <<>> THEN InString(t, L, s) ELSE OutsideString(t, L, s))

\* Lines are counted from 1; inString holds those after a quoted newline.
BlankComments(t, L) ==
    LET s == BlankFrom(t, L, BlankStart)
        LineAfter(p) == 2 + Cardinality({q \in 1 .. p - 1 : t[q] = "newline"})
    IN  [comments |-> s.cm, lost |-> s.lost \/ s.str # <<>>,
         inString |-> {LineAfter(p) : p \in s.quoted}]

-----------------------------------------------------------------------------
SomeSource == source \in Sources

(* The two lexers find the same comments and lose track of the same texts.   *)
SameComments ==
    LET w == WindowBlank(Text, Lang)
        b == BlankComments(Text, Lang)
    IN  w.spans = b.comments /\ w.lost = b.lost

(* A text that is one window, read again by BlankComments as it was sent:    *)
(* spaces left by a comment join nothing, so the same lines begin inside a   *)
(* string, as far as no redacted secret reads as a comment. That happens     *)
(* only where '#' begins one: there the '#' of a secret outside strings      *)
(* hides the rest of its line from the second reading, and a string that     *)
(* begins on it.                                                             *)
MaskedReadsAlike ==
    LET sent == Masked(Text, WindowBlank(Text, Lang).spans)
        again == BlankComments(sent, Lang)
        false == IF again.comments = <<>> THEN Len(Text) + 1 ELSE again.comments[1][1]
        before == 1 .. 1 + Cardinality({q \in 1 .. false - 1 : Text[q] = "newline"})
    IN  /\ again.inString \cap before = BlankComments(Text, Lang).inString \cap before
        /\ again.comments # <<>> =>
            \E m \in {Lang.line} \cup {b[1] : b \in {Lang.blocks[k] : k \in 1 .. Len(Lang.blocks)}} :
                /\ HasPrefix(sent, false, m)
                /\ \E i \in false .. false + Len(m) - 1 : sent[i] = "#" /\ Text[i] = "key"

LexersAgree == SameComments /\ MaskedReadsAlike
=============================================================================
