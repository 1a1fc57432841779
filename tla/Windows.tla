------------------------------- MODULE Windows -------------------------------
(* How a file is cut into the windows the judge is asked about:              *)
(* ContextWindows and windowUnits of cq/windows.go inside the loop of        *)
(* boundedContextWindows (cq/request_context.go), which starts again with    *)
(* half the size while a request would be too large. A position counts the   *)
(* bytes before it; an action is one pass of the outer or the inner loop.    *)
(*                                                                           *)
(* Abstractions. A byte is what the cutting looks at: a newline, the rest of *)
(* a rune, part of a comment, the first byte of a secret or of a             *)
(* declaration, or anything else. Masking and redaction keep positions, so   *)
(* one text stands for the source and for both masked forms of it; a request *)
(* is as long as its window with newlines escaped.                           *)
EXTENDS Order, Sequences, SequencesExt

CONSTANTS Texts,      \* the sources
          Sizes,      \* the chunk sizes asked for
          MinSize,    \* the smallest size tried, and the longest rune
          RequestCap  \* the longest body of a request

Bytes == {"x", "newline", "rest", "comment", "secret", "decl"}

\* utf8.ValidString: the rest of a rune follows its first byte, and a rune has
\* no more than MinSize bytes.
ValidString(t) ==
    \A i \in 1 .. Len(t) : t[i] = "rest" =>
        \E j \in 1 .. i - 1 : /\ i - j < MinSize /\ t[j] = "x"
                             /\ \A k \in j + 1 .. i : t[k] = "rest"

ASSUME TextsAssumption == Texts \subseteq Seq(Bytes) /\ \A t \in Texts : ValidString(t)
ASSUME SizesAssumption == MinSize \in Nat \ {0} /\ Sizes \subseteq {n \in Nat : n >= MinSize}

VARIABLES text, size,
          result,      \* "working", "windows" or "too_large"
          start, end,  \* what is left of the units being cut, [start, end)
          split,       \* they are one unit longer than a window
          line,        \* the line of start
          ci, si,      \* comments and secrets passed
          out          \* the windows

cutting == <<start, end, split, line, ci, si, out>>
vars == <<text, size, result, cutting>>

-----------------------------------------------------------------------------
(* What the lexer, the redaction and the parser report                       *)

ByteAt(p) == text[p + 1]
Positions(b) == {p \in 0 .. Len(text) - 1 : ByteAt(p) = b}
NewlinesIn(a, b) == Cardinality({p \in a .. b - 1 : p \in Positions("newline")})
LineOf(p) == 1 + NewlinesIn(0, p)

\* Comments are runs of comment bytes, as pairs of positions.
Comments ==
    LET From == Sorted({p \in Positions("comment") : p = 0 \/ ByteAt(p - 1) # "comment"})
        To(p) == CHOOSE q \in p + 1 .. Len(text) :
                    /\ q = Len(text) \/ ByteAt(q) # "comment"
                    /\ \A r \in p .. q - 1 : ByteAt(r) = "comment"
    IN  [i \in 1 .. Len(From) |-> <<From[i], To(From[i])>>]

Secrets == Sorted(Positions("secret"))

\* A declaration, with its comment, runs to its last byte before the next one.
Declarations ==
    LET From == Sorted(Positions("decl"))
        Next1(i) == IF i < Len(From) THEN From[i + 1] ELSE Len(text)
    IN  [i \in 1 .. Len(From) |->
            [from |-> From[i],
             to |-> 1 + CHOOSE p \in From[i] .. Next1(i) - 1 :
                        /\ ByteAt(p) # "newline"
                        /\ \A q \in p + 1 .. Next1(i) - 1 : ByteAt(q) = "newline"]]

-----------------------------------------------------------------------------
(* windowUnits                                                               *)

IsLineStart(q, p) == q <= p /\ (q = 0 \/ ByteAt(q - 1) = "newline") /\ NewlinesIn(q, p) = 0

\* A unit begins on the line of a declaration that does not share it with the
\* end of the one before.
UnitStarts ==
    {q \in 0 .. Len(text) : \E i \in 2 .. Len(Declarations) :
        /\ IsLineStart(q, Declarations[i].from)
        /\ LineOf(Declarations[i].from) > LineOf(Declarations[i - 1].to)}

Cuts == {0, Len(text)} \cup UnitStarts

-----------------------------------------------------------------------------
(* ContextWindows                                                            *)

Init ==
    /\ text \in Texts /\ size \in Sizes /\ result = "working"
    /\ start = 0 /\ end = 0 /\ split = FALSE
    /\ line = 1 /\ ci = 0 /\ si = 0 /\ out = <<>>

\* The next unit, with as many of those after it as fit with it.
NextUnits ==
    /\ result = "working" /\ start = end /\ end < Len(text)
    /\ \E c \in Cuts :
        /\ end < c
        /\ \A b \in Cuts : (end < b /\ b < c) => c - end <= size
        /\ \A b \in Cuts : c < b => b - end > size
        /\ end' = c
        /\ split' = (c - end > size)
    /\ UNCHANGED <<text, size, result, start, line, ci, si, out>>

\* A window ends with the unit, else after its last newline, else before the
\* rune that does not fit.
Fitting == {q \in start .. start + size : q = start \/ ByteAt(q) # "rest"}
Greatest(S) == CHOOSE q \in S : \A r \in S : r <= q

\* Mutant: the window is filled to the last byte.
StopAnywhere == IF end - start <= size THEN end ELSE start + size

Stop ==
    IF end - start <= size THEN end
    ELSE LET rune == Greatest(Fitting)
             lines == {q \in start + 1 .. rune : ByteAt(q - 1) = "newline"}
         IN  IF lines = {} THEN rune ELSE Greatest(lines)

\* Mutant: a comment is passed when the window after it begins, although it
\* reaches into that window.
PassedBegun(p) == Cardinality({i \in 1 .. Len(Comments) : Comments[i][1] < p})

\* Comments and secrets that lie before p; both sequences are read once, in
\* order, along with the windows.
Passed(p) == Cardinality({i \in 1 .. Len(Comments) : Comments[i][2] <= p})
SecretsBefore(p) == Cardinality({i \in 1 .. Len(Secrets) : Secrets[i] < p})
AtLeast(a, b) == IF a < b THEN b ELSE a

Window ==
    /\ result = "working" /\ start < end
    /\ LET stop == Stop
           lines == NewlinesIn(start, stop)
           passed == AtLeast(ci, Passed(start))
           secrets == AtLeast(si, SecretsBefore(stop))
       IN  /\ out' = Append(out,
                [from |-> start, to |-> stop, first |-> line,
                 last |-> line + lines - (IF ByteAt(stop - 1) = "newline" THEN 1 ELSE 0),
                 split |-> split,
                 comment |-> passed < Len(Comments) /\ Comments[passed + 1][1] < stop,
                 redacted |-> secrets - si])
           /\ line' = line + lines
           /\ ci' = passed /\ si' = secrets
           /\ start' = stop
    /\ UNCHANGED <<text, size, result, end, split>>

-----------------------------------------------------------------------------
(* boundedContextWindows                                                     *)

Cut == result = "working" /\ start = end /\ end = Len(text)

BodyBytes(w) == w.to - w.from + NewlinesIn(w.from, w.to)
Fits == \A i \in 1 .. Len(out) : BodyBytes(out[i]) <= RequestCap

Accept ==
    /\ Cut /\ Fits
    /\ result' = "windows"
    /\ UNCHANGED <<text, size, cutting>>

Refuse ==
    /\ Cut /\ ~ Fits /\ size <= MinSize
    /\ result' = "too_large"
    /\ UNCHANGED <<text, size, cutting>>

CutAgain ==
    /\ start' = 0 /\ end' = 0 /\ split' = FALSE
    /\ line' = 1 /\ ci' = 0 /\ si' = 0 /\ out' = <<>>

\* Mutant: the smallest size is tried again and again.
ShrinkForever ==
    /\ Cut /\ ~ Fits /\ size >= MinSize
    /\ size' = AtLeast(MinSize, size \div 2)
    /\ CutAgain
    /\ UNCHANGED <<text, result>>

\* The whole text is cut again into smaller windows.
Shrink ==
    /\ Cut /\ ~ Fits /\ size > MinSize
    /\ size' = AtLeast(MinSize, size \div 2)
    /\ CutAgain
    /\ UNCHANGED <<text, result>>

Next == NextUnits \/ Window \/ Accept \/ Refuse \/ Shrink

Spec == Init /\ [][Next]_vars /\ WF_vars(Next)

-----------------------------------------------------------------------------
(* Properties                                                                *)

(* Nothing is skipped and nothing is sent twice: the windows lie end to end  *)
(* from the first byte to where the loop stands, in the end to the last; each *)
(* holds something, at most `size` bytes, and no rune is torn.               *)
WindowsTile ==
    /\ \A i \in 1 .. Len(out) :
        /\ out[i].from = (IF i = 1 THEN 0 ELSE out[i - 1].to)
        /\ out[i].to \in out[i].from + 1 .. out[i].from + size
        /\ out[i].to < Len(text) => ByteAt(out[i].to) # "rest"
    /\ result # "working" => (IF out = <<>> THEN 0 ELSE out[Len(out)].to) = Len(text)

(* The edge of a window cuts a declaration in two only in a unit that is too *)
(* long for a window, and then the windows say so. A unit holds one          *)
(* declaration, or several of which each begins on the line where the one    *)
(* before ends; with them what stands there up to the next unit, and in the  *)
(* first unit what stands before the first declaration.                      *)
DeclarationsWhole ==
    \A i \in 1 .. Len(out), d \in ToSet(Declarations) :
        (d.from < out[i].to /\ out[i].to < d.to) =>
            /\ out[i].split
            /\ \E b, c \in Cuts :
                /\ b <= d.from /\ d.to <= c /\ c - b > size
                /\ \A a \in Cuts : ~ (b < a /\ a < c)
                /\ \A k \in 2 .. Len(Declarations) :
                    (b <= Declarations[k - 1].from /\ Declarations[k].from < c) =>
                        LineOf(Declarations[k].from) <= LineOf(Declarations[k - 1].to)

(* What a window says of itself is true of the source, however many windows  *)
(* and attempts came before: its first and last line, whether it touches a   *)
(* comment (which decides what is asked about it), whether it may hold only  *)
(* a part of a declaration; and each secret is counted in the one window     *)
(* where it begins.                                                          *)
WindowsDescribe ==
    /\ \A i \in 1 .. Len(out) :
        LET w == out[i] IN
        /\ w.first = LineOf(w.from) /\ w.last = LineOf(w.to - 1)
        /\ w.comment = (\E p \in w.from .. w.to - 1 : ByteAt(p) = "comment")
        /\ w.redacted = Cardinality(Positions("secret") \cap (w.from .. w.to - 1))
    /\ DeclarationsWhole

(* Every source comes to windows whose requests fit, or is refused: no pass  *)
(* of a loop stands still.                                                   *)
WindowsEnd == <>(result # "working")
=============================================================================
