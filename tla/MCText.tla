------------------------------- MODULE MCText -------------------------------
(* The preparation of files on small instances. A behaviour is about one of  *)
(* the four modules; the others have nothing to do.                          *)
EXTENDS Windows, Lexer, Units, WalkRules

Upto(n, S) == UNION {[1 .. k -> S] : k \in 0 .. n}

MCTexts == {t \in Upto(5, Bytes) : ValidString(t)}

CStyle == [line |-> <<"/", "/">>, blocks |-> << <<<<"/", "*">>, <<"*", "/">>>> >>,
           python |-> FALSE, quotes |-> {"single", "double"}, chars |-> TRUE]
GoStyle == [CStyle EXCEPT !.quotes = Quotes]
JsStyle == [GoStyle EXCEPT !.chars = FALSE]
\* The opener of a block begins with the marker of a line.
LuaStyle == [line |-> <<"-">>, blocks |-> << <<<<"-", "[">>, <<"]">>>> >>,
             python |-> FALSE, quotes |-> {"single", "double"}, chars |-> FALSE]
PythonStyle == [line |-> <<"#">>, blocks |-> <<>>,
                python |-> TRUE, quotes |-> {"single", "double"}, chars |-> FALSE]
ShellStyle == [PythonStyle EXCEPT !.python = FALSE, !.quotes = Quotes]
PowershellStyle == [ShellStyle EXCEPT !.blocks = << <<<<"<", "#">>, <<"#", ">">>>> >>]
MCSources ==
    (Upto(6, {"/", "*", "single", "newline", "escape"}) \X {CStyle})
    \cup (Upto(4, {"/", "*", "single", "tick", "newline", "escape", "double"}) \X {GoStyle, JsStyle})
    \cup (Upto(5, {"-", "[", "]", "double", "newline"}) \X {LuaStyle})
    \cup (Upto(6, {"single", "#", "newline", "r", "escape"}) \X {PythonStyle})
    \cup (Upto(4, {"single", "#", "newline", "key", "escape", "tick"}) \X {PythonStyle, ShellStyle})
    \cup (Upto(5, {"<", "#", ">", "key", "newline", "tick"}) \X {PowershellStyle})
    \cup (Upto(4, {"/", "*", "single", "key", "newline"}) \X {CStyle})

MCLines == {l \in [kind : {"blank", "code", "closer", "cr"}, depth : 0 .. 2, quoted : BOOLEAN] :
              /\ l.kind \in {"blank", "cr"} => l.depth = 0
              /\ l.quoted => l.kind = "code"
              /\ l.depth = 2 => l.kind = "code" /\ ~ l.quoted}
\* The first line of a window is never inside a string.
MCLineTexts ==
    {t \in Upto(4, MCLines) \cup Upto(5, {l \in MCLines : l.kind # "cr" /\ l.depth + (IF l.quoted THEN 1 ELSE 0) < 2}) :
        t # <<>> /\ ~ t[1].quoted}

MCDirs == {<<>>, <<"a">>, <<"a", "b">>}
Exclude(p, anchored) == [pattern |-> p, neg |-> FALSE, anchored |-> anchored, dirOnly |-> FALSE]
Keep(p) == [Exclude(p, TRUE) EXCEPT !.neg = TRUE]
NoRules == [ok |-> TRUE, ign |-> <<>>, attrs |-> <<>>]
MCRuleFiles ==
    {NoRules,
     [NoRules EXCEPT !.ok = FALSE],
     [NoRules EXCEPT !.ign = <<[Exclude(<<"a">>, TRUE) EXCEPT !.dirOnly = TRUE], Keep(<<"a", "b">>),
                               Exclude(<<"f">>, FALSE), Keep(<<"**", "b", "*">>)>>,
                     !.attrs = <<Exclude(<<"b">>, FALSE)>>]}
MCExcludes == {<<>>, <<Exclude(<<"a", "b">>, TRUE) @@ [scope |-> <<>>, desc |-> TRUE]>>}

-----------------------------------------------------------------------------
WindowsIdle ==
    /\ text = <<>> /\ size = MinSize /\ result = "windows" /\ out = <<>>
    /\ start = 0 /\ end = 0 /\ split = FALSE /\ line = 1 /\ ci = 0 /\ si = 0
LexerIdle == source = <<<<>>, CStyle>>
UnitsIdle == lines = <<[kind |-> "blank", depth |-> 0, quoted |-> FALSE]>>
RulesIdle ==
    /\ rules = [d \in Dirs |-> NoRules] /\ kind = [d \in Dirs |-> "dir"]
    /\ edits = MaxEdits /\ excl = <<>>
    /\ stack = <<>> /\ dir = <<>> /\ pending = {} /\ active = FALSE /\ examined = 0
    /\ scope = NoScope /\ sent = {} /\ told = {<<>>}

TextInit ==
    \/ Init /\ LexerIdle /\ UnitsIdle /\ RulesIdle
    \/ WindowsIdle /\ SomeSource /\ UnitsIdle /\ RulesIdle
    \/ WindowsIdle /\ LexerIdle /\ SomeLines /\ RulesIdle
    \/ WindowsIdle /\ LexerIdle /\ UnitsIdle /\ RulesInit

Cutting == Next /\ UNCHANGED <<source, lines, rulesVars>>
Walking == RulesNext /\ UNCHANGED <<vars, source, lines>>
TextNext == Cutting \/ Walking
textVars == <<vars, source, lines, rulesVars>>

TextSpec == TextInit /\ [][TextNext]_textVars /\ WF_textVars(Cutting)
=============================================================================
