------------------------------ MODULE WalkRules ------------------------------
(* Which files a scan may send: the rule files of the directories above them *)
(* (cq/scoped_rules.go) and the places where the walk of cq/walk.go asks     *)
(* them. A directory waits on the stack, and its files wait to be examined,  *)
(* over several steps, while the owner edits rules and moves things.         *)
(*                                                                           *)
(* Abstractions. A path is a sequence of names below the base; a component   *)
(* of a pattern is a name, "*" or "**". A rule file holds what it parses to, *)
(* or is not ok: unreadable, too large, a link, or outside the grammar.       *)
(* The rules of the language table and of names, limits of a step other than *)
(* the files it examines, and the journal are ScanStep's.                    *)
EXTENDS Integers, Sequences, FiniteSets, SequencesExt

CONSTANTS Dirs,         \* the directories, <<>> is the base
          Names,        \* the names of the files in each
          RuleFiles,    \* [ok, ign, attrs]: a directory's two rule files
          Excludes,     \* the caller's exclusions
          MaxExamined,  \* files one step examines
          MaxEdits      \* changes the owner makes

\* Directories are below each other, and the listing of each is finite.
ASSUME DirsAssumption ==
    /\ IsFiniteSet(Dirs) /\ <<>> \in Dirs
    /\ \A d \in Dirs : d \in Seq(ToSet(d)) /\ \A i \in 0 .. Len(d) : SubSeq(d, 1, i) \in Dirs

Kinds == {"dir", "symlink", "absent", "repository", "unlistable"}

VARIABLES rules,        \* the rule files of each directory
          kind,         \* what each directory is
          edits,
          excl,         \* Scan.Exclude
          stack, dir, pending,   \* the cursor
          active, examined,      \* a step runs; files it has examined
          scope,        \* the rules loaded for dir, and the world they were read in
          sent,         \* files submitted, with that world
          told          \* paths with coverage: skipped files and boundaries

world == <<rules, kind, edits, excl>>
rulesVars == <<world, stack, dir, pending, active, examined, scope, sent, told>>

-----------------------------------------------------------------------------
(* Rules: [neg, dirOnly, anchored, desc, pattern, scope]; desc: a match      *)
(* covers everything below it (exclusions, not attributes)                   *)

\* cut[i] is how far into the path the first i components of p reach; "**" at
\* the end stands for at least one name, elsewhere also for none.
Match(p, path, desc) ==
    \E cut \in [0 .. Len(p) -> 0 .. Len(path)] :
        /\ cut[0] = 0
        /\ cut[Len(p)] = Len(path) \/ desc
        /\ \A i \in 1 .. Len(p) :
            IF p[i] = "**"
            THEN cut[i - 1] <= cut[i] /\ (i = Len(p) => cut[i - 1] < Len(path))
            ELSE cut[i] = cut[i - 1] + 1 /\ p[i] \in {"*", path[cut[i]]}

\* The compiled expression: below the rule's scope, a bare name at any depth.
Matches(r, path) ==
    /\ IsPrefix(r.scope, path)
    /\ LET below == SubSeq(path, Len(r.scope) + 1, Len(path))
       IN  \E k \in 0 .. Len(below) :
            /\ r.anchored => k = 0
            /\ Match(r.pattern, SubSeq(below, k + 1, Len(below)), r.desc)

Hits(r, path, isDir) ==
    IF r.dirOnly /\ ~ isDir
    THEN \E k \in 1 .. Len(path) - 1 : Matches(r, SubSeq(path, 1, k))
    ELSE Matches(r, path)

\* matchRules: the last rule that matches decides.
MatchRules(rs, path, isDir) ==
    LET hits == {i \in 1 .. Len(rs) : Hits(rs[i], path, isDir)}
    IN  hits # {} /\ ~ rs[CHOOSE i \in hits : \A j \in hits : j <= i].neg

Chain(d) == [i \in 1 .. Len(d) + 1 |-> SubSeq(d, 1, i - 1)]

\* scopedRules: of the rule files rs, those from the base to d, the ancestor's
\* first.
ScopedIn(rs, d, which) ==
    FlattenSeq([i \in 1 .. Len(d) + 1 |->
        LET at == Chain(d)[i] IN
        [k \in 1 .. Len(rs[at][which]) |->
            rs[at][which][k] @@ [scope |-> at, desc |-> which = "ign"]]])

Scoped(d, which) == ScopedIn(rules, d, which)

-----------------------------------------------------------------------------
(* walkRules                                                                 *)

CallerExcluded(path, isDir) == MatchRules(excl, path, isDir)

DirExcluded(d) == MatchRules(Scoped(Front(d), "ign"), d, TRUE) \/ CallerExcluded(d, TRUE)

\* What stops the walk at c, once everything above it was passed.
Problem(c) ==
    CASE c # <<>> /\ DirExcluded(c) -> "excluded"
      [] c # <<>> /\ ~ DirExcluded(c) /\ kind[c] # "dir" -> kind[c]
      [] OTHER -> IF ~ rules[c].ok THEN "rules_error" ELSE ""

\* Mutant: only the directory itself is looked at, it was allowed before.
WalkLastOnly(d) ==
    IF \E c \in ToSet(Chain(d)) : ~ rules[c].ok
    THEN [reason |-> "rules_error", ref |-> d]
    ELSE [reason |-> Problem(d), ref |-> d]

\* The first directory of the chain with a problem, or d and none.
Walk(d) ==
    LET bad == {i \in 1 .. Len(d) + 1 :
                  /\ Problem(Chain(d)[i]) # ""
                  /\ \A j \in 1 .. i - 1 : Problem(Chain(d)[j]) = ""}
    IN  IF bad = {} THEN [reason |-> "", ref |-> d]
        ELSE [reason |-> Problem(Chain(d)[CHOOSE i \in bad : TRUE]),
              ref |-> Chain(d)[CHOOSE i \in bad : TRUE]]

\* These are errors: the step ends and the next one tries again. The others
\* are boundaries the scan accepts.
Fatal == {"absent", "unlistable", "rules_error"}

NoScope == [loaded |-> FALSE]
ScopeOf(d) == [loaded |-> TRUE, ign |-> Scoped(d, "ign"), attrs |-> Scoped(d, "attrs"),
               rules |-> rules, kind |-> kind]

-----------------------------------------------------------------------------
(* Scan.Step                                                                 *)

Done == stack = <<>> /\ pending = {}

RulesInit ==
    /\ rules \in [Dirs -> RuleFiles] /\ excl \in Excludes
    /\ rules[<<>>].ok
    /\ kind = [d \in Dirs |-> "dir"] /\ edits = 0
    /\ stack = << <<>> >> /\ dir = <<>> /\ pending = {}
    /\ active = FALSE /\ examined = 0 /\ scope = NoScope
    /\ sent = {} /\ told = {}

\* A step begins with no rules loaded.
StartStep ==
    /\ ~ active /\ ~ Done
    /\ active' = TRUE /\ examined' = 0 /\ scope' = NoScope
    /\ UNCHANGED <<world, stack, dir, pending, sent, told>>

Boundary(w) == told' = told \cup {w.ref}

\* The directory cannot be walked now: the boundary is recorded, the step ends.
ScopeFails ==
    /\ active /\ ~ Done
    /\ pending = {} \/ ~ scope.loaded
    /\ LET w == Walk(IF pending = {} THEN Last(stack) ELSE dir)
       IN  w.reason \in Fatal /\ Boundary(w)
    /\ active' = FALSE
    /\ UNCHANGED <<world, stack, dir, pending, examined, scope, sent>>

\* The directory, or one above it, must not be walked: it is given up.
ScopeExcluded ==
    /\ active /\ ~ Done
    /\ pending = {} \/ ~ scope.loaded
    /\ LET w == Walk(IF pending = {} THEN Last(stack) ELSE dir)
       IN  w.reason # "" /\ w.reason \notin Fatal /\ Boundary(w)
    /\ IF pending = {} THEN stack' = Front(stack) /\ UNCHANGED pending
       ELSE pending' = {} /\ UNCHANGED stack
    /\ UNCHANGED <<world, dir, active, examined, scope, sent>>

\* Its files become pending; its directories are stacked or passed over.
ListDir ==
    /\ active /\ pending = {} /\ stack # <<>>
    /\ Walk(Last(stack)).reason = ""
    /\ LET d == Last(stack)
           below == {s \in Dirs : s # <<>> /\ Front(s) = d /\ kind[s] # "absent"}
           barred == {s \in below : kind[s] = "symlink" \/ DirExcluded(s)}
       IN  /\ dir' = d /\ pending' = {Append(d, n) : n \in Names}
           /\ stack' = Front(stack) \o SetToSeq(below \ barred)
           /\ told' = told \cup barred
           /\ scope' = ScopeOf(d)
    /\ UNCHANGED <<world, active, examined, sent>>

\* The first files of a step were listed in an earlier one.
Reload ==
    /\ active /\ pending # {} /\ ~ scope.loaded
    /\ Walk(dir).reason = ""
    /\ scope' = ScopeOf(dir)
    /\ UNCHANGED <<world, stack, dir, pending, active, examined, sent, told>>

Skipped(f) ==
    \/ MatchRules(scope.ign, f, FALSE)
    \/ MatchRules(scope.attrs, f, FALSE)
    \/ CallerExcluded(f, FALSE)

Examine ==
    /\ active /\ pending # {} /\ scope.loaded /\ examined < MaxExamined
    /\ \E f \in pending :
        /\ IF Skipped(f)
           THEN told' = told \cup {f} /\ UNCHANGED sent
           ELSE /\ sent' = sent \cup {[file |-> f, rules |-> scope.rules, kind |-> scope.kind]}
                /\ UNCHANGED told
        /\ pending' = pending \ {f}
    /\ examined' = examined + 1
    /\ UNCHANGED <<world, stack, dir, active, scope>>

EndStep ==
    /\ active
    /\ Done \/ (pending # {} /\ scope.loaded /\ examined = MaxExamined)
    /\ active' = FALSE
    /\ UNCHANGED <<world, stack, dir, pending, examined, scope, sent, told>>

\* The owner edits a rule file, or a directory becomes something else; what
\* has gone stays away.
Edit ==
    /\ edits < MaxEdits
    /\ edits' = edits + 1
    /\ \/ /\ \E d \in Dirs, r \in RuleFiles : rules' = [rules EXCEPT ![d] = r]
          /\ UNCHANGED kind
       \/ /\ \E d \in Dirs \ {<<>>}, k \in Kinds :
                kind[d] # "absent" /\ kind' = [kind EXCEPT ![d] = k]
          /\ UNCHANGED rules
    /\ UNCHANGED <<excl, stack, dir, pending, active, examined, scope, sent, told>>

RulesNext ==
    \/ StartStep \/ ScopeFails \/ ScopeExcluded \/ ListDir \/ Reload \/ Examine
    \/ EndStep \/ Edit

RulesSpec == RulesInit /\ [][RulesNext]_rulesVars

-----------------------------------------------------------------------------
(* Properties                                                                *)

\* The rule files of world w strictly above path exclude it.
ExcludedIn(w, path, which, isDir) ==
    MatchRules(ScopedIn(w.rules, Front(path), which), path, isDir)

(* A file is only sent under rules that allow it and every directory above   *)
(* it, all of them directories whose rules could be read: nothing below an   *)
(* excluded directory comes back by a negation or a later step, whatever     *)
(* was edited in between.                                                    *)
SubmittedAllowed ==
    \A s \in sent :
        /\ ~ ExcludedIn(s, s.file, "ign", FALSE) /\ ~ ExcludedIn(s, s.file, "attrs", FALSE)
        /\ ~ CallerExcluded(s.file, FALSE)
        /\ \A c \in ToSet(Chain(Front(s.file))) :
            /\ s.rules[c].ok
            /\ c # <<>> => /\ s.kind[c] = "dir"
                           /\ ~ ExcludedIn(s, c, "ign", TRUE) /\ ~ CallerExcluded(c, TRUE)

(* And no file is passed over in silence: at the end each was sent, or it or *)
(* a directory above it was reported, unless it went away.                   *)
NothingUntold ==
    Done => \A d \in Dirs, n \in Names :
        \/ \E s \in sent : s.file = Append(d, n)
        \/ Append(d, n) \in told \/ \E c \in ToSet(Chain(d)) : c \in told
        \/ \E c \in ToSet(Chain(d)) : kind[c] = "absent"

RulesObeyed == SubmittedAllowed /\ NothingUntold
=============================================================================
