----------------------------- MODULE ShardCache -----------------------------
(* One shard of the inference cache: ShardCache of cq/store.go. Each call of *)
(* the plugin opens the cache anew: the first use reads the shard's file     *)
(* into memory, every Put appends a line to both, and when the shard would   *)
(* outgrow its share the newest entries are written back as a smaller file.  *)
(* A write may be cut anywhere, and its error does not end the call.         *)
(*                                                                           *)
(* Abstractions. An entry is a key and an answer; a line has the length of   *)
(* its key's line. A file is a sequence of pieces: an entry when the text    *)
(* decodes, its bytes, and whether it ends in a newline. The pages of a      *)
(* compaction are one text, since a cut page leaves a prefix of it.          *)
EXTENDS Naturals, Sequences, SequencesExt, FiniteSets

CONSTANTS Keys,
          Answers,    \* Answers[k]: what may be put for key k
          LineBytes,  \* LineBytes[k]: length of a line for key k, with newline
          Limits,     \* values of ShardBytes: the setting may change
          MaxFaults   \* bound of the model

ASSUME BytesAssumption ==
    /\ LineBytes \in [Keys -> Nat \ {0, 1}]
    /\ Limits \subseteq Nat /\ MaxFaults \in Nat

VARIABLES file,    \* the shard's file
          limit,   \* ShardBytes of the running call
          open,    \* the running call has read the shard
          mem,     \* the shard in memory
          faults,
          latest,  \* history: the last answer put for a key in this call
          clean,   \* history: no fault since file and memory were the same
          due      \* history: the entries put since the file was last written anew

vars == <<file, limit, open, mem, faults, latest, clean, due>>

Entries == UNION {{[k |-> k, a |-> a] : a \in Answers[k]} : k \in Keys}
NoEntry == [k |-> "none", a |-> "none"]
NoAnswer == "none"

\* What does not decode is no entry: the code skips a line without a key.
ASSUME NoEntryAssumption == NoEntry \notin Entries

\* The positions in S, a finite set, from the least to the greatest.
InOrder(S) ==
    [n \in 1 .. Cardinality(S) |->
        CHOOSE i \in S : Cardinality({j \in S : j <= i}) = n]

\* Mutant: a line without its newline.
LineOpen(e) == [e |-> e, bytes |-> LineBytes[e.k], nl |-> FALSE]

Line(e) == [e |-> e, bytes |-> LineBytes[e.k], nl |-> TRUE]
Lines(es) == [i \in DOMAIN es |-> Line(es[i])]

\* The n-th byte of the i-th piece is <<i, n>>.
Bytes(f) == UNION {{i} \X (1 .. f[i].bytes) : i \in DOMAIN f}
FileBytes(f) == Cardinality(Bytes(f))
EntriesBytes(es) == FileBytes(Lines(es))

NewShard == [entries |-> <<>>, size |-> 0, over |-> FALSE]

Init ==
    /\ file = <<>> /\ limit \in Limits
    /\ open = FALSE /\ mem = NewShard
    /\ faults = 0
    /\ latest = [k \in Keys |-> NoAnswer] /\ clean = FALSE /\ due = {}

-----------------------------------------------------------------------------
(* The file                                                                  *)

\* n bytes of e's line: it decodes when at most the newline is missing.
Piece(e, n) == [e |-> IF n + 1 >= LineBytes[e.k] THEN e ELSE NoEntry,
                bytes |-> n, nl |-> n = LineBytes[e.k]]

\* The store appends a piece; text without a newline runs into it.
AppendPiece(f, p) ==
    IF f = <<>> \/ Last(f).nl THEN Append(f, p)
    ELSE Append(Front(f), [e |-> NoEntry, bytes |-> Last(f).bytes + p.bytes, nl |-> p.nl])

\* What an append that does not complete, or seems not to, may leave.
CutAppend(f, e) == {f} \cup {AppendPiece(f, Piece(e, n)) : n \in 1 .. LineBytes[e.k]}

\* What the interrupted rewrite to es may leave: the old file, or a part.
CutRewrite(f, es) ==
    {f, <<>>} \cup UNION {{AppendPiece(Lines(SubSeq(es, 1, i - 1)), Piece(es[i], n)) :
                              n \in 1 .. LineBytes[es[i].k]} : i \in DOMAIN es}

Complete(f, l) == FileBytes(f) <= l

\* WholeLines of the first l bytes.
WithinLimit(f, l) ==
    LET whole == {n \in 0 .. Len(f) :
                    FileBytes(SubSeq(f, 1, n)) <= l /\ (n > 0 => f[n].nl)}
    IN  SubSeq(f, 1, CHOOSE n \in whole : \A m \in whole : m <= n)

\* ReadPrefix: all of the file, or of one too long the whole lines that fit.
ReadShard(f, l) == IF Complete(f, l) THEN f ELSE WithinLimit(f, l)

Decoded(f) ==
    LET good == InOrder({i \in DOMAIN f : f[i].e # NoEntry})
    IN  [n \in DOMAIN good |-> f[good[n]].e]

Loaded(f, l) == [entries |-> Decoded(ReadShard(f, l)),
                 size |-> FileBytes(ReadShard(f, l)),
                 over |-> ~ Complete(f, l)]

\* The index has the last entry of a key.
Get(sh, k) ==
    LET at == {i \in DOMAIN sh.entries : sh.entries[i].k = k}
    IN  IF at = {} THEN NoAnswer
        ELSE sh.entries[CHOOSE i \in at : \A j \in at : j <= i].a

-----------------------------------------------------------------------------
(* Compaction                                                                *)

\* Mutant: the first entry of a key is kept.
NewestOldest(es) ==
    LET firsts == {i \in DOMAIN es : \A j \in DOMAIN es : es[j].k = es[i].k => i <= j}
    IN  InOrder(firsts)

\* The positions of the last entry of each key.
Newest(es) ==
    LET lasts == {i \in DOMAIN es : \A j \in DOMAIN es : es[j].k = es[i].k => j <= i}
    IN  InOrder(lasts)

\* The newest entries, one per key, as many in a row as fit into budget.
Kept(es, budget) ==
    LET new == [n \in DOMAIN Newest(es) |-> es[Newest(es)[n]]]
        fit == {n \in 0 .. Len(new) : EntriesBytes(SubSeq(new, n + 1, Len(new))) <= budget}
    IN  SubSeq(new, 1 + (CHOOSE n \in fit : \A m \in fit : n <= m), Len(new))

TooLong(e) == LineBytes[e.k] > limit \div 2

Full(e) == mem.over \/ mem.size + LineBytes[e.k] > limit

\* Mutant: room for the new line only.
BudgetAll(e) == limit - LineBytes[e.k]

Budget(e) == limit \div 2 - LineBytes[e.k]

Compacted(e) ==
    LET kept == Kept(mem.entries, Budget(e))
    IN  [entries |-> kept, size |-> EntriesBytes(kept), over |-> FALSE]

Added(sh, e) == [sh EXCEPT !.entries = Append(@, e), !.size = @ + LineBytes[e.k]]

-----------------------------------------------------------------------------
(* A call of the plugin                                                      *)

Start(l, sh) ==
    /\ ~ open /\ open' = TRUE
    /\ limit' = l /\ mem' = sh
    /\ latest' = [k \in Keys |-> NoAnswer]
    /\ UNCHANGED <<file, due>>

\* The first use of the shard reads it.
Open(l) ==
    /\ Start(l, Loaded(file, l))
    /\ clean' = (Complete(file, l) /\ (file = <<>> \/ Last(file).nl))
    /\ UNCHANGED faults

\* It cannot be read: the shard counts as empty.
OpenFails(l) ==
    /\ faults < MaxFaults /\ faults' = faults + 1
    /\ Start(l, NewShard)
    /\ clean' = FALSE

\* Put succeeds; it refuses a line longer than half a shard.
Put(e) ==
    /\ open /\ ~ TooLong(e)
    /\ IF Full(e)
       THEN /\ file' = AppendPiece(Lines(Compacted(e).entries), Line(e))
            /\ mem' = Added(Compacted(e), e)
            /\ clean' = TRUE
            /\ due' = ToSet(Compacted(e).entries) \cup {e}
       ELSE /\ file' = AppendPiece(file, Line(e))
            /\ mem' = Added(mem, e)
            /\ due' = due \cup {e}
            /\ UNCHANGED clean
    /\ latest' = [latest EXCEPT ![e.k] = e.a]
    /\ UNCHANGED <<limit, open, faults>>

\* A write of Put returns an error; the call goes on with what it has.
PutFails(e) ==
    /\ open /\ ~ TooLong(e)
    /\ faults < MaxFaults /\ faults' = faults + 1
    /\ \/ /\ Full(e)
          /\ file' \in CutRewrite(file, Compacted(e).entries)
          /\ due' = {}
          /\ UNCHANGED mem
       \/ /\ Full(e)
          /\ file' \in CutAppend(Lines(Compacted(e).entries), e)
          /\ mem' = Compacted(e)
          /\ due' = ToSet(Compacted(e).entries)
       \/ /\ ~ Full(e)
          /\ file' \in CutAppend(file, e)
          /\ UNCHANGED <<mem, due>>
    /\ clean' = FALSE
    /\ UNCHANGED <<limit, open, latest>>

\* The call ends, or dies.
Close ==
    /\ open /\ open' = FALSE
    /\ mem' = NewShard /\ clean' = FALSE
    /\ latest' = [k \in Keys |-> NoAnswer]
    /\ UNCHANGED <<file, limit, faults, due>>

Next ==
    \/ \E l \in Limits : Open(l) \/ OpenFails(l)
    \/ \E e \in Entries : Put(e) \/ PutFails(e)
    \/ Close

Spec == Init /\ [][Next]_vars

-----------------------------------------------------------------------------
(* Within a call a key has the answer last put for it, or after a compaction *)
(* none: an older answer never comes back.                                   *)
NeverStale ==
    \A k \in Keys : latest[k] # NoAnswer => Get(mem, k) \in {NoAnswer, latest[k]}

(* The next call finds what this one would have: file and memory have the    *)
(* same answers, and the size the bound is checked with is that of the file. *)
(* A compaction brings both together again, whatever failed before.          *)
SameAfterRestart ==
    clean => /\ \A k \in Keys : Get(Loaded(file, limit), k) = Get(mem, k)
             /\ FileBytes(file) = mem.size
             /\ mem.size <= limit

\* What was put, or kept by the last compaction, and is not in the file.
Missing == {e \in due : \A i \in DOMAIN file : file[i].e # e}
Spoilt == {i \in DOMAIN file : file[i].e = NoEntry}

(* A failing write spoils one line at most, and each spoilt line costs one   *)
(* answer at most: the one whose line ran into a cut one. All other answers  *)
(* put since the file was last written anew are in the file. Only a          *)
(* compaction gives answers up, and only one that is interrupted may lose    *)
(* those it meant to keep.                                                   *)
DamageBounded ==
    Cardinality(Missing) <= Cardinality(Spoilt) /\ Cardinality(Spoilt) <= faults

(* A compaction leaves half of the shard free, so the next one is far away.  *)
HalfFree ==
    [][open /\ open' /\ mem'.size < mem.size => 2 * mem'.size <= limit]_vars
=============================================================================
