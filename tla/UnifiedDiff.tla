---------------------------- MODULE UnifiedDiff ----------------------------
(***************************************************************************)
(* internal/patch/patch.go, parseUnifiedDiff and applyHunks: what Apply    *)
(* makes of the text of a diff. An agent reads files, describes a change   *)
(* with some unchanged lines around it, and the daemon applies what it says*)
(* to what the files hold by then: users and shells edit them meanwhile.   *)
(*                                                                         *)
(* A file is the sequence of its lines, each ended by a newline. A diff is *)
(* the sequence of its lines, each of them what the parser can tell about  *)
(* it: its prefix, and the text that follows. No line of a file begins     *)
(* with "-- a/" or "++ b/", which would make it look like a header.        *)
(***************************************************************************)
EXTENDS Integers, SequencesExt

CONSTANTS
    Paths,
    Texts,        \* the texts of lines
    Empty,        \* the text of an empty line
    NoPath,       \* currentFile before the first "+++ b/"
    Contexts,     \* numbers of unchanged lines a diff shows around a change
    MaxLines,     \* bound: lines of a file at the start
    MaxAdded,     \* bound: lines a diff adds to a file
    MaxEdits      \* bound: edits by users and shells

ASSUME BoundsAssumption == Contexts \union {MaxLines, MaxAdded, MaxEdits} \subseteq Nat
ASSUME FilesAssumption == NoPath \notin Paths

VARIABLES
    content,     \* the lines of each file
    seen,     \* the lines the agent read
    edits,    \* number of edits made meanwhile
    last      \* history: the diff that was applied, and to what (a set: none yet, or one)

diffVars == <<content, seen, edits, last>>

-----------------------------------------------------------------------------
\* The lines of a diff.
Line(prefix, text) == [prefix |-> prefix, text |-> text]
ToFile(f)    == Line("+++ b/", f)
FromFile(f)  == Line("-", f)             \* "--- a/f", as applyHunks reads it
GitHeader(f) == Line("diff --git", f)
At(oldStart) == Line("@@", oldStart)     \* the other three numbers are never read
EndOfText    == Line("", NoPath)         \* what follows the last newline

\* parseUnifiedDiff: what follows the header of a hunk belongs to the hunk
\* up to the next of the two headers that the parser knows.
ParseLine(p, line) ==
    CASE line.prefix = "+++ b/" ->
            [p EXCEPT !.file = line.text, !.files = Append(@, line.text), !.inHunk = FALSE]
      [] line.prefix = "@@" /\ p.file = NoPath -> [p EXCEPT !.ok = FALSE]
      [] line.prefix = "@@" /\ p.file # NoPath ->
            [p EXCEPT !.inHunk = TRUE,
                      !.hunks[p.file] = Append(@, [oldStart |-> line.text, lines |-> <<>>])]
      [] line.prefix \notin {"+++ b/", "@@"} /\ p.inHunk ->
            [p EXCEPT !.hunks[p.file][Len(p.hunks[p.file])].lines = Append(@, line)]
      [] OTHER -> p

NothingParsed == [ok |-> TRUE, file |-> NoPath, files |-> <<>>,
                  inHunk |-> FALSE, hunks |-> [f \in Paths |-> <<>>]]

\* The state of the parser after each of the lines.
Parsing(diff) ==
    LET p[i \in 0..Len(diff)] ==
            IF i = 0 THEN NothingParsed ELSE ParseLine(p[i - 1], diff[i])
    IN  p

Parse(diff) ==
    LET p == Parsing(diff)[Len(diff)] IN [p EXCEPT !.ok = @ /\ p.files # <<>>]

-----------------------------------------------------------------------------
\* applyHunks. h is the hunk at work: the lines of the file, the next of
\* them, what replaces the range, how many lines it removed and added.
FitsByLength(h, line) == h.cursor < Len(h.lines)

Fits(h, line) == h.cursor < Len(h.lines) /\ h.lines[h.cursor + 1] = line.text

ApplyLine(h, line) ==
    CASE line.prefix = " " /\ Fits(h, line) ->
            [h EXCEPT !.cursor = @ + 1, !.new = Append(@, line.text)]
      [] line.prefix = "-" /\ Fits(h, line) ->
            [h EXCEPT !.cursor = @ + 1, !.removed = @ + 1]
      [] line.prefix = "+" ->
            [h EXCEPT !.new = Append(@, line.text), !.added = @ + 1]
      [] line.prefix = "" -> h
      [] OTHER -> [h EXCEPT !.ok = FALSE]

ShiftByAdded(offset, h) == offset + h.added

Shift(offset, h) == offset + h.added - h.removed

AtHunk(lines, idx) == [ok |-> TRUE, lines |-> lines, cursor |-> idx,
                       new |-> <<>>, removed |-> 0, added |-> 0]

\* The hunk at work after each of its lines.
Matching(lines, idx, body) ==
    LET h[i \in 0..Len(body)] ==
            IF i = 0 THEN AtHunk(lines, idx) ELSE ApplyLine(h[i - 1], body[i])
    IN  h

ApplyHunk(a, hunk) ==
    LET idx == hunk.oldStart - 1 + a.offset
        h   == Matching(a.lines, idx, hunk.lines)[Len(hunk.lines)]
    IN  IF ~a.ok \/ idx \notin 0..Len(a.lines) \/ ~h.ok THEN [a EXCEPT !.ok = FALSE]
        ELSE [ok     |-> TRUE,
              offset |-> Shift(a.offset, h),
              lines  |-> SubSeq(a.lines, 1, idx) \o h.new
                             \o SubSeq(a.lines, h.cursor + 1, Len(a.lines))]

Untouched(lines) == [ok |-> TRUE, lines |-> lines, offset |-> 0]

\* The lines of the file after each of the hunks.
Patching(lines, hunks) ==
    LET a[i \in 0..Len(hunks)] ==
            IF i = 0 THEN Untouched(lines) ELSE ApplyHunk(a[i - 1], hunks[i])
    IN  a

ApplyHunks(lines, hunks) == Patching(lines, hunks)[Len(hunks)]

\* strings.Join(lines, "\n") + "\n": no line at all becomes an empty one.
Joined(lines) == IF lines = <<>> THEN <<Empty>> ELSE lines

\* Apply computes every file before it writes the first.
Apply(before, diff) ==
    LET p     == Parse(diff)
        named == Range(p.files)
        after == [f \in named |-> ApplyHunks(before[f], p.hunks[f])]
    IN  IF ~p.ok \/ \E f \in named : ~after[f].ok THEN [ok |-> FALSE, content |-> before]
        ELSE [ok   |-> TRUE,
              content |-> [f \in Paths |-> IF f \in named THEN Joined(after[f].lines)
                                                       ELSE before[f]]]

-----------------------------------------------------------------------------
\* What agents send. A script lists the lines of a file, kept (" ") or
\* deleted ("-"), and the lines added between them ("+").
Script(old, deleted, added) ==
    LET Plus(i) == IF i \in DOMAIN added THEN <<Line("+", added[i])>> ELSE <<>>
    IN  Plus(0) \o FlattenSeq([i \in DOMAIN old |->
            <<Line(IF i \in deleted THEN "-" ELSE " ", old[i])>> \o Plus(i)])

Changes(script) == \E i \in DOMAIN script : script[i].prefix # " "

Scripts(old) ==
    LET gaps == UNION {kSubset(k, 0..Len(old)) : k \in 0..MaxAdded}
    IN  {s \in {Script(old, d, a) : d \in SUBSET DOMAIN old,
                                   a \in UNION {[g -> Texts] : g \in gaps}} : Changes(s)}

Side(script, prefixes) ==
    FlattenSeq([i \in DOMAIN script |->
        IF script[i].prefix \in prefixes THEN <<script[i].text>> ELSE <<>>])
Old(script) == Side(script, {" ", "-"})
New(script) == Side(script, {" ", "+"})

Shown(script, context) ==
    {i \in DOMAIN script : \E j \in DOMAIN script :
        script[j].prefix # " " /\ j \in (i - context)..(i + context)}

\* A hunk is a run of lines that are shown. It starts at the first line of the file
\* in it or, when it has none, at the line it follows.
HasOld(script, shown, first) ==
    \E j \in first..Len(script) : first..j \subseteq shown /\ script[j].prefix # "+"

HunkHeader(script, shown, first) ==
    LET above == Len(Old(SubSeq(script, 1, first - 1)))
    IN  At(IF HasOld(script, shown, first) THEN above + 1 ELSE above)

Hunks(script, shown) ==
    FlattenSeq([i \in DOMAIN script |->
        IF i \notin shown THEN <<>>
        ELSE IF i - 1 \in shown THEN <<script[i]>>
        ELSE <<HunkHeader(script, shown, i), script[i]>>])

\* As "git diff" prints it, and as "diff -u" does.
Diff(scripts, context, git) ==
    LET order   == SetToSeq(DOMAIN scripts)
        Part(f) == (IF git THEN <<GitHeader(f)>> ELSE <<>>) \o <<FromFile(f), ToFile(f)>>
                       \o Hunks(scripts[f], Shown(scripts[f], context))
    IN  FlattenSeq([n \in DOMAIN order |-> Part(order[n])]) \o <<EndOfText>>

-----------------------------------------------------------------------------
DiffInit ==
    /\ content \in [Paths -> BoundedSeq(Texts, MaxLines)]
    /\ seen = content
    /\ edits = 0 /\ last = {}

\* A user or a shell replaces, removes or inserts a line.
EditFile(f) ==
    /\ last = {} /\ edits < MaxEdits
    /\ \/ \E i \in DOMAIN content[f] :
             \/ content' = [content EXCEPT ![f] = RemoveAt(@, i)]
             \/ \E t \in Texts : content' = [content EXCEPT ![f][i] = t]
       \/ \E i \in 1..Len(content[f]) + 1, t \in Texts :
             content' = [content EXCEPT ![f] = InsertAt(@, i, t)]
    /\ edits' = edits + 1
    /\ UNCHANGED <<seen, last>>

\* The agent describes changes of the files fs, and the daemon applies the
\* description.
ApplyPatch(fs, context, git) ==
    /\ last = {}
    /\ \E scripts \in [fs -> UNION {Scripts(seen[f]) : f \in fs}] :
          /\ \A f \in fs : Old(scripts[f]) = seen[f]
          /\ LET applied == Apply(content, Diff(scripts, context, git))
             IN  /\ content' = applied.content
                 /\ last' = {[scripts |-> scripts, context |-> context, before |-> content,
                              ok |-> applied.ok]}
    /\ UNCHANGED <<seen, edits>>

DiffNext ==
    \/ \E f \in Paths : EditFile(f)
    \/ \E fs \in (SUBSET Paths) \ {{}}, context \in Contexts, git \in BOOLEAN :
          ApplyPatch(fs, context, git)

DiffSpec == DiffInit /\ [][DiffNext]_diffVars

-----------------------------------------------------------------------------
\* Some unchanged lines are shown, and no file is empty before or after.
IsOrdinary(d) ==
    d.context > 0 /\ \A f \in DOMAIN d.scripts : <<>> \notin {Old(d.scripts[f]), New(d.scripts[f])}

OfOneFile(d) == IsOrdinary(d) /\ \E f \in Paths : DOMAIN d.scripts = {f}

\* The script with the hidden lines as the file has them by now.
Rebased(script, context, before) ==
    [i \in DOMAIN script |->
        IF i \in Shown(script, context) THEN script[i]
        ELSE Line(" ", before[Len(Old(SubSeq(script, 1, i)))])]

Agrees(script, context, before) ==
    \A i \in Shown(script, context) : script[i].prefix # "+" =>
        before[Len(Old(SubSeq(script, 1, i)))] = script[i].text

\* When the file still has as many lines as the agent saw, a diff of one file
\* is applied exactly when every line that it shows is unchanged, and then
\* the lines that it does not show are the user's: several hunks, the offset
\* they leave for the next and edits between them included (applyHunks,
\* patch.go:186-225).
MergesOrRefuses ==
    \A d \in last : OfOneFile(d) =>
        \A f \in DOMAIN d.scripts :
            LET script == d.scripts[f]  before == d.before[f]
            IN  Len(before) = Len(seen[f]) =>
                  IF Agrees(script, d.context, before)
                  THEN d.ok /\ content[f] = New(Rebased(script, d.context, before))
                  ELSE ~d.ok

Reversed(script) ==
    [i \in DOMAIN script |->
        Line(CASE script[i].prefix = "+" -> "-" [] script[i].prefix = "-" -> "+"
               [] OTHER -> " ", script[i].text)]

\* Whatever the file held when a diff of one file was accepted, lines added
\* or removed above it included, the inverse diff is accepted by the result
\* and gives the file back: nothing of the user's was overwritten unseen
\* (patch.go:203-215, 223).
AcceptedIsReversible ==
    \A d \in last : OfOneFile(d) /\ d.ok =>
        LET inverse == [f \in DOMAIN d.scripts |-> Reversed(d.scripts[f])]
        IN  Apply(content, Diff(inverse, d.context, FALSE)) = [ok |-> TRUE, content |-> d.before]

\* As the protocol has it, "Apply a unified diff patch to the workspace"
\* (planning_docs/krellinv0architecture.md:536): a diff of files that nobody
\* has touched since is applied and gives what it says, however many files it
\* is of. The headers of the second file become lines of the first file's
\* last hunk (patch.go:132).
FreshIsApplied ==
    \A d \in last : IsOrdinary(d) /\ d.before = seen =>
        d.ok /\ \A f \in DOMAIN d.scripts : content[f] = New(d.scripts[f])
=============================================================================
