----------------------------- MODULE ToolViews -----------------------------
(***************************************************************************)
(* What one tool call looks like once its fold is open (agent-message.tsx, *)
(* assistant-ui/diff-viewer.tsx): the title, which counts the lines of a   *)
(* file change from its text, and the body, which for a file change is a   *)
(* diff that parses the patch or compares the two contents.  The two are   *)
(* computed apart, and a body that finds nothing to show in the call says  *)
(* that it is still to come.                                               *)
(*                                                                         *)
(* One step is one change of the call, which Eve's reducer makes of the    *)
(* events (external), with its rendering.  Who may open the fold is        *)
(* Disclosure's.  parse-diff and jsdiff are external: the first gives the  *)
(* hunks that the patch has, the second some alignment of the contents.    *)
(* A file is a sequence of lines, each with its newline but perhaps the    *)
(* last; a patch is of files that end with one.                            *)
(***************************************************************************)
EXTENDS Naturals, Sequences, FiniteSets, SequencesExt

CONSTANTS
  LineTexts,   \* what a line can be
  Dashed,        \* of them, those that begin with --
  Plussed,       \* of them, those that begin with ++
  MaxSize        \* bound: lines of the files of a call, old and new together

ASSUME ToolViewsAssumption ==
  /\ Dashed \cup Plussed \subseteq LineTexts /\ Dashed \cap Plussed = {}
  /\ MaxSize \in Nat

VARIABLES
  toolCall,   \* the part: tool, state, input, output
  fileEdits       \* history: the files that its input changes, each with the alignment
              \* that its patch, or jsdiff, has

toolViewsVars == <<toolCall, fileEdits>>

\* A tool stands for the names that are treated alike.
MutationTools == {"apply_patch", "edit_file"}
ArgumentTools == {"bash", "read_file", "todo", "web_fetch", "publish_preview", "publish_artifact",
                  "record_checkpoint", "other"}
CallStates == {"input-streaming", "input-available", "output-available", "output-denied", "output-error"}
ChangeTypes == {"add", "del", "normal"}
DevNull == "/dev/null"

-----------------------------------------------------------------------------
(* Files and their alignments (external).                                  *)

\* The lines with their newlines: what a diff compares.
LinesOf(c) == [i \in DOMAIN c.lines |-> <<c.lines[i], i < Len(c.lines) \/ c.eol>>]
OldAt(script, i) == Cardinality({k \in 1..i : script[k] # "add"})
NewAt(script, i) == Cardinality({k \in 1..i : script[k] # "del"})
Aligns(script, old, new) ==
  LET n == Len(script) IN
  /\ OldAt(script, n) = Len(old.lines) /\ NewAt(script, n) = Len(new.lines)
  /\ \A i \in 1..n : script[i] = "normal" =>
       LinesOf(old)[OldAt(script, i)] = LinesOf(new)[NewAt(script, i)]

FilesOf(n) ==
  {[lines |-> s, eol |-> e] : s \in [1..n -> LineTexts], e \in (IF n = 0 THEN {FALSE} ELSE BOOLEAN)}
EditsOf(path, n, m) ==
  {[path |-> path, old |-> o, new |-> w, script |-> s] :
     o \in FilesOf(n), w \in FilesOf(m),
     s \in {t \in UNION {[1..k -> ChangeTypes] : k \in (IF n > m THEN n ELSE m)..(n + m)} :
              OldAt(t, Len(t)) = n /\ NewAt(t, Len(t)) = m}}
Sizes == {<<n, m>> \in (0..MaxSize) \X (0..MaxSize) : n + m <= MaxSize}
Edits(path, size) ==
  {e \in UNION {EditsOf(path, nm[1], nm[2]) : nm \in {p \in Sizes : p[1] + p[2] = size}} :
     e.old # e.new /\ Aligns(e.script, e.old, e.new)}

\* A unified diff: the hunk of script lines lo..hi, numbered as diff does.
HunkOf(e, lo, hi) ==
  LET first(at(_)) == IF at(hi) > at(lo - 1) THEN at(lo - 1) + 1 ELSE at(lo - 1)
      old(i) == OldAt(e.script, i)
      new(i) == NewAt(e.script, i)
  IN [oldStart |-> first(old), newStart |-> first(new),
      changes |-> [i \in 1..(hi + 1 - lo) |->
        LET k == lo + i - 1 IN
        [type |-> e.script[k],
         content |-> IF e.script[k] = "add" THEN e.new.lines[new(k)] ELSE e.old.lines[old(k)]]]]

\* Every change is in a hunk, and hunks are apart.
Hunkings(e) ==
  LET n == Len(e.script)
      covers(cut) == \A k \in 1..n : e.script[k] # "normal" => \E c \in cut : k \in c[1]..c[2]
      spans == {c \in (1..n) \X (1..n) : c[1] <= c[2]}
  IN {<<HunkOf(e, c[1], c[2])>> : c \in {c \in spans : covers({c})}}
     \cup {<<HunkOf(e, p[1][1], p[1][2]), HunkOf(e, p[2][1], p[2][2])>> :
             p \in {p \in spans \X spans : p[1][2] + 1 < p[2][1] /\ covers({p[1], p[2]})}}

\* What a patch says of a file; one that is created or deleted is /dev/null on its
\* other side.
PatchedFile(e, hunks) ==
  [from |-> IF e.old.lines = <<>> THEN DevNull ELSE e.path,
   to |-> IF e.new.lines = <<>> THEN DevNull ELSE e.path, chunks |-> hunks]

-----------------------------------------------------------------------------
(* The call.                                                               *)

OutputFields == {"stdout", "stderr", "exitCode", "content", "url", "items", "summary"}
NoInput == [patch |-> <<>>, content |-> <<>>, told |-> FALSE]
NoOutput == [given |-> FALSE, text |-> FALSE, has |-> {}, patch |-> <<>>]

\* patch: the files of a unified diff, <<>> for anything else; content: the two
\* contents of a change; told: the other tools' argument.  An output is a text, or a
\* record with fields that are not blank.
ToolViewsTypeOK ==
  /\ toolCall.tool \in MutationTools \cup ArgumentTools /\ toolCall.state \in CallStates
  /\ toolCall.input.told \in BOOLEAN /\ Len(toolCall.input.content) <= 1
  /\ {toolCall.input.patch, toolCall.output.patch} \subseteq Seq([from: {"a", "b", DevNull},
        to: {"a", "b", DevNull}, chunks: Seq([oldStart: Nat, newStart: Nat,
          changes: Seq([type: ChangeTypes, content: LineTexts])])])
  /\ toolCall.output.has \subseteq OutputFields /\ {toolCall.output.given, toolCall.output.text} \subseteq BOOLEAN
  /\ \A i \in DOMAIN fileEdits : Aligns(fileEdits[i].script, fileEdits[i].old, fileEdits[i].new)

ToolViewsInit ==
  /\ toolCall \in [tool: MutationTools \cup ArgumentTools, state: {"input-streaming"},
                   input: {NoInput}, output: {NoOutput}]
  /\ fileEdits = <<>>

IsToolTerminal(state) == state \in {"output-available", "output-denied", "output-error"}

\* toolPatch: the input's patch before the output's.
ToolPatch(call) ==
  IF call.tool # "apply_patch" THEN <<>>
  ELSE IF call.input.patch # <<>> THEN call.input.patch ELSE call.output.patch

\* toolFileChange: firstString takes no empty text, so that a change to nothing is none.
ToolFileChange(call) == SelectSeq(call.input.content, LAMBDA c : c.new.lines # <<>>)

-----------------------------------------------------------------------------
(* The title of a file change.                                             *)

ChangesOf(patch) ==
  FlattenSeq([i \in DOMAIN patch |->
    FlattenSeq([j \in DOMAIN patch[i].chunks |-> patch[i].chunks[j].changes])])

\* A changed line that begins like a header of the patch is taken for one.
PatchLineStats(patch) ==
  LET counted(type, unlike) ==
        Len(SelectSeq(ChangesOf(patch), LAMBDA c : c.type = type /\ c.content \notin unlike))
  IN [additions |-> counted("add", Plussed), deletions |-> counted("del", Dashed)]

CountContentLines(file) == Len(file.lines)

FileOperation(call) ==
  LET patch == ToolPatch(call)
      change == ToolFileChange(call)
      patched(side) == \E i \in DOMAIN patch : patch[i][side] = DevNull
  IN IF patched("from") \/ (change # <<>> /\ change[1].old.lines = <<>>) THEN "create"
     ELSE IF patched("to") THEN "delete" ELSE "edit"

\* The path is the first file's, none when that one is deleted.
FileMutationSummary(call) ==
  LET patch == ToolPatch(call)
      change == ToolFileChange(call)
      stats == IF patch # <<>> THEN PatchLineStats(patch)
               ELSE IF change # <<>>
               THEN [additions |-> CountContentLines(change[1].new), deletions |-> CountContentLines(change[1].old)]
               ELSE [additions |-> 0, deletions |-> 0]
  IN [additions |-> stats.additions, deletions |-> stats.deletions, operation |-> FileOperation(call),
      path |-> IF change # <<>> THEN change[1].path ELSE IF patch # <<>> THEN patch[1].to ELSE DevNull]

-----------------------------------------------------------------------------
(* The diff.  A row has its line's number in the old and the new file, 0   *)
(* for none.                                                               *)

DiffRow(change, old, new) ==
  [type |-> change.type, content |-> change.content,
   old |-> IF change.type = "add" THEN 0 ELSE old, new |-> IF change.type = "del" THEN 0 ELSE new]

\* The loop over the changes of a chunk, from the two first numbers.
Numbered(changes, oldStart, newStart) ==
  LET step(acc, change) ==
        [rows |-> Append(acc.rows, DiffRow(change, acc.old, acc.new)),
         old |-> IF change.type = "add" THEN acc.old ELSE acc.old + 1,
         new |-> IF change.type = "del" THEN acc.new ELSE acc.new + 1]
  IN FoldLeft(step, [rows |-> <<>>, old |-> oldStart, new |-> newStart], changes).rows

\* Mutant: the numbers run on from chunk to chunk.
ParseRunsOn(patch) ==
  [i \in DOMAIN patch |->
    [from |-> patch[i].from, to |-> patch[i].to,
     rows |-> Numbered(ChangesOf(<<patch[i]>>), patch[i].chunks[1].oldStart, patch[i].chunks[1].newStart)]]

ParsePatch(patch) ==
  [i \in DOMAIN patch |->
    [from |-> patch[i].from, to |-> patch[i].to,
     rows |-> FlattenSeq([j \in DOMAIN patch[i].chunks |->
       LET chunk == patch[i].chunks[j] IN Numbered(chunk.changes, chunk.oldStart, chunk.newStart)])]]

ComputeDiff(change, script) ==
  LET changed(i) == [type |-> script[i],
                     content |-> IF script[i] = "add" THEN change.new.lines[NewAt(script, i)]
                                 ELSE change.old.lines[OldAt(script, i)]]
  IN <<[from |-> change.path, to |-> change.path,
        rows |-> Numbered([i \in DOMAIN script |-> changed(i)], 1, 1)]>>

Empty == [type |-> "empty"]

\* pairLinesForSplit: the deletions of a run stand beside the additions that follow it;
\* free is the first pair whose right side an addition may take.
PairLinesForSplit(rows) ==
  LET starts(i) == rows[i].type = "del" /\ (i = 1 \/ rows[i - 1].type # "del")
      step(acc, i) ==
        LET row == rows[i]
            next == Len(acc.pairs) + 1
        IN CASE row.type = "normal" ->
                  [pairs |-> Append(acc.pairs, [left |-> row, right |-> row]), free |-> next + 1]
             [] row.type = "del" ->
                  [pairs |-> Append(acc.pairs, [left |-> row, right |-> Empty]),
                   free |-> IF starts(i) THEN next ELSE acc.free]
             [] row.type = "add" /\ acc.free < next ->
                  [pairs |-> [acc.pairs EXCEPT ![acc.free].right = row], free |-> acc.free + 1]
             [] OTHER -> [pairs |-> Append(acc.pairs, [left |-> Empty, right |-> row]), free |-> next + 1]
  IN FoldLeft(step, [pairs |-> <<>>, free |-> 1], [i \in DOMAIN rows |-> i]).pairs

\* DiffViewer: the files with their rows; the header counts the rows.
DiffViewer(call) ==
  IF ToolPatch(call) # <<>> THEN ParsePatch(ToolPatch(call))
  ELSE ComputeDiff(ToolFileChange(call)[1], fileEdits[1].script)
RowsOf(file, type) == SelectSeq(file.rows, LAMBDA r : r.type = type)

-----------------------------------------------------------------------------
(* The body.                                                               *)

\* shellOutput.
ShellOutput(output) == IF output.text THEN output.has ELSE output.has \cap {"stdout", "stderr"}
ShellToolContent(call) ==
  LET running == ~IsToolTerminal(call.state)
      result == ShellOutput(call.output)
  IN result
     \cup (IF ~running /\ ~call.output.text THEN call.output.has \cap {"exitCode"} ELSE {})
     \cup (IF result = {} /\ ~running /\ call.output.given THEN {"no output"} ELSE {})

\* readableOutput: a text, or the first field there is, or else the whole record.
ReadableOutput(output) ==
  LET named == <<"stdout", "content", "url">>
      found == SelectSeq(named, LAMBDA f : f \in output.has)
  IN IF output.text \/ found = <<>> THEN output.has ELSE {found[1]}

FirstUrl(output) == output.has \cap {"url"}

\* What the body shows of a call whose tool changes no file.
KnownContent(call) ==
  LET argument == IF call.input.told THEN {"argument"} ELSE {}
      output == call.output
      linked == FirstUrl(output)
  IN CASE call.tool = "bash" -> argument \cup ShellToolContent(call)
       [] call.tool = "read_file" -> argument \cup ReadableOutput(output)
       [] call.tool = "todo" ->
            IF call.input.told THEN argument
            ELSE IF "items" \in output.has THEN {"items"} ELSE {"to come"}
       [] call.tool = "web_fetch" ->
            (IF linked # {} /\ ~output.text THEN linked ELSE argument)
            \cup (IF output.text THEN {} ELSE output.has \cap {"content"})
       [] call.tool = "publish_preview" ->
            IF linked # {} THEN linked
            ELSE IF call.input.told THEN argument ELSE ReadableOutput(output)
       [] call.tool = "publish_artifact" ->
            IF linked # {} THEN linked ELSE IF call.input.told THEN argument ELSE {"to come"}
       [] call.tool = "record_checkpoint" ->
            IF output.given /\ ~output.text THEN output.has \cap {"summary"} ELSE argument
       [] OTHER -> argument \cup (IF output.given THEN output.has ELSE {})

KnownToolContent(call) ==
  IF call.tool \notin MutationTools
  THEN [view |-> "known", files |-> <<>>, shows |-> KnownContent(call)]
  ELSE IF ToolPatch(call) # <<>> \/ ToolFileChange(call) # <<>>
  THEN [view |-> "diff", files |-> DiffViewer(call), shows |-> {}]
  ELSE [view |-> "receiving", files |-> <<>>, shows |-> {"to come"}]

-----------------------------------------------------------------------------
(* The call changes (external).                                            *)

Becomes(state, input, output) ==
  toolCall' = [toolCall EXCEPT !.state = state, !.input = input, !.output = output]

\* The patch of some files, with any hunks that hold their changes.
PatchOf(es, cut) == [i \in DOMAIN es |-> PatchedFile(es[i], cut[i])]
Whole(file) == file.eol \/ file.lines = <<>>
Patchable(path, size) == {e \in Edits(path, size) : Whole(e.old) /\ Whole(e.new)}
PatchedSets ==
  UNION {{<<e>> : e \in Patchable("a", n)} : n \in 1..MaxSize}
  \cup UNION {{<<e, f>> : e \in Patchable("a", n[1]), f \in Patchable("b", n[2])} :
                n \in {p \in (1..MaxSize) \X (1..MaxSize) : p[1] + p[2] <= MaxSize}}
Cuts(es) == {c \in [DOMAIN es -> UNION {Hunkings(es[i]) : i \in DOMAIN es}] :
               \A i \in DOMAIN es : c[i] \in Hunkings(es[i])}

\* The input of a call, complete.  A patch in another format is none.
PatchArrives ==
  /\ toolCall.tool = "apply_patch" /\ toolCall.state = "input-streaming"
  /\ \/ \E es \in PatchedSets : \E cut \in Cuts(es) :
          /\ Becomes("input-available", [NoInput EXCEPT !.patch = PatchOf(es, cut)], NoOutput)
          /\ fileEdits' = es
     \/ Becomes("input-available", [NoInput EXCEPT !.told = TRUE], NoOutput) /\ UNCHANGED fileEdits
ContentArrives ==
  /\ toolCall.tool = "edit_file" /\ toolCall.state = "input-streaming"
  /\ \E e \in UNION {Edits("a", n) : n \in 1..MaxSize} :
       /\ Becomes("input-available",
                  [NoInput EXCEPT !.content = <<[old |-> e.old, new |-> e.new, path |-> e.path]>>], NoOutput)
       /\ fileEdits' = <<e>>
ArgumentArrives(told) ==
  /\ toolCall.tool \in ArgumentTools /\ toolCall.state = "input-streaming"
  /\ Becomes("input-available", [NoInput EXCEPT !.told = told], NoOutput) /\ UNCHANGED fileEdits

\* What a tool returns: agent/tools; bash, read_file and todo are Eve's; another returns
\* anything.
Returns(tool) ==
  CASE tool = "bash" -> {[text |-> FALSE, has |-> {"exitCode"} \cup h] : h \in SUBSET {"stdout", "stderr"}}
    [] tool = "web_fetch" -> {[text |-> FALSE, has |-> {"url"} \cup h] : h \in SUBSET {"content"}}
    [] tool \in {"publish_preview", "publish_artifact"} -> {[text |-> FALSE, has |-> {"url"}]}
    [] tool = "record_checkpoint" -> {[text |-> FALSE, has |-> {"summary"}]}
    [] tool = "todo" -> {[text |-> FALSE, has |-> {"items"}]}
    [] tool = "other" -> [text: BOOLEAN, has: {{}, {"content"}}] \cup [text: {FALSE}, has: SUBSET OutputFields]
    [] OTHER -> [text: BOOLEAN, has: {{}, {"content"}}]

\* The result: for a patch whose input had none to read, perhaps the patch.
ResultArrives(result) ==
  /\ toolCall.state = "input-available"
  /\ Becomes("output-available", toolCall.input,
             [NoOutput EXCEPT !.given = TRUE, !.text = result.text, !.has = result.has])
  /\ UNCHANGED fileEdits
PatchIsReturned ==
  /\ toolCall.tool = "apply_patch" /\ toolCall.state = "input-available" /\ fileEdits = <<>>
  /\ \E e \in Patchable("a", 2) : \E hunks \in Hunkings(e) :
       /\ Becomes("output-available", toolCall.input,
                  [NoOutput EXCEPT !.given = TRUE, !.patch = <<PatchedFile(e, hunks)>>])
       /\ fileEdits' = <<e>>
CallFails(state) ==
  /\ toolCall.state = "input-available"
  /\ Becomes(state, toolCall.input, NoOutput) /\ UNCHANGED fileEdits

ToolViewsNext ==
  \/ PatchArrives \/ ContentArrives \/ PatchIsReturned
  \/ \E told \in BOOLEAN : ArgumentArrives(told)
  \/ \E result \in Returns(toolCall.tool) : ResultArrives(result)
  \/ \E state \in {"output-denied", "output-error"} : CallFails(state)

ToolViewsSpec == ToolViewsInit /\ [][ToolViewsNext]_toolViewsVars

-----------------------------------------------------------------------------
(* Properties.                                                             *)

\* The lines of a file whose numbers no row has.
Unshown(file, numbers) ==
  LET hidden == SelectSeq([i \in DOMAIN file.lines |-> i], LAMBDA i : i \notin numbers)
  IN [i \in DOMAIN hidden |-> LinesOf(file)[hidden[i]]]

\* Each numbered row is that line of the file, in order, and the lines that no row
\* shows are the same on both sides.
ShowsTheFiles(rows, e) ==
  LET olds == SelectSeq(rows, LAMBDA r : r.type # "add")
      news == SelectSeq(rows, LAMBDA r : r.type # "del")
  IN /\ \A i \in DOMAIN olds : /\ olds[i].old \in DOMAIN e.old.lines
                               /\ olds[i].content = e.old.lines[olds[i].old]
                               /\ i > 1 => olds[i - 1].old < olds[i].old
     /\ \A i \in DOMAIN news : /\ news[i].new \in DOMAIN e.new.lines
                               /\ news[i].content = e.new.lines[news[i].new]
                               /\ i > 1 => news[i - 1].new < news[i].new
     /\ Unshown(e.old, {olds[i].old : i \in DOMAIN olds}) = Unshown(e.new, {news[i].new : i \in DOMAIN news})

\* The split view has the same rows in the same order on each side, the two sides of an
\* unchanged line are one row, and no deletion is left alone above an addition.
PairsTheRows(rows, pairs) ==
  LET column(side) == SelectSeq([i \in DOMAIN pairs |-> pairs[i][side]], LAMBDA r : r # Empty)
  IN /\ column("left") = SelectSeq(rows, LAMBDA r : r.type # "add")
     /\ column("right") = SelectSeq(rows, LAMBDA r : r.type # "del")
     /\ \A i \in DOMAIN pairs :
          /\ "normal" \in {pairs[i].left.type, pairs[i].right.type} => pairs[i].left = pairs[i].right
          /\ i > 1 /\ pairs[i - 1].right = Empty => pairs[i].left # Empty

\* The title's counts are those of the diff below it, but for changed lines that look
\* like a header of the patch; of two contents, it counts unchanged lines on each side.
TitleCounts(call, files) ==
  LET title == FileMutationSummary(call)
      rows == FlattenSeq([i \in DOMAIN files |-> files[i].rows])
      count(types, unlike) == Len(SelectSeq(rows, LAMBDA r : r.type \in types /\ r.content \notin unlike))
  IN IF ToolPatch(call) # <<>>
     THEN title.additions = count({"add"}, Plussed) /\ title.deletions = count({"del"}, Dashed)
     ELSE title.additions = count({"add", "normal"}, {}) /\ title.deletions = count({"del", "normal"}, {})

\* It says whether a file is new or gone, and names the first.
TitleSays(title) ==
  LET emptied(side) == \E i \in DOMAIN fileEdits : fileEdits[i][side].lines = <<>> IN
  /\ title.operation = IF emptied("old") THEN "create" ELSE IF emptied("new") THEN "delete" ELSE "edit"
  /\ title.path = IF fileEdits[1].new.lines = <<>> THEN DevNull ELSE fileEdits[1].path

\* What the user is shown of a tool call is what it did (agent-message.tsx:391, 564,
\* 736; diff-viewer.tsx:33).  A file change is shown as soon as the call has it, unless
\* it leaves nothing of the content it replaces; its rows are the lines of the files
\* under their own numbers, in both views, and its title counts them.  Of what another
\* tool returned something is on screen (for tasks perhaps its input's), and all of what
\* a command wrote.
ToolCallsAreShown ==
  LET body == KnownToolContent(toolCall) IN
  /\ fileEdits # <<>> => (body.view = "diff" <=> toolCall.tool = "apply_patch" \/ fileEdits[1].new.lines # <<>>)
  /\ body.view = "diff" =>
       /\ Len(body.files) = Len(fileEdits) /\ TitleCounts(toolCall, body.files)
       /\ TitleSays(FileMutationSummary(toolCall))
       /\ \A i \in DOMAIN fileEdits :
            /\ ShowsTheFiles(body.files[i].rows, fileEdits[i])
            /\ PairsTheRows(body.files[i].rows, PairLinesForSplit(body.files[i].rows))
  /\ toolCall.tool \in ArgumentTools /\ toolCall.output.has # {} =>
       /\ "to come" \notin body.shows
       /\ toolCall.tool # "todo" => body.shows \cap toolCall.output.has # {}
       /\ toolCall.tool = "bash" => toolCall.output.has \subseteq body.shows
=============================================================================
