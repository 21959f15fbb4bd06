----------------------------- MODULE LedgerFile -----------------------------
(***************************************************************************)
(* ExecGraph with the text of ledger.jsonl: the ground for keeping only    *)
(* what the text folds to (`replay') and whether it ends in half a line    *)
(* (`torn').  Every step is a step of ExecGraph, and says besides what it  *)
(* adds to the text; ReplayIsFold says that reading the text back gives    *)
(* what ExecGraph keeps.                                                   *)
(*                                                                         *)
(* The text is a sequence of three kinds of chunks: the JSON of an event,  *)
(* a piece of one that does not parse, and the newline.                    *)
(***************************************************************************)
EXTENDS ExecGraph, SequencesExt

VARIABLE text

Json(e) == <<"json", e>>
Half == <<"half">>
Newline == <<"newline">>

\* Mutant: whatever ends a line is parsed, half a line before it or not.
FoldLineTail(graph, line) ==
    IF line # <<>> /\ Last(line) # Half THEN ApplyEvent(graph, Last(line)[2]) ELSE graph

\* A line parses when it is one event's JSON and nothing else; an empty line
\* is skipped, and so is one that does not parse.
FoldLine(graph, line) ==
    IF Len(line) = 1 /\ line[1] # Half THEN ApplyEvent(graph, line[1][2]) ELSE graph

\* Mutant: one bad line fails the whole read.
FoldAllOrNothing(chunks) ==
    IF \E i \in DOMAIN chunks : chunks[i] = Half THEN EmptyGraph
    ELSE FoldLeft(LAMBDA graph, c : IF c = Newline THEN graph ELSE ApplyEvent(graph, c[2]),
                  EmptyGraph, chunks)

\* A newline ends the line that was being read.
ReadChunk(read, chunk) ==
    IF chunk = Newline
    THEN [graph |-> FoldLine(read.graph, read.line), line |-> <<>>]
    ELSE [graph |-> read.graph, line |-> Append(read.line, chunk)]

\* The graph and the line begun after each prefix of the text.
Reading(chunks) ==
    LET read[i \in 0 .. Len(chunks)] ==
          IF i = 0 THEN [graph |-> EmptyGraph, line |-> <<>>]
          ELSE ReadChunk(read[i - 1], chunks[i])
    IN  read

\* foldEvents(readLedgerEvents()): the lines are what newlines separate, the
\* text after the last newline being a line too.
Fold(chunks) ==
    LET end == Reading(chunks)[Len(chunks)] IN FoldLine(end.graph, end.line)

\* There is no ledger yet.
TextInit == Init /\ replay = EmptyGraph /\ text = <<>>

\* The line of p's event is appended ...
WriteLine(p) == AppendLine(p) /\ text' = text \o <<Json(proc[p].event), Newline>>

\* ... or not begun, or cut short before its JSON is complete.
WriteHalf(p) ==
    /\ AppendFails(p)
    /\ \/ torn' = torn /\ UNCHANGED text
       \/ torn' /\ text' = Append(text, Half)

\* Everything else leaves the text alone.
WriteNothing(p) ==
    /\ UNCHANGED text
    /\ \/ Begin(p)
       \/ RecordMoveEvidence(p) \/ ReadBase(p)
       \/ TruncateSnapshot(p) \/ WriteSnapshot(p) \/ WriteFails(p)
       \/ Crash(p)

TextNext == \E p \in Proc : WriteLine(p) \/ WriteHalf(p) \/ WriteNothing(p)

TextSpec == TextInit /\ [][TextNext]_<<vars, text>>

-----------------------------------------------------------------------------

\* What ExecGraph keeps is what reading the ledger back gives: an appended line
\* is one event, and one that runs into half a line is none (readLedgerEvents
\* skips a line that does not parse, it does not stop there).
ReplayIsFold ==
    /\ Fold(text) = replay
    /\ torn = (text # <<>> /\ Last(text) # Newline)

\* What was read back once is never unlearned: goals, tasks and evidence only
\* accumulate, whatever half lines lie in between.
NothingForgotten == [][Within(Fold(text), Fold(text'))]_<<vars, text>>
=============================================================================
