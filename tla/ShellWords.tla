------------------------------ MODULE ShellWords ------------------------------
(***************************************************************************)
(* internal/deploy/fsutil.go: how the command of a run-once artifact is    *)
(* split into arguments, and the file put in.                              *)
(*                                                                         *)
(* A command is a sequence of characters, of which the two quotes and the  *)
(* space matter, and "{file}" is taken for one.                            *)
(***************************************************************************)
EXTENDS Naturals, SequencesExt

SQ == "'"
DQ == "\""
SP == " "
Placeholder == "{file}"

\* The words found, the one being read, and the quote that is open.
Reader == [words |-> <<>>, cur |-> <<>>, open |-> "none"]

Flush(r) ==
  [r EXCEPT !.words = IF r.cur = <<>> THEN @ ELSE Append(@, r.cur), !.cur = <<>>]

\* The switch of parseShellCommand.
ReadChar(r, c) ==
  CASE c \in {SQ, DQ} /\ r.open \in {"none", c} ->
         [r EXCEPT !.open = IF @ = c THEN "none" ELSE c]
    [] c = SP /\ r.open = "none" -> Flush(r)
    [] OTHER -> [r EXCEPT !.cur = Append(@, c)]

ReadAll(s) == FoldLeft(ReadChar, Reader, s)

Terminated(s) == ReadAll(s).open = "none"

parseShellCommand(s) == Flush(ReadAll(s)).words

\* strings.ReplaceAll in every word.
PutIn(word, file) ==
  FlattenSeq([i \in DOMAIN word |-> IF word[i] = Placeholder THEN file ELSE <<word[i]>>])

applyTemplate(words, file) == [i \in DOMAIN words |-> PutIn(words[i], file)]

\* Mutant: the file is put in before the command is split.
ArgvSplitLast(s, file) == parseShellCommand(PutIn(s, file))

\* What runOnceStrategy.Apply runs.
Argv(s, file) == applyTemplate(parseShellCommand(s), file)
=============================================================================
