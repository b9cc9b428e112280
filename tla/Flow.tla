-------------------------------- MODULE Flow --------------------------------
(***************************************************************************)
(* The flow a capture is exported as (internal/capture/export.go), and how *)
(* a runner reads it: the words of a selector are escaped to a regular     *)
(* expression and that one is quoted as YAML, so that on replay they mean  *)
(* themselves; a step carries a grade of its selector.  Words are          *)
(* sequences of characters, of which only the special ones are apart.      *)
(***************************************************************************)
EXTENDS Naturals, SequencesExt

Newline == "\n"
Meta == {"\\", ".", "$", "(", "*"}

Each(w, Of(_)) == FlattenSeq([i \in DOMAIN w |-> Of(w[i])])

(* reEscape: a backslash before what a regular expression gives a meaning. *)
Escaped(w) == LET Of(c) == IF c \in Meta THEN <<"\\", c>> ELSE <<c>> IN Each(w, Of)

(* quote: one pass over the characters.  Mutant: a newline stays as it is. *)
QuotedRaw(w) ==
  LET Of(c) == IF c \in {"\\", "\""} THEN <<"\\", c>> ELSE <<c>> IN Each(w, Of)
Quoted(w) ==
  LET Of(c) == IF c \in {"\\", "\""} THEN <<"\\", c>>
               ELSE IF c = Newline THEN <<"\\", "n">> ELSE <<c>>
  IN Each(w, Of)

(* What YAML reads between double quotes: an escape is the character it    *)
(* stands for, and a line broken in between is a space.                    *)
Read(q) ==
  LET from[i \in 1..Len(q) + 2] ==
        IF i > Len(q) THEN <<>>
        ELSE IF q[i] = "\\" /\ i < Len(q)
             THEN <<IF q[i + 1] = "n" THEN Newline ELSE q[i + 1]>> \o from[i + 2]
             ELSE <<IF q[i] = Newline THEN " " ELSE q[i]>> \o from[i + 1]
  IN from[1]

(* The characters a regular expression of literals and dots matches.       *)
AnyChar == "any character"
Char == STRING \ {AnyChar}    \* the characters there are on a screen
Items(p) ==
  LET from[i \in 1..Len(p) + 2] ==
        IF i > Len(p) THEN <<>>
        ELSE IF p[i] = "\\" /\ i < Len(p) THEN <<p[i + 1]>> \o from[i + 2]
             ELSE <<IF p[i] = "." THEN AnyChar ELSE p[i]>> \o from[i + 1]
  IN from[1]

(* What the flow says for the words w of a selector, as the runner has it. *)
Written(w) == Items(Read(Quoted(Escaped(w))))
Means(items, w) ==
  Len(items) = Len(w) /\ \A i \in DOMAIN w : items[i] \in {AnyChar, w[i]}

-----------------------------------------------------------------------------
(* confidence, in the comment over a step.                                 *)
Confidence(s) ==
  IF s.index > 0 THEN "low"
  ELSE IF s.childOf = <<>> /\ s.id # <<>> THEN "high" ELSE "medium"

(* writeStep: what a step types is in the flow, or the name of a parameter *)
(* that the one who replays it gives a value.                              *)
Typed(s) == IF s.secure THEN <<>> ELSE s.text
=============================================================================
