-------------------------------- MODULE Wire --------------------------------
(***************************************************************************)
(* How a listener cuts its input: physical lines into messages             *)
(* (readMessage in nodes/node.go), and a message into the stages of a pipe *)
(* (splitPipe in message/pipe.go).  A text is a sequence of characters,    *)
(* each a string of length one.  Scanners are functions of the number of   *)
(* characters (or lines) read so far.                                      *)
(***************************************************************************)
EXTENDS Naturals, Sequences, SequencesExt

NL == "\n"
Space == " "

-----------------------------------------------------------------------------
(* Texts.                                                                  *)

StartsAt(s, i, prefix) ==
    /\ i + Len(prefix) - 1 <= Len(s)
    /\ SubSeq(s, i, i + Len(prefix) - 1) = prefix
Has(s, part) == \E i \in 1 .. Len(s) : StartsAt(s, i, part)

Opening == <<"<", "<">>
Closing == <<">", ">">>

\* strings.TrimSpace: from the first to the last character that is no space.
Blank == {Space, NL, "\t", "\r"}
Solid(s) == {i \in 1 .. Len(s) : s[i] \notin Blank}
Least(S) == CHOOSE i \in S : \A j \in S : i <= j
Greatest(S) == CHOOSE i \in S : \A j \in S : i >= j

\* The part of t that lies beside TrimSpace(s).
TrimBeside(s, t) ==
    IF Solid(s) = {} THEN <<>> ELSE SubSeq(t, Least(Solid(s)), Greatest(Solid(s)))
TrimSpace(s) == TrimBeside(s, s)

\* The lines that have ended, and the one that has begun, which ReadString
\* does not return.
NoLine == [lines |-> <<>>, line |-> <<>>]
WithoutReturn(line) ==
    IF line # <<>> /\ Last(line) = "\r" THEN Front(line) ELSE line
ReadString(r, ch) ==
    IF ch = NL
    THEN [lines |-> Append(r.lines, WithoutReturn(r.line)), line |-> <<>>]
    ELSE [r EXCEPT !.line = Append(@, ch)]
Lines(s) ==
    LET after[i \in 0 .. Len(s)] ==
            IF i = 0 THEN NoLine ELSE ReadString(after[i - 1], s[i])
    IN  after[Len(s)].lines

-----------------------------------------------------------------------------
(* readMessage, called again for each message.                             *)

ClosesBlock(line) == line = Closing \/ StartsAt(line, 1, Closing \o <<Space>>)

\* The scanner after a line: `text' is what `line' holds in the code, and
\* `content' says of each of its characters whether it is inside a block.
NoText == [open |-> FALSE, text |-> <<>>, content |-> <<>>, done |-> <<>>]
Takes(r, line, inside) ==
    [r EXCEPT !.text = @ \o line,
              !.content = @ \o [i \in 1 .. Len(line) |-> inside]]
Complete(r) ==
    IF Solid(r.text) = {} THEN [NoText EXCEPT !.done = r.done]
    ELSE [NoText EXCEPT !.done =
             Append(r.done, [text |-> TrimSpace(r.text),
                             content |-> TrimBeside(r.text, r.content)])]

ReadLine(r, line) ==
    IF ~ r.open
    THEN IF Has(line, Opening)
         THEN [Takes(r, Append(line, NL), FALSE) EXCEPT !.open = TRUE]
         ELSE Complete(Takes(r, line, FALSE))
    ELSE IF ~ ClosesBlock(line) THEN Takes(r, Append(line, NL), TRUE)
    ELSE IF Has(line, Opening) THEN Takes(r, line, FALSE)
    ELSE Complete(Takes(r, line, FALSE))

\* The messages in a text.
Messages(s) ==
    LET lines == Lines(s)
        after[k \in 0 .. Len(lines)] ==
            IF k = 0 THEN NoText ELSE ReadLine(after[k - 1], lines[k])
    IN  after[Len(lines)].done

-----------------------------------------------------------------------------
(* splitPipe.  `of' tells the part that each character belongs to; the "|"  *)
(* that end a part belong to none (0).                                     *)

Quoted(p) == p.single \/ p.double
Flat(p) == ~ Quoted(p) /\ p.bracket = 0 /\ p.brace = 0
Less(n) == IF n > 0 THEN n - 1 ELSE 0

Keep(p, ch) == [p EXCEPT !.of = Append(@, Len(p.parts) + 1), !.buf = Append(@, ch)]

\* (A slip: a block ends with any ">>".)
BlockEndsAnywhere(p, raw, i) == StartsAt(raw, i, Closing)

\* A block ends with ">>" at the start of a line.
BlockEnds(p, raw, i) == p.lineStart /\ StartsAt(raw, i, Closing)

InBlock(p, raw, i) ==
    LET q == Keep(p, raw[i])
    IN  IF p.skip THEN [q EXCEPT !.skip = FALSE, !.block = FALSE,
                                 !.lineStart = FALSE]
        ELSE IF BlockEnds(p, raw, i) THEN [q EXCEPT !.skip = TRUE]
        ELSE [q EXCEPT !.lineStart = (raw[i] = NL)]

\* (A slip: brackets do not count.)
SeparatesInBrackets(p, ch) == ch = "|" /\ ~ Quoted(p)
Separates(p, ch) == ch = "|" /\ Flat(p)

Character(p, ch) ==
    IF Separates(p, ch)
    THEN [p EXCEPT !.of = Append(@, 0), !.buf = <<>>,
                   !.parts = Append(@, TrimSpace(p.buf))]
    ELSE LET q == Keep(p, ch)
         IN  CASE ch = "'" /\ ~ p.double -> [q EXCEPT !.single = ~ @]
               [] ch = "\"" /\ ~ p.single -> [q EXCEPT !.double = ~ @]
               [] ch = "[" /\ ~ Quoted(p) -> [q EXCEPT !.bracket = @ + 1]
               [] ch = "]" /\ ~ Quoted(p) -> [q EXCEPT !.bracket = Less(@)]
               [] ch = "{" /\ ~ Quoted(p) -> [q EXCEPT !.brace = @ + 1]
               [] ch = "}" /\ ~ Quoted(p) -> [q EXCEPT !.brace = Less(@)]
               [] OTHER -> q

\* "=<<" outside quotes and brackets opens a block, looked for at the first "<".
BlockOpens(p, raw, i) == Flat(p) /\ i > 1 /\ StartsAt(raw, i - 1, <<"=">> \o Opening)

Split(p, raw, i) ==
    LET ch == raw[i]
    IN  IF p.block THEN InBlock(p, raw, i)
        ELSE IF p.escaped
        THEN [Keep(p, ch) EXCEPT !.escaped = FALSE, !.lineStart = (ch = NL)]
        ELSE IF ch = "\\" /\ p.double
        THEN [Keep(p, ch) EXCEPT !.escaped = TRUE, !.lineStart = FALSE]
        ELSE LET q == Character(p, ch)
             IN  [q EXCEPT !.block = BlockOpens(q, raw, i),
                           !.lineStart = (ch = NL)]

NoPart == [of |-> <<>>, parts |-> <<>>, buf |-> <<>>,
           single |-> FALSE, double |-> FALSE, bracket |-> 0, brace |-> 0,
           escaped |-> FALSE, block |-> FALSE, skip |-> FALSE, lineStart |-> TRUE]
Splitting(raw) ==
    LET after[i \in 0 .. Len(raw)] ==
            IF i = 0 THEN NoPart ELSE Split(after[i - 1], raw, i)
    IN  after[Len(raw)]

PartOf(raw) == Splitting(raw).of

\* The parts; a last one without a character is not counted.
SplitPipe(raw) ==
    LET p == Splitting(raw)
    IN  IF p.buf = <<>> THEN p.parts ELSE Append(p.parts, TrimSpace(p.buf))
=============================================================================
