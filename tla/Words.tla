------------------------------- MODULE Words --------------------------------
(***************************************************************************)
(* How a line is read and written: tokenize, unquoteValue and              *)
(* ArrayToStrings of utilities/parse/parse.go, parseBody of spore/meta.go, *)
(* and the ways of writing a value: Stringify of cparser.go, out.Pair and  *)
(* out.Array of utilities/out.  The parser of whole lines is a C library   *)
(* outside this repository; cparser.go says that it took the tokenizer's   *)
(* place, and undoes quotes as the tokenizer's callers did, so the         *)
(* tokenizer stands for it.                                                *)
(***************************************************************************)
EXTENDS Wire

-----------------------------------------------------------------------------
(* tokenize, a character at a time: `in' is the delimiter that is open, or *)
(* "" outside, and `depth' counts the parentheses.                         *)

Gap == {Space, "\t"}
Matching(d) ==
    CASE d = "{" -> "}"
      [] d = "[" -> "]"
      [] d = "(" -> ")"
      [] OTHER -> d
Delimiters == {"'", "\"", "{", "[", "("}

Flush(t) ==
    IF t.buf = <<>> THEN t
    ELSE [t EXCEPT !.tokens = Append(@, t.buf), !.buf = <<>>]
WriteRune(t, ch) == [t EXCEPT !.buf = Append(@, ch)]

\* `last' tells that no character follows: a final backslash escapes nothing.
Token(t, ch, last) ==
    IF t.in = "" /\ ch \in Gap THEN Flush(t)
    ELSE IF t.in = "" /\ ch \in Delimiters
    THEN [WriteRune(t, ch) EXCEPT !.in = ch, !.depth = 1]
    ELSE IF t.escaped THEN [WriteRune(t, ch) EXCEPT !.escaped = FALSE]
    ELSE IF t.in = "\"" /\ ch = "\\" THEN [WriteRune(t, ch) EXCEPT !.escaped = ~ last]
    ELSE IF t.in = "(" /\ ch = "(" THEN [WriteRune(t, ch) EXCEPT !.depth = @ + 1]
    ELSE IF t.in # "" /\ ch = Matching(t.in)
    THEN [WriteRune(t, ch) EXCEPT !.depth = @ - 1,
                              !.in = IF t.depth = 1 THEN "" ELSE @]
    ELSE WriteRune(t, ch)

Scan(raw) ==
    LET after[i \in 0 .. Len(raw)] ==
            IF i = 0 THEN [tokens |-> <<>>, buf |-> <<>>, in |-> "",
                           depth |-> 0, escaped |-> FALSE]
            ELSE Token(after[i - 1], raw[i], i = Len(raw))
    IN  after[Len(raw)]

\* A delimiter that is not closed is an error, and there are no tokens.
Tokenizes(raw) == Scan(raw).in = ""
Tokenize(raw) == IF Tokenizes(raw) THEN Flush(Scan(raw)).tokens ELSE <<>>

-----------------------------------------------------------------------------
(* unquoteValue and unescapeDoubleQuoted.                                  *)

Plain(ch) ==
    CASE ch = "n" -> <<NL>>
      [] ch = "r" -> <<"\r">>
      [] ch = "t" -> <<"\t">>
      [] ch \in {"\\", "\""} -> <<ch>>
      [] OTHER -> <<"\\", ch>>

\* The text so far, and whether a backslash came last.
Unescape(s) ==
    LET after[i \in 0 .. Len(s)] ==
            IF i = 0 THEN [text |-> <<>>, escaped |-> FALSE]
            ELSE LET u == after[i - 1]
                 IN  IF u.escaped
                     THEN [text |-> u.text \o Plain(s[i]), escaped |-> FALSE]
                     ELSE IF s[i] = "\\" /\ i < Len(s)
                     THEN [u EXCEPT !.escaped = TRUE]
                     ELSE [u EXCEPT !.text = Append(@, s[i])]
    IN  after[Len(s)].text

Enclosed(s, q) == Len(s) >= 2 /\ s[1] = q /\ s[Len(s)] = q
UnquoteValue(s) ==
    IF Enclosed(s, "\"") THEN Unescape(SubSeq(s, 2, Len(s) - 1))
    ELSE IF Enclosed(s, "'") THEN SubSeq(s, 2, Len(s) - 1)
    ELSE s

\* ArrayToStrings: the values of "[ A, B ]", with or without commas.
ArrayToStrings(s) ==
    LET t == TrimSpace(s)
        a == IF t # <<>> /\ t[1] = "[" THEN Tail(t) ELSE t
        b == IF a # <<>> /\ Last(a) = "]" THEN Front(a) ELSE a
        tokens == Tokenize([i \in 1 .. Len(b) |-> IF b[i] = "," THEN Space ELSE b[i]])
    IN  [k \in 1 .. Len(tokens) |-> UnquoteValue(tokens[k])]

-----------------------------------------------------------------------------
(* parseBody: words, with what is inside quotes, [...], {...} and <<...>>   *)
(* left whole, nested or not.  Its second result, the word at the cursor,  *)
(* is used nowhere.                                                        *)

Closer == [d \in {"[", "{"} |-> <<Matching(d)>>]

Word(w, ch) == [w EXCEPT !.word = Append(@, ch)]
EndWord(w) ==
    IF w.word = <<>> THEN w
    ELSE [w EXCEPT !.words = Append(@, w.word), !.word = <<>>]

\* (A slip: a bracket does not hold its words together.)
OpenNothing(w, closer) == w
Open(w, closer) == [w EXCEPT !.stack = Append(@, closer)]

ReadWord(w, body, i) ==
    LET ch == body[i]
    IN  IF w.skip THEN [Word(w, ch) EXCEPT !.skip = FALSE]
        ELSE IF w.quote # ""
        THEN [Word(w, ch) EXCEPT !.quote = IF ch = @ THEN "" ELSE @]
        ELSE IF w.stack # <<>> /\ StartsAt(body, i, Last(w.stack))
        THEN [Word(w, ch) EXCEPT !.skip = (Len(Last(w.stack)) = 2),
                                 !.stack = Front(@)]
        ELSE IF w.stack = <<>> /\ ch = Space THEN EndWord(w)
        ELSE IF ch \in {"'", "\""} THEN [Word(w, ch) EXCEPT !.quote = ch]
        ELSE IF ch \in DOMAIN Closer THEN Open(Word(w, ch), Closer[ch])
        ELSE IF StartsAt(body, i, Opening)
        THEN [Open(Word(w, ch), Closing) EXCEPT !.skip = TRUE]
        ELSE Word(w, ch)

ParseBody(body) ==
    LET after[i \in 0 .. Len(body)] ==
            IF i = 0 THEN [words |-> <<>>, word |-> <<>>, quote |-> "",
                           stack |-> <<>>, skip |-> FALSE]
            ELSE ReadWord(after[i - 1], body, i)
    IN  EndWord(after[Len(body)]).words

-----------------------------------------------------------------------------
(* Writing a value.                                                        *)

InQuotes(s) == <<"\"">> \o s \o <<"\"">>

\* out.Pair: quotes and escapes, or a block when the value has several lines.
\* (A slip: the backslash itself is not escaped.)
EscapeQuotesOnly(ch) ==
    CASE ch = "\"" -> <<"\\", "\"">>
      [] ch = "\r" -> <<"\\", "r">>
      [] ch = "\t" -> <<"\\", "t">>
      [] OTHER -> <<ch>>
Escape(ch) ==
    CASE ch = "\\" -> <<"\\", "\\">>
      [] ch = "\"" -> <<"\\", "\"">>
      [] ch = "\r" -> <<"\\", "r">>
      [] ch = "\t" -> <<"\\", "t">>
      [] OTHER -> <<ch>>
PairValue(v) ==
    IF Has(v, <<NL>>) THEN Opening \o <<NL>> \o v \o <<NL>> \o Closing
    ELSE InQuotes(FlattenSeq([i \in 1 .. Len(v) |-> Escape(v[i])]))

\* Stringify (a stage of a pipe): quotes for a space, and no escapes.
StringifyValue(v) == IF Has(v, <<Space>>) THEN InQuotes(v) ELSE v

\* out.Array of strings: in quotes, without escapes.
ArrayOf(values) ==
    <<"[">> \o FlattenSeq([k \in 1 .. Len(values) |->
                  IF k = 1 THEN InQuotes(values[k])
                  ELSE <<",", Space>> \o InQuotes(values[k])]) \o <<"]">>

\* The line "c k=v ~h", and what its reader takes the value of k for.  The C
\* parser splits the line into tokens, and a token at its "=".
LineWith(value) == <<"c", Space, "k", "=">> \o value \o <<Space, "~", "h">>
ReadsAs(line, v) ==
    LET tokens == Tokenize(line)
    IN  /\ Len(tokens) = 3
        /\ UnquoteValue(SubSeq(tokens[2], 3, Len(tokens[2]))) = v
=============================================================================
