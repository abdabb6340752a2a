-------------------------------- MODULE Text --------------------------------
(***************************************************************************)
(* Somebody writes a text, piece by piece, that the scanners of Wire and   *)
(* Words then have to read.  What is written is of one of four kinds: the  *)
(* input of a listener, a line that may be a pipe, the body of a help or   *)
(* completion request, or a value that is about to be put on a line.       *)
(***************************************************************************)
EXTENDS Words

CONSTANTS
    Pieces,   \* what a text of each kind is written with
    MaxPieces \* bound: pieces of a text of each kind

ASSUME TextAssumption ==
    /\ DOMAIN Pieces = {"wire", "line", "body", "value"}
    /\ DOMAIN MaxPieces = DOMAIN Pieces
    /\ \A k \in DOMAIN Pieces : Pieces[k] \subseteq Seq(STRING)

VARIABLES
    kind,  \* of the text
    text,  \* what has been written
    pieces \* of how many pieces

textVars == <<kind, text, pieces>>

TextInit ==
    /\ kind \in DOMAIN Pieces
    /\ text = <<>>
    /\ pieces = 0

Type(piece) ==
    /\ pieces < MaxPieces[kind]
    /\ text' = text \o piece
    /\ pieces' = pieces + 1
    /\ UNCHANGED kind

TextNext == \E piece \in Pieces[kind] : Type(piece)

TextSpec == TextInit /\ [][TextNext]_textVars

-----------------------------------------------------------------------------
\* The characters of s that `keep' chooses, in order.
Chosen(s, keep) ==
    LET after[i \in 0 .. Len(s)] ==
            IF i = 0 THEN <<>>
            ELSE IF keep[i] THEN Append(after[i - 1], s[i]) ELSE after[i - 1]
    IN  after[Len(s)]

\* No quote and no bracket inside an array or object, and no parenthesis: the
\* tokenizer ends an array at the first bracket, splitPipe at the matching one
\* outside quotes, and parentheses nest only for the tokenizer.
Simple(s) ==
    /\ ~ Has(s, <<"(">>)
    /\ \A i \in 1 .. Len(s) :
          Scan(SubSeq(s, 1, i - 1)).in \in {"[", "{"} => s[i] \notin Delimiters

\* The first n characters without what is inside blocks.
Outside(m, n) ==
    Chosen(SubSeq(m.text, 1, n), [i \in 1 .. n |-> ~ m.content[i]])

\* Every "<<" outside the blocks follows a "=" that is not inside a value, and
\* ends its line, and no line of a block starts with ">>".
BlocksAreValues(m) ==
    /\ Simple(Outside(m, Len(m.text)))
    /\ \A i \in 1 .. Len(m.text) :
          /\ StartsAt(m.text, i, Opening) /\ ~ m.content[i]
                => /\ i > 1 /\ m.text[i - 1] = "=" /\ Tokenizes(Outside(m, i - 1))
                   /\ i + 1 < Len(m.text) => m.text[i + 2] = NL \/ m.content[i + 2]
          /\ StartsAt(m.text, i, Closing) /\ m.content[i]
                => m.text[i - 1] # NL

(* The two scanners that know blocks agree, and a block stays in one part  *)
(* of a pipe, as long as it is a value that starts where its line ends,    *)
(* and none of its lines starts with ">>".                                 *)
BlocksStayWhole ==
    kind = "wire" =>
        \A m \in ToSet(Messages(text)) :
            BlocksAreValues(m) =>
                \A i \in 1 .. Len(m.text) :
                    m.content[i] => PartOf(m.text)[i] # 0

Dense(s) == Chosen(s, [i \in 1 .. Len(s) |-> s[i] \notin Blank])

(* Cutting a line into the stages of a pipe neither loses nor reorders     *)
(* anything but the "|" that separate them, and never cuts through a       *)
(* quoted string, an array or an object: whoever reads the stages sees no  *)
(* delimiter left open, if there was none in the line and nothing was      *)
(* nested.  (Blocks are another matter: the tokenizer knows none.)         *)
SplitKeepsTokens ==
    kind = "line" =>
        LET of == PartOf(text)
            parts == SplitPipe(text)
        IN  /\ \A i \in 1 .. Len(text) : of[i] = 0 => text[i] = "|"
            /\ Dense(FlattenSeq(parts)) =
                   Dense(Chosen(text, [i \in 1 .. Len(text) |-> of[i] # 0]))
            /\ Tokenizes(text) /\ Simple(text) /\ ~ Has(text, Opening) =>
                  \A p \in ToSet(parts) : Tokenizes(p)

(* The help and completion of SPORE see the words of a line as its parser  *)
(* does, as long as nothing is nested or escaped, and the line has no tab, *)
(* since parseBody separates words only at spaces.                         *)
WordsAsTokens ==
    kind = "body" /\ Tokenizes(text) /\ Simple(text)
    /\ ~ Has(text, Opening) /\ ~ Has(text, <<"\\">>)
    /\ ~ Has(text, <<"\t">>)
        => ParseBody(text) = Tokenize(text)

\* Needs no escapes, and nothing outside quotes that is not part of a word.
Tame(v) ==
    /\ \A ch \in {"\"", "\\", NL} : ~ Has(v, <<ch>>)
    /\ Has(v, <<Space>>) \/ \A i \in 1 .. Len(v) : v[i] \notin Delimiters \cup Gap

\* A listener takes the line for one message.
ReadWhole(line) == [k \in 1 .. Len(Messages(Append(line, NL))) |->
                        Messages(Append(line, NL))[k].text] = <<line>>

(* A value that the hub puts on a line with out.Pair reads as what it was, *)
(* whatever quotes and backslashes it has.  One of several lines stays in  *)
(* its message, and stays what it is, just when none of its lines closes   *)
(* the block and none ends with a carriage return, which a listener takes  *)
(* for part of the line end.  A value that a pipe hands to its next stage, *)
(* or that stands in an array, reads as what it was only if it needs no    *)
(* escapes, since Stringify and out.Array write none.                      *)
ValuesSurvive ==
    kind = "value" =>
        /\ IF Has(text, <<NL>>)
           THEN ReadWhole(LineWith(PairValue(text)))
                    <=> /\ \A line \in ToSet(Lines(Append(text, NL))) : ~ ClosesBlock(line)
                        /\ ~ Has(Append(text, NL), <<"\r", NL>>)
           ELSE ReadsAs(LineWith(PairValue(text)), text)
        /\ Tame(text) => ReadsAs(LineWith(StringifyValue(text)), text)
        /\ Tame(text) /\ ~ Has(text, <<",">>) =>
              ArrayToStrings(ArrayOf(<<text, text>>)) = <<text, text>>
=============================================================================
