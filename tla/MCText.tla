------------------------------- MODULE MCText -------------------------------
(* Instances of Text for TLC.                                              *)
EXTENDS Text

Single(S) == {<<ch>> : ch \in S}

MCPieces ==
    [wire |-> Single({"|", NL, "'", "[", "]"})
                  \cup {Closing, <<"=", "<", "<">>, <<"=", "<", "<", NL>>,
                        <<NL, ">", ">", NL>>, <<NL, ">", ">", Space>>},
     line |-> Single({Space, "|", "'", "\"", "[", "]", "\\", "("}),
     body |-> Single({"a", Space, "'", "\"", "[", "]", "\\", "("})
                  \cup {Opening, Closing},
     value |-> Single({"a", "n", Space, "\"", "\\", "'", "[", ",", "\t", "\r", NL})
                   \cup {Opening, Closing}]

MCMaxPieces == [wire |-> 6, line |-> 6, body |-> 5, value |-> 5]
=============================================================================
