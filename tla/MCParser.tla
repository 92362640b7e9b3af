------------------------------ MODULE MCParser ------------------------------
EXTENDS Parser

\* Declarations: correct ones with and without nested generic types, errors in
\* bodies, in matches, in lambdas and in signatures, braces too many or too few.
MCPieces == {
    <<"fn", "{", "{", ";", "}", "}">>,
    <<"fn", ">>", "{", ">>", ";", "}">>,
    <<"fn", "{", "!", "{", ";", "}", "x", ";", "x", "}">>,
    <<"fn", "{", ">>", "!", ";", ">>", ";", "}">>,
    <<"fn", "{", "fn", "{", ">>", "!", "}", "x", "}">>,
    <<"fn", "{", "match", "{", "x", "{", "!", "}", "x", "{", "}", "}", "x", "}">>,
    <<"fn", "{", "match", "{", "!", "{", "}", "}", "x", ";", "}">>,
    <<"fn", "!", "{", "fn", "{", "}", ";", "}">>,
    <<"fn", "!">>, <<"fn", ">>", ";">>,
    <<"impl", "{", "fn", "{", ">>", ";", "}", "fn", ">>", "{", "}", "}">>,
    <<"impl", "{", "fn", "x", "{", "}", "fn", "{", ">>", "}", "fn", ";", "}">>,
    <<"impl", "!">>, <<"impl", "{", "x", "fn", "{", "}", "}">>,
    <<"fn", "{", "fn", ";", "match", ";", "{", "impl", "}">>,
    <<"fn", "{", "match", "{", "x", "x">>,
    <<"impl", "{", "fn", "{", "x", ";">>,
    <<"}">>}
=============================================================================
