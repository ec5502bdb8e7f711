--------------------------- MODULE MCModelStream ---------------------------
\* Small instances of ModelStream.
EXTENDS ModelStream

CONSTANTS c1, a, b

Chain == {<<a, b>>}

Yields(s) == [yields |-> s, conflict |-> FALSE, structured |-> FALSE]
Conflict == [yields |-> <<>>, conflict |-> TRUE, structured |-> FALSE]
Structured == [yields |-> <<"usage">>, conflict |-> FALSE, structured |-> TRUE]
AllChunks == {Yields(<<"text">>), Yields(<<"usage">>), Yields(<<"text", "tool">>),
              Conflict, Structured}
=============================================================================
