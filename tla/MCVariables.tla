------------------------------ MODULE MCVariables ------------------------------
(* Small instances of Variables for TLC.                                     *)
EXTENDS Variables

\* "ab" lists two directories
MCPathDirs == [v \in Values |-> CASE v = "ab" -> <<"a", "b">>
                                  [] v = "b"  -> <<"b">>
                                  [] OTHER    -> <<>>]

\* PATH alone, a variable, one name twice
MCPrefixes == {<< <<"PATH", "b">> >>,
               << <<"V", "b">>, <<"PATH", "ab">> >>,
               << <<"V", "ab">>, <<"V", "b">> >>}

MCPinPaths == {<<"o", "c">>}
================================================================================
