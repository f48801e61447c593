-------------------------------- MODULE MCEUF --------------------------------
(* Small instances of EUFTraced.                                            *)
EXTENDS EUFTraced

\* Two towers over a and b, a binary function over both, and equalities that make each other true,
\* two of them the same with exchanged sides.
MCTerms == {"a", "b", "fa", "fb", "gab", "gba"}
MCFunctionOf == [t \in MCTerms |-> CASE t \in {"fa", "fb"} -> "f"
                                     [] t \in {"gab", "gba"} -> "g"
                                     [] OTHER -> t]
MCArgsOf == [t \in MCTerms |-> CASE t = "fa" -> <<"a">> [] t = "fb" -> <<"b">>
                                 [] t = "gab" -> <<"fa", "b">> [] t = "gba" -> <<"fb", "a">>
                                 [] OTHER -> <<>>]
MCEqualities == 1 .. 4
MCSides == <<<<"a", "b">>, <<"a", "fa">>, <<"fb", "b">>, <<"b", "a">>>>
==============================================================================
