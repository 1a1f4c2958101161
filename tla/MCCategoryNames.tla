-------------------------- MODULE MCCategoryNames --------------------------
(* Five bits, two of them reserved; a name like a reserved one is tried by *)
(* the run that expects it to be accepted.                                 *)
EXTENDS CategoryNames, TLC

MCName == {<<>>, <<"1", "a">>, <<"a", "!">>,
           <<"a">>, <<"b", "-">>, <<"c", "1">>, <<"a", "_", "1">>}
MCReservedName == 3 :> <<"x", "_", "1">> @@ 4 :> <<"x", "_", "2">>
MCNameAndReserved == {<<"a">>, <<"x", "_", "1">>, <<"x", "1", "_">>}
MCCategory == {{}, {0}, {1}, {2}, {3}, {0, 1}}
MCLooked == {{}, {0}, {0, 2, 3}, {1, 2, 4}}
=============================================================================
