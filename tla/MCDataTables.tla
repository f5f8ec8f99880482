---------------------------- MODULE MCDataTables -----------------------------
(***************************************************************************)
(* Two processes and the table of one name; the files have a key in common.*)
(***************************************************************************)
EXTENDS DataTables

MCLinesOf(file) == CASE file = "first" -> {1, 2}
                     [] file = "second" -> {2, 3}
                     [] OTHER -> {1, 3}
MCUploads == {<<"first", 2>>, <<"second", 1>>, <<"bad", 1>>}
==============================================================================
