---------------------------- MODULE MCModelDownload ----------------------------
(* Small instances of ModelDownload: an archive of four units, and a set of  *)
(* two files, the second large enough to be rewritten behind its row.        *)
EXTENDS ModelDownload

Archive  == [sizes |-> <<4>>, fileSet |-> FALSE]
TwoFiles == [sizes |-> <<1, 3>>, fileSet |-> TRUE]

Both       == {Archive, TwoFiles}
OneFileSet == {TwoFiles}
================================================================================
