------------------------------ MODULE MCPolicy ------------------------------
(* A file, a URL, and a directory of two files.  The first file does not   *)
(* compile in its second version and is gone in its third; the other file  *)
(* is gone in its second.                                                  *)
EXTENDS Policy

CONSTANTS main, t1, t2

MCFiles == {1, 2}
MCThreads == {t1, t2}
MCSources == {[kind |-> "file", files |-> {1}], [kind |-> "url", files |-> {1}],
              [kind |-> "directory", files |-> {1, 2}]}
MCBroken == {<<1, 2>>}
MCAbsent == {<<1, 3>>, <<2, 2>>}
=============================================================================
