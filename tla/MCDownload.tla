------------------------------ MODULE MCDownload ------------------------------
(***************************************************************************)
(* Small instances of Download for TLC.                                    *)
(***************************************************************************)
EXTENDS Download

CONSTANTS a1, a2, b, nameA, nameB

\* Two URLs share a name.
MCUrls == {a1, a2, b}
MCNames == {nameA, nameB}
MCNameOf == [u \in {a1, a2, b} |-> IF u = b THEN nameB ELSE nameA]

\* A single file, two files, and a list whose last file has the name of its first.
MCLists == {<<b>>, <<a1, b>>, <<a1, b, a2>>}

\* Two URLs with names of their own.
MCSeparate == {<<a1>>, <<b>>}
=============================================================================
