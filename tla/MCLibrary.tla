------------------------------ MODULE MCLibrary ------------------------------
(***************************************************************************)
(* Releases in other containers: the first two have one name and differ in *)
(* the suffix, and the third has a new name and the suffix of the second.  *)
(***************************************************************************)
EXTENDS LibraryFiles

MCLibraryName(r) ==
    CASE r = 1 -> <<"old", "mkv">>
      [] r = 2 -> <<"old", "mp4">>
      [] r = 3 -> <<"new", "mp4">>

Spec == LibraryInit /\ [][LibraryNext]_libraryVars
=============================================================================
