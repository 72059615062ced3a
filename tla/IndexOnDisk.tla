----------------------------- MODULE IndexOnDisk -----------------------------
(***************************************************************************)
(* An index on disk, at its levels: the bytes of one of its files, alone   *)
(* (IndexFile) or with a reader (FileReader), and what its four files say  *)
(* (InPlace).  They meet in what Dictionary promises of a file: an ident   *)
(* has the definition it was last given, and all those of a commit (bulk   *)
(* mode) are there at its end.  So a behaviour moves at one level, the     *)
(* others stay as they were opened.                                        *)
(***************************************************************************)
EXTENDS FileReader, InPlace

VARIABLE level

DiskInit ==
  /\ Init
  /\ ReadInit
  /\ \/ level = "contents" /\ UpdateInit
     \/ /\ level \in {"bytes", "reads"}
        /\ index = NoIndex(TRUE) /\ update = NoUpdate /\ reader = NoMap /\ calls = 0

DiskNext ==
  /\ UNCHANGED level
  /\ \/ level = "bytes" /\ Next /\ UNCHANGED <<readVars, updateVars>>
     \/ level = "reads" /\ ReadNext /\ UNCHANGED updateVars
     \/ level = "contents" /\ UpdateNext /\ UNCHANGED <<vars, readVars>>

DiskSpec == DiskInit /\ [][DiskNext]_<<vars, readVars, updateVars, level>>

=============================================================================
