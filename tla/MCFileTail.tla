------------------------------ MODULE MCFileTail ------------------------------
(* Instances of FileTail for TLC.  Inodes are numbered and a new file gets   *)
(* the lowest number that is free.                                           *)
EXTENDS FileTail

FirstInode == path # NoFile /\ pc = "stat" /\ turns = 0 => path = 1
InodesInOrder ==
  path' \in Inode \ {path} =>
    \A ino \in Inode : ino < path' => ino \in {path, wfd, file}

\* A file that was missed may be read again.
ReadsAgain == Len(seen) <= 2 * MaxLines
=============================================================================
