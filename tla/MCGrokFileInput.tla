--------------------------- MODULE MCGrokFileInput ---------------------------
(* Instances of GrokFileInput for TLC.  Inodes are numbered; a new file gets *)
(* the lowest that is free, which leaves out no behaviour but those that     *)
(* differ in the names of the files.                                         *)
EXTENDS GrokFileInput

FirstInode  == path # NoFile /\ todo = "add" /\ turns = 0 => path = 1
InodesInOrder ==
  path' \in Inode \ {path} =>
    \A ino \in Inode : ino < path' => ino \in {path, wfd, fd}

\* Once a change was missed a file may be read again and again.  One line more
\* than were written is enough to see that.
ReadsAgain == Len(seen) <= MaxLines + 1
=============================================================================
