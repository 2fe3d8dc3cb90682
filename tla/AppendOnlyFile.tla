--------------------------- MODULE AppendOnlyFile ---------------------------
(***************************************************************************)
(* The JSONL file under both file adapters, as the operating system keeps  *)
(* it: open(path, "a"), one writeFile, fsync, fsync of the directory.      *)
(*                                                                         *)
(* A file is its lines and whether the last of them ends in a newline.  A  *)
(* write can be cut short (no space, a crash), and the next append goes on *)
(* where the cut one stopped, on the same line.                            *)
(***************************************************************************)
EXTENDS Naturals, Sequences

CONSTANT Damaged   \* what JSON.parse refuses: a cut line, or two on one line

EmptyFile == [lines |-> <<>>, ended |-> TRUE]

\* How far a write gets: all of it, all but the newline, part of the record, nothing.
Extents == {"whole", "unended", "part", "nothing"}

AppendLine(file, line, extent) ==
  IF extent = "nothing" THEN file
  ELSE [lines |->
          IF file.ended
            THEN Append(file.lines, IF extent = "part" THEN Damaged ELSE line)
            ELSE [file.lines EXCEPT ![Len(file.lines)] = Damaged],
        ended |-> extent = "whole"]

\* content.split("\n"), empty lines left out: the places of the ones that parse.
Reads(file) == {i \in DOMAIN file.lines : file.lines[i] # Damaged}

HasDamage(file) == \E i \in DOMAIN file.lines : file.lines[i] = Damaged

\* What a power loss can leave of a file of which "disk" was synced: the synced part,
\* and of the rest a prefix, cut anywhere.
Survivors(disk, file) ==
  {disk, file} \cup
  {[lines |-> SubSeq(file.lines, 1, n), ended |-> TRUE] :
     n \in Len(disk.lines) + 1 .. Len(file.lines) - 1} \cup
  {[lines |-> Append(SubSeq(file.lines, 1, n), Damaged), ended |-> FALSE] :
     n \in Len(disk.lines) .. Len(file.lines) - 1}
=============================================================================
