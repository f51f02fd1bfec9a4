---------------------------- MODULE BackingStore ----------------------------
(***************************************************************************)
(* The file csopesy-backing-store.txt: the steps in which the scheduler    *)
(* thread appends a process and removes the first one, between any two of  *)
(* which the program may end.                                              *)
(*                                                                         *)
(* The file is a sequence of cells: one for the struct of a process, one   *)
(* for its instructions, and one for its variables if it has any.  What is *)
(* abstracted is their length; what is kept is that a reader who starts or *)
(* stops at the wrong cell does not get what was written.                  *)
(*                                                                         *)
(* torn is not in the code: the program has ended between the first and    *)
(* the last write of an entry, or between truncating and rewriting.        *)
(***************************************************************************)
EXTENDS Naturals, Sequences

VARIABLES
  file,
  io,      \* the operation under way and the cells it has yet to write
  torn

store == <<file, io, torn>>

NoIo == [op |-> "none", cells |-> <<>>]

StoreInit == file = <<>> /\ io = NoIo /\ torn = FALSE

(* Opened with "ab": what is there stays. *)
init_backing_store == UNCHANGED store

Cell(image, part) == [of |-> image, part |-> part]

(* The cells from which an image is read back. *)
Entry(image) ==
  <<Cell(image, "struct"), Cell(image, "instructions")>>
    \o IF image.num_var > 0 THEN <<Cell(image, "variables")>> ELSE <<>>

(* Mutant of Written: no variables. *)
WrittenShort(image) == <<Cell(image, "struct"), Cell(image, "instructions")>>

(* The cells that are written for it. *)
Written(image) ==
  <<Cell(image, "struct"), Cell(image, "instructions")>>
    \o IF image.num_var > 0 THEN <<Cell(image, "variables")>> ELSE <<>>

(* read_first_process_from_backing_store returns the process, or NULL, or  *)
(* a struct with the bytes of other cells in it.                           *)
ReadsEntry ==
  /\ file # <<>> /\ file[1].part = "struct"
  /\ Len(Entry(file[1].of)) <= Len(file)
  /\ SubSeq(file, 1, Len(Entry(file[1].of))) = Entry(file[1].of)

ReadsNothing ==
  \/ file = <<>>
  \/ file[1].part = "struct" /\ Len(file) < Len(Entry(file[1].of))

ReadsGarbage == ~ReadsEntry /\ ~ReadsNothing

FirstProcess == file[1].of

Quiet == io.op = "none"

(* write_process_to_backing_store: fopen "ab". *)
BeginAppend(image) ==
  /\ Quiet
  /\ io' = [op |-> "append", cells |-> Written(image)]
  /\ UNCHANGED <<file, torn>>

(* One of its fwrites. *)
AppendCell ==
  /\ io.op = "append"
  /\ file' = Append(file, Head(io.cells))
  /\ io' = IF Len(io.cells) = 1 THEN NoIo ELSE [io EXCEPT !.cells = Tail(@)]
  /\ UNCHANGED torn

(* What is behind the first entry: the lengths are those the struct names. *)
Rest == SubSeq(file, Len(Entry(file[1].of)) + 1, Len(file))

(* remove_first_process_from_backing_store, up to the read of the rest. *)
BeginRemove ==
  /\ Quiet
  /\ io' = [op |-> "truncate", cells |-> Rest]
  /\ UNCHANGED <<file, torn>>

(* Mutant of Truncate: fopen "ab". *)
TruncateNot ==
  /\ io.op = "truncate"
  /\ file' = file
  /\ io' = IF io.cells = <<>> THEN NoIo ELSE [io EXCEPT !.op = "rewrite"]
  /\ UNCHANGED torn

(* fopen "wb": the file is empty.  Without a rest that is all. *)
Truncate ==
  /\ io.op = "truncate"
  /\ file' = <<>>
  /\ io' = IF io.cells = <<>> THEN NoIo ELSE [io EXCEPT !.op = "rewrite"]
  /\ UNCHANGED torn

Rewrite ==
  /\ io.op = "rewrite"
  /\ file' = file \o io.cells
  /\ io' = NoIo
  /\ UNCHANGED torn

(* Some cells of an entry are written and some are not. *)
EntryHalfWritten ==
  io.op = "append" /\ io.cells # Written(Head(io.cells).of)

(* The program ends: what the file holds is what the next one finds. *)
StoreEnds ==
  /\ io' = NoIo
  /\ torn' = (torn \/ EntryHalfWritten \/ io.op = "rewrite")
  /\ UNCHANGED file
-----------------------------------------------------------------------------
(* The last of an entry that is complete in cells. *)
EndsEntry(cells, i) == \E j \in 1 .. i : SubSeq(cells, j, i) = Entry(cells[i].of)

(* The images whose entries are complete in cells. *)
Complete(cells) ==
  LET images[i \in 0 .. Len(cells)] ==
        IF i = 0 THEN <<>>
        ELSE IF EndsEntry(cells, i) THEN Append(images[i - 1], cells[i].of)
        ELSE images[i - 1]
  IN  images[Len(cells)]

(* The contents in the sense of DurableFifo: an entry is there with its    *)
(* last cell, and gone when the file is truncated to remove it.            *)
Stored == IF io.op = "rewrite" THEN Complete(io.cells) ELSE Complete(file)
=============================================================================
