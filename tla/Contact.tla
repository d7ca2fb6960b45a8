------------------------------- MODULE Contact --------------------------------
(***************************************************************************)
(* The address book of contact.c: one list.  Printing and searching change *)
(* nothing; count is written and never read.                               *)
(***************************************************************************)
EXTENDS PersonList

insert_entry ==
  /\ HasMemory(book)
  /\ \E n \in Name : book' = person_insert(book, [name |-> n, newline |-> FALSE], 0)
  /\ UNCHANGED <<file, saved>>

delete_entry ==
  \E n \in Name : LET person == person_search(book, 0, n) IN
    /\ person # NULL
    /\ book' = free(person_delete(book, person, 0), person)
    /\ UNCHANGED <<file, saved>>

save_entry ==
  /\ saved' = Persons(book) /\ file' = Lines(saved'[0])
  /\ UNCHANGED book

\* paraser_token returns 0 for a line it can read, and then the loop goes on.
LoadLine(b, line) ==
  IF ~Refused(line) \/ ~HasMemory(b) THEN b
  ELSE person_insert(b, [name |-> Nameless, newline |-> FALSE], 0)

\* The loop ends after fgets has failed once.
load_file(b, lines) == FoldLeft(LoadLine, b, Append(lines, Eof))

load_entry ==
  /\ file # NoFile /\ book' = load_file(book, file)
  /\ UNCHANGED <<file, saved>>

Next == insert_entry \/ delete_entry \/ save_entry \/ load_entry

Spec == Init /\ [][Next]_vars
--------------------------------------------------------------------------------
\* What the comments at lines 165 and 180 say of load_file: the person of every
\* line that can be read is stored in memory and put into the list, as far as
\* the memory goes.  So at any time a load would bring back who is in the file.
LoadInserts ==
  LET readable == SelectSeq(file, LAMBDA line : ~Refused(line))
      room == MaxNode - Cardinality(Allocated(book))
      loaded == Persons(load_file(book, file))[0]
  IN  file # NoFile =>
        \A k \in 1 .. Min({Len(readable), room}) :
          \E j \in DOMAIN loaded : loaded[j].name = readable[k]
================================================================================
