----------------------------- MODULE AlphaContact -----------------------------
(***************************************************************************)
(* The address book of 26Alpha_contact.c: a list for each letter that a    *)
(* name may begin with.                                                    *)
(***************************************************************************)
EXTENDS PersonList

Upper == [A |-> 0, B |-> 1]
Lower == [a |-> 0, b |-> 1]

get_index_by_name(name) ==
  CASE name.initial \in DOMAIN Upper -> Upper[name.initial]
    [] name.initial \in DOMAIN Lower -> Lower[name.initial]
    [] OTHER -> -1

insert_entry ==
  /\ HasMemory(book)
  /\ \E n \in Name : LET i == get_index_by_name(n) IN
       /\ i # -1
       /\ book' = person_insert(book, [name |-> n, newline |-> FALSE], i)
  /\ UNCHANGED <<file, saved>>

delete_entry ==
  \E n \in Name : LET i == get_index_by_name(n) IN
    /\ i # -1
    /\ LET person == person_search(book, i, n) IN
       /\ person # NULL
       /\ book' = free(person_delete(book, person, i), person)
    /\ UNCHANGED <<file, saved>>

\* Letter by letter.
All(lists) == lists[0] \o lists[1]

save_entry ==
  /\ saved' = Persons(book) /\ file' = Lines(All(saved'))
  /\ UNCHANGED book

LoadLine(b, line) ==
  LET p == paraser_token(line)  i == get_index_by_name(p.name) IN
  IF Refused(line) \/ i = -1 \/ ~HasMemory(b) THEN b ELSE person_insert(b, p, i)

\* Fault: the buffer is not cleared, so that the last line is read again.
load_entry_Stale ==
  /\ file # NoFile
  /\ book' = FoldLeft(LoadLine, book, IF file = <<>> THEN <<Eof>> ELSE Append(file, Last(file)))
  /\ UNCHANGED <<file, saved>>

load_entry ==
  /\ file # NoFile /\ book' = FoldLeft(LoadLine, book, Append(file, Eof))
  /\ UNCHANGED <<file, saved>>

Next == insert_entry \/ delete_entry \/ save_entry \/ load_entry

Spec == Init /\ [][Next]_vars
--------------------------------------------------------------------------------
\* Every person can be found, and deleted, by the name it has.
FoundByName ==
  \A i \in Index : \A k \in 1 .. Len(Persons(book)[i]) :
    LET n == Persons(book)[i][k].name IN
    /\ get_index_by_name(n) = i
    /\ book.node[person_search(book, i, n)].data.name = n

\* A load brings back everybody who was saved, in front of those who are there
\* and in turned order, with a line feed at the end of the phone number, as
\* far as the memory goes; saving and loading again adds no more line feeds.
LoadRestores ==
  LET all == All(saved)
      n == Min({Len(all), MaxNode - Cardinality(Allocated(book))})
      loaded == [k \in 1 .. n |-> [all[k] EXCEPT !.newline = TRUE]]
      of(i) == SelectSeq(loaded, LAMBDA p : get_index_by_name(p.name) = i)
  IN  load_entry => \A i \in Index : Persons(book')[i] = Reverse(of(i)) \o Persons(book)[i]
================================================================================
