------------------------------ MODULE PersonList -------------------------------
(***************************************************************************)
(* The lists of persons of contact.c and 26Alpha_contact.c, which share    *)
(* the macros and the functions on lists: nodes in allocated memory, with  *)
(* the pointers next and prev.  A list is known by its index among heads;  *)
(* contact.c has one list, 26Alpha_contact.c has one for each letter.      *)
(*                                                                         *)
(* A phone number is known by whether there is a line feed at its end.     *)
(***************************************************************************)
EXTENDS Integers, FiniteSets, SequencesExt

CONSTANTS
  Index,     \* the lists
  MaxNode,   \* bound: how many nodes malloc can give
  Name       \* the names that are typed

NULL == 0
Node == 1 .. MaxNode
Nameless == [initial |-> "", rest |-> 0]
Person == [name : Name \cup {Nameless}, newline : BOOLEAN]

VARIABLES
  book,   \* the heads of the lists and the allocated nodes
  file,   \* the lines of the file, or NoFile
  saved   \* the persons that were in the lists when the file was written

vars == <<book, file, saved>>

\* What is no name in a file: an empty line, its end, and no file at all.
Blank == [initial |-> "", rest |-> 1]
Eof == [initial |-> "", rest |-> 2]
NoFile == <<[initial |-> "", rest |-> 3]>>
Empty == [heads |-> [i \in Index |-> NULL], node |-> <<>>]
Allocated(b) == DOMAIN b.node

Init == book = Empty /\ file = NoFile /\ saved = [i \in Index |-> <<>>]

\* The nodes of a list, from its head along next.
Chain(b, i) ==
  LET at[k \in Node] == IF k = 1 THEN b.heads[i]
                        ELSE IF at[k - 1] \in Allocated(b) THEN b.node[at[k - 1]].next ELSE NULL
  IN  SelectSeq([k \in Node |-> at[k]], LAMBDA p : p # NULL)

Persons(b) == [i \in Index |-> LET c == Chain(b, i) IN [k \in DOMAIN c |-> b.node[c[k]].data]]

(***************************************************************************)
(* Memory and the macros.                                                  *)
(***************************************************************************)
HasMemory(b) == Allocated(b) # Node
NewNode(b) == CHOOSE p \in Node \ Allocated(b) : \A q \in Node \ Allocated(b) : p <= q
free(b, p) == [b EXCEPT !.node = Restrict(@, Allocated(b) \ {p})]

LIST_INSERT(b, item, data, i) ==
  LET list == b.heads[i]
      linked == [p \in Allocated(b) |-> IF p = list THEN [b.node[p] EXCEPT !.prev = item] ELSE b.node[p]]
  IN  [heads |-> [b.heads EXCEPT ![i] = item],
       node  |-> linked @@ (item :> [data |-> data, next |-> list, prev |-> NULL])]

\* Fault: the prev of the node behind is not set.
LIST_REMOVE_Prev(b, item, i) ==
  LET n == b.node[item] IN
  [heads |-> IF b.heads[i] = item THEN [b.heads EXCEPT ![i] = n.next] ELSE b.heads,
   node  |-> [p \in Allocated(b) |-> IF p = n.prev THEN [b.node[p] EXCEPT !.next = n.next] ELSE b.node[p]]]

LIST_REMOVE(b, item, i) ==
  LET n == b.node[item] IN
  [heads |-> IF b.heads[i] = item THEN [b.heads EXCEPT ![i] = n.next] ELSE b.heads,
   node  |-> [p \in Allocated(b) |-> CASE p = item -> [n EXCEPT !.prev = NULL, !.next = NULL]
                                       [] p = n.prev -> [b.node[p] EXCEPT !.next = n.next]
                                       [] p = n.next -> [b.node[p] EXCEPT !.prev = n.prev]
                                       [] OTHER -> b.node[p]]]

person_insert(b, data, i) == LIST_INSERT(b, NewNode(b), data, i)

person_delete(b, item, i) == IF b.heads[i] = NULL THEN b ELSE LIST_REMOVE(b, item, i)

\* Fault: the last node of that name.
person_search_Last(b, i, name) ==
  LET c == Chain(b, i)
      found == {k \in 1 .. Len(c) : b.node[c[k]].data.name = name}
  IN  IF found = {} THEN NULL ELSE c[Max(found)]

\* The first node of that name.
person_search(b, i, name) ==
  LET c == Chain(b, i)
      found == {k \in 1 .. Len(c) : b.node[c[k]].data.name = name}
  IN  IF found = {} THEN NULL ELSE c[Min(found)]

(***************************************************************************)
(* The file.  A line feed in a phone number makes an empty line.           *)
(***************************************************************************)
Lines(persons) ==
  FlattenSeq([k \in 1 .. Len(persons) |->
    IF persons[k].newline THEN <<persons[k].name, Blank>> ELSE <<persons[k].name>>])

\* Lines of less than MIN_LENGTH characters are refused.  The phone number that
\* is taken from a line has the line's end.
Refused(line) == line \in {Blank, Eof}
paraser_token(line) == [name |-> line, newline |-> TRUE]
--------------------------------------------------------------------------------
\* The pointers of every list mirror each other, and every allocated node is in
\* exactly one list: no insertion, deletion or load leaks a node or leaves a
\* pointer to one that was freed.
ListsIntact ==
  LET lists == [i \in Index |-> Chain(book, i)]
      in(p) == {<<i, k>> \in Index \X Node : k <= Len(lists[i]) /\ lists[i][k] = p}
  IN  /\ \A p \in Node : Cardinality(in(p)) = IF p \in Allocated(book) THEN 1 ELSE 0
      /\ \A i \in Index : \A k \in 1 .. Len(lists[i]) :
           book.node[lists[i][k]].prev = IF k = 1 THEN NULL ELSE lists[i][k - 1]
================================================================================
