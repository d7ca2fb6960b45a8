----------------------------- MODULE AddressBook ------------------------------
(***************************************************************************)
(* What the address books promise: lists of persons, in which the newest   *)
(* come first.  Persons are added in front, and the newest person of a     *)
(* name can be deleted.                                                    *)
(***************************************************************************)
EXTENDS Integers, SequencesExt

CONSTANTS Index, Person

VARIABLE people

Init == people = [i \in Index |-> <<>>]

\* One person is inserted, or those of a file are loaded.
Add ==
  /\ people' \in [Index -> Seq(Person)]
  /\ \A i \in Index : IsSuffix(people[i], people'[i])

Delete ==
  \E i \in Index : \E k \in 1 .. Len(people[i]) :
    /\ \A j \in 1 .. k - 1 : people[i][j].name # people[i][k].name
    /\ people' = [people EXCEPT ![i] = RemoveAt(@, k)]

Next == Add \/ Delete

Spec == Init /\ [][Next]_people
================================================================================
