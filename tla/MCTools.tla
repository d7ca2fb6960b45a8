-------------------------------- MODULE MCTools --------------------------------
(***************************************************************************)
(* One of the programs that run on one machine, whichever is chosen at the *)
(* beginning: the connection pool under any clients, the image upload, the *)
(* two address books, the four ways of adding to a counter and the DNS     *)
(* client.  The variables of the other programs keep an initial value.     *)
(***************************************************************************)
EXTENDS ConnPool, Locks, SequencesExt

VARIABLES
  program,
  \* the image upload
  mpc, cur, pushed, workers, tasks, mutex, wpc, terminate, held, executed,
  uconns, uused, uholding, uconn, stored, crashed,
  \* the address books
  book, file, saved,
  \* the DNS client
  dpc, domain, temp, save, seen, result, disturbed, answer, items

poolVars == <<mpc, cur, pushed, workers, tasks, mutex, wpc, terminate, held, executed>>
uploadVars == <<poolVars, uconns, uused, uholding, uconn, stored, crashed>>
bookVars == <<book, file, saved>>
dnsVars == <<dpc, domain, temp, save, seen, result, disturbed, answer, items>>
allVars == <<program, vars, uploadVars, bookVars, lockVars, dnsVars>>

Upload == INSTANCE ImageUpload WITH
  numWorkers <- 2, TASKSIZE <- 3, Garbage <- {FALSE}, CONNECTION_POOL_SIZE <- 2,
  conns <- uconns, used <- uused, holding <- uholding, conn <- uconn

Nm(i, r) == [initial |-> i, rest |-> r]
OneList == INSTANCE Contact WITH MaxNode <- 3, Index <- {0}, Name <- {Nm("A", 1), Nm("B", 1)}
\* Two names begin with the same letter, one in another case, and one is refused.
Alpha == INSTANCE AlphaContact WITH MaxNode <- 3, Index <- {0, 1},
  Name <- {Nm("A", 1), Nm("a", 1), Nm("B", 1), Nm("7", 1)}
\* The book of contact.c has no second list.
Book == INSTANCE AddressBook WITH
  Index <- {0, 1}, Person <- OneList!Person \cup Alpha!Person,
  people <- IF program = "alpha" THEN Alpha!Persons(book) ELSE OneList!Persons(book) @@ (1 :> <<>>)

\* An alias may end like the name that is asked for.
Dns == INSTANCE DnsClient WITH pc <- dpc, Thread <- {"t1", "t2"}, Domain <- {<<"a", "x">>, <<"b">>},
  Alias <- {<<"c">>, <<"c", "x">>}, Answers <- {<<>>, <<"1", "2">>}

\* The programs that are not chosen are given one of their initial states.
NoPool == init_conn_pool /\ \A i \in Slot : conns[i] = i
NoUpload == Upload!UploadInit /\ \A i \in DOMAIN uconns : uconns[i] = i
NoLocks == LocksInit /\ way = "Atomic"
NoDns == Dns!Init

ToolsInit ==
  \/ program = "connpool" /\ init_conn_pool /\ NoUpload /\ OneList!Init /\ NoLocks /\ NoDns
  \/ program = "upload" /\ Upload!UploadInit /\ NoPool /\ OneList!Init /\ NoLocks /\ NoDns
  \/ program = "contact" /\ OneList!Init /\ NoPool /\ NoUpload /\ NoLocks /\ NoDns
  \/ program = "alpha" /\ Alpha!Init /\ NoPool /\ NoUpload /\ NoLocks /\ NoDns
  \/ program = "locks" /\ LocksInit /\ NoPool /\ NoUpload /\ OneList!Init /\ NoDns
  \/ program = "dns" /\ Dns!Init /\ NoPool /\ NoUpload /\ OneList!Init /\ NoLocks

PoolFrame == program = "connpool" /\ UNCHANGED <<program, uploadVars, bookVars, lockVars, dnsVars>>
UploadFrame == program = "upload" /\ UNCHANGED <<program, vars, bookVars, lockVars, dnsVars>>
BookFrame == UNCHANGED <<program, vars, uploadVars, lockVars, dnsVars>>
LockFrame == program = "locks" /\ UNCHANGED <<program, vars, uploadVars, bookVars, dnsVars>>
DnsFrame == program = "dns" /\ UNCHANGED <<program, vars, uploadVars, bookVars, lockVars>>

ToolsNext ==
  \/ PoolFrame /\ Next
  \/ UploadFrame /\ Upload!UploadNext
  \/ program = "contact" /\ OneList!Next /\ BookFrame
  \/ program = "alpha" /\ Alpha!Next /\ BookFrame
  \/ LockFrame /\ LocksNext
  \/ DnsFrame /\ Dns!Next

\* Only the threads that add to the counter need to be fair.
ToolsSpec ==
  /\ ToolsInit /\ [][ToolsNext]_allVars
  /\ WF_allVars(LockFrame /\ Create)
  /\ \A t \in Thread : WF_allVars(LockFrame /\ Runs(t))
--------------------------------------------------------------------------------
\* ImageUpload: no worker outside task_entry has a connection, and with
\* enough connections no worker writes with NULL.
UploadsSafe == Upload!UploadsSafe

\* PersonList and AlphaContact: the pointers mirror each other, no node is
\* leaked, and every person is found under the letter of its name.
BooksIntact ==
  /\ program = "contact" => OneList!ListsIntact
  /\ program = "alpha" => Alpha!ListsIntact /\ Alpha!FoundByName

\* PersonList: both address books implement AddressBook.
ImplementsAddressBook == Book!Spec

\* AlphaContact: a load of 26Alpha_contact.c brings back everybody who was
\* saved.  (What contact.c does instead is seen with Contact.)
LoadRestores == [][program = "alpha" => Alpha!LoadRestores]_allVars

\* DnsClient: an undisturbed thread asks for its own name, and the addresses
\* of an answer are found under their names.
DnsSound == Dns!AsksOwnName /\ Dns!FindsAddresses
================================================================================
