------------------------------ MODULE DnsClient -------------------------------
(***************************************************************************)
(* The DNS client of homework_dns_async: every worker of the thread pool   *)
(* (see ThreadPool) resolves one domain after another, task_entry calling  *)
(* dns_client_commit.  The workers share nothing but the pointer that      *)
(* strtok keeps.  dns.c is the same client for one thread.                 *)
(*                                                                         *)
(* A name is a sequence of labels.  A message is a sequence of cells: a    *)
(* label with its length, the 0 that ends a name, a compression pointer,   *)
(* the fixed fields of a record, an address.  The header is left out.      *)
(***************************************************************************)
EXTENDS Integers, SequencesExt

CONSTANTS
  Thread,
  Domain,   \* the names on the command line
  Alias,    \* the names that a CNAME record may lead to
  Answers   \* the sequences of addresses that the server may send

VARIABLES
  pc,        \* where each thread is
  domain,    \* what it resolves
  temp,      \* convert_domain's copy of the domain: the labels with a 0 behind them
  save,      \* strtok's static pointer
  seen,      \* the pointer as a call of strtok has read it
  result,    \* the question's name
  disturbed, \* the threads during whose conversion another one called strtok
  answer,    \* the response: its cells and the records that it stands for
  items      \* what dns_parse_response has found

vars == <<pc, domain, temp, save, seen, result, disturbed, answer, items>>

\* Into a copy at the beginning of a label or at a 0, or into memory that was
\* freed.
At(t, k) == [buf |-> t, label |-> k]
Zero(t) == At(t, 0)
Dangling == [buf |-> "freed", label |-> 0]
Junk == "junk"
NoAnswer == [cells |-> <<>>, answers |-> 0, stands |-> <<>>]

Init ==
  /\ pc = [t \in Thread |-> "idle"] /\ domain = [t \in Thread |-> <<>>]
  /\ temp = [t \in Thread |-> {}] /\ save = Dangling /\ seen = [t \in Thread |-> Dangling]
  /\ result = [t \in Thread |-> <<>>] /\ disturbed = {}
  /\ answer = [t \in Thread |-> NoAnswer] /\ items = [t \in Thread |-> <<>>]

Go(t, p) == pc' = [pc EXCEPT ![t] = p]
Converting == {t \in Thread : pc[t] \in {"read", "write"}}

(***************************************************************************)
(* strtok.  A thread is disturbed by each call that is not its own.        *)
(***************************************************************************)
Disturb(t) == disturbed' = disturbed \cup (Converting \ {t})

\* What is written past the end of the allocated result is not followed
\* beyond one label: it is wrong by then.
Add(t, label) ==
  result' = IF Len(result[t]) > Len(domain[t]) THEN result ELSE [result EXCEPT ![t] = Append(@, label)]

\* The token at p, which then has a 0 behind it; the pointer moves on to the
\* next label, or stays at a 0 that was there.
Token(t, p) ==
  LET b == p.buf IN
  /\ Add(t, domain[b][p.label])
  /\ save' = IF p.label \in temp[b] \/ p.label = Len(domain[b]) THEN Zero(b) ELSE At(b, p.label + 1)
  /\ temp' = [temp EXCEPT ![b] = @ \cup {p.label}]

strtok_first(t) ==
  /\ pc[t] = "first" /\ Go(t, "read")
  /\ Token(t, At(t, 1)) /\ Disturb(t)
  /\ UNCHANGED <<domain, seen, answer, items>>

strtok_read(t) ==
  /\ pc[t] = "read" /\ Go(t, "write")
  /\ seen' = [seen EXCEPT ![t] = save] /\ Disturb(t)
  /\ UNCHANGED <<domain, temp, save, result, answer, items>>

\* In memory that was freed it finds one token at most that means nothing.
strtok_write(t) ==
  LET p == seen[t] IN
  /\ pc[t] = "write" /\ Disturb(t)
  /\ CASE p.label = 0 /\ p # Dangling -> save' = p /\ Go(t, "free") /\ UNCHANGED <<temp, result>>
       [] p = Dangling ->
            /\ save' = Dangling /\ Go(t, "free") /\ UNCHANGED temp
            /\ Add(t, Junk) \/ UNCHANGED result
       [] OTHER -> Token(t, p) /\ Go(t, "read")
  /\ seen' = [seen EXCEPT ![t] = Dangling]
  /\ UNCHANGED <<domain, answer, items>>

(***************************************************************************)
(* dns_client_commit.                                                      *)
(***************************************************************************)
\* The next task, and the beginning of convert_domain.
Begin(t) ==
  /\ pc[t] = "idle" /\ Go(t, "first")
  /\ \E d \in Domain : domain' = [domain EXCEPT ![t] = d]
  /\ UNCHANGED <<temp, save, seen, result, disturbed, answer, items>>

Freed(t, p) == IF p.buf = t THEN Dangling ELSE p

\* The copy is freed, and the request is sent.
FreeTemp(t) ==
  /\ pc[t] = "free" /\ Go(t, "ask")
  /\ save' = Freed(t, save) /\ seen' = [u \in Thread |-> Freed(t, seen[u])]
  /\ UNCHANGED <<domain, temp, result, disturbed, answer, items>>

\* task_entry ends: the answer was parsed, or a call on the socket failed.
EndTask(t) ==
  /\ pc[t] \in {"ask", "parsed"} /\ Go(t, "idle")
  /\ domain' = [domain EXCEPT ![t] = <<>>] /\ temp' = [temp EXCEPT ![t] = {}]
  /\ result' = [result EXCEPT ![t] = <<>>] /\ disturbed' = disturbed \ {t}
  /\ answer' = [answer EXCEPT ![t] = NoAnswer] /\ items' = [items EXCEPT ![t] = <<>>]
  /\ UNCHANGED <<save, seen>>

(***************************************************************************)
(* The name server: an alias if there is one, and addresses.  Names may be *)
(* shortened by pointers to where they, or their ends, were written.       *)
(***************************************************************************)
Cell(kind, arg, n) == [kind |-> kind, arg |-> arg, n |-> n]
End == Cell("end", "", 0)
Pointer(k) == Cell("pointer", "", k)
Labels(name) == [k \in DOMAIN name |-> Cell("label", name[k], 0)]
Fields(type, datalen) == Cell("fields", type, datalen)

Record(owner, type, data) == <<Pointer(owner), Fields(type, Len(data))>> \o data
Dotted(name) == [k \in 1 .. 2 * Len(name) - 1 |-> IF k % 2 = 1 THEN name[(k + 1) \div 2] ELSE "."]

\* The last s labels of the alias are those of the question.
Written(q, alias, s) ==
  Labels(SubSeq(alias, 1, Len(alias) - s)) \o <<IF s = 0 THEN End ELSE Pointer(Len(q) - s + 1)>>

Response(q, aliased, alias, s, ips) ==
  LET question == Labels(q) \o <<End>>
      cname == IF aliased THEN Record(1, "CNAME", Written(q, alias, s)) ELSE <<>>
      owner == IF aliased THEN Len(question) + 3 ELSE 1
      A(ip) == Record(owner, "A", <<Cell("address", ip, 0)>>)
  IN  [cells |-> question \o cname \o FlattenSeq([k \in DOMAIN ips |-> A(ips[k])]),
       answers |-> Len(ips) + IF aliased THEN 1 ELSE 0,
       stands |-> [k \in DOMAIN ips |-> [domain |-> Dotted(IF aliased THEN alias ELSE q), ip |-> ips[k]]]]

Shared(q, alias) ==
  {s \in 0 .. Len(alias) : s <= Len(q) /\ SubSeq(alias, Len(alias) - s + 1, Len(alias)) = SubSeq(q, Len(q) - s + 1, Len(q))}

\* Of a name that nobody has, the server knows nothing.
Responses(q) ==
  IF q \notin Domain THEN {Response(q, FALSE, <<>>, 0, <<>>)}
  ELSE UNION {{Response(q, aliased, alias, s, ips) :
                 aliased \in BOOLEAN, s \in Shared(q, alias), ips \in Answers} : alias \in Alias}

\* An answer that is lost leaves the thread in recvfrom.
Answer(t) ==
  /\ pc[t] = "ask" /\ Go(t, "parse")
  /\ \E r \in Responses(result[t]) : answer' = [answer EXCEPT ![t] = r]
  /\ UNCHANGED <<domain, temp, save, seen, result, disturbed, items>>

(***************************************************************************)
(* dns_parse_name and dns_parse_response.                                  *)
(***************************************************************************)
\* Fault: at a pointer the name ends.
dns_parse_name_Cut(chunk, ptr) ==
  LET start == IF chunk[ptr].kind = "pointer" THEN chunk[ptr].n ELSE ptr
      name[k \in DOMAIN chunk] ==
        IF chunk[k].kind # "label" THEN <<>>
        ELSE <<chunk[k].arg>> \o (IF chunk[k + 1].kind = "label" THEN <<".">> ELSE <<>>) \o name[k + 1]
  IN  name[start]

dns_parse_name(chunk, ptr) ==
  LET name[k \in DOMAIN chunk] ==
        CASE chunk[k].kind = "end" -> <<>>
          [] chunk[k].kind = "pointer" -> name[chunk[k].n]
          [] chunk[k].kind = "label" ->
               <<chunk[k].arg>> \o (IF chunk[k + 1].kind = "end" THEN <<>> ELSE <<".">>) \o name[k + 1]
  IN  name[ptr]

\* The name of a record is taken for a pointer, and skipped as one.
ParseAnswer(chunk, st) ==
  LET fields == chunk[st.ptr + 1]  data == st.ptr + 2 IN
  IF fields.arg = "A"
    THEN [ptr |-> data + fields.n,
          list |-> Append(st.list, [domain |-> dns_parse_name(chunk, st.ptr), ip |-> chunk[data].arg])]
    ELSE [st EXCEPT !.ptr = data + fields.n]

dns_parse_response(chunk, answers) ==
  LET first == 1 + Min({k \in DOMAIN chunk : chunk[k].kind = "end"})
      st[k \in 0 .. answers] == IF k = 0 THEN [ptr |-> first, list |-> <<>>] ELSE ParseAnswer(chunk, st[k - 1])
  IN  st[answers].list

Parse(t) ==
  /\ pc[t] = "parse" /\ Go(t, "parsed")
  /\ items' = [items EXCEPT ![t] = dns_parse_response(answer[t].cells, answer[t].answers)]
  /\ UNCHANGED <<domain, temp, save, seen, result, disturbed, answer>>

Next == \E t \in Thread :
  Begin(t) \/ strtok_first(t) \/ strtok_read(t) \/ strtok_write(t) \/ FreeTemp(t) \/ EndTask(t) \/ Answer(t) \/ Parse(t)

Spec == Init /\ [][Next]_vars
--------------------------------------------------------------------------------
\* A thread asks for the name it was given, as long as no other thread calls
\* strtok between its first call and its last.
AsksOwnName == \A t \in Thread :
  pc[t] \in {"ask", "parse", "parsed"} /\ t \notin disturbed => result[t] = domain[t]

\* The addresses found are those the server has sent, each with the name it
\* belongs to, however the names are shortened.
FindsAddresses == \A t \in Thread :
  pc[t] = "parsed" => items[t] = answer[t].stands
================================================================================
