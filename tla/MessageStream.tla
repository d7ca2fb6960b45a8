--------------------------- MODULE MessageStream ---------------------------
(***************************************************************************)
(* What KCP promises to its two users: each receives the messages of the   *)
(* other, whole, once and in the order they were sent.  Segments,          *)
(* acknowledgements, windows and the network are not visible here; Kcp     *)
(* implements this specification.                                          *)
(***************************************************************************)
EXTENDS Naturals, Sequences

CONSTANTS End, Message, Peer(_)

VARIABLES sent, got

vars == <<sent, got>>

Init == sent = [e \in End |-> <<>>] /\ got = [e \in End |-> <<>>]

Send(e, m) ==
  /\ sent' = [sent EXCEPT ![e] = Append(@, m)]
  /\ UNCHANGED got

Receive(e) ==
  /\ Len(got[e]) < Len(sent[Peer(e)])
  /\ got' = [got EXCEPT ![e] = Append(@, sent[Peer(e)][Len(@) + 1])]
  /\ UNCHANGED sent

Next == \E e \in End : Receive(e) \/ \E m \in Message : Send(e, m)

Spec == Init /\ [][Next]_vars
=============================================================================
