------------------------------ MODULE KcpLive ------------------------------
(***************************************************************************)
(* What Kcp promises in the long run.  The steps of Kcp, each leaving its  *)
(* name in step, so that fairness can be said of the steps that were taken *)
(* (ENABLED of Kcp's actions is out of TLC's reach).                       *)
(***************************************************************************)
EXTENDS Kcp

VARIABLE step

Commands == {"ACK", "PUSH", "WASK", "WINS"}
Other == <<"other", 0, "">>
Faulty == <<"faulty", 0, "">>

LiveInit == Init /\ step = Other

\* A flush that loses nothing; and among these the flush that also finds every
\* timer run out.
Lossless(e) ==
  \/ /\ \E late \in SUBSET Waiting(kcp[e]), due \in BOOLEAN : Flush(e, late, due, TRUE)
     /\ step' = Other
  \/ Flush(e, Waiting(kcp[e]), TRUE, TRUE) /\ step' = <<"timeout", e, "">>

LiveNext ==
  \/ \E e \in End : \/ Lossless(e)
                    \/ ikcp_update(e) /\ step' = Faulty
                    \/ Recv(e) /\ step' = <<"recv", e, "">>
  \/ \E e \in End, n \in 1 .. MaxFrag : ikcp_send(e, n) /\ step' = Other
  \/ \E d \in net : Input(d, net) /\ step' = Faulty
  \/ \E d \in net : Input(d, net \ {d}) /\ step' = <<"arrives", d.to, Head(d.segs).cmd>>

\* Whatever the network has lost and doubled before, from some time on it does
\* so no more; ikcp_update is called again and again, and now and then finds
\* its timers run out; the user reads what has arrived; and no kind of
\* datagram is held back for ever.
Fairness ==
  /\ <>[](step # Faulty)
  /\ \A e \in End :
       /\ []<>(step = <<"timeout", e, "">>)
       /\ []<>(HeadSegments(kcp[e].rcv_queue) = 0 \/ step = <<"recv", e, "">>)
       /\ \A cmd \in Commands :
            []<>(\/ \A d \in net : d.to # e \/ Head(d.segs).cmd # cmd
                 \/ step = <<"arrives", e, cmd>>)

LiveSpec == LiveInit /\ [][LiveNext]_<<vars, step>> /\ Fairness

\* Every message is delivered at last, and every segment acknowledged, even
\* when the reader was slow, the window closed, and the datagram that opens
\* it again was lost.
EverythingArrives ==
  \A e \in End, i \in 1 .. MaxMsg :
    Len(sent[e]) >= i ~> Len(got[Peer(e)]) >= i /\ kcp[e].snd_buf = {}
=============================================================================
