------------------------------ MODULE MCTcpP2p ------------------------------
(* One peer types enough for its outbuf to be compacted, the other answers. *)
EXTENDS TcpP2p

Typed == <<3, 1>>
=============================================================================
