----------------------------- MODULE MCSendQueue -----------------------------
(***************************************************************************)
(* SendQueue for TLC: messages that differ, so that order shows.           *)
(***************************************************************************)
EXTENDS SendQueue

MCMsg == {"getregnode", "data"}

BrokerSemInit == {0}  \* sem_init(&Msg_Sem, 0, 0)
=============================================================================
