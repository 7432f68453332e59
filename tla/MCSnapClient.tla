---------------------------- MODULE MCSnapClient ----------------------------
(* A small instance of SnapClient: two task identities (one more than the  *)
(* client should ever use), one server, two sockets.                       *)
EXTENDS SnapClient
CONSTANTS t1, t2, h1

TwoTasks == {t1, t2}
OneHost  == {h1}
=============================================================================
