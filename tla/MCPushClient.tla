---------------------------- MODULE MCPushClient ----------------------------
(* Instances of PushClient for TLC. *)
EXTENDS PushClient

NoPoison == {}
OldestPoison == {1}
SomePoison == {2}
=============================================================================
