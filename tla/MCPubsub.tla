------------------------------ MODULE MCPubsub ------------------------------
(* An instance of Pubsub: the application publishes, waits for s1 and lets *)
(* s2 come and go; another thread stops the server.                        *)
EXTENDS Pubsub, TLC

CONSTANTS app, other, s1, s2, block, tx

CallsOf == app :> {"pub", "sub", "unsub", "wait"} @@ other :> {"stop"}

TopicOfEach == s1 :> {block, tx} @@ s2 :> {block}
=============================================================================
