------------------------------ MODULE MCRpcBridge ------------------------------
(* An instance of RpcBridge: requests are interchangeable, and so are       *)
(* sockets, and the changes of a request.                                   *)
EXTENDS RpcBridge, TLC

Symmetry == Permutations(Rpc) \cup Permutations(Socket) \cup Permutations(Part)
=============================================================================
