---------------------------- MODULE MCRpcClient ----------------------------
(***************************************************************************)
(* Goroutines with which TLC checks RpcClient.                             *)
(***************************************************************************)
EXTENDS RpcClient

CONSTANTS a, b                  (* model values: goroutines                *)

TwoThreads == {a, b}
=============================================================================
