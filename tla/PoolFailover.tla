---------------------------- MODULE PoolFailover ----------------------------
(***************************************************************************)
(* The listener and the RPC manager of the primary chain (pool/work.go,    *)
(* pool/nodes.go, rpc/manager.go).                                         *)
(*                                                                         *)
(* When it starts, the pool copies the client of the manager's active node *)
(* into activeNodes, and fetches its work from there ever after.  A fetch  *)
(* that fails runs CheckAndRecoverRPCs of the managers and is tried again. *)
(***************************************************************************)
EXTENDS RpcManager

VARIABLES
    activeNode,     \* the index behind GetPrimaryNode().RPC
    fetch           \* where fetchRpcBlockTemplatesAndCacheWork is

poolVars == <<vars, activeNode, fetch>>

\* loadBlockchainNodes
PoolInit ==
    /\ Init
    /\ activeNode = activeIndex
    /\ fetch = "wait"

\* A block notification begins a fetch.
Receive ==
    /\ fetch = "wait"
    /\ fetch' = "first"
    /\ UNCHANGED <<vars, activeNode>>

FirstFetch ==
    /\ fetch = "first"
    /\ up[activeNode]
    /\ fetch' = "wait"
    /\ UNCHANGED <<vars, activeNode>>

FirstFetchFails ==
    /\ fetch = "first"
    /\ ~up[activeNode]
    /\ CheckAndRecoverRPCs
    /\ fetch' = "recover"
    /\ UNCHANGED activeNode

\* The call goes on, until it returns without an error or with one.
Recover ==
    /\ fetch = "recover"
    /\ Caller
    /\ fetch' = CASE stage' # "idle" -> "recover"
                  [] stage' = "idle" /\ stage = "error" -> "wait"
                  [] OTHER -> "retry"
    /\ UNCHANGED activeNode

\* The second fetch, whose failure only leaves the old work in place.
Retry ==
    /\ fetch = "retry"
    /\ fetch' = "wait"
    /\ UNCHANGED <<vars, activeNode>>

Others ==
    /\ CheckPrimary \/ RestorePrimary \/ \E n \in Nodes : GoDown(n) \/ ComeBack(n)
    /\ UNCHANGED <<activeNode, fetch>>

PoolNext ==
    \/ Receive
    \/ FirstFetch
    \/ FirstFetchFails
    \/ Recover
    \/ Retry
    \/ Others

PoolSpec == PoolInit /\ [][PoolNext]_poolVars

\* "Switch nodes if we fail to get work" (work.go:96): after a recovery the
\* fetch is tried at the node that the recovery found healthy.
SwitchesNodes == fetch = "retry" => activeNode = client

=============================================================================
