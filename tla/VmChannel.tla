----------------------------- MODULE VmChannel -----------------------------
(***************************************************************************)
(* What the request queue of jpp_vm_core promises its users: while the    *)
(* runtime runs it is a bounded first-in first-out channel.  A request is  *)
(* refused only when the channel is full, a new runtime starts with an     *)
(* empty channel, and nothing is delivered while it is not running.  The   *)
(* ring buffer of VmQueue implements this specification.                   *)
(***************************************************************************)
EXTENDS Naturals, Sequences

CONSTANTS Request, NoRequest

VARIABLES running,   \* the runtime accepts and delivers requests
          depth,     \* how many requests the channel holds
          pending,   \* the accepted requests, oldest first
          delivered  \* the request handed out last

channelVars == <<running, depth, pending, delivered>>

ChannelInit == running = FALSE /\ depth = 0 /\ pending = <<>> /\ delivered = NoRequest

\* A new runtime: every request of the previous one is gone.
Renew == /\ running' = FALSE
         /\ depth' \in Nat \ {0}
         /\ pending' = <<>>
         /\ delivered' = NoRequest

Open == running' = TRUE /\ UNCHANGED <<depth, pending, delivered>>

Accept(r) == /\ running
             /\ Len(pending) < depth
             /\ pending' = Append(pending, r)
             /\ UNCHANGED <<running, depth, delivered>>

Deliver == /\ running
           /\ pending # <<>>
           /\ delivered' = Head(pending)
           /\ pending' = Tail(pending)
           /\ UNCHANGED <<running, depth>>

ChannelNext == Renew \/ Open \/ (\E r \in Request : Accept(r)) \/ Deliver

ChannelSpec == ChannelInit /\ [][ChannelNext]_channelVars
=============================================================================
