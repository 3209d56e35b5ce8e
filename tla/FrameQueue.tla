---------------------------- MODULE FrameQueue ----------------------------
(***************************************************************************)
(* What pciv_trans promises to its two clients: a lossy FIFO of frames.    *)
(* A frame handed to pciv_trans_send_data is either delivered whole, after *)
(* every delivered frame that was sent before it, or it is discarded; and  *)
(* while the receiver works on a frame its bytes do not change.            *)
(***************************************************************************)
EXTENDS Naturals, Sequences

CONSTANTS
  Payload   \* every content a frame can have

VARIABLES
  queue,    \* frames announced to the receiver and not yet taken
  loaned    \* frames the receiver's client is working on, oldest first

fqVars == <<queue, loaned>>

FQInit == queue = <<>> /\ loaned = <<>>

Put == /\ \E x \in Payload : queue' = Append(queue, x)
       /\ UNCHANGED loaned

Deliver == /\ queue # <<>>
           /\ loaned' = Append(loaned, Head(queue))
           /\ queue' = Tail(queue)

Discard == /\ queue # <<>>
           /\ queue' = Tail(queue)
           /\ UNCHANGED loaned

GiveBack == /\ loaned # <<>>
            /\ loaned' = Tail(loaned)
            /\ UNCHANGED queue

(* Both ends are shut down and their ports closed: what was queued is lost. *)
Shutdown == queue' = <<>> /\ loaned' = <<>>

FQNext == Put \/ Deliver \/ Discard \/ GiveBack \/ Shutdown

FQSpec == FQInit /\ [][FQNext]_fqVars
===========================================================================
