---------------------------- MODULE MessageStream ----------------------------
(***************************************************************************)
(* What the inbound half of a connection promises the code above it, and   *)
(* what Rpc takes for granted: in each session an ideal queue of messages. *)
(* The peer puts messages in, and they are handed out one at a time, in    *)
(* order, unaltered, never before they were put in whole, never twice, and *)
(* never in another session.  What was not handed out when a session ends  *)
(* is gone.                                                                *)
(***************************************************************************)
EXTENDS Naturals, Sequences

VARIABLES
    session,  (* sessions opened so far                                    *)
    put,      (* the messages the peer has sent whole in this session      *)
    got       (* the messages handed out in this session                   *)

streamVars == <<session, put, got>>

MInit == session = 0 /\ put = <<>> /\ got = <<>>

Open == session' = session + 1 /\ put' = <<>> /\ got' = <<>>

(* One write of the peer may complete several messages. *)
Put ==
    /\ Len(put') > Len(put)
    /\ \A i \in 1..Len(put) : put'[i] = put[i]
    /\ UNCHANGED <<session, got>>

Get ==
    /\ Len(got) < Len(put)
    /\ got' = Append(got, put[Len(got) + 1])
    /\ UNCHANGED <<session, put>>

MNext == Open \/ Put \/ Get
Spec == MInit /\ [][MNext]_streamVars
=============================================================================
