----------------------------- MODULE BodyStream -----------------------------
(***************************************************************************)
(* What a MessageWriter promises for one message (spec.md 4.4 and 8): the *)
(* peer receives the body the caller handed over, in order, with nothing  *)
(* repeated or left out; the caller is told the message is sent only once *)
(* the peer has all of it; a failed write ends the message.                *)
(*                                                                         *)
(* written  - the body the caller has handed to the writer so far;         *)
(* received - the part of it the peer has decoded;                         *)
(* outcome  - "open", "complete" (the final send's callback reported       *)
(*            success) or "failed".                                        *)
(***************************************************************************)
EXTENDS Naturals, Sequences

CONSTANT Data   \* the pieces of body a caller may write

VARIABLES written, received, outcome

Init ==
  /\ written = <<>>
  /\ received = <<>>
  /\ outcome = "open"

(* The caller hands over one more piece of body. *)
Write(d) ==
  /\ outcome = "open"
  /\ written' = Append(written, d)
  /\ UNCHANGED <<received, outcome>>

(* Some more of the body reaches the peer, in order. *)
Deliver ==
  /\ \E k \in Len(received) + 1 .. Len(written) :
       received' = SubSeq(written, 1, k)
  /\ UNCHANGED <<written, outcome>>

(***************************************************************************)
(* The caller is told the message is sent, and at that point the peer has *)
(* all of it (the last of it may arrive in this same step).                *)
(***************************************************************************)
Complete ==
  /\ outcome = "open"
  /\ received' = written
  /\ outcome' = "complete"
  /\ UNCHANGED written

(* A write fails: the message ends with some prefix of it at the peer. *)
Fail ==
  /\ outcome = "open"
  /\ \E k \in Len(received) .. Len(written) :
       received' = SubSeq(written, 1, k)
  /\ outcome' = "failed"
  /\ UNCHANGED written

Next ==
  \/ \E d \in Data : Write(d)
  \/ Deliver
  \/ Complete
  \/ Fail

vars == <<written, received, outcome>>

Spec == Init /\ [][Next]_vars
=============================================================================
