-------------------------- MODULE ClientConnection --------------------------
(***************************************************************************)
(* One keep-alive HTTP connection used by a client: for each round r it   *)
(* sends request r with a request_writer (RequestWriter), then reads the  *)
(* response with a response_reader, whose reads are guarded by a          *)
(* tcp::timer watchdog (WatchdogTimer).  The writer's completion handler  *)
(* (finished_writing) starts the read once the request is sent; a write  *)
(* error makes the caller close the connection.                           *)
(*                                                                         *)
(* The refinement: the writer of each round implements BodyStream, the   *)
(* abstract promise of an HTTP message writer.                            *)
(***************************************************************************)
EXTENDS Naturals

CONSTANTS MaxReads, Data, Content, RequestContents, MaxWrites

VARIABLES
  round, rpc, op, active, cancelled, wait, abort_cause,           \* reader
  wpc, content, cl, payload, headers_sent, chunking, final,       \* writers
  outgoing, wire, written, peer

W == INSTANCE WatchdogTimer
RW == INSTANCE RequestWriter WITH Msgs <- 1 .. MaxReads

rvars == <<round, rpc, op, active, cancelled, wait, abort_cause>>
wvars == <<wpc, content, cl, payload, headers_sent, chunking, final, outgoing,
           wire, written, peer>>
vars == <<rvars, wvars>>

-----------------------------------------------------------------------------
(* Writer r runs while its round is current and the read has not started. *)
WriteRequest(r) ==
  /\ r = round /\ rpc = "start"
  /\ RW!WriterNext(r)
  /\ UNCHANGED rvars

(***************************************************************************)
(* finished_writing(success) for the last send: the caller's handler      *)
(* starts response_reader::receive, i.e. read_bytes_with_timeout.         *)
(***************************************************************************)
ReadResponse ==
  /\ wpc[round] = "done"
  /\ W!StartRead
  /\ UNCHANGED wvars

(* finished_writing(error): the caller closes the connection. *)
WriteFailed ==
  /\ rpc = "start" /\ wpc[round] = "failed"
  /\ rpc' = "closed"
  /\ UNCHANGED <<round, op, active, cancelled, wait, abort_cause>>
  /\ UNCHANGED wvars

(* The reader's and the timers' own steps leave the writers alone. *)
ReaderStep(A) == A /\ UNCHANGED wvars

Init == W!Init /\ RW!InitWriters

Next ==
  \/ \E r \in 1 .. MaxReads : WriteRequest(r)
  \/ ReadResponse
  \/ WriteFailed
  \/ ReaderStep(W!DataArrives)
  \/ ReaderStep(W!ConsumeBytes)
  \/ \E r \in 1 .. MaxReads : ReaderStep(W!Expire(r)) \/ ReaderStep(W!TimerCallback(r))

(* The completion handler of round r's outstanding write runs. *)
WriteCompletes(r) ==
  /\ r = round /\ wpc[r] = "writing"
  /\ \E v \in {"ready", "done", "failed"} : wpc' = [wpc EXCEPT ![r] = v]

(***************************************************************************)
(* As in WatchdogTimer: deadlines pass and the worker threads dispatch    *)
(* every queued handler, including the write completions.  Neither the    *)
(* caller (who may never send) nor the peer is fair.                       *)
(***************************************************************************)
Fairness ==
  /\ WF_vars(ReadResponse)
  /\ WF_vars(WriteFailed)
  /\ WF_vars(ReaderStep(W!ConsumeBytes))
  /\ \A r \in 1 .. MaxReads :
       /\ WF_vars(ReaderStep(W!Expire(r)))
       /\ WF_vars(ReaderStep(W!TimerCallback(r)))
       /\ WF_wpc(WriteCompletes(r))

Spec == Init /\ [][Next]_vars /\ Fairness

-----------------------------------------------------------------------------
TypeOK == W!TypeOK /\ RW!TypeOK

(* A read is aborted only by its own watchdog (WatchdogTimer), with the   *)
(* writes of each round interleaved with the timers' late callbacks.      *)
AbortedByOwnTimer == W!AbortedByOwnTimer

(* Every read of a response ends, by data, by its timeout, or by close. *)
ReadEnds == W!ReadEnds

(* What the caller of request r's writer is told about the message. *)
Outcome(r) ==
  CASE wpc[r] = "done"   -> "complete"
    [] wpc[r] = "failed" -> "failed"
    [] OTHER             -> "open"

S(r) == INSTANCE BodyStream
          WITH Data <- Data \cup {Content}, written <- written[r],
               received <- RW!Received(r), outcome <- Outcome(r)

(***************************************************************************)
(* Each request_writer implements BodyStream: the server decodes exactly  *)
(* the body the caller wrote (the request's content, then each write),    *)
(* in order and once, whether it went out framed by Content-Length or in  *)
(* chunks; the send callback reports success only once the server has    *)
(* the whole message.  (This is \A r : S(r)!Spec, with [] taken out of    *)
(* the quantifier.)                                                        *)
(***************************************************************************)
WriterImplementsBodyStream ==
  /\ \A r \in 1 .. MaxReads : S(r)!Init
  /\ [][\A r \in 1 .. MaxReads : S(r)!Next \/ UNCHANGED <<written[r], RW!Received(r), Outcome(r)>>]_vars
=============================================================================
