--------------------------- MODULE WatchdogTimer ---------------------------
(***************************************************************************)
(* pion::tcp::timer (src/src/tcp_timer.cpp) guarding the reads of one     *)
(* keep-alive connection.  Each read r (1..MaxReads) gets a fresh timer   *)
(* object: the reader starts it, issues async_read_some, and in the read  *)
(* completion handler cancels it.  The timer callback runs on whichever   *)
(* worker thread dequeues it, concurrently with the reader's handlers;   *)
(* start(), cancel() and timer_callback() each hold the timer's m_mutex  *)
(* for their whole body, so each is one atomic step.                       *)
(*                                                                         *)
(* A timer's asio wait is "none", "pending", or completed and queued for  *)
(* dispatch with success ("expired") or operation_aborted ("aborted").    *)
(* The read is "none", "pending", or completed and queued with bytes      *)
(* ("data") or with operation_aborted ("aborted").                         *)
(***************************************************************************)
EXTENDS Naturals

CONSTANTS MaxReads   \* reads served on the connection before it closes

ASSUME MaxReads \in Nat \ {0}

Reads == 1..MaxReads

VARIABLES
  round,        \* the read the reader is serving
  rpc,          \* reader: "start", "reading" or "closed"
  op,           \* the outstanding async_read_some of the current round
  active,       \* active[r]: m_timer_active of timer r
  cancelled,    \* cancelled[r]: m_was_cancelled of timer r
  wait,         \* wait[r]: state of timer r's async_wait
  abort_cause   \* the timer whose callback aborted a read (0: none)

vars == <<round, rpc, op, active, cancelled, wait, abort_cause>>

-----------------------------------------------------------------------------
(* timer::timer(): both flags false, no wait scheduled. *)
NewTimer == [r \in Reads |-> FALSE]

(* timer::start(): m_timer_active = true; expires_from_now; async_wait. *)
TimerStart(r) ==
  /\ active' = [active EXCEPT ![r] = TRUE]
  /\ wait' = [wait EXCEPT ![r] = "pending"]

(***************************************************************************)
(* timer::cancel(): m_was_cancelled = true; if m_timer_active, cancel the *)
(* steady_timer, which aborts the wait only if it has not yet expired.    *)
(***************************************************************************)
TimerCancel(r) ==
  /\ cancelled' = [cancelled EXCEPT ![r] = TRUE]
  /\ wait' = [wait EXCEPT ![r] = IF active[r] /\ wait[r] = "pending"
                                 THEN "aborted" ELSE wait[r]]

(***************************************************************************)
(* tcp::connection::cancel(): cancels the socket's outstanding operations:*)
(* a read still pending completes with operation_aborted; one whose bytes *)
(* already arrived is not affected.                                         *)
(***************************************************************************)
ConnCancel(r) ==
  IF op = "pending"
  THEN op' = "aborted" /\ abort_cause' = r
  ELSE UNCHANGED <<op, abort_cause>>

(* Mutant: the callback tests the flag it has just cleared. *)
TimerCallbackTestsActive(r) ==
  /\ wait[r] \in {"expired", "aborted"}
  /\ wait' = [wait EXCEPT ![r] = "none"]
  /\ active' = [active EXCEPT ![r] = FALSE]
  /\ IF active'[r] THEN ConnCancel(r) ELSE UNCHANGED <<op, abort_cause>>
  /\ UNCHANGED <<round, rpc, cancelled>>

(* Mutant: the naive design, acting on the wait's error code. *)
TimerCallbackTestsError(r) ==
  /\ wait[r] \in {"expired", "aborted"}
  /\ wait' = [wait EXCEPT ![r] = "none"]
  /\ active' = [active EXCEPT ![r] = FALSE]
  /\ IF wait[r] = "expired" THEN ConnCancel(r) ELSE UNCHANGED <<op, abort_cause>>
  /\ UNCHANGED <<round, rpc, cancelled>>

(***************************************************************************)
(* timer::timer_callback(ec): dispatched once the wait completes, whatever *)
(* ec is.  m_timer_active = false; if !m_was_cancelled, cancel the         *)
(* connection.  ec is ignored.                                              *)
(***************************************************************************)
TimerCallback(r) ==
  /\ wait[r] \in {"expired", "aborted"}
  /\ wait' = [wait EXCEPT ![r] = "none"]
  /\ active' = [active EXCEPT ![r] = FALSE]
  /\ IF ~cancelled[r] THEN ConnCancel(r) ELSE UNCHANGED <<op, abort_cause>>
  /\ UNCHANGED <<round, rpc, cancelled>>

(* The deadline of timer r passes while its wait is pending. *)
Expire(r) ==
  /\ wait[r] = "pending"
  /\ wait' = [wait EXCEPT ![r] = "expired"]
  /\ UNCHANGED <<round, rpc, op, active, cancelled, abort_cause>>

-----------------------------------------------------------------------------
(***************************************************************************)
(* http::reader::read_bytes_with_timeout(): create and start a timer for  *)
(* this read, then read_bytes(), i.e. async_read_some.                     *)
(***************************************************************************)
StartRead ==
  /\ rpc = "start"
  /\ TimerStart(round)
  /\ op' = "pending"
  /\ rpc' = "reading"
  /\ UNCHANGED <<round, cancelled, abort_cause>>

(* Bytes from the peer complete the pending read. *)
DataArrives ==
  /\ op = "pending"
  /\ op' = "data"
  /\ UNCHANGED <<round, rpc, active, cancelled, wait, abort_cause>>

(* Mutant: an off-by-one in the keep-alive loop's last-read test. *)
ConsumeBytesPastLast ==
  /\ rpc = "reading"
  /\ op \in {"data", "aborted"}
  /\ TimerCancel(round)
  /\ IF op = "data" /\ round <= MaxReads
     THEN round' = round + 1 /\ rpc' = "start"
     ELSE rpc' = "closed" /\ UNCHANGED round
  /\ op' = "none"
  /\ UNCHANGED <<active, abort_cause>>

(***************************************************************************)
(* http::reader::consume_bytes(): cancel and drop the timer, then either  *)
(* go on with the next read of the keep-alive connection, or finish: the  *)
(* last message is complete, or the read failed and the connection is     *)
(* closed.                                                                  *)
(***************************************************************************)
ConsumeBytes ==
  /\ rpc = "reading"
  /\ op \in {"data", "aborted"}
  /\ TimerCancel(round)
  /\ IF op = "data" /\ round < MaxReads
     THEN round' = round + 1 /\ rpc' = "start"
     ELSE rpc' = "closed" /\ UNCHANGED round
  /\ op' = "none"
  /\ UNCHANGED <<active, abort_cause>>

-----------------------------------------------------------------------------
Init ==
  /\ round = 1
  /\ rpc = "start"
  /\ op = "none"
  /\ active = NewTimer
  /\ cancelled = NewTimer
  /\ wait = [r \in Reads |-> "none"]
  /\ abort_cause = 0

Next ==
  \/ StartRead
  \/ DataArrives
  \/ ConsumeBytes
  \/ \E r \in Reads : Expire(r) \/ TimerCallback(r)

(***************************************************************************)
(* Deadlines pass, and worker threads dispatch every queued completion    *)
(* handler (Scheduler's ShutdownReturns shows workers keep running while  *)
(* the scheduler runs).  The peer is not fair: it may never send.          *)
(***************************************************************************)
Fairness ==
  /\ WF_vars(StartRead)
  /\ WF_vars(ConsumeBytes)
  /\ \A r \in Reads : WF_vars(Expire(r)) /\ WF_vars(TimerCallback(r))

Spec == Init /\ [][Next]_vars /\ Fairness

-----------------------------------------------------------------------------
TypeOK ==
  /\ round \in Reads
  /\ rpc \in {"start", "reading", "closed"}
  /\ op \in {"none", "pending", "data", "aborted"}
  /\ active \in [Reads -> BOOLEAN]
  /\ cancelled \in [Reads -> BOOLEAN]
  /\ wait \in [Reads -> {"none", "pending", "expired", "aborted"}]
  /\ abort_cause \in 0..MaxReads

(***************************************************************************)
(* A read is aborted only by its own watchdog: a late callback of an      *)
(* earlier read's timer, whose wait expired just before consume_bytes()   *)
(* cancelled it, never cancels the connection under the next read.        *)
(***************************************************************************)
AbortedByOwnTimer ==
  op = "aborted" => abort_cause = round

(***************************************************************************)
(* The watchdog bounds every read: a read the peer never answers is       *)
(* aborted by the timeout, so the reader always leaves "reading".          *)
(***************************************************************************)
ReadEnds ==
  rpc = "reading" ~> rpc # "reading"
=============================================================================
