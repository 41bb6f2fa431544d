------------------------- MODULE ProcessShutdown -------------------------
(***************************************************************************)
(* pion::process::shutdown and wait_for_shutdown (src/src/process.cpp)    *)
(* with the handlers installed by process::initialize.                     *)
(*                                                                         *)
(* Waiters call wait_for_shutdown.  SIGINT/SIGTERM run handle_signal,    *)
(* which calls shutdown (nothing else in the repository calls it):       *)
(*  - on POSIX the handler runs ON the thread the signal interrupts, in   *)
(*    the middle of whatever that thread was doing (hpc[t]);               *)
(*  - on Win32 console_ctrl_handler runs on a thread of its own, one of    *)
(*    CtrlThreads, started by the console control event.                   *)
(* shutdown_mutex is `mutex` (its holder, or NoThread); shutdown_cond's   *)
(* waiters are `cv`.                                                       *)
(***************************************************************************)
EXTENDS Naturals

CONSTANTS
  Waiters,       \* threads calling wait_for_shutdown
  CtrlThreads,   \* Win32 console control handler threads
  Platforms,     \* the builds explored: "posix", "win32"
  MaxSignals,    \* the number of SIGINT/SIGTERM or console events
  NoThread

Threads == Waiters \cup CtrlThreads

(* The console control events; those console_ctrl_handler shuts down on. *)
ShutdownEvents == {"CTRL_C_EVENT", "CTRL_BREAK_EVENT", "CTRL_CLOSE_EVENT",
                   "CTRL_SHUTDOWN_EVENT"}
CtrlEvents == ShutdownEvents \cup {"CTRL_LOGOFF_EVENT"}

ASSUME Platforms \subseteq {"posix", "win32"} /\ MaxSignals \in Nat

VARIABLES
  platform,      \* the build: PION_WIN32 defined or not
  shutdown_now,  \* cfg.shutdown_now
  mutex,         \* holder of cfg.shutdown_mutex
  cv,            \* threads blocked in cfg.shutdown_cond.wait
  pc,            \* pc[t]: where thread t is in its own code
  hpc,           \* hpc[t]: POSIX handle_signal running on t ("none", "lock", "body")
  signals        \* signals delivered so far

vars == <<platform, shutdown_now, mutex, cv, pc, hpc, signals>>

(* Thread t runs its own code only while no signal handler is on top of it. *)
Running(t) == hpc[t] = "none"

-----------------------------------------------------------------------------
(* Mutant: shutdown() sets the flag but does not notify. *)
ShutdownCriticalNoNotify ==
  /\ shutdown_now' = TRUE
  /\ UNCHANGED cv

(***************************************************************************)
(* Lines 39-42, under shutdown_mutex: the first call sets shutdown_now and *)
(* wakes every waiter; later calls do nothing.                             *)
(***************************************************************************)
ShutdownCritical ==
  IF ~shutdown_now
  THEN shutdown_now' = TRUE /\ cv' = {}
  ELSE UNCHANGED <<shutdown_now, cv>>

(* shutdown(), line 38: lock shutdown_mutex. *)
ShutdownLock(t) ==
  /\ t \in CtrlThreads
  /\ pc[t] = "start" /\ Running(t)
  /\ mutex = NoThread
  /\ mutex' = t
  /\ pc' = [pc EXCEPT ![t] = "body"]
  /\ UNCHANGED <<platform, shutdown_now, cv, hpc, signals>>

(* shutdown(), lines 39-43: set and notify, then unlock on return. *)
ShutdownBody(t) ==
  /\ pc[t] = "body" /\ Running(t)
  /\ ShutdownCritical
  /\ mutex' = NoThread
  /\ pc' = [pc EXCEPT ![t] = "done"]
  /\ UNCHANGED <<platform, hpc, signals>>

(* wait_for_shutdown(), line 48: lock shutdown_mutex. *)
WaitLock(t) ==
  /\ t \in Waiters
  /\ pc[t] = "start" /\ Running(t)
  /\ mutex = NoThread
  /\ mutex' = t
  /\ pc' = [pc EXCEPT ![t] = "test"]
  /\ UNCHANGED <<platform, shutdown_now, cv, hpc, signals>>

(***************************************************************************)
(* Line 49-50, holding the mutex: return (unlocking) once shutdown_now is *)
(* set; otherwise wait on shutdown_cond, which unlocks atomically.          *)
(***************************************************************************)
WaitTest(t) ==
  /\ pc[t] = "test" /\ Running(t)
  /\ mutex' = NoThread
  /\ IF shutdown_now
     THEN pc' = [pc EXCEPT ![t] = "done"] /\ UNCHANGED cv
     ELSE pc' = [pc EXCEPT ![t] = "waiting"] /\ cv' = cv \cup {t}
  /\ UNCHANGED <<platform, shutdown_now, hpc, signals>>

(* The wait returns after a notify_all has taken t off shutdown_cond. *)
WaitWake(t) ==
  /\ pc[t] = "waiting" /\ Running(t) /\ t \notin cv
  /\ pc' = [pc EXCEPT ![t] = "relock"]
  /\ UNCHANGED <<platform, shutdown_now, mutex, cv, hpc, signals>>

(* A spurious wakeup: the wait returns with no notification. *)
SpuriousWake(t) ==
  /\ pc[t] = "waiting" /\ Running(t) /\ t \in cv
  /\ cv' = cv \ {t}
  /\ pc' = [pc EXCEPT ![t] = "relock"]
  /\ UNCHANGED <<platform, shutdown_now, mutex, hpc, signals>>

(* Before returning, wait() re-locks the mutex; the loop then re-tests. *)
WaitRelock(t) ==
  /\ pc[t] = "relock" /\ Running(t)
  /\ mutex = NoThread
  /\ mutex' = t
  /\ pc' = [pc EXCEPT ![t] = "test"]
  /\ UNCHANGED <<platform, shutdown_now, cv, hpc, signals>>

-----------------------------------------------------------------------------
(***************************************************************************)
(* POSIX: initialize() installs handle_signal for SIGINT and SIGTERM.  A  *)
(* signal runs it on a live thread without a handler already running, at *)
(* whatever point that thread is.                                          *)
(***************************************************************************)
Signal(t) ==
  /\ platform = "posix" /\ signals < MaxSignals
  /\ t \in Waiters /\ pc[t] # "done" /\ Running(t)
  /\ signals' = signals + 1
  /\ hpc' = [hpc EXCEPT ![t] = "lock"]
  /\ UNCHANGED <<platform, shutdown_now, mutex, cv, pc>>

(***************************************************************************)
(* Win32: a console control event starts console_ctrl_handler on a thread*)
(* of its own.  Ctrl-C, Ctrl-Break, close and system shutdown call        *)
(* shutdown() (ShutdownLock, ShutdownBody); any other event returns FALSE.*)
(***************************************************************************)
ConsoleEvent(t, ev) ==
  /\ platform = "win32" /\ signals < MaxSignals
  /\ t \in CtrlThreads /\ pc[t] = "unborn"
  /\ signals' = signals + 1
  /\ pc' = [pc EXCEPT ![t] = IF ev \in ShutdownEvents THEN "start" ELSE "done"]
  /\ UNCHANGED <<platform, shutdown_now, mutex, cv, hpc>>

(***************************************************************************)
(* handle_signal -> shutdown(), line 38, on the interrupted thread t: it  *)
(* waits for shutdown_mutex like any locker.  If t itself holds it, the   *)
(* lock never succeeds (std::mutex is not recursive; in practice the      *)
(* thread deadlocks on itself).                                             *)
(***************************************************************************)
HandlerLock(t) ==
  /\ hpc[t] = "lock"
  /\ mutex = NoThread
  /\ mutex' = t
  /\ hpc' = [hpc EXCEPT ![t] = "body"]
  /\ UNCHANGED <<platform, shutdown_now, cv, pc, signals>>

(* The handler's shutdown() body; then the interrupted code resumes. *)
HandlerBody(t) ==
  /\ hpc[t] = "body"
  /\ ShutdownCritical
  /\ mutex' = NoThread
  /\ hpc' = [hpc EXCEPT ![t] = "none"]
  /\ UNCHANGED <<platform, pc, signals>>

-----------------------------------------------------------------------------
Init ==
  /\ platform \in Platforms
  /\ shutdown_now = FALSE
  /\ mutex = NoThread
  /\ cv = {}
  /\ pc = [t \in Threads |-> IF t \in CtrlThreads THEN "unborn" ELSE "start"]
  /\ hpc = [t \in Threads |-> "none"]
  /\ signals = 0

Next ==
  \E t \in Threads :
    \/ ShutdownLock(t) \/ ShutdownBody(t)
    \/ WaitLock(t) \/ WaitTest(t) \/ WaitWake(t) \/ SpuriousWake(t) \/ WaitRelock(t)
    \/ Signal(t) \/ \E ev \in CtrlEvents : ConsoleEvent(t, ev)
    \/ HandlerLock(t) \/ HandlerBody(t)

(***************************************************************************)
(* Every thread that can run is eventually scheduled.  Signals and       *)
(* spurious wakeups are not forced.                                        *)
(***************************************************************************)
Fairness ==
  \A t \in Threads :
    /\ WF_vars(ShutdownLock(t) \/ ShutdownBody(t))
    /\ WF_vars(WaitLock(t) \/ WaitTest(t) \/ WaitWake(t) \/ WaitRelock(t))
    /\ WF_vars(HandlerLock(t) \/ HandlerBody(t))

Spec == Init /\ [][Next]_vars /\ Fairness

-----------------------------------------------------------------------------
(***************************************************************************)
(* Once shutdown() has run, every thread in wait_for_shutdown returns: no *)
(* waiter misses the notification, whichever order it and shutdown() take *)
(* the mutex in.                                                            *)
(***************************************************************************)
WaitersReleased ==
  shutdown_now ~> \A t \in Waiters : pc[t] = "done"

(***************************************************************************)
(* A SIGINT or SIGTERM shuts the process down: once a handler has started, *)
(* shutdown_now is eventually set and every waiter returns.                *)
(***************************************************************************)
SignalShutsDown ==
  signals > 0 ~> (shutdown_now /\ \A t \in Waiters : pc[t] = "done")
=============================================================================
