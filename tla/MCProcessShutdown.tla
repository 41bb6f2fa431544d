------------------------ MODULE MCProcessShutdown ------------------------
(***************************************************************************)
(* The process component: shutdown and its signal and console handlers   *)
(* (ProcessShutdown), on the Win32 build the dump-file configuration and *)
(* exception filter (DumpFile), and daemonize (Daemonize).  They share no *)
(* state, so a step is a step of one of them; the dump-file environment   *)
(* matters only to the Win32 build and is left empty on POSIX.            *)
(*                                                                         *)
(* daemonize is called by the main thread before any other thread runs   *)
(* (fork copies only the calling thread), so it is enabled only while no  *)
(* thread has begun and no signal has come; once the process has exited  *)
(* (fork failed), nothing else runs.                                       *)
(***************************************************************************)
EXTENDS ProcessShutdown, DumpFile, Daemonize

CONSTANTS w1, w2, h1, d1

MCWaiters == {w1, w2}
MCCtrlThreads == {h1}
MCDirs == {d1}

MCInit ==
  /\ Init /\ DumpInit /\ DaemonInit
  /\ platform = "posix" => existing = {} /\ loadable = {} /\ old = {}

NothingStarted ==
  /\ signals = 0 /\ dcalls = 0 /\ dump = "none"
  /\ \A t \in Threads : pc[t] \in {"start", "unborn"}

Daemonize ==
  /\ NothingStarted
  /\ \/ platform = "posix" /\ daemonize
     \/ platform = "win32" /\ daemonize_win32
  /\ UNCHANGED <<vars, dvars>>

(* A step of ProcessShutdown, while the process lives. *)
Alive(A) == dpc # "exited" /\ A /\ UNCHANGED <<dvars, daemon_vars>>

MCNext ==
  \/ Daemonize
  \/ Alive(Next)
  \/ dpc # "exited" /\ platform = "win32" /\ DumpNext /\ UNCHANGED <<vars, daemon_vars>>

(* The threads are scheduled fairly (ProcessShutdown's Fairness) while *)
(* the process lives.                                                    *)
MCFairness ==
  \A t \in Threads :
    /\ WF_<<vars, dvars, daemon_vars>>(Alive(ShutdownLock(t) \/ ShutdownBody(t)))
    /\ WF_<<vars, dvars, daemon_vars>>(Alive(WaitLock(t) \/ WaitTest(t) \/ WaitWake(t)
                                          \/ WaitRelock(t)))
    /\ WF_<<vars, dvars, daemon_vars>>(Alive(HandlerLock(t) \/ HandlerBody(t)))

MCSpec == MCInit /\ [][MCNext]_<<vars, dvars, daemon_vars>> /\ MCFairness
=============================================================================
