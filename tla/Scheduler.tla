----------------------------- MODULE Scheduler -----------------------------
(***************************************************************************)
(* pion::scheduler (src/src/scheduler.cpp): the worker-thread pool, its   *)
(* active-user count and the drain-based shutdown/join protocol.          *)
(*                                                                         *)
(* Actors:                                                                 *)
(*   Users       threads that register with add_active_user() and          *)
(*               deregister with remove_active_user() (servers and        *)
(*               connections holding the scheduler);                       *)
(*   Controllers threads that call shutdown() and join();                  *)
(*   Workers     the NumThreads threads started by startup(), each one     *)
(*               running process_service_work() on an io_service.          *)
(*                                                                         *)
(* Every section of the code that runs under m_mutex without waiting is   *)
(* one atomic step guarded by mutex = NoThread.  The mutex is held across *)
(* steps only by shutdown(), from the end of the drain loop until the     *)
(* worker threads have been joined.  condition_variable::wait releases   *)
(* the mutex, may return spuriously, and re-acquires it before returning. *)
(***************************************************************************)
EXTENDS Naturals, FiniteSets

CONSTANTS
  Users,        \* threads that call add_active_user / remove_active_user
  Controllers,  \* threads that call shutdown / join
  NumThreads,   \* m_num_threads
  Strategy,     \* "single" (single_service_scheduler) or "one_to_one"
  NoThread      \* the value of mutex when nobody holds m_mutex

ASSUME /\ Users \cap Controllers = {}
       /\ NumThreads \in Nat \ {0}
       /\ Strategy \in {"single", "one_to_one"}

Workers == 1..NumThreads

VARIABLES
  is_running,     \* m_is_running
  active_users,   \* m_active_users
  mutex,          \* the thread holding m_mutex across steps, or NoThread
  pc,             \* program counter of each user and controller thread
  registered,     \* registered[u]: u's add_active_user() has taken effect
  no_users_cv,    \* threads blocked in m_no_more_active_users.wait()
  stopped_cv,     \* threads blocked in m_scheduler_has_stopped.wait()
  wpc,            \* wpc[w]: where worker thread w is in process_service_work
  stopped         \* stopped[s]: io_service s has been stop()ped

vars == <<is_running, active_users, mutex, pc, registered, no_users_cv,
          stopped_cv, wpc, stopped>>

(***************************************************************************)
(* The io_services.  single_service_scheduler drives one service from all *)
(* threads; one_to_one_scheduler creates one service per thread and       *)
(* thread n runs m_service_pool[n].                                        *)
(***************************************************************************)
Services == IF Strategy = "single" THEN {1} ELSE Workers

ServiceOf(w) == IF Strategy = "single" THEN 1 ELSE w

(***************************************************************************)
(* keep_running re-arms a 5 s timer on every service while m_is_running, *)
(* so io_service::run() does not run out of work: it returns only once   *)
(* the service is stopped, or once the timer has stopped being re-armed. *)
(***************************************************************************)
RunReturns(s) == stopped[s] \/ ~is_running

-----------------------------------------------------------------------------
(***************************************************************************)
(* startup(): under the mutex, if not yet running, set m_is_running,      *)
(* reset (single) or create (one_to_one) the services, schedule the       *)
(* keep-running timers and start NumThreads worker threads.               *)
(***************************************************************************)
StartupBody ==
  IF is_running
  THEN UNCHANGED <<is_running, stopped, wpc>>
  ELSE /\ is_running' = TRUE
       /\ stopped' = [s \in Services |-> FALSE]
       /\ wpc' = [w \in Workers |-> "check"]

(***************************************************************************)
(* add_active_user(), first half: m_is_running is read WITHOUT the mutex; *)
(* startup() is called only if it was false.                               *)
(***************************************************************************)
AddCheckRunning(u) ==
  /\ pc[u] = "idle"
  /\ ~registered[u]
  /\ pc' = [pc EXCEPT ![u] = IF is_running THEN "add" ELSE "startup"]
  /\ UNCHANGED <<is_running, active_users, mutex, registered, no_users_cv,
                 stopped_cv, wpc, stopped>>

Startup(u) ==
  /\ pc[u] = "startup"
  /\ mutex = NoThread
  /\ StartupBody
  /\ pc' = [pc EXCEPT ![u] = "add"]
  /\ UNCHANGED <<active_users, mutex, registered, no_users_cv, stopped_cv>>

(* add_active_user(), second half: ++m_active_users under the mutex. *)
AddActiveUser(u) ==
  /\ pc[u] = "add"
  /\ mutex = NoThread
  /\ active_users' = active_users + 1
  /\ registered' = [registered EXCEPT ![u] = TRUE]
  /\ pc' = [pc EXCEPT ![u] = "idle"]
  /\ UNCHANGED <<is_running, mutex, no_users_cv, stopped_cv, wpc, stopped>>

(* Mutant: a remove_active_user() that is not paired with an addition. *)
RemoveActiveUserUnpaired(u) ==
  /\ pc[u] = "idle"
  /\ mutex = NoThread
  /\ active_users' = active_users - 1
  /\ no_users_cv' = IF active_users - 1 = 0 THEN {} ELSE no_users_cv
  /\ registered' = [registered EXCEPT ![u] = FALSE]
  /\ UNCHANGED <<is_running, mutex, pc, stopped_cv, wpc, stopped>>

(***************************************************************************)
(* remove_active_user(): --m_active_users under the mutex, and notify_all *)
(* on m_no_more_active_users when it reaches zero.                         *)
(***************************************************************************)
RemoveActiveUser(u) ==
  /\ pc[u] = "idle"
  /\ registered[u]
  /\ mutex = NoThread
  /\ active_users' = active_users - 1
  /\ no_users_cv' = IF active_users - 1 = 0 THEN {} ELSE no_users_cv
  /\ registered' = [registered EXCEPT ![u] = FALSE]
  /\ UNCHANGED <<is_running, mutex, pc, stopped_cv, wpc, stopped>>

-----------------------------------------------------------------------------
(***************************************************************************)
(* shutdown(), running branch.  The drain loop                            *)
(*     while (m_active_users > 0) m_no_more_active_users.wait(lock);      *)
(* is evaluated with the mutex held: either the thread waits again        *)
(* (releasing the mutex) or it leaves the loop, clears m_is_running and   *)
(* stops every service, keeping the mutex while it joins the workers.     *)
(***************************************************************************)
DrainOrStop(c) ==
  IF active_users > 0
  THEN /\ no_users_cv' = no_users_cv \cup {c}
       /\ pc' = [pc EXCEPT ![c] = "sd_wait"]
       /\ UNCHANGED <<is_running, mutex, stopped>>
  ELSE /\ is_running' = FALSE
       /\ stopped' = [s \in Services |-> TRUE]
       /\ mutex' = c
       /\ pc' = [pc EXCEPT ![c] = "sd_join"]
       /\ UNCHANGED no_users_cv

(***************************************************************************)
(* shutdown(), not-running branch: stop and finish everything, then       *)
(* notify_all on m_scheduler_has_stopped, all under the mutex.  There are *)
(* no worker threads to join: they exist only while running or while the *)
(* running branch holds the mutex.                                         *)
(***************************************************************************)
ShutdownNotRunning(c) ==
  /\ stopped' = [s \in Services |-> FALSE]
  /\ stopped_cv' = {}
  /\ UNCHANGED <<is_running, mutex, pc, no_users_cv, wpc>>

ShutdownBegin(c) ==
  /\ pc[c] = "idle"
  /\ mutex = NoThread
  /\ IF is_running
     THEN DrainOrStop(c) /\ UNCHANGED stopped_cv
     ELSE ShutdownNotRunning(c)
  /\ UNCHANGED <<active_users, registered, wpc>>

(* A wait() that returns without a notification. *)
SpuriousWakeup(t) ==
  /\ \/ t \in no_users_cv /\ no_users_cv' = no_users_cv \ {t}
                          /\ UNCHANGED stopped_cv
     \/ t \in stopped_cv  /\ stopped_cv' = stopped_cv \ {t}
                          /\ UNCHANGED no_users_cv
  /\ UNCHANGED <<is_running, active_users, mutex, pc, registered, wpc, stopped>>

(* Back from m_no_more_active_users.wait(): re-acquire, test the loop. *)
ShutdownWake(c) ==
  /\ pc[c] = "sd_wait"
  /\ c \notin no_users_cv
  /\ mutex = NoThread
  /\ DrainOrStop(c)
  /\ UNCHANGED <<active_users, registered, stopped_cv, wpc>>

(***************************************************************************)
(* Mutant: the running branch without m_scheduler_has_stopped.notify_all. *)
(***************************************************************************)
ShutdownJoinNoNotify(c) ==
  /\ pc[c] = "sd_join"
  /\ \A w \in Workers : wpc[w] \in {"none", "exited"}
  /\ stopped' = [s \in Services |-> FALSE]
  /\ wpc' = [w \in Workers |-> "none"]
  /\ mutex' = NoThread
  /\ pc' = [pc EXCEPT ![c] = "idle"]
  /\ UNCHANGED <<is_running, active_users, registered, no_users_cv, stopped_cv>>

(***************************************************************************)
(* shutdown(), running branch after the loop: stop_threads() joins every  *)
(* worker (the mutex is still held), finish_services() resets or clears   *)
(* the services, finish_threads() empties the pool, then notify_all on    *)
(* m_scheduler_has_stopped and the mutex is released.                      *)
(***************************************************************************)
ShutdownJoinWorkers(c) ==
  /\ pc[c] = "sd_join"
  /\ \A w \in Workers : wpc[w] \in {"none", "exited"}
  /\ stopped' = [s \in Services |-> FALSE]
  /\ wpc' = [w \in Workers |-> "none"]
  /\ stopped_cv' = {}
  /\ mutex' = NoThread
  /\ pc' = [pc EXCEPT ![c] = "idle"]
  /\ UNCHANGED <<is_running, active_users, registered, no_users_cv>>

(***************************************************************************)
(* join(): under the mutex, wait on m_scheduler_has_stopped while         *)
(* m_is_running; each wake-up re-acquires the mutex and re-tests.         *)
(***************************************************************************)
JoinTest(c) ==
  IF is_running
  THEN /\ stopped_cv' = stopped_cv \cup {c}
       /\ pc' = [pc EXCEPT ![c] = "join_wait"]
  ELSE /\ pc' = [pc EXCEPT ![c] = "idle"]
       /\ UNCHANGED stopped_cv

Join(c) ==
  /\ pc[c] = "idle"
  /\ mutex = NoThread
  /\ JoinTest(c)
  /\ UNCHANGED <<is_running, active_users, mutex, registered, no_users_cv,
                 wpc, stopped>>

JoinWake(c) ==
  /\ pc[c] = "join_wait"
  /\ c \notin stopped_cv
  /\ mutex = NoThread
  /\ JoinTest(c)
  /\ UNCHANGED <<is_running, active_users, mutex, registered, no_users_cv,
                 wpc, stopped>>

-----------------------------------------------------------------------------
(***************************************************************************)
(* process_service_work(): while (m_is_running) { try { service.run(); }  *)
(* catch (...) { log } }.  m_is_running is read without the mutex.         *)
(***************************************************************************)
(* Mutant: a worker loop that never re-tests m_is_running. *)
WorkerCheckForever(w) ==
  /\ wpc[w] = "check"
  /\ wpc' = [wpc EXCEPT ![w] = "run"]
  /\ UNCHANGED <<is_running, active_users, mutex, pc, registered,
                 no_users_cv, stopped_cv, stopped>>

WorkerCheck(w) ==
  /\ wpc[w] = "check"
  /\ wpc' = [wpc EXCEPT ![w] = IF is_running THEN "run" ELSE "exited"]
  /\ UNCHANGED <<is_running, active_users, mutex, pc, registered,
                 no_users_cv, stopped_cv, stopped>>

(* io_service::run() returns (stopped, or out of work). *)
WorkerRunReturns(w) ==
  /\ wpc[w] = "run"
  /\ RunReturns(ServiceOf(w))
  /\ wpc' = [wpc EXCEPT ![w] = "check"]
  /\ UNCHANGED <<is_running, active_users, mutex, pc, registered,
                 no_users_cv, stopped_cv, stopped>>

(* A handler run by io_service::run() throws; the catch logs it. *)
WorkerRunThrows(w) ==
  /\ wpc[w] = "run"
  /\ wpc' = [wpc EXCEPT ![w] = "check"]
  /\ UNCHANGED <<is_running, active_users, mutex, pc, registered,
                 no_users_cv, stopped_cv, stopped>>

-----------------------------------------------------------------------------
Init ==
  /\ is_running = FALSE
  /\ active_users = 0
  /\ mutex = NoThread
  /\ pc = [t \in Users \cup Controllers |-> "idle"]
  /\ registered = [u \in Users |-> FALSE]
  /\ no_users_cv = {}
  /\ stopped_cv = {}
  /\ wpc = [w \in Workers |-> "none"]
  /\ stopped = [s \in Services |-> FALSE]

Next ==
  \/ \E u \in Users :
       AddCheckRunning(u) \/ Startup(u) \/ AddActiveUser(u) \/ RemoveActiveUser(u)
  \/ \E c \in Controllers :
       \/ ShutdownBegin(c) \/ ShutdownWake(c) \/ ShutdownJoinWorkers(c)
       \/ Join(c) \/ JoinWake(c) \/ SpuriousWakeup(c)
  \/ \E w \in Workers :
       WorkerCheck(w) \/ WorkerRunReturns(w) \/ WorkerRunThrows(w)

(***************************************************************************)
(* The OS keeps scheduling runnable threads: worker threads and a         *)
(* shutdown() that is past its drain loop are weakly fair.  Users and     *)
(* callers of shutdown()/join() are not: they may never call.             *)
(***************************************************************************)
Fairness ==
  /\ \A w \in Workers : WF_vars(WorkerCheck(w)) /\ WF_vars(WorkerRunReturns(w))
  /\ \A c \in Controllers : WF_vars(ShutdownJoinWorkers(c))

Spec == Init /\ [][Next]_vars /\ Fairness

(***************************************************************************)
(* Spec, for users that always eventually deregister (their connections   *)
(* are closed, by the watchdog if need be) and a shutdown() that is       *)
(* scheduled whenever it can re-acquire the mutex.                         *)
(***************************************************************************)
DrainSpec ==
  /\ Spec
  /\ \A u \in Users : WF_vars(RemoveActiveUser(u))
  /\ \A c \in Controllers : WF_vars(ShutdownWake(c))

-----------------------------------------------------------------------------
TypeOK ==
  /\ is_running \in BOOLEAN
  /\ active_users \in 0..Cardinality(Users)
  /\ mutex \in Controllers \cup {NoThread}
  /\ pc \in [Users \cup Controllers ->
               {"idle", "startup", "add", "sd_wait", "sd_join", "join_wait"}]
  /\ registered \in [Users -> BOOLEAN]
  /\ no_users_cv \subseteq Controllers
  /\ stopped_cv \subseteq Controllers
  /\ wpc \in [Workers -> {"none", "check", "run", "exited"}]
  /\ stopped \in [Services -> BOOLEAN]

(***************************************************************************)
(* No lost wake-up in join(): a thread blocked on m_scheduler_has_stopped *)
(* is blocked only while the scheduler runs or a shutdown() is still      *)
(* joining the workers (and will notify it).                               *)
(***************************************************************************)
JoinersWoken ==
  \A c \in stopped_cv : is_running \/ \E d \in Controllers : pc[d] = "sd_join"

(***************************************************************************)
(* A shutdown() that has stopped the services always returns: every       *)
(* worker leaves process_service_work, so stop_threads() does not hang.   *)
(***************************************************************************)
ShutdownReturns ==
  \A c \in Controllers : pc[c] = "sd_join" ~> pc[c] = "idle"

(***************************************************************************)
(* A registered user always has a running scheduler: once                  *)
(* add_active_user() has returned, the scheduler is running until the     *)
(* user deregisters (spec: add_active_user starts the scheduler first if  *)
(* not running; shutdown waits for every active user).                    *)
(***************************************************************************)
RegisteredUserHasScheduler ==
  \A u \in Users : registered[u] => is_running

(***************************************************************************)
(* A shutdown() that is draining returns, when every user eventually      *)
(* deregisters (spec 4.1: shutdown transitions to draining and refuses    *)
(* new scheduled work from that point).                                    *)
(***************************************************************************)
ShutdownEventuallyReturns ==
  \A c \in Controllers : pc[c] = "sd_wait" ~> pc[c] = "idle"
=============================================================================
