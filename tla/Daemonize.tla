----------------------------- MODULE Daemonize -----------------------------
(***************************************************************************)
(* process::daemonize (src/src/process.cpp).  On POSIX: return at once if *)
(* the parent is init (already a daemon); fork, the parent exiting with 0 *)
(* (1 if fork fails); in the child, setsid, close every descriptor of the *)
(* table, bind /dev/null to the lowest free descriptors with open and two *)
(* dup calls (errors ignored), and set umask 027.  On Win32 it does       *)
(* nothing.                                                                 *)
(*                                                                         *)
(* The model follows the process that goes on running the caller's code: *)
(* the child after a successful fork.  It is called once, by the main     *)
(* thread, before the process starts any other thread: fork copies only   *)
(* the calling thread.  Descriptors are "closed", "inherited" (a terminal, *)
(* a socket or a file the process was started with) or "devnull".         *)
(***************************************************************************)
EXTENDS Naturals, FiniteSetsExt

CONSTANTS TableSize   \* getdtablesize()

ASSUME TableSize \in Nat /\ TableSize >= 3

FdIds == 0 .. TableSize - 1
Stdio == 0 .. 2

VARIABLES
  dpc,           \* "idle" (not called yet), "returned" or "exited"
  role,          \* "original", or "child" once the fork has happened
  ppid_is_init,  \* getppid() == 1
  session,       \* "inherited", or "own" after a successful setsid
  fds,           \* fds[i]: "closed", "inherited" or "devnull"
  mask           \* the file-creation mask: "inherited" or "027"

daemon_vars == <<dpc, role, ppid_is_init, session, fds, mask>>

-----------------------------------------------------------------------------
(* Mutant: the loop stops before descriptor 0 (i > 0). *)
CloseAllButZero(f) == [i \in FdIds |-> IF i > 0 THEN "closed" ELSE f[i]]

(* for (i = getdtablesize(); i >= 0; --i) close(i); the first close fails *)
(* with EBADF, which is ignored.                                            *)
CloseAll(f) == [i \in FdIds |-> "closed"]

(* open() and dup() return the lowest descriptor that is not open, or -1  *)
(* (EMFILE) when the table is full.                                         *)
LowestFree(f) ==
  LET free == {i \in FdIds : f[i] = "closed"}
  IN  IF free = {} THEN -1 ELSE Min(free)

BindNull(f) == LET i == LowestFree(f) IN
               IF i = -1 THEN f ELSE [f EXCEPT ![i] = "devnull"]

(* i = open("/dev/null", O_RDWR); if (i != -1) { dup(i); dup(i); } *)
BindStdio(f, opened) == IF opened THEN BindNull(BindNull(BindNull(f))) ELSE f

(***************************************************************************)
(* process::daemonize on POSIX, lines 238-268, one step of the main      *)
(* thread, one disjunct per way it ends.  open("/dev/null") may fail      *)
(* (ENFILE, or no /dev/null in a chroot).                                   *)
(***************************************************************************)
daemonize ==
  /\ dpc = "idle"
  /\ \/ /\ ppid_is_init
        /\ dpc' = "returned"
        /\ UNCHANGED <<role, ppid_is_init, session, fds, mask>>
     \/ /\ ~ppid_is_init
        /\ dpc' = "exited"
        /\ UNCHANGED <<role, ppid_is_init, session, fds, mask>>
     \/ /\ ~ppid_is_init
        \* init adopts the child once the parent has exited; setsid
        \* succeeds, as a fork child never leads a process group
        /\ role' = "child"
        /\ ppid_is_init' = TRUE
        /\ session' = "own"
        /\ \E opened \in BOOLEAN : fds' = BindStdio(CloseAll(fds), opened)
        /\ mask' = "027"
        /\ dpc' = "returned"

(* process::daemonize on Win32, lines 214-217: not supported, a no-op. *)
daemonize_win32 ==
  /\ dpc = "idle"
  /\ dpc' = "returned"
  /\ UNCHANGED <<role, ppid_is_init, session, fds, mask>>

(***************************************************************************)
(* The process as started: its own descriptors 0-2 open (a terminal), the *)
(* others open or not; started by init or by a shell.                     *)
(***************************************************************************)
DaemonInit ==
  /\ dpc = "idle"
  /\ role = "original"
  /\ ppid_is_init \in BOOLEAN
  /\ session = "inherited"
  /\ fds \in {f \in [FdIds -> {"closed", "inherited"}] :
                \A i \in Stdio : f[i] = "inherited"}
  /\ mask = "inherited"

-----------------------------------------------------------------------------
(***************************************************************************)
(* A process that daemonize turned into a daemon is detached from what it *)
(* was started with: it leads its own session, none of the descriptors it *)
(* inherited (the terminal included) is still open, /dev/null is on       *)
(* exactly the standard descriptors 0-2 (or nowhere, if it could not be   *)
(* opened), and files it creates are not world-accessible.                 *)
(***************************************************************************)
DaemonDetached ==
  (dpc = "returned" /\ role = "child") =>
    /\ session = "own"
    /\ \A i \in FdIds : fds[i] # "inherited"
    /\ {i \in FdIds : fds[i] = "devnull"} \in {{}, Stdio}
    /\ mask = "027"
=============================================================================
