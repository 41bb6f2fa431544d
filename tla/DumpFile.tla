----------------------------- MODULE DumpFile -----------------------------
(***************************************************************************)
(* The Win32 dump-file handling of pion::process (src/src/process.cpp):   *)
(* process::set_dumpfile_directory configures cfg.dumpfile_dir,           *)
(* cfg.h_dbghelp and cfg.p_dump_proc and installs or resets the           *)
(* unhandled-exception filter; process::unhandled_exception_filter runs   *)
(* when a thread crashes and writes the minidump.                          *)
(*                                                                         *)
(* The environment is chosen once, in DumpInit: which directories exist, *)
(* which copies of DbgHelp.dll load (the one beside the executable, SXS,  *)
(* and the system one, SYS) and which of them are too old to export       *)
(* MiniDumpWriteDump.  A procedure is named by the DLL it came from.      *)
(* generate_dumpfile_name only formats a time stamp under dumpfile_dir,   *)
(* so a dump is identified by its directory.                               *)
(***************************************************************************)
EXTENDS Naturals

CONSTANTS
  Dirs,          \* directories a caller may pass
  NoDir,         \* the empty string
  NULL,          \* a null handle or procedure pointer
  MaxDumpCalls   \* calls of set_dumpfile_directory

SXS == "side_by_side"
SYS == "system"
Dlls == {SXS, SYS}

ASSUME NoDir \notin Dirs /\ NULL \notin Dlls /\ MaxDumpCalls \in Nat

VARIABLES
  existing,      \* directories that exist (fs::is_directory)
  loadable,      \* copies of DbgHelp.dll that LoadLibrary finds
  old,           \* copies without MiniDumpWriteDump
  dumpfile_dir,  \* cfg.dumpfile_dir
  h_dbghelp,     \* cfg.h_dbghelp
  p_dump_proc,   \* cfg.p_dump_proc
  filter,        \* the process's unhandled-exception filter: "default" or "pion"
  dcalls,        \* calls of set_dumpfile_directory so far
  dresult,       \* how the last call ended: "none", "ok" or "threw"
  dump           \* what the filter did at the crash ("none": no crash yet)

dvars == <<existing, loadable, old, dumpfile_dir, h_dbghelp, p_dump_proc,
           filter, dcalls, dresult, dump>>

-----------------------------------------------------------------------------
(***************************************************************************)
(* Lines 89-105: LoadLibrary of the copy beside the executable (its path  *)
(* is built from GetModuleFileName), else of the system copy; NULL if     *)
(* neither loads.                                                           *)
(***************************************************************************)
LoadDbgHelp ==
  IF SXS \in loadable THEN SXS ELSE IF SYS \in loadable THEN SYS ELSE NULL

(* GetProcAddress(h, "MiniDumpWriteDump"), line 116. *)
GetProcAddress(h) == IF h \in old THEN NULL ELSE h

(* Mutant: the else branch of line 121 does not reset p_dump_proc. *)
DumpProcNoReset(h) == IF h = NULL THEN p_dump_proc ELSE GetProcAddress(h)

(* Lines 114-123: the procedure of the loaded DLL, or NULL without one. *)
DumpProc(h) == IF h = NULL THEN NULL ELSE GetProcAddress(h)

(***************************************************************************)
(* set_dumpfile_directory(dir), lines 77-134, as one step of the thread   *)
(* that configures the process.  It throws dumpfile_init_exception:       *)
(*  - line 83, before changing anything, for a directory that does not   *)
(*    exist;                                                               *)
(*  - line 108, with dumpfile_dir set and h_dbghelp NULL, when no DbgHelp *)
(*    loads;                                                               *)
(*  - line 119, with p_dump_proc NULL, when the DLL has no                *)
(*    MiniDumpWriteDump.                                                   *)
(* Otherwise it installs pion's filter if it has a procedure and resets   *)
(* the filter to the default if not (dir empty).                           *)
(***************************************************************************)
set_dumpfile_directory(dir) ==
  LET h == IF dir = NoDir THEN NULL ELSE LoadDbgHelp
      proc == DumpProc(h)
  IN
  \/ /\ dir # NoDir /\ dir \notin existing
     /\ dresult' = "threw"
     /\ UNCHANGED <<dumpfile_dir, h_dbghelp, p_dump_proc, filter>>
  \/ /\ dir \in existing /\ h = NULL
     /\ dumpfile_dir' = dir /\ h_dbghelp' = NULL
     /\ dresult' = "threw"
     /\ UNCHANGED <<p_dump_proc, filter>>
  \/ /\ dir \in existing /\ h # NULL /\ proc = NULL
     /\ dumpfile_dir' = dir /\ h_dbghelp' = h /\ p_dump_proc' = NULL
     /\ dresult' = "threw"
     /\ UNCHANGED filter
  \/ /\ dir = NoDir \/ (dir \in existing /\ h # NULL /\ proc # NULL)
     /\ dumpfile_dir' = dir /\ h_dbghelp' = h /\ p_dump_proc' = proc
     /\ filter' = IF proc # NULL THEN "pion" ELSE "default"
     /\ dresult' = "ok"

SetDumpfileDirectory(dir) ==
  /\ dump = "none" /\ dcalls < MaxDumpCalls
  /\ dcalls' = dcalls + 1
  /\ set_dumpfile_directory(dir)
  /\ UNCHANGED <<existing, loadable, old, dump>>

(***************************************************************************)
(* unhandled_exception_filter, lines 160-206: without a directory or a   *)
(* procedure it only logs and returns EXCEPTION_CONTINUE_SEARCH; else it  *)
(* creates the file named by generate_dumpfile_name under dumpfile_dir,   *)
(* which may fail, and writes the dump with p_dump_proc.                   *)
(***************************************************************************)
unhandled_exception_filter ==
  \/ /\ dumpfile_dir = NoDir \/ p_dump_proc = NULL
     /\ dump' = "not_configured"
  \/ /\ dumpfile_dir # NoDir /\ p_dump_proc # NULL
     /\ dump' \in {"dumped", "create_failed"}

(* A thread crashes: the installed filter runs, once. *)
Crash ==
  /\ dump = "none"
  /\ \/ filter = "default" /\ dump' = "default"
     \/ filter = "pion" /\ unhandled_exception_filter
  /\ UNCHANGED <<existing, loadable, old, dumpfile_dir, h_dbghelp, p_dump_proc,
                 filter, dcalls, dresult>>

(* The configuration static-initialises to empty and the default filter. *)
DumpInit ==
  /\ existing \in SUBSET Dirs
  /\ loadable \in SUBSET Dlls
  /\ old \in SUBSET Dlls
  /\ dumpfile_dir = NoDir
  /\ h_dbghelp = NULL
  /\ p_dump_proc = NULL
  /\ filter = "default"
  /\ dcalls = 0
  /\ dresult = "none"
  /\ dump = "none"

DumpNext ==
  \/ \E dir \in Dirs \cup {NoDir} : SetDumpfileDirectory(dir)
  \/ Crash

-----------------------------------------------------------------------------
(***************************************************************************)
(* A crash after set_dumpfile_directory last returned normally does what *)
(* that call configured, whatever earlier calls left behind: with a       *)
(* directory it writes a dump there (or fails only to create the file);   *)
(* with the empty directory the default handling runs, never pion's       *)
(* filter reporting that dump files are not configured.                    *)
(***************************************************************************)
DumpsAsConfigured ==
  (dresult = "ok" /\ dump # "none") =>
    IF dumpfile_dir = NoDir THEN dump = "default"
    ELSE dump \in {"dumped", "create_failed"}
=============================================================================
