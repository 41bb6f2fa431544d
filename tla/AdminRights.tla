---------------------------- MODULE AdminRights ----------------------------
(***************************************************************************)
(* pion::admin_rights (src/src/admin_rights.cpp), POSIX and Win32 builds. *)
(*                                                                         *)
(* A daemon started by some user drops privileges once at startup with    *)
(* run_as_group and run_as_user (in either order), then worker threads    *)
(* take administrative rights for a while by constructing an admin_rights *)
(* object and give them back with release().  The effective uid and gid  *)
(* are process-wide; the static m_mutex, held by m_lock from the          *)
(* constructor until release (or until the constructor fails), serialises*)
(* the objects.                                                            *)
(*                                                                         *)
(* /etc/passwd and /etc/group are sequences of lines, each a sequence of  *)
(* ':'-separated fields; a field is a name, a numeric id, another text,  *)
(* or Empty.  A missing file reads like an empty one (both give -1).      *)
(***************************************************************************)
EXTENDS Integers, SequencesExt

CONSTANTS
  Threads,       \* worker threads using admin_rights
  Names,         \* user and group names (model values)
  Ids,           \* numeric uids and gids
  Others,        \* other field contents: "x", a GECOS text, ...
  Empty,         \* the empty field
  PasswdFiles,   \* the /etc/passwd contents explored
  GroupFiles,    \* the /etc/group contents explored
  StartIds,      \* uids the daemon may be started as
  Platforms,     \* the builds explored: "posix", "win32"
  NoThread

ADMIN_USER_ID == 0
ASSUME ADMIN_USER_ID \in Ids /\ Ids \subseteq Nat
ASSUME Platforms \subseteq {"posix", "win32"}

Fields == Names \cup Ids \cup Others \cup {Empty}

-----------------------------------------------------------------------------
(* utils::split(line, ':'): the fields, with the empty ones dropped. *)
split(line) == SelectSeq(line, LAMBDA f : f # Empty)

(* std::regex_match(s, "\\d+"), then std::stoi. *)
IsNumber(s) == s \in Ids

(* Mutant: the third token taken as the id without the \d+ test. *)
find_system_id_NoRegex(name, file) ==
  IF IsNumber(name) THEN name
  ELSE LET i == SelectInSeq(file, LAMBDA l : Len(split(l)) > 0 /\ split(l)[1] = name)
           tokens == split(file[i])
       IN  IF i = 0 THEN -1
           ELSE IF Len(tokens) >= 3 THEN tokens[3] ELSE -1

(***************************************************************************)
(* find_system_id: a numeric name is the id itself.  Otherwise the first  *)
(* line whose first token is the name decides (the loop breaks there):    *)
(* its third token if that is numeric, else -1; no such line: -1.          *)
(***************************************************************************)
find_system_id(name, file) ==
  IF IsNumber(name) THEN name
  ELSE LET i == SelectInSeq(file, LAMBDA l : Len(split(l)) > 0 /\ split(l)[1] = name)
           tokens == split(file[i])
       IN  IF i = 0 THEN -1
           ELSE IF Len(tokens) >= 3 /\ IsNumber(tokens[3]) THEN tokens[3] ELSE -1

-----------------------------------------------------------------------------
VARIABLES
  platform,           \* the build: PION_WIN32 defined or not
  ruid, euid, suid,   \* the process's real, effective and saved uid
  rgid, egid, sgid,   \* the same for the group id
  passwd, group,      \* the contents of /etc/passwd and /etc/group
  startup,            \* the startup calls still to make
  run_euid,           \* euid when startup finished (the daemon's identity)
  mutex,              \* holder of admin_rights::m_mutex
  pc,                 \* pc[t]: "idle", "lock", "save", "upgrade" or "held"
  m_user_id,          \* m_user_id[t] of t's admin_rights object
  m_has_rights,       \* m_has_rights[t]
  owns_lock           \* owns_lock[t]: t's m_lock owns m_mutex

vars == <<platform, ruid, euid, suid, rgid, egid, sgid, passwd, group, startup, run_euid,
          mutex, pc, m_user_id, m_has_rights, owns_lock>>

(* seteuid/setegid: an unprivileged process may only pick its real,      *)
(* effective or saved id; euid 0 may pick any.                            *)
CanSetEuid(id) == euid = 0 \/ id \in {ruid, euid, suid}
CanSetEgid(id) == euid = 0 \/ id \in {rgid, egid, sgid}

Working == startup = {} /\ run_euid # -1

-----------------------------------------------------------------------------
(***************************************************************************)
(* run_as_user: look the name up in /etc/passwd; a known id is set with   *)
(* seteuid (a refusal only changes the return value); an unknown name    *)
(* leaves euid as it is.                                                   *)
(***************************************************************************)
run_as_user(name) ==
  /\ platform = "posix" /\ "user" \in startup
  /\ LET user_id == find_system_id(name, passwd) IN
       euid' = IF user_id # -1 /\ CanSetEuid(user_id) THEN user_id ELSE euid
  /\ startup' = startup \ {"user"}
  /\ UNCHANGED <<platform, ruid, suid, rgid, egid, sgid, passwd, group, run_euid,
                 mutex, pc, m_user_id, m_has_rights, owns_lock>>

(* run_as_group: the same with /etc/group and setegid. *)
run_as_group(name) ==
  /\ platform = "posix" /\ "group" \in startup
  /\ LET group_id == find_system_id(name, group) IN
       egid' = IF group_id # -1 /\ CanSetEgid(group_id) THEN group_id ELSE egid
  /\ startup' = startup \ {"group"}
  /\ UNCHANGED <<platform, ruid, euid, suid, rgid, sgid, passwd, group, run_euid,
                 mutex, pc, m_user_id, m_has_rights, owns_lock>>

(* Win32: run_as_user and run_as_group return -1 and change nothing. *)
run_as_stub(kind) ==
  /\ platform = "win32" /\ kind \in startup
  /\ startup' = startup \ {kind}
  /\ UNCHANGED <<platform, ruid, euid, suid, rgid, egid, sgid, passwd, group,
                 run_euid, mutex, pc, m_user_id, m_has_rights, owns_lock>>

(* The worker threads start once startup is over. *)
StartWorkers ==
  /\ startup = {} /\ run_euid = -1
  /\ run_euid' = euid
  /\ UNCHANGED <<platform, ruid, euid, suid, rgid, egid, sgid, passwd, group, startup,
                 mutex, pc, m_user_id, m_has_rights, owns_lock>>

-----------------------------------------------------------------------------
(* A worker thread decides to construct an admin_rights object. *)
Begin(t) ==
  /\ Working /\ pc[t] = "idle"
  /\ pc' = [pc EXCEPT ![t] = "lock"]
  /\ UNCHANGED <<platform, ruid, euid, suid, rgid, egid, sgid, passwd, group, startup,
                 run_euid, mutex, m_user_id, m_has_rights, owns_lock>>

(* Mutant: m_lock constructed with std::defer_lock. *)
CtorLockDeferred(t) ==
  /\ pc[t] = "lock"
  /\ pc' = [pc EXCEPT ![t] = "save"]
  /\ UNCHANGED <<platform, ruid, euid, suid, rgid, egid, sgid, passwd, group, startup,
                 run_euid, mutex, m_user_id, m_has_rights, owns_lock>>

(***************************************************************************)
(* The constructor's member initialisers: m_lock(m_mutex) blocks for the  *)
(* mutex, m_user_id(-1), m_has_rights(false).                              *)
(***************************************************************************)
CtorLock(t) ==
  /\ platform = "posix" /\ pc[t] = "lock"
  /\ mutex = NoThread
  /\ mutex' = t
  /\ owns_lock' = [owns_lock EXCEPT ![t] = TRUE]
  /\ pc' = [pc EXCEPT ![t] = "save"]
  /\ UNCHANGED <<platform, ruid, euid, suid, rgid, egid, sgid, passwd, group, startup,
                 run_euid, m_user_id, m_has_rights>>

(* Win32 constructor: the same initialisers and an empty body, so the    *)
(* object holds the mutex with m_user_id = -1 and no rights; its release() *)
(* is empty and the destructor's unlock is the release action below.      *)
CtorLockWin32(t) ==
  /\ platform = "win32" /\ pc[t] = "lock"
  /\ mutex = NoThread
  /\ mutex' = t
  /\ owns_lock' = [owns_lock EXCEPT ![t] = TRUE]
  /\ m_user_id' = [m_user_id EXCEPT ![t] = -1]
  /\ m_has_rights' = [m_has_rights EXCEPT ![t] = FALSE]
  /\ pc' = [pc EXCEPT ![t] = "held"]
  /\ UNCHANGED <<platform, ruid, euid, suid, rgid, egid, sgid, passwd, group, startup,
                 run_euid>>

(* m_user_id = geteuid(). *)
CtorSave(t) ==
  /\ pc[t] = "save"
  /\ m_user_id' = [m_user_id EXCEPT ![t] = euid]
  /\ pc' = [pc EXCEPT ![t] = "upgrade"]
  /\ UNCHANGED <<platform, ruid, euid, suid, rgid, egid, sgid, passwd, group, startup,
                 run_euid, mutex, m_has_rights, owns_lock>>

(***************************************************************************)
(* seteuid(ADMIN_USER_ID): on success the object has rights and keeps     *)
(* the mutex; on failure m_lock.unlock() and return, without rights.      *)
(***************************************************************************)
CtorUpgrade(t) ==
  /\ pc[t] = "upgrade"
  /\ IF CanSetEuid(ADMIN_USER_ID)
     THEN /\ euid' = ADMIN_USER_ID
          /\ m_has_rights' = [m_has_rights EXCEPT ![t] = TRUE]
          /\ UNCHANGED <<mutex, owns_lock>>
     ELSE /\ mutex' = NoThread
          /\ owns_lock' = [owns_lock EXCEPT ![t] = FALSE]
          /\ UNCHANGED <<euid, m_has_rights>>
  /\ pc' = [pc EXCEPT ![t] = "held"]
  /\ UNCHANGED <<platform, ruid, suid, rgid, egid, sgid, passwd, group, startup,
                 run_euid, m_user_id>>

(***************************************************************************)
(* release(), then the object's destruction: with rights, seteuid back to *)
(* m_user_id (a failure is only logged), drop the rights and unlock.  The *)
(* destructor of m_lock unlocks the mutex if it still owns it.            *)
(***************************************************************************)
release(t) ==
  /\ pc[t] = "held"
  /\ IF m_has_rights[t]
     THEN /\ euid' = IF CanSetEuid(m_user_id[t]) THEN m_user_id[t] ELSE euid
          /\ m_has_rights' = [m_has_rights EXCEPT ![t] = FALSE]
     ELSE UNCHANGED <<euid, m_has_rights>>
  /\ mutex' = IF owns_lock[t] THEN NoThread ELSE mutex
  /\ owns_lock' = [owns_lock EXCEPT ![t] = FALSE]
  /\ pc' = [pc EXCEPT ![t] = "idle"]
  /\ UNCHANGED <<platform, ruid, suid, rgid, egid, sgid, passwd, group, startup,
                 run_euid, m_user_id>>

-----------------------------------------------------------------------------
Init ==
  /\ platform \in Platforms
  /\ ruid \in StartIds /\ euid = ruid /\ suid = ruid
  /\ rgid \in StartIds /\ egid = rgid /\ sgid = rgid
  /\ passwd \in PasswdFiles
  /\ group \in GroupFiles
  /\ startup = {"user", "group"}
  /\ run_euid = -1
  /\ mutex = NoThread
  /\ pc = [t \in Threads |-> "idle"]
  /\ m_user_id = [t \in Threads |-> -1]
  /\ m_has_rights = [t \in Threads |-> FALSE]
  /\ owns_lock = [t \in Threads |-> FALSE]

Next ==
  \/ \E n \in Names \cup Ids : run_as_user(n) \/ run_as_group(n)
  \/ \E kind \in {"user", "group"} : run_as_stub(kind)
  \/ StartWorkers
  \/ \E t \in Threads :
       \/ Begin(t) \/ CtorLock(t) \/ CtorSave(t) \/ CtorUpgrade(t)
       \/ CtorLockWin32(t) \/ release(t)

Spec == Init /\ [][Next]_vars

-----------------------------------------------------------------------------
TypeOK ==
  /\ platform \in Platforms
  /\ {ruid, euid, suid, rgid, egid, sgid} \subseteq Ids
  /\ startup \subseteq {"user", "group"}
  /\ run_euid \in Ids \cup {-1}
  /\ mutex \in Threads \cup {NoThread}
  /\ pc \in [Threads -> {"idle", "lock", "save", "upgrade", "held"}]
  /\ m_user_id \in [Threads -> Ids \cup {-1}]
  /\ m_has_rights \in [Threads -> BOOLEAN]
  /\ owns_lock \in [Threads -> BOOLEAN]

(***************************************************************************)
(* Administrative rights are scoped: once the workers run, the process is *)
(* root exactly while some admin_rights object holds rights, and outside  *)
(* those sections it is back to the identity startup left, whichever      *)
(* threads interleave their constructors and releases.                     *)
(***************************************************************************)
RightsScoped ==
  Working =>
    euid = IF \E t \in Threads : m_has_rights[t] THEN ADMIN_USER_ID ELSE run_euid
=============================================================================
