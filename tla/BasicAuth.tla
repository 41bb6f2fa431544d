---------------------------- MODULE BasicAuth ----------------------------
(***************************************************************************)
(* pion::http::basic_auth::handle_request (src/src/http_basic_auth.cpp)   *)
(* run concurrently by worker threads over the shared credential cache    *)
(* m_user_cache (credentials -> <<last-use time, user>>).                 *)
(*                                                                         *)
(* A request reads the clock into time_now and tests m_cache_cleanup_time *)
(* WITHOUT the cache mutex (line 43).  The cleanup (lines 45-56) and the  *)
(* lookup-or-validate-and-insert (lines 60-94) each run under             *)
(* m_cache_mutex from start to end, so each is one atomic step; another   *)
(* thread may run between the three steps.                                 *)
(*                                                                         *)
(* An Authorization header is a record: its scheme ("none" for an absent  *)
(* header, "Basic" for the prefix "Basic ", "other" for anything else)    *)
(* and the text after the prefix, a credential model value or Empty.  The *)
(* cache is keyed by that raw text.  What base64_decode makes of a        *)
(* credential is the constant Decode: whether it decodes at all, the     *)
(* user part before the first ':', whether there is one, and the rest.   *)
(* The user manager (not in the repository) is `accounts`, a password per *)
(* user or NoUser, which an administrator changes at any time.  Time is   *)
(* in units of CACHE_EXPIRATION's resolution.                               *)
(***************************************************************************)
EXTENDS Integers

CONSTANTS
  Threads,            \* worker threads handling requests
  Creds,              \* the texts after "Basic " (model values)
  Users, Passwords,   \* user names and passwords (model values)
  Empty,              \* the empty string
  NoUser,             \* accounts[u] for a user the manager does not know
  Decode,             \* Decode[c]: base64_decode of credential c
  Authorizations,     \* the Authorization headers requests carry
  CACHE_EXPIRATION,   \* basic_auth::CACHE_EXPIRATION
  MaxTime             \* the last clock value explored

UserPasswords == [base64 : BOOLEAN, user : Users \cup {Empty}, sep : BOOLEAN,
                  pass : Passwords]

ASSUME /\ Decode \in [Creds -> UserPasswords]
       /\ Authorizations \subseteq [scheme : {"none", "Basic", "other"},
                                    cred : Creds \cup {Empty}]

NoEntry == -1         \* a credential with no cache entry
Times == 0..MaxTime

VARIABLES
  clock,              \* std::chrono::system_clock::now()
  m_cache_cleanup_time,
  m_user_cache,       \* m_user_cache[c]: last-use time of c, or NoEntry
  accounts,           \* accounts[u]: u's password in the user manager
  pc,                 \* pc[t]: "idle", "cleanup" or "lookup"
  time_now,           \* time_now[t]: the clock value read at line 42
  auth,               \* auth[t]: the Authorization header of t's request
  outcome,            \* outcome[t]: "approved", "denied" or "none"
  last_approved       \* history: the clock when c was last approved, or NoEntry

vars == <<clock, m_cache_cleanup_time, m_user_cache, accounts,
          pc, time_now, auth, outcome, last_approved>>

(* Line 51: a record older than the expiry, as seen at time tn. *)
Expired(c, tn) ==
  m_user_cache[c] # NoEntry /\ tn > m_user_cache[c] + CACHE_EXPIRATION

(***************************************************************************)
(* parse_authorization (lines 105-113): the header must start with        *)
(* "Basic " and have something after it.                                   *)
(***************************************************************************)
parse_authorization(a) == a.scheme = "Basic" /\ a.cred # Empty

(***************************************************************************)
(* parse_credentials (lines 115-132): the credential must be base64 and   *)
(* its text must hold a ':' that is not the first character.               *)
(***************************************************************************)
parse_credentials(c) ==
  /\ Decode[c].base64
  /\ Decode[c].sep
  /\ Decode[c].user # Empty

(* m_user_manager->get_user(username, password) returns a user. *)
get_user(c) == accounts[Decode[c].user] = Decode[c].pass

(* The user manager accepts c today. *)
Accepted(c) == parse_credentials(c) /\ get_user(c)

-----------------------------------------------------------------------------
(***************************************************************************)
(* Lines 38-43: the request needs authentication; read the clock, then    *)
(* compare it with m_cache_cleanup_time, read without the cache mutex.    *)
(***************************************************************************)
HandleRequest(t, a) ==
  /\ pc[t] = "idle"
  /\ time_now' = [time_now EXCEPT ![t] = clock]
  /\ auth' = [auth EXCEPT ![t] = a]
  /\ outcome' = [outcome EXCEPT ![t] = "none"]
  /\ pc' = [pc EXCEPT ![t] =
              IF clock > m_cache_cleanup_time + CACHE_EXPIRATION
              THEN "cleanup" ELSE "lookup"]
  /\ UNCHANGED <<clock, m_cache_cleanup_time, m_user_cache, accounts, last_approved>>

(* Mutant: the cleanup time taken from a second now() instead of time_now. *)
CleanupStampsClock(t) ==
  /\ pc[t] = "cleanup"
  /\ m_user_cache' = [c \in Creds |->
                        IF Expired(c, time_now[t]) THEN NoEntry ELSE m_user_cache[c]]
  /\ m_cache_cleanup_time' = clock
  /\ pc' = [pc EXCEPT ![t] = "lookup"]
  /\ UNCHANGED <<clock, accounts, time_now, auth, outcome, last_approved>>

(***************************************************************************)
(* Lines 45-56, under m_cache_mutex: erase every record older than the    *)
(* expiry as of this request's time_now, then set m_cache_cleanup_time to *)
(* time_now (which another thread may already have set to a later time).  *)
(***************************************************************************)
Cleanup(t) ==
  /\ pc[t] = "cleanup"
  /\ m_user_cache' = [c \in Creds |->
                        IF Expired(c, time_now[t]) THEN NoEntry ELSE m_user_cache[c]]
  /\ m_cache_cleanup_time' = time_now[t]
  /\ pc' = [pc EXCEPT ![t] = "lookup"]
  /\ UNCHANGED <<clock, accounts, time_now, auth, outcome, last_approved>>

(***************************************************************************)
(* handle_unauthorized: a 401 response (with the realm's WWW-Authenticate *)
(* header) is written, and the connection finishes once it is sent.       *)
(***************************************************************************)
handle_unauthorized(t) == outcome' = [outcome EXCEPT ![t] = "denied"]

(* Approve t's request for credential c, stamping the record with time_now. *)
Approve(t, c, stamp) ==
  /\ m_user_cache' = [m_user_cache EXCEPT ![c] = stamp]
  /\ outcome' = [outcome EXCEPT ![t] = "approved"]
  /\ last_approved' = [last_approved EXCEPT ![c] = clock]

(* Mutant: the record stores its expiry deadline instead of its last use. *)
LookupStoresDeadline(t) ==
  LET c == auth[t].cred IN
  /\ pc[t] = "lookup"
  /\ IF parse_authorization(auth[t]) /\ (m_user_cache[c] # NoEntry \/ Accepted(c))
     THEN Approve(t, c, time_now[t] + CACHE_EXPIRATION)
     ELSE handle_unauthorized(t) /\ UNCHANGED <<m_user_cache, last_approved>>
  /\ pc' = [pc EXCEPT ![t] = "idle"]
  /\ UNCHANGED <<clock, m_cache_cleanup_time, accounts, time_now, auth>>

(***************************************************************************)
(* Lines 60-94: with Basic credentials, under m_cache_mutex, a cache hit  *)
(* approves and refreshes the record's time to this request's time_now;  *)
(* a miss parses the credentials and asks the user manager and, if it     *)
(* knows them, inserts them with time_now and approves.  Every other path *)
(* ends in handle_unauthorized and a 401.                                   *)
(***************************************************************************)
Lookup(t) ==
  LET c == auth[t].cred IN
  /\ pc[t] = "lookup"
  /\ IF parse_authorization(auth[t]) /\ (m_user_cache[c] # NoEntry \/ Accepted(c))
     THEN Approve(t, c, time_now[t])
     ELSE handle_unauthorized(t) /\ UNCHANGED <<m_user_cache, last_approved>>
  /\ pc' = [pc EXCEPT ![t] = "idle"]
  /\ UNCHANGED <<clock, m_cache_cleanup_time, accounts, time_now, auth>>

-----------------------------------------------------------------------------
(* The environment: time passes; an administrator sets or removes users. *)
Tick ==
  /\ clock < MaxTime
  /\ clock' = clock + 1
  /\ UNCHANGED <<m_cache_cleanup_time, m_user_cache, accounts,
                 pc, time_now, auth, outcome, last_approved>>

SetAccount(u, p) ==
  /\ accounts[u] # p
  /\ accounts' = [accounts EXCEPT ![u] = p]
  /\ UNCHANGED <<clock, m_cache_cleanup_time, m_user_cache,
                 pc, time_now, auth, outcome, last_approved>>

(* basic_auth::basic_auth: m_cache_cleanup_time(now()), an empty cache. *)
Init ==
  /\ clock = 0
  /\ m_cache_cleanup_time = clock
  /\ m_user_cache = [c \in Creds |-> NoEntry]
  /\ accounts \in [Users -> Passwords \cup {NoUser}]
  /\ pc = [t \in Threads |-> "idle"]
  /\ time_now = [t \in Threads |-> 0]
  /\ auth \in [Threads -> Authorizations]
  /\ outcome = [t \in Threads |-> "none"]
  /\ last_approved = [c \in Creds |-> NoEntry]

Next ==
  \/ \E t \in Threads :
       \/ \E a \in Authorizations : HandleRequest(t, a)
       \/ Cleanup(t)
       \/ Lookup(t)
  \/ Tick
  \/ \E u \in Users, p \in Passwords \cup {NoUser} : SetAccount(u, p)

Spec == Init /\ [][Next]_vars

-----------------------------------------------------------------------------
TypeOK ==
  /\ clock \in Times
  /\ m_cache_cleanup_time \in Times
  /\ m_user_cache \in [Creds -> Times \cup {NoEntry}]
  /\ accounts \in [Users -> Passwords \cup {NoUser}]
  /\ pc \in [Threads -> {"idle", "cleanup", "lookup"}]
  /\ time_now \in [Threads -> Times]
  /\ auth \in [Threads -> Authorizations]
  /\ outcome \in [Threads -> {"approved", "denied", "none"}]
  /\ last_approved \in [Creds -> Times \cup {NoEntry}]

(***************************************************************************)
(* How long a revoked or changed password keeps working: a credential the *)
(* user manager no longer accepts is approved (from the cache, line 67)   *)
(* only for a request that arrived within 2 * CACHE_EXPIRATION of the     *)
(* credential's last approval.  The cleanup runs at most once per expiry  *)
(* period and measures age from each request's own time_now, read before *)
(* the unlocked test of m_cache_cleanup_time, so the window is twice the  *)
(* expiry, and it slides with every use.                                   *)
(***************************************************************************)
RevokedExpireFromCache ==
  [][\A t \in Threads :
       LET c == auth[t].cred IN
       (pc[t] = "lookup" /\ outcome'[t] = "approved" /\ ~Accepted(c))
         => time_now[t] <= last_approved[c] + 2 * CACHE_EXPIRATION]_vars
=============================================================================
