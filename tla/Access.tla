------------------------------- MODULE Access -------------------------------
(***************************************************************************)
(* The relay's signed-access policy for one credential: the credential's   *)
(* validity (crates/protocol/src/credential.rs), the revocation list in    *)
(* force (crates/relay/src/native_access.rs), the file it is loaded from   *)
(* and the task that reloads it (run_access_reload, native_runtime.rs).    *)
(*                                                                         *)
(* A list is a record: genuine (canonical, issued and signed by the        *)
(* configured authority), its validity [from, until), and whether it names *)
(* the credential's serial.  A file that is missing, unreadable or not a   *)
(* list is a list that is not genuine.                                     *)
(***************************************************************************)
EXTENDS Integers

CONSTANTS
    Lists,      \* contents the revocation file may have
    FirstList,  \* its contents when the relay starts
    NotBefore,  \* the credential's validity
    NotAfter,
    MaxLifetime, \* MAX_CREDENTIAL_LIFETIME_MS
    MaxTime     \* bound on the clock

List == [genuine: BOOLEAN, from: Nat, until: Nat, revokes: BOOLEAN]

ASSUME AccessAssumption ==
    /\ Lists \subseteq List /\ FirstList \in Lists
    /\ NotBefore \in Nat /\ NotAfter \in Nat /\ MaxTime \in Nat /\ MaxLifetime \in Nat
    /\ FirstList.genuine /\ FirstList.from = 0 /\ FirstList.until \in 1..MaxLifetime

VARIABLES
    clock,   \* now_ms
    file,    \* revocations_file
    loaded   \* the list in force

accessVars == <<clock, file, loaded>>

\* load_access verifies the list before the relay listens.
AccessInit == clock = 0 /\ file = FirstList /\ loaded = FirstList

AccessTypeOK ==
    /\ clock \in 0..MaxTime
    /\ file \in Lists /\ loaded \in Lists

ValidTimeRange(from, until) == until - from \in 1..MaxLifetime

ListVerifies(list) ==
    /\ list.genuine /\ ValidTimeRange(list.from, list.until)
    /\ list.from <= clock /\ clock < list.until

\* An expired list in force admits nobody.
NotRevoked == ListVerifies(loaded) /\ ~loaded.revokes

\* Mutant: the revocation list is left to the checks of a session.
CredentialInTime ==
    /\ ValidTimeRange(NotBefore, NotAfter)
    /\ NotBefore <= clock /\ clock < NotAfter

CredentialVerifies ==
    /\ ValidTimeRange(NotBefore, NotAfter)
    /\ NotBefore <= clock /\ clock < NotAfter
    /\ NotRevoked

Admit == CredentialVerifies

EnsureActive == clock < NotAfter /\ NotRevoked

ReplaceRevocations(list) == ListVerifies(list) /\ loaded' = list

\* The operator replaces the file atomically, with anything.
ReplaceFile(list) == list # file /\ file' = list /\ UNCHANGED <<clock, loaded>>

\* A file that does not verify leaves the list in force and is tried again at
\* every tick; last_bytes only spares loading the same list twice.
Reload ==
    /\ file # loaded
    /\ ReplaceRevocations(file)
    /\ UNCHANGED <<clock, file>>

Advance == clock < MaxTime /\ clock' = clock + 1 /\ UNCHANGED <<file, loaded>>

AccessNext == Advance \/ Reload \/ \E list \in Lists : ReplaceFile(list)
=============================================================================
