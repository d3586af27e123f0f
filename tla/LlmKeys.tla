------------------------------ MODULE LlmKeys ------------------------------
(***************************************************************************)
(* What the server asks Orchestration for and keeps for a while: provider  *)
(* keys (app/llm/api_key.py), the models picked per feature                *)
(* (model_settings.py) and the model catalog (catalog.py), three caches of *)
(* the same make.  Chat clients read keys on threads of their own, so the  *)
(* lock of the cache is a thread's lock, held across the fetch.            *)
(*                                                                         *)
(* A value is named by the version Orchestration had when it answered.     *)
(* Time is a tick: expiry counts the ticks a value is still trusted for;   *)
(* 0 stands for both an expiry that has passed and one that is unset.      *)
(***************************************************************************)
EXTENDS Naturals

CONSTANTS
    Users,     \* tasks and threads that call a model
    Ttl,       \* ticks a fetched value is trusted for
    MaxStored  \* bound: versions Orchestration stores

ASSUME LlmKeysAssumption == Ttl \in Nat \ {0} /\ MaxStored \in Nat

Nobody  == "nobody"
Nothing == 0                 \* nothing has ever loaded; versions count from 1
OwnKey  == MaxStored + 1     \* the key the user of a session registered
Failed  == MaxStored + 2     \* down, slow, not 200, or a body that does not parse
Pending == MaxStored + 3

ASSUME LlmUsersAssumption == Nobody \notin Users

VARIABLES
    cache,   \* which cache this is: "keys" (or "models", alike) or "catalog"
    held,    \* _keys, _models, _catalog
    expiry,  \* _expires_at
    fetcher, \* who holds _lock to fetch
    answer,  \* what the fetch in flight was answered
    user,    \* user[u]: its kind, where it is, the key it calls the provider with
    stored,  \* Orchestration: the version it stores
    pushing, \* Orchestration: an invalidation is on its way
    asOf,    \* history: what was stored at the last invalidation
    outage,  \* history: a fetch failed after it, and none has succeeded since
    quiet    \* history: ticks since a fetch ended, up to Ttl; Ttl if invalidated since

cacheVars == <<held, expiry, fetcher, answer>>
storeVars == <<stored, pushing>>
history   == <<asOf, outage, quiet>>
keysVars  == <<cache, cacheVars, user, storeVars, history>>

\* "shared": a chat client or a decision with the stored key.  "embedding": tries
\* again once.  "own": a client made with the key of the session's user.
Clients == IF cache = "keys" THEN {"shared", "embedding", "own"} ELSE {"reader"}

\* owed is history: what was stored at the last invalidation before u asked.
AUser(client, at, key, owed) == [client |-> client, at |-> at, key |-> key, owed |-> owed]
Idle == AUser("none", "idle", Nothing, Nothing)

KeysTypeOK ==
    /\ cache \in {"keys", "catalog"}
    /\ held \in 0..MaxStored /\ stored \in 0..MaxStored /\ asOf \in 0..MaxStored
    /\ expiry \in 0..Ttl /\ quiet \in 0..Ttl
    /\ fetcher \in Users \cup {Nobody}
    /\ answer \in (0..MaxStored) \cup {Failed, Pending}
    /\ user \in [Users ->
         [client : {"none", "shared", "embedding", "retried", "own", "reader"},
          at : {"idle", "asking", "fetching", "calling", "dropping"},
          key : (0..MaxStored) \cup {OwnKey}, owed : 0..MaxStored]]
    /\ pushing \in BOOLEAN /\ outage \in BOOLEAN

KeysInit ==
    /\ cache \in {"keys", "catalog"}
    /\ held = Nothing /\ expiry = 0 /\ fetcher = Nobody /\ answer = Pending
    /\ user = [u \in Users |-> Idle]
    /\ stored = Nothing /\ pushing = FALSE
    /\ asOf = Nothing /\ outage = FALSE /\ quiet = Ttl

-----------------------------------------------------------------------------
(* The cache.                                                              *)

LockIsFree == fetcher = Nobody
Fresh == expiry > 0 /\ (cache = "catalog" => held # Nothing)

\* A caller with a user's key asks nothing; any other asks the cache.
Begin(u) ==
    /\ user[u] = Idle
    /\ \E k \in Clients :
        user' = [user EXCEPT ![u] = IF k = "own" THEN AUser(k, "calling", OwnKey, asOf)
                                                ELSE AUser(k, "asking", Nothing, asOf)]
    /\ UNCHANGED <<cache, cacheVars, storeVars, history>>

Got(u, value) ==
    user' = [user EXCEPT ![u] = IF cache = "catalog" /\ value = Nothing THEN Idle
                                ELSE [@ EXCEPT !.at = "calling", !.key = value]]

Read(u) ==
    /\ user[u].at = "asking" /\ LockIsFree /\ Fresh
    /\ Got(u, held)
    /\ UNCHANGED <<cache, cacheVars, storeVars, history>>

StartFetch(u) ==
    /\ user[u].at = "asking" /\ LockIsFree /\ ~Fresh
    /\ fetcher' = u /\ answer' = Pending
    /\ user' = [user EXCEPT ![u].at = "fetching"]
    /\ UNCHANGED <<cache, held, expiry, storeVars, history>>

\* Orchestration answers with what it stores then, or does not; an empty
\* catalog is no answer.
Answered ==
    /\ fetcher # Nobody /\ answer = Pending
    /\ answer' \in {stored, Failed}
    /\ (cache = "catalog" /\ stored = Nothing) => answer' = Failed
    /\ UNCHANGED <<cache, held, expiry, fetcher, user, storeVars, history>>

Trusted_OnlyLoaded(value) == IF value = Nothing \/ answer = Failed THEN 0 ELSE Ttl

\* A failure keeps the last value and trusts it for one more ttl.  A catalog
\* that never loaded is an error, and that is not kept.
Trusted(value) == IF cache = "catalog" /\ value = Nothing THEN 0 ELSE Ttl

EndFetch(u) ==
    /\ fetcher = u /\ answer # Pending
    /\ held' = IF answer = Failed THEN held ELSE answer
    /\ expiry' = Trusted(held')
    /\ fetcher' = Nobody /\ answer' = Pending
    /\ Got(u, held')
    /\ outage' = (answer = Failed)
    /\ quiet' = 0
    /\ UNCHANGED <<cache, storeVars, asOf>>

Invalidated_NoLock ==
    /\ expiry' = 0
    /\ asOf' = stored /\ outage' = FALSE /\ quiet' = Ttl
    /\ UNCHANGED <<cache, held, fetcher, answer>>

Invalidated ==
    /\ LockIsFree
    /\ expiry' = 0
    /\ asOf' = stored /\ outage' = FALSE /\ quiet' = Ttl
    /\ UNCHANGED <<cache, held, fetcher, answer>>

-----------------------------------------------------------------------------
(* The callers.  A provider may take any key or refuse it, replaced or not. *)

Accepted(u) ==
    /\ user[u].at = "calling"
    /\ user' = [user EXCEPT ![u] = Idle]
    /\ UNCHANGED <<cache, cacheVars, storeVars, history>>

\* Only keys are refused.  A refused shared key is dropped; a user's key, or one refused a second
\* time, changes nothing.
Refused(u) ==
    /\ user[u].at = "calling" /\ cache = "keys"
    /\ user' = [user EXCEPT ![u] = IF @.client \in {"shared", "embedding"}
                                   THEN [@ EXCEPT !.at = "dropping"] ELSE Idle]
    /\ UNCHANGED <<cache, cacheVars, storeVars, history>>

Drop(u) ==
    /\ user[u].at = "dropping"
    /\ Invalidated
    /\ user' = [user EXCEPT ![u] = IF @.client = "embedding"
                                   THEN AUser("retried", "asking", Nothing, asOf') ELSE Idle]
    /\ UNCHANGED storeVars

-----------------------------------------------------------------------------
(* Orchestration: an administrator stores another value, and it is pushed;  *)
(* the push may not arrive.                                                *)

Replace ==
    /\ stored < MaxStored
    /\ stored' = stored + 1 /\ pushing' = TRUE
    /\ UNCHANGED <<cache, cacheVars, user, history>>

Push ==
    /\ pushing /\ pushing' = FALSE
    /\ \/ Invalidated
       \/ UNCHANGED <<cache, cacheVars, history>>
    /\ UNCHANGED <<user, stored>>

Tick ==
    /\ expiry > 0 \/ quiet < Ttl
    /\ expiry' = IF expiry > 0 THEN expiry - 1 ELSE 0
    /\ quiet' = IF quiet < Ttl THEN quiet + 1 ELSE Ttl
    /\ UNCHANGED <<cache, held, fetcher, answer, user, storeVars, asOf, outage>>

KeysNext ==
    \/ \E u \in Users :
        Begin(u) \/ Read(u) \/ StartFetch(u) \/ EndFetch(u) \/ Accepted(u) \/ Refused(u) \/ Drop(u)
    \/ Answered \/ Replace \/ Push \/ Tick

KeysSpec == KeysInit /\ [][KeysNext]_keysVars

-----------------------------------------------------------------------------
(* Properties.                                                             *)

\* Whoever asks after a key was refused or a change was pushed is given what
\* Orchestration stored by then, unless every fetch since has failed: a fetch
\* that was under way when the invalidation came does not make its old answer
\* fresh again.  (api_key.py:146-171, 249-252; embedding_model.py:126-133)
AskersGetWhatWasStored ==
    [][\A u \in Users :
        (user[u].at \in {"asking", "fetching"} /\ user'[u].at = "calling") =>
            user'[u].key >= user[u].owed \/ outage']_keysVars

\* Orchestration is asked once per ttl, whatever it answers: an outage costs
\* one wait per ttl and not one per model call.  Only a catalog that never
\* loaded is asked for each time.  (api_key.py:20-23, catalog.py:161-170)
OutageCostsOneWait ==
    [][fetcher = Nobody /\ fetcher' # Nobody =>
        quiet = Ttl \/ (cache = "catalog" /\ held = Nothing)]_keysVars
=============================================================================
