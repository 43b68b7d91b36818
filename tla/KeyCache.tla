------------------------------ MODULE KeyCache ------------------------------
(***************************************************************************)
(* Verification of bearer tokens (adapters/oidc.py): the issuer's signing   *)
(* keys are cached for a time and fetched again, one caller at a time, when *)
(* they have expired or a token names a key that is not among them.  The    *)
(* cache is read outside the lock under which it is replaced.  The issuer   *)
(* publishes and withdraws keys at any time.                                *)
(***************************************************************************)
EXTENDS ApiCalls

CONSTANTS
    Kids,       \* key ids
    Nobody,     \* the lock is free
    Ttl,        \* jwks_ttl_seconds
    FetchTime,  \* longest time from the issuer's answer to its use
    KeySets     \* what the issuer publishes, at one time or another

ASSUME KeyAssumption ==
    /\ Ttl \in Nat \ {0} /\ FetchTime \in Nat
    /\ Nobody \notin Calls /\ Kids # {} /\ KeySets \subseteq SUBSET Kids

VARIABLES
    token,      \* the key that signed a call's token; is the rest of it valid?
    forced,     \* the call refreshes whatever the cache holds
    fetched,    \* the keys the issuer answered a call, and when
    keys,       \* _keys
    expiresAt,  \* _expires_at
    lock,       \* who holds _lock
    published,  \* the issuer's keys
    lastSeen,   \* history: when a key was last published
    missed      \* history: calls whose key was not published all the while

keyVars == <<token, forced, fetched, keys, expiresAt, lock, published, lastSeen, missed>>

NotFetched == [keys |-> {}, time |-> 0]
Kid(c) == token[c].kid
InAuthentication(c) == stage[c] \in {"wait", "fetching", "fetched"}

KeyInit ==
    /\ token = [c \in Calls |-> [kid |-> CHOOSE k \in Kids : TRUE, valid |-> TRUE]]
    /\ forced = [c \in Calls |-> FALSE]
    /\ fetched = [c \in Calls |-> NotFetched]
    /\ keys = {} /\ expiresAt = 0
    /\ lock = Nobody
    /\ published \in KeySets
    /\ lastSeen = [k \in Kids |-> 0]
    /\ missed = {}

FreshLate == now <= expiresAt                          \* mutant: off by one
Fresh == now < expiresAt

\* Whoever holds the lock fetches, or finds that another did.
MustFetchOnce(c) == ~Fresh \/ keys = {}                \* mutant: never forced
MustFetch(c) == forced[c] \/ ~Fresh \/ keys = {}

\* With its key the token is decoded and gives a principal, or not.
Decode(c, valid) ==
    IF valid THEN Reach(c, "verified") ELSE Refuse(c, "authentication_failed")

\* The cache is read once more after a refresh; then a refresh is forced.
LookUp(c, cached) ==
    IF Kid(c) \in cached
    THEN Decode(c, token[c].valid) /\ UNCHANGED forced
    ELSE IF forced[c]
    THEN Refuse(c, "authentication_failed") /\ UNCHANGED forced
    ELSE Reach(c, "wait") /\ forced' = [forced EXCEPT ![c] = TRUE]

(* verify, to its first await: the header of a token, and the cache.        *)
Verify(c, kid, valid) ==
    /\ stage[c] = "new"
    /\ token' = [token EXCEPT ![c] = [kid |-> kid, valid |-> valid]]
    /\ IF Fresh /\ kid \in keys THEN Decode(c, valid) ELSE Reach(c, "wait")
    /\ missed' = IF kid \in published THEN missed ELSE missed \cup {c}
    /\ UNCHANGED <<now, who, forced, fetched, keys, expiresAt, lock, published, lastSeen>>

\* No bearer token, or one whose header names no key for RS256.
Malformed(c) ==
    /\ stage[c] = "new"
    /\ token' = [token EXCEPT ![c].valid = FALSE]
    /\ Refuse(c, "authentication_failed")
    /\ UNCHANGED <<now, who, forced, fetched, keys, expiresAt, lock, published, lastSeen, missed>>

(* _refresh, under the lock, to its first request.                          *)
Acquire(c) ==
    /\ stage[c] = "wait" /\ lock = Nobody
    /\ IF MustFetch(c)
       THEN lock' = c /\ Reach(c, "fetching") /\ UNCHANGED forced
       ELSE LookUp(c, keys) /\ UNCHANGED lock
    /\ UNCHANGED <<now, who, token, fetched, keys, expiresAt, published, lastSeen, missed>>

\* The issuer answers with what it publishes at that instant.
Fetch(c) ==
    /\ stage[c] = "fetching"
    /\ fetched' = [fetched EXCEPT ![c] = [keys |-> published, time |-> now]]
    /\ Reach(c, "fetched")
    /\ UNCHANGED <<now, who, token, forced, keys, expiresAt, lock, published, lastSeen, missed>>

\* The issuer does not answer in time, with an error or with something else.
FetchFails(c) ==
    /\ stage[c] = "fetching"
    /\ lock' = Nobody
    /\ Refuse(c, "authentication_unavailable")
    /\ UNCHANGED <<now, who, token, forced, fetched, keys, expiresAt, published, lastSeen, missed>>

\* The keys are replaced, the lock released and the cache read, in one step.
Install(c) ==
    /\ stage[c] = "fetched"
    /\ keys' = fetched[c].keys
    /\ expiresAt' = now + Ttl
    /\ lock' = Nobody
    /\ LookUp(c, fetched[c].keys)
    /\ fetched' = [fetched EXCEPT ![c] = NotFetched]
    /\ UNCHANGED <<now, who, token, published, lastSeen, missed>>

\* The issuer's keys change; a key is seen as long as it is published.
Rotate(S) ==
    /\ S # published
    /\ published' = S
    /\ lastSeen' = [k \in Kids |-> IF k \in S \cup published THEN now ELSE lastSeen[k]]
    /\ missed' = missed \cup {c \in Calls : InAuthentication(c) /\ Kid(c) \notin S}
    /\ UNCHANGED <<now, stage, who, status, token, forced, fetched, keys, expiresAt, lock>>

\* An answer of the issuer is used within FetchTime.
FetchInTime == \A c \in Calls : stage[c] = "fetched" => now < fetched[c].time + FetchTime

KeyNext ==
    \/ \E c \in Calls :
         \/ \E k \in Kids, valid \in BOOLEAN : Verify(c, k, valid)
         \/ Malformed(c) \/ Acquire(c) \/ Fetch(c) \/ FetchFails(c) \/ Install(c)
    \/ \E S \in KeySets : Rotate(S)
-----------------------------------------------------------------------------
(* Properties *)

KeyTypeOK ==
    /\ token \in [Calls -> [kid : Kids, valid : BOOLEAN]]
    /\ forced \in [Calls -> BOOLEAN]
    /\ fetched \in [Calls -> [keys : SUBSET Kids, time : Nat]]
    /\ keys \in SUBSET Kids /\ expiresAt \in Nat
    /\ lock \in Calls \cup {Nobody}
    /\ published \in SUBSET Kids
    /\ lastSeen \in [Kids -> Nat]
    /\ missed \in SUBSET Calls

\* A valid token is not refused because the cache is behind the issuer: if its
\* call got 401, its key was not published at some moment of the call.
PublishedKeyAccepted ==
    \A c \in Calls :
        status[c] = 401 /\ token[c].valid => c \in missed

\* A withdrawn key dies with the cache: no step accepts a token by a key that
\* was last published longer ago than a fetch and the time to live.
RevokedKeyDies ==
    [][\A c \in Calls :
         stage[c] # "verified" /\ stage'[c] = "verified"
           => Kid(c)' \in published \/ now < lastSeen[Kid(c)'] + FetchTime + Ttl]_<<now, stage, who, status, keyVars>>
=============================================================================
