---------------------------- MODULE Provisioning ----------------------------
(***************************************************************************)
(* Provisioning of the identity provider (auth/provision.py): one job after *)
(* the other creates the realm if there is none, declares the attributes    *)
(* that tokens are made of, and for one user after the other creates or     *)
(* reconciles the user and maps its role.  Every step is a request; a job   *)
(* that stops is started again and finds what it left, or what people made  *)
(* by hand.  Keycloak drops attributes that are not declared.               *)
(***************************************************************************)
EXTENDS Naturals, Sequences, FiniteSets

CONSTANT Usernames  \* the users to provision, in order

ASSUME ProvisionAssumption == Usernames \in Seq(STRING)

VARIABLES
    step,      \* what the job does next
    at,        \* which user it has come to
    realm,     \* is there one, and are the attributes declared?
    accounts   \* users: is there one, has it its attributes and its role?

provisionVars == <<step, at, realm, accounts>>

NoAccount == [exists |-> FALSE, claims |-> FALSE, role |-> FALSE]
Accounts == {a \in [exists : BOOLEAN, claims : BOOLEAN, role : BOOLEAN] :
               a.exists \/ a = NoAccount}
Realms == {r \in [exists : BOOLEAN, declared : BOOLEAN] : r.exists \/ ~r.declared}

\* Anything may be there already.
ProvisionInit ==
    /\ step = "idle" /\ at = 1
    /\ realm \in Realms
    /\ accounts \in [DOMAIN Usernames -> Accounts]
    /\ \A i \in DOMAIN Usernames : accounts[i].exists => realm.exists

Proceed(s) == step' = s

\* The token is granted.
ProvisionStart ==
    /\ step \in {"idle", "done"}
    /\ Proceed("realm") /\ at' = 1
    /\ UNCHANGED <<realm, accounts>>

\* A realm that is not found is imported, without users.
EnsureRealm ==
    /\ step = "realm"
    /\ IF realm.exists THEN UNCHANGED realm
       ELSE \E declared \in BOOLEAN : realm' = [exists |-> TRUE, declared |-> declared]
    /\ Proceed("profile")
    /\ UNCHANGED <<at, accounts>>

(* _ensure_profile_attributes.                                              *)
EnsureProfileAttributes ==
    /\ step = "profile"
    /\ realm' = [realm EXCEPT !.declared = TRUE]
    /\ Proceed("user")
    /\ UNCHANGED <<at, accounts>>

(* _ensure_user: created with its attributes, or given them if it exists.    *)
EnsuredOnCreate(a) ==                                   \* mutant: not reconciled
    IF a.exists THEN a ELSE [exists |-> TRUE, claims |-> realm.declared, role |-> FALSE]
Ensured(a) == [exists |-> TRUE, claims |-> realm.declared, role |-> a.role]

EnsureUser ==
    /\ step = "user" /\ at \in DOMAIN Usernames
    /\ accounts' = [accounts EXCEPT ![at] = Ensured(@)]
    /\ Proceed("role")
    /\ UNCHANGED <<at, realm>>

MapRole ==
    /\ step = "role"
    /\ accounts' = [accounts EXCEPT ![at].role = TRUE]
    /\ Proceed("user") /\ at' = at + 1
    /\ UNCHANGED realm

\* The report.
ProvisionDone ==
    /\ step = "user" /\ at \notin DOMAIN Usernames
    /\ Proceed("done")
    /\ UNCHANGED <<at, realm, accounts>>

\* A request fails, or its answer is lost after it took effect.
ProvisionStops ==
    /\ step \notin {"idle", "done"}
    /\ Proceed("idle")
    /\ UNCHANGED <<at, realm, accounts>>

ProvisionNext ==
    \/ ProvisionStart \/ EnsureRealm \/ EnsureProfileAttributes \/ EnsureUser
    \/ MapRole \/ ProvisionDone \/ ProvisionStops

ProvisionSpec == ProvisionInit /\ [][ProvisionNext]_provisionVars
-----------------------------------------------------------------------------
(* Properties *)

ProvisionTypeOK ==
    /\ step \in {"idle", "realm", "profile", "user", "role", "done"}
    /\ at \in 1 .. Len(Usernames) + 1
    /\ realm \in Realms /\ accounts \in [DOMAIN Usernames -> Accounts]

\* Whatever was made by hand or left by jobs that stopped, a job that ends has
\* given every user the attributes and the role the API asks of a token.
ProvisionedUsersWork ==
    step = "done" => \A i \in DOMAIN Usernames : accounts[i].claims /\ accounts[i].role
=============================================================================
