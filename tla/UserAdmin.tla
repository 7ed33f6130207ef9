------------------------------- MODULE UserAdmin -------------------------------
(***************************************************************************)
(* Users and the organization catalog: UserAdminService, which changes the *)
(* identity at Firebase and then the profile in Mongo, and compensates;    *)
(* OrganizationService; the activation of a pending profile by the first   *)
(* request of its user; and the script that backfills old profiles.        *)
(*                                                                         *)
(* Mutating requests hold the write guard, so that one runs at a time      *)
(* (WriteLease!OneWriter); activation and the script do not take it.  Any  *)
(* call to Firebase or Mongo may fail, before or after it had its effect,  *)
(* and a request may be cut off at any step: its worker stops, or it lost  *)
(* the guard and the cancellation passes the compensating handlers.        *)
(***************************************************************************)
EXTENDS Integers, FiniteSets

CONSTANTS
  Users, Emails, Keys, Items,   \* Keys: idempotency keys; Items: catalog keys
  Founders,                     \* the profiles and identities there are at first
  FromPage,                     \* users are disabled and reactivated as the page offers it
  MaxVersion, MaxFailures,      \* bounds on profile versions and on failures explored
  None

ASSUME UserAssumption ==
  /\ FromPage \in BOOLEAN /\ MaxVersion \in Nat /\ MaxFailures \in Nat
  /\ IsFiniteSet(Users)
  /\ Founders \in [Users -> Emails \union {None}]

VARIABLES
  profiles,    \* employee_profiles, with the version as stored: 0 is none
  identities,  \* the accounts at Firebase
  idem,        \* admin_idempotency: the user each key created
  catalog,     \* the state of each catalog item
  inUse,       \* the items selected by policies that are published, ready or indexing
  req,         \* the request that holds the write guard
  activating,  \* for each user, the version a request of theirs is about to activate
  backfill,    \* the profiles the script read without a version
  failures,    \* how many calls failed and how many requests were cut off
  unnoticed    \* one of these was a request cut off or an account created all the same

vars == <<profiles, identities, idem, catalog, inUse, req, activating, backfill, failures, unnoticed>>

Version == 1 .. MaxVersion
Profile == [email : Emails, admin : BOOLEAN, depts : SUBSET Items, active : BOOLEAN,
            status : {"pending_activation", "active", "disabled"}, version : 0 .. MaxVersion + 1]
Identity == [email : Emails, enabled : BOOLEAN]
Steps == {"identity", "profile", "key", "answer", "undoKey", "undoProfile", "undoIdentity",
          "lock", "write", "undo"}
Request == [op : {"create", "update", "disable", "reactivate"}, user : Users, step : Steps,
            old : Profile \union {None}, new : Profile, expected : 0 .. MaxVersion + 1,
            key : Keys \union {None}]

ASSUME NoneAssumption ==
  /\ None \notin Users /\ None \notin Keys /\ None \notin Version
  /\ None \notin Profile /\ None \notin Identity /\ None \notin Request

UserTypeOK ==
  /\ profiles \in [Users -> Profile \union {None}]
  /\ identities \in [Users -> Identity \union {None}]
  /\ idem \in [Keys -> Users \union {None}]
  /\ catalog \in [Items -> {"absent", "active", "archived"}] /\ inUse \subseteq Items
  /\ req \in Request \union {None}
  /\ activating \in [Users -> Version \union {None}] /\ backfill \subseteq Users
  /\ failures \in 0 .. MaxFailures /\ unnoticed \in BOOLEAN

\* A profile as the model validates it: no stored version reads as version 1.
Read(u) == [profiles[u] EXCEPT !.version = IF @ = 0 THEN 1 ELSE @]
Known(u) == profiles[u] # None

Init ==
  /\ \E admins \in SUBSET Users, ver \in [Users -> {0, 1}] :
       /\ profiles = [u \in Users |-> IF Founders[u] = None THEN None ELSE
            [email |-> Founders[u], admin |-> u \in admins, depts |-> {}, active |-> TRUE,
             status |-> "active", version |-> ver[u]]]
       /\ \E u \in admins : Founders[u] # None
       /\ \A u \in Users : Founders[u] # None \/ (ver[u] = 1 /\ u \notin admins)
  /\ identities = [u \in Users |-> IF Founders[u] = None THEN None ELSE
                                   [email |-> Founders[u], enabled |-> TRUE]]
  /\ idem = [k \in Keys |-> None]
  /\ catalog = [i \in Items |-> "absent"] /\ inUse = {}
  /\ req = None /\ activating = [u \in Users |-> None] /\ backfill = {}
  /\ failures = 0 /\ unnoticed = FALSE

-----------------------------------------------------------------------------
(* What a request tests before its first effect. *)

\* _active_system_admin_count: pending profiles and disabled identities count too.
AdminCount == Cardinality({u \in Users : Known(u) /\ profiles[u].active /\ profiles[u].admin})

\* _validate_scopes: items must be active, or be kept from the profile as it was.
ValidScopes(p, kept) ==
  /\ p.admin \/ p.depts # {}
  /\ \A i \in p.depts : catalog[i] = "active" \/ (catalog[i] = "archived" /\ i \in kept)

EmailFree(e, u) == \A v \in Users \ {u} : Known(v) => profiles[v].email # e

\* A system administrator who can sign in sends the request.
SomeAdminActs ==
  \E a \in Users : /\ Known(a) /\ profiles[a].active /\ profiles[a].admin
                   /\ profiles[a].status = "active"
                   /\ identities[a] # None /\ identities[a].enabled

Enter(op, u, step, old, new, expected, key) ==
  /\ req = None /\ SomeAdminActs
  /\ req' = [op |-> op, user |-> u, step |-> step, old |-> old, new |-> new,
             expected |-> expected, key |-> key]
  /\ UNCHANGED <<profiles, identities, idem, catalog, inUse, activating, backfill, failures, unnoticed>>

\* A repeated key is answered with its user, and changes nothing.
StartCreate(u, e, admin, depts, k) ==
  LET new == [email |-> e, admin |-> admin, depts |-> depts, active |-> TRUE,
              status |-> "pending_activation", version |-> 1]
  IN /\ ~Known(u) /\ identities[u] = None /\ \A j \in Keys : idem[j] # u
     /\ idem[k] = None /\ EmailFree(e, u) /\ ValidScopes(new, {})
     /\ Enter("create", u, "identity", None, new, 1, k)

OneAdminIsEnough(u) == profiles[u].admin => AdminCount >= 1
LastAdminStays(u) == profiles[u].admin => AdminCount > 1

StartUpdate(u, e, admin, depts, expected) ==
  /\ Known(u) /\ expected \in 1 .. Read(u).version /\ Read(u).version < MaxVersion
  /\ ~admin => LastAdminStays(u)
  /\ EmailFree(e, u)
  /\ LET new == [Read(u) EXCEPT !.email = e, !.admin = admin, !.depts = depts,
                                !.version = @ + 1]
     IN /\ ValidScopes(new, profiles[u].depts)
        /\ Enter("update", u, "identity", Read(u), new, expected, None)

StartDisable(u) ==
  /\ Known(u) /\ (FromPage => profiles[u].active) /\ Read(u).version < MaxVersion
  /\ LastAdminStays(u)
  /\ Enter("disable", u, "identity", Read(u),
           [Read(u) EXCEPT !.active = FALSE, !.status = "disabled", !.version = @ + 1],
           Read(u).version, None)

\* As if reactivation were an update, which may keep archived items.
ReactivateKept(u) == ValidScopes(profiles[u], profiles[u].depts)
ReactivateChecked(u) == ValidScopes(profiles[u], {})

StartReactivate(u) ==
  /\ Known(u) /\ (FromPage => ~profiles[u].active) /\ Read(u).version < MaxVersion
  /\ ReactivateChecked(u)
  /\ identities[u] # None /\ identities[u].email = profiles[u].email
  /\ Enter("reactivate", u, "identity", Read(u),
           [Read(u) EXCEPT !.active = TRUE, !.status = "active", !.version = @ + 1],
           Read(u).version, None)

-----------------------------------------------------------------------------
(* The steps of a request; Leave is its answer, of either kind. *)

Goto(step) == req' = [req EXCEPT !.step = step]
Leave == req' = None

NoFailure == UNCHANGED <<failures, unnoticed>>

\* A call with an effect: it succeeds, or it fails before or after the effect.
Call(effect, idle, succeed, fail) ==
  \/ effect /\ succeed /\ NoFailure
  \/ /\ failures < MaxFailures /\ failures' = failures + 1
     /\ \/ idle /\ unnoticed' = unnoticed
        \/ effect /\ unnoticed' = (unnoticed \/ <<req.op, req.step>> = <<"create", "identity">>)
     /\ fail

Step(step, ops) ==
  /\ req # None /\ req.step = step /\ req.op \in ops
  /\ UNCHANGED <<catalog, inUse, activating, backfill>>

SetIdentity(u, i) == identities' = [identities EXCEPT ![u] = i] /\ UNCHANGED <<profiles, idem>>
SetProfile(u, p) == profiles' = [profiles EXCEPT ![u] = p] /\ UNCHANGED <<identities, idem>>
SetKey(k, u) == idem' = [idem EXCEPT ![k] = u] /\ UNCHANGED <<profiles, identities>>
Idle == UNCHANGED <<profiles, identities, idem>>

Taken(e, u) == \E v \in Users \ {u} : identities[v] # None /\ identities[v].email = e

CreateIdentity ==
  /\ Step("identity", {"create"})
  /\ IF Taken(req.new.email, req.user) THEN Idle /\ Leave /\ NoFailure
     ELSE Call(SetIdentity(req.user, [email |-> req.new.email, enabled |-> TRUE]), Idle,
               Goto("profile"), Leave)

InsertProfile ==
  /\ Step("profile", {"create"})
  /\ Call(SetProfile(req.user, req.new), Idle, Goto("key"), Goto("undoKey"))

InsertKey ==
  /\ Step("key", {"create"})
  /\ Call(SetKey(req.key, req.user), Idle, Goto("answer"), Goto("undoKey"))

\* Audit records and the activation link.
Answer ==
  /\ Step("answer", {"create"})
  /\ Call(Idle, Idle, Leave, Goto("undoKey"))

\* The compensation: the key, the profile, then the identity.
UndoProfileFirst ==
  /\ Step("undoKey", {"create"})
  /\ Call(SetProfile(req.user, None), Idle, Goto("undoProfile"), Leave)
UndoKey ==
  /\ Step("undoKey", {"create"})
  /\ Call(SetKey(req.key, None), Idle, Goto("undoProfile"), Leave)

UndoProfileLast ==
  /\ Step("undoProfile", {"create"})
  /\ Call(SetProfile(req.user, None), Idle, Leave, Leave)
UndoProfile ==
  /\ Step("undoProfile", {"create"})
  /\ Call(SetProfile(req.user, None), Idle, Goto("undoIdentity"), Leave)

UndoIdentity ==
  /\ Step("undoIdentity", {"create"})
  /\ Call(SetIdentity(req.user, None), Idle, Leave, Goto("lock"))

LockIdentity ==
  /\ Step("lock", {"create"})
  /\ IF identities[req.user] = None THEN Idle /\ Leave /\ NoFailure
     ELSE Call(SetIdentity(req.user, [identities[req.user] EXCEPT !.enabled = FALSE]), Idle,
               Leave, Leave)

\* update, disable and reactivate: the identity, the profile if its version matches, or undo.
Changing == {"update", "disable", "reactivate"}
Touched == LET i == identities[req.user] IN
  CASE req.op = "update" -> IF req.new.email = req.old.email THEN i
                            ELSE [i EXCEPT !.email = req.new.email]
    [] req.op = "disable" -> [i EXCEPT !.enabled = FALSE]
    [] OTHER -> [i EXCEPT !.enabled = TRUE]
Restored == LET i == identities[req.user] IN
  CASE req.op = "update" -> [i EXCEPT !.email = req.old.email]
    [] req.op = "disable" -> [i EXCEPT !.enabled = TRUE]
    [] OTHER -> [i EXCEPT !.enabled = FALSE]

ChangeIdentity ==
  /\ Step("identity", Changing)
  /\ IF identities[req.user] = None \/ (req.op = "update" /\ Taken(req.new.email, req.user))
     THEN Idle /\ Leave /\ NoFailure
     ELSE Call(SetIdentity(req.user, Touched), Idle, Goto("write"), Leave)

\* update_one by id and version; only update_user knows profiles without one.
Matches == \/ profiles[req.user].version = req.expected
           \/ req.op = "update" /\ req.expected = 1 /\ profiles[req.user].version = 0

WriteProfile ==
  /\ Step("write", Changing)
  /\ IF Matches THEN Call(SetProfile(req.user, req.new), Idle, Leave, Leave)
     ELSE Idle /\ Goto("undo") /\ NoFailure

NoRestore == Step("undo", Changing) /\ Idle /\ Leave /\ NoFailure
Restore ==
  /\ Step("undo", Changing)
  /\ Call(SetIdentity(req.user, Restored), Idle, Leave, Leave)

CutOff ==
  /\ req # None /\ Leave
  /\ failures < MaxFailures /\ failures' = failures + 1 /\ unnoticed' = TRUE
  /\ UNCHANGED <<profiles, identities, idem, catalog, inUse, activating, backfill>>

-----------------------------------------------------------------------------
(* current_profile: a request of a pending user activates the profile. *)

SeePending(u) ==
  /\ Known(u) /\ profiles[u].active /\ profiles[u].status = "pending_activation"
  /\ identities[u] # None /\ identities[u].enabled
  /\ profiles[u].version < MaxVersion
  /\ activating' = [activating EXCEPT ![u] = Read(u).version]
  /\ UNCHANGED <<profiles, identities, idem, catalog, inUse, req, backfill, failures, unnoticed>>

ActivateBlindly(u) == Known(u)
StillAsSeen(u) == Known(u) /\ profiles[u].version = activating[u]

Activate(u) ==
  /\ activating[u] # None
  /\ activating' = [activating EXCEPT ![u] = None]
  /\ profiles' = IF StillAsSeen(u)
                 THEN [profiles EXCEPT ![u].status = "active", ![u].version = activating[u] + 1]
                 ELSE profiles
  /\ UNCHANGED <<identities, idem, catalog, inUse, req, backfill, failures, unnoticed>>

(* bootstrap_organization_catalogs: version 1 for profiles read without one. *)

BackfillRead ==
  /\ backfill = {}
  /\ backfill' = {u \in Users : Known(u) /\ profiles[u].version = 0} /\ backfill' # {}
  /\ UNCHANGED <<profiles, identities, idem, catalog, inUse, req, activating, failures, unnoticed>>

BackfillWrite(u) ==
  /\ u \in backfill /\ backfill' = backfill \ {u}
  /\ profiles' = [profiles EXCEPT ![u].version = 1]
  /\ UNCHANGED <<identities, idem, catalog, inUse, req, activating, failures, unnoticed>>

-----------------------------------------------------------------------------
(* OrganizationService; each request has one effect. *)

CatalogStep(i, was, now) ==
  /\ req = None /\ SomeAdminActs
  /\ catalog[i] = was /\ catalog' = [catalog EXCEPT ![i] = now]
  /\ UNCHANGED <<profiles, identities, idem, inUse, req, activating, backfill, failures, unnoticed>>

CreateItem(i) == CatalogStep(i, "absent", "active")

\* usage: active profiles, and the versions that are or may soon be served.
Used(i) == i \in inUse \/ \E u \in Users : Known(u) /\ profiles[u].active /\ i \in profiles[u].depts

DeleteItem(i) == ~Used(i) /\ CatalogStep(i, "active", "deleted")
ArchiveItem(i) == ~Used(i) /\ CatalogStep(i, "active", "archived")
ReactivateItem(i) == CatalogStep(i, "archived", "active")

\* The lifecycle of policies, elsewhere.
PolicyUse(i) ==
  /\ inUse' = IF i \in inUse THEN inUse \ {i} ELSE inUse \union {i}
  /\ i \notin inUse => catalog[i] = "active"
  /\ UNCHANGED <<profiles, identities, idem, catalog, req, activating, backfill, failures, unnoticed>>

Next ==
  \/ \E u \in Users, e \in Emails, admin \in BOOLEAN, depts \in SUBSET Items :
       \/ \E k \in Keys : StartCreate(u, e, admin, depts, k)
       \/ \E expected \in Version : StartUpdate(u, e, admin, depts, expected)
  \/ \E u \in Users : \/ StartDisable(u) \/ StartReactivate(u)
                      \/ SeePending(u) \/ Activate(u) \/ BackfillWrite(u)
  \/ CreateIdentity \/ InsertProfile \/ InsertKey \/ Answer
  \/ UndoKey \/ UndoProfile \/ UndoIdentity \/ LockIdentity
  \/ ChangeIdentity \/ WriteProfile \/ Restore \/ CutOff
  \/ BackfillRead
  \/ \E i \in Items : CreateItem(i) \/ ArchiveItem(i) \/ ReactivateItem(i) \/ PolicyUse(i)

Spec == Init /\ [][Next]_vars

-----------------------------------------------------------------------------
(* An organization keeps an active system administrator, whatever fails; as *)
(* long as nothing failed, one whose account can sign in.                   *)
AdminRemains ==
  \E u \in Users : /\ Known(u) /\ profiles[u].active /\ profiles[u].admin
                   /\ failures = 0 => identities[u] # None /\ identities[u].enabled

(* A repeated create finds the user its key names (create_user's answer to  *)
(* a retry reads it): at no moment, and after no failure, is there a key    *)
(* without its profile.                                                     *)
KeyHasItsUser == \A k \in Keys : idem[k] # None => Known(idem[k])

(* Between requests, and when no call failed, account and profile agree,    *)
(* although activations and the script take versions from under requests.   *)
AgreesAtRest ==
  req = None /\ failures = 0 => \A u \in Users :
    /\ Known(u) <=> identities[u] # None
    /\ Known(u) => /\ identities[u].email = profiles[u].email
                   /\ identities[u].enabled = profiles[u].active

(* One failed call does not leave an account without a profile: create_user *)
(* undoes what it did.  The exception is an account whose creation was      *)
(* answered with an error: the code takes it that there is none.            *)
FailedCreateIsUndone ==
  req = None /\ failures <= 1 /\ ~unnoticed =>
    \A u \in Users : identities[u] # None => Known(u)

(* An active user has no archived catalog item: archiving looks at active   *)
(* users only, an update may keep archived items, and so reactivation must  *)
(* look again.                                                              *)
ActiveUsersUseActiveItems ==
  \A u \in Users : Known(u) /\ profiles[u].active =>
    \A i \in profiles[u].depts : catalog[i] = "active"

(* The two records of a membership agree: an activation that was under way  *)
(* while an administrator disabled the user does not make it active again.  *)
StatusFollowsActive ==
  \A u \in Users : Known(u) => (profiles[u].active <=> profiles[u].status # "disabled")
=============================================================================
