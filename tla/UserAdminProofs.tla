---------------------------- MODULE UserAdminProofs ----------------------------
(***************************************************************************)
(* Proofs about UserAdmin that hold for any users, addresses, catalog      *)
(* items and idempotency keys, and for any number of versions and          *)
(* failures.                                                               *)
(***************************************************************************)
EXTENDS UserAdmin, FiniteSetTheorems, TLAPS

-----------------------------------------------------------------------------
(* The inductive invariant. *)

Requesting(u) == req # None /\ req.user = u
Creating(u) == Requesting(u) /\ req.op = "create"

\* The request that creates a user: there is nothing of the user before the account, and
\* the profile is there until the compensation.
CreateFits ==
  req # None /\ req.op = "create" =>
    /\ req.key # None
    /\ req.step \in {"identity", "profile", "key", "answer", "undoKey", "undoProfile",
                     "undoIdentity", "lock"}
    /\ req.new.active /\ req.new.status = "pending_activation" /\ req.new.version = 1
    /\ req.step = "identity" => identities[req.user] = None
    /\ req.step \in {"identity", "profile"} => ~Known(req.user)
    /\ req.step \in {"key", "answer"} => Known(req.user)

\* The request that changes a user: nobody but the request changes more of the profile
\* than its status and version.
ChangeFits ==
  req # None /\ req.op # "create" =>
    /\ req.step \in {"identity", "write", "undo"}
    /\ req.old # None /\ Known(req.user)
    /\ profiles[req.user].email = req.old.email
    /\ profiles[req.user].admin = req.old.admin
    /\ profiles[req.user].active = req.old.active
    /\ req.step # "identity" => identities[req.user] # None
    /\ req.expected >= 1 /\ req.new.version > req.expected
    /\ req.op = "update" => req.new.active = req.old.active
    /\ req.op = "disable" =>
         /\ ~req.new.active /\ req.new.email = req.old.email
         /\ FromPage => req.old.active
    /\ req.op = "reactivate" =>
         /\ req.new.active /\ req.new.email = req.old.email /\ req.new.admin = req.old.admin
         /\ FromPage => ~req.old.active

\* Users from before there were versions are not pending, and nobody activates them.
Unversioned(u) == u \in backfill \/ (Known(u) /\ profiles[u].version = 0)
UnversionedAreOld ==
  \A u \in Users : Unversioned(u) =>
    /\ Known(u) /\ profiles[u].status # "pending_activation" /\ activating[u] = None
    /\ Requesting(u) => req.op # "create" /\ req.new.status # "pending_activation"

\* An activation under way has seen a version before which the user was not disabled.
ActivationsFit ==
  \A u \in Users :
    /\ activating[u] # None =>
         /\ Known(u) => /\ profiles[u].version >= activating[u]
                        /\ ~profiles[u].active => profiles[u].version > activating[u]
         /\ ~Known(u) \/ Creating(u) => activating[u] = 1
    /\ Creating(u) /\ Known(u) =>
         profiles[u].active /\ (profiles[u].status = "pending_activation" => profiles[u].version = 1)

RequestedStatusFits == req # None => (req.new.active <=> req.new.status # "disabled")

\* A key names a user whose profile is there, and that no request is taking back.
KeysFit ==
  /\ KeyHasItsUser
  /\ \A u \in Users, k \in Keys : Creating(u) /\ idem[k] = u =>
       k = req.key /\ req.step \in {"answer", "undoKey"}

ItemsFit ==
  /\ ActiveUsersUseActiveItems
  /\ req # None /\ req.new.active => \A i \in req.new.depts : catalog[i] = "active"

\* An administrator remains whom the request does not take away.
Admin(u) == Known(u) /\ profiles[u].active /\ profiles[u].admin
TakesAway(u) ==
  Requesting(u) /\ (req.op = "create" \/ ~req.new.active \/ ~req.new.admin)
AdminStays == \E u \in Users : Admin(u) /\ ~TakesAway(u)

\* As long as nothing failed, account and profile differ by what the request has done.
Agree(u) ==
  /\ Known(u) <=> identities[u] # None
  /\ Known(u) => /\ identities[u].email = profiles[u].email
                 /\ identities[u].enabled = profiles[u].active
Changed(u) ==
  /\ identities[u] # None
  /\ identities[u].email = req.new.email
  /\ identities[u].enabled = req.new.active
AccountsFit ==
  failures = 0 => \A u \in Users :
    /\ ~Requesting(u) => Agree(u)
    /\ Requesting(u) /\ req.step \in {"identity", "key", "answer"} => Agree(u)
    /\ Requesting(u) /\ req.step \in {"profile", "write", "undo"} => Changed(u)
    /\ Requesting(u) => req.step \in {"identity", "profile", "key", "answer", "write", "undo"}

\* An account without a profile is one that a request is creating or taking back, and it is
\* taken back because a call failed.
AccountsAreUndone ==
  failures <= 1 /\ ~unnoticed =>
    /\ \A u \in Users : identities[u] # None =>
         \/ Known(u)
         \/ /\ Creating(u)
            /\ req.step \in {"profile", "undoKey", "undoProfile", "undoIdentity"}
    /\ req # None /\ req.step \in {"undoKey", "undoProfile", "undoIdentity"} => failures = 1
    /\ req # None => req.step # "lock"

UserInv ==
  /\ UserTypeOK /\ CreateFits /\ ChangeFits
  /\ UnversionedAreOld /\ ActivationsFit /\ StatusFollowsActive /\ RequestedStatusFits
  /\ KeysFit /\ ItemsFit /\ AdminStays /\ AccountsAreUndone

-----------------------------------------------------------------------------
(* The steps. *)

\* What starts a request.
Starts ==
  \E u \in Users, e \in Emails, admin \in BOOLEAN, depts \in SUBSET Items :
    \/ \E k \in Keys : StartCreate(u, e, admin, depts, k)
    \/ \E expected \in Version : StartUpdate(u, e, admin, depts, expected)
    \/ StartDisable(u)
    \/ StartReactivate(u)

\* The steps of a request before its compensation, and those that take back.
Creates == CreateIdentity \/ InsertProfile \/ InsertKey \/ Answer
Undoes == UndoKey \/ UndoProfile \/ UndoIdentity \/ LockIdentity
Changes == ChangeIdentity \/ WriteProfile \/ Restore

\* Activations and the script, which do not take the guard.
Unguarded ==
  \/ \E u \in Users : SeePending(u) \/ Activate(u) \/ BackfillWrite(u)
  \/ BackfillRead

Catalog == \E i \in Items : CreateItem(i) \/ ArchiveItem(i) \/ ReactivateItem(i) \/ PolicyUse(i)

\* Every step is one of these, or changes nothing.
LEMMA UserSteps ==
  ASSUME UserTypeOK, [Next]_vars
  PROVE  Starts \/ Creates \/ Undoes \/ Changes \/ CutOff \/ Unguarded \/ Catalog \/ UNCHANGED vars
<1>1. \A u \in Users : StartDisable(u) \/ StartReactivate(u) => Starts
  <2> SUFFICES ASSUME NEW u \in Users, StartDisable(u) \/ StartReactivate(u) PROVE Starts
    OBVIOUS
  <2>1. profiles[u].email \in Emails /\ TRUE \in BOOLEAN /\ {} \in SUBSET Items
    BY DEF UserTypeOK, Profile, Known, StartDisable, StartReactivate
  <2> QED
    BY <2>1 DEF Starts
<1> QED
  BY <1>1 DEF Next, Starts, Creates, Undoes, Changes, Unguarded, Catalog

-----------------------------------------------------------------------------
(* Types. *)

\* A profile with a version read is a profile, and differs in nothing else.
LEMMA ReadProfile ==
  ASSUME UserTypeOK, NEW u \in Users, Known(u)
  PROVE  /\ profiles[u] \in Profile /\ Read(u) \in Profile
         /\ Read(u).email = profiles[u].email /\ Read(u).admin = profiles[u].admin
         /\ Read(u).depts = profiles[u].depts /\ Read(u).active = profiles[u].active
         /\ Read(u).status = profiles[u].status
         /\ Read(u).version = (IF profiles[u].version = 0 THEN 1 ELSE profiles[u].version)
         /\ Read(u).version \in Nat \ {0}
<1>1. profiles[u] \in Profile
  BY DEF UserTypeOK, Known
<1> QED
  BY <1>1, UserAssumption DEF Read, Profile

\* A request that starts is well formed, and starts with the account.
LEMMA StartsRequest ==
  ASSUME UserTypeOK, Starts
  PROVE  /\ req = None /\ req' \in Request /\ req'.step = "identity" /\ SomeAdminActs
         /\ UNCHANGED <<profiles, identities, idem, catalog, inUse, activating, backfill,
                        failures, unnoticed>>
<1>1. PICK u \in Users, e \in Emails, admin \in BOOLEAN, depts \in SUBSET Items :
        \/ \E k \in Keys : StartCreate(u, e, admin, depts, k)
        \/ \E expected \in Version : StartUpdate(u, e, admin, depts, expected)
        \/ StartDisable(u)
        \/ StartReactivate(u)
  BY DEF Starts
<1>2. ASSUME NEW k \in Keys, StartCreate(u, e, admin, depts, k)
      PROVE  req' \in Request /\ req'.step = "identity"
  BY <1>2, UserAssumption DEF StartCreate, Enter, Request, Profile, Steps
<1>3. ASSUME NEW new \in Profile, NEW expected \in Nat, Read(u) \in Profile, expected <= MaxVersion,
             NEW op \in {"update", "disable", "reactivate"},
             Enter(op, u, "identity", Read(u), new, expected, None)
      PROVE  req' \in Request /\ req'.step = "identity"
  BY <1>3, UserAssumption DEF Enter, Request, Steps
<1>4. ASSUME NEW expected \in Version, StartUpdate(u, e, admin, depts, expected)
      PROVE  req' \in Request /\ req'.step = "identity"
  <2> DEFINE next == Read(u).version + 1
             new == [Read(u) EXCEPT !.email = e, !.admin = admin, !.depts = depts,
                                    !.version = next]
  <2>0. Read(u) \in Profile /\ next \in 0 .. MaxVersion + 1
    BY <1>4, ReadProfile, UserAssumption DEF StartUpdate
  <2>1. new \in Profile
    <3> HIDE DEF next
    <3> QED
      BY <2>0 DEF Profile
  <2> QED
    BY <1>3, <1>4, <2>0, <2>1, UserAssumption DEF StartUpdate, Version
<1>5. ASSUME StartDisable(u)
      PROVE  req' \in Request /\ req'.step = "identity"
  <2> DEFINE next == Read(u).version + 1
             new == [Read(u) EXCEPT !.active = FALSE, !.status = "disabled", !.version = next]
  <2>0. /\ Read(u) \in Profile /\ next \in 0 .. MaxVersion + 1
        /\ Read(u).version \in Nat /\ Read(u).version <= MaxVersion
    BY <1>5, ReadProfile, UserAssumption DEF StartDisable
  <2>1. new \in Profile
    <3> HIDE DEF next
    <3> QED
      BY <2>0 DEF Profile
  <2> QED
    BY <1>3, <1>5, <2>0, <2>1 DEF StartDisable
<1>6. ASSUME StartReactivate(u)
      PROVE  req' \in Request /\ req'.step = "identity"
  <2> DEFINE next == Read(u).version + 1
             new == [Read(u) EXCEPT !.active = TRUE, !.status = "active", !.version = next]
  <2>0. /\ Read(u) \in Profile /\ next \in 0 .. MaxVersion + 1
        /\ Read(u).version \in Nat /\ Read(u).version <= MaxVersion
    BY <1>6, ReadProfile, UserAssumption DEF StartReactivate
  <2>1. new \in Profile
    <3> HIDE DEF next
    <3> QED
      BY <2>0 DEF Profile
  <2> QED
    BY <1>3, <1>6, <2>0, <2>1 DEF StartReactivate
<1>7. /\ req = None /\ SomeAdminActs
      /\ UNCHANGED <<profiles, identities, idem, catalog, inUse, activating, backfill,
                     failures, unnoticed>>
  BY <1>1 DEF StartCreate, StartUpdate, StartDisable, StartReactivate, Enter
<1> QED
  BY <1>1, <1>2, <1>4, <1>5, <1>6, <1>7

\* What a step of a running request does to the request: it goes on or it ends.
RequestGoesOn ==
  \/ req' = None
  \/ /\ req' \in Request /\ req'.op = req.op /\ req'.user = req.user /\ req'.old = req.old
     /\ req'.new = req.new /\ req'.expected = req.expected /\ req'.key = req.key

\* Another step is all that a running request becomes.
LEMMA GotoRequest ==
  ASSUME req \in Request, NEW step \in Steps, Goto(step)
  PROVE  /\ RequestGoesOn /\ req' \in Request /\ req'.step = step
         /\ req'.op = req.op /\ req'.user = req.user /\ req'.old = req.old
         /\ req'.new = req.new /\ req'.expected = req.expected /\ req'.key = req.key
  BY DEF Goto, Request, RequestGoesOn

\* A running step leaves the rest alone, and changes at most one record: the account, the
\* profile or the key of the request.
LEMMA RunningStep ==
  ASSUME UserTypeOK, CreateFits, ChangeFits, Creates \/ Undoes \/ Changes \/ CutOff
  PROVE  /\ req \in Request /\ RequestGoesOn
         /\ UNCHANGED <<catalog, inUse, activating, backfill>>
         /\ failures' \in 0 .. MaxFailures /\ unnoticed' \in BOOLEAN
         /\ \/ UNCHANGED <<profiles, identities, idem>>
            \/ /\ UNCHANGED <<profiles, idem>>
               /\ \E i \in Identity \union {None} : identities' = [identities EXCEPT ![req.user] = i]
            \/ /\ UNCHANGED <<identities, idem>>
               /\ \E p \in {req.new, None} : profiles' = [profiles EXCEPT ![req.user] = p]
            \/ /\ UNCHANGED <<profiles, identities>> /\ req.key \in Keys
               /\ \E u \in {req.user, None} : idem' = [idem EXCEPT ![req.key] = u]
<1>a. /\ req \in Request \union {None} /\ identities \in [Users -> Identity \union {None}]
      /\ failures \in 0 .. MaxFailures /\ unnoticed \in BOOLEAN /\ MaxFailures \in Nat
  BY UserAssumption DEF UserTypeOK
<1>b. /\ req \in Request
      /\ UNCHANGED <<catalog, inUse, activating, backfill>>
  BY <1>a DEF Creates, CreateIdentity, InsertProfile, InsertKey, Answer, Undoes, UndoKey,
              UndoProfile, UndoIdentity, LockIdentity, Changes, ChangeIdentity, WriteProfile,
              Restore, CutOff, Step
<1>c. /\ req.new \in Profile /\ req.user \in Users /\ req.key \in Keys \union {None}
      /\ req.op = "create" => req.key \in Keys
      /\ \A i \in Identity : i.email \in Emails /\ i.enabled \in BOOLEAN
  BY <1>b, NoneAssumption DEF CreateFits, Request, Identity
<1>d. ASSUME NEW step \in Steps, Goto(step)
      PROVE  RequestGoesOn
  BY <1>b, <1>d, GotoRequest
<1> DEFINE Fails == failures' \in 0 .. MaxFailures /\ unnoticed' \in BOOLEAN
           Records ==
             \/ UNCHANGED <<profiles, identities, idem>>
             \/ /\ UNCHANGED <<profiles, idem>>
                /\ \E i \in Identity \union {None} : identities' = [identities EXCEPT ![req.user] = i]
             \/ /\ UNCHANGED <<identities, idem>>
                /\ \E p \in {req.new, None} : profiles' = [profiles EXCEPT ![req.user] = p]
             \/ /\ UNCHANGED <<profiles, identities>> /\ req.key \in Keys
                /\ \E u \in {req.user, None} : idem' = [idem EXCEPT ![req.key] = u]
<1>e. Fails
  <2>1. UNCHANGED failures \/ (failures < MaxFailures /\ failures' = failures + 1)
    BY DEF Creates, CreateIdentity, InsertProfile, InsertKey, Answer, Undoes, UndoKey,
           UndoProfile, UndoIdentity, LockIdentity, Changes, ChangeIdentity, WriteProfile,
           Restore, CutOff, Call, NoFailure
  <2>2. unnoticed' \in BOOLEAN
    BY <1>a DEF Creates, CreateIdentity, InsertProfile, InsertKey, Answer, Undoes, UndoKey,
                UndoProfile, UndoIdentity, LockIdentity, Changes, ChangeIdentity, WriteProfile,
                Restore, CutOff, Call, NoFailure
  <2> QED
    BY <1>a, <2>1, <2>2
<1>f. RequestGoesOn
  BY <1>d DEF Creates, CreateIdentity, InsertProfile, InsertKey, Answer, Undoes, UndoKey,
              UndoProfile, UndoIdentity, LockIdentity, Changes, ChangeIdentity, WriteProfile,
              Restore, CutOff, Call, Leave, RequestGoesOn, Steps
<1>1. ASSUME Creates
      PROVE  Records
  <2>1. [email |-> req.new.email, enabled |-> TRUE] \in Identity
    BY <1>c DEF Profile, Identity
  <2> QED
    BY <1>1, <1>c, <2>1
    DEF Creates, CreateIdentity, InsertProfile, InsertKey, Answer, Step, Call, SetIdentity,
        SetProfile, SetKey, Idle
<1>2. ASSUME Undoes
      PROVE  Records
  <2>1. identities[req.user] # None => [identities[req.user] EXCEPT !.enabled = FALSE] \in Identity
    BY <1>a, <1>c DEF Identity
  <2> QED
    BY <1>2, <1>c, <2>1
    DEF Undoes, UndoKey, UndoProfile, UndoIdentity, LockIdentity, Step, Call, SetIdentity,
        SetProfile, SetKey, Idle
<1>3. ASSUME Changes
      PROVE  Records
  <2>1. req.step # "identity" \/ identities[req.user] # None
          => Touched \in Identity /\ Restored \in Identity
    <3>1. req.old \in Profile
      BY <1>3, <1>b DEF Changes, ChangeIdentity, WriteProfile, Restore, Step, Changing, ChangeFits, Request
    <3>2. req.step # "identity" \/ identities[req.user] # None => identities[req.user] \in Identity
      BY <1>3, <1>a, <1>b, <1>c
      DEF Changes, ChangeIdentity, WriteProfile, Restore, Step, Changing, ChangeFits
    <3> QED
      BY <1>c, <3>1, <3>2 DEF Touched, Restored, Identity, Profile
  <2> QED
    BY <1>3, <1>c, <2>1
    DEF Changes, ChangeIdentity, WriteProfile, Restore, Step, Call, SetIdentity, SetProfile, Idle
<1>4. ASSUME CutOff
      PROVE  Records
  BY <1>4 DEF CutOff
<1> HIDE DEF Records, Fails
<1>5. Records
  BY <1>1, <1>2, <1>3, <1>4
<1> QED
  BY <1>b, <1>e, <1>f, <1>5 DEF Records, Fails

\* A profile of which the status and the version change, and nothing else.
Moved(u, status, ver) ==
  /\ Known(u) /\ profiles' \in [Users -> Profile \union {None}]
  /\ \A v \in Users \ {u} : profiles'[v] = profiles[v]
  /\ profiles'[u] \in Profile
  /\ profiles'[u].email = profiles[u].email /\ profiles'[u].admin = profiles[u].admin
  /\ profiles'[u].depts = profiles[u].depts /\ profiles'[u].active = profiles[u].active
  /\ profiles'[u].status = status /\ profiles'[u].version = ver

\* An activation whose profile is as it was seen; any other changes nothing.
LEMMA ActivateMoves ==
  ASSUME UserTypeOK, NEW u \in Users, Activate(u)
  PROVE  /\ activating' \in [Users -> Version \union {None}]
         /\ UNCHANGED profiles \/ (StillAsSeen(u) /\ Moved(u, "active", activating[u] + 1))
<1>a. /\ profiles \in [Users -> Profile \union {None}]
      /\ activating \in [Users -> Version \union {None}]
      /\ MaxVersion \in Nat
  BY UserAssumption DEF UserTypeOK
<1>1. activating' \in [Users -> Version \union {None}]
  BY <1>a DEF Activate
<1>2. ASSUME StillAsSeen(u)
      PROVE  Moved(u, "active", activating[u] + 1)
  <2> DEFINE ver == activating[u] + 1
  <2>1. profiles[u] \in Profile /\ ver \in 0 .. MaxVersion + 1
    BY <1>2, <1>a DEF StillAsSeen, Known, Activate, Version
  <2>2. profiles' = [profiles EXCEPT ![u].status = "active", ![u].version = ver]
    BY <1>2 DEF Activate
  <2> HIDE DEF ver
  <2>3. profiles'[u] = [profiles[u] EXCEPT !.status = "active", !.version = ver]
    BY <1>a, <2>2
  <2>4. profiles'[u] \in Profile
    BY <2>1, <2>3 DEF Profile
  <2>5. profiles' \in [Users -> Profile \union {None}] /\ \A v \in Users \ {u} : profiles'[v] = profiles[v]
    BY <1>a, <2>2, <2>4
  <2>6. Moved(u, "active", ver)
    BY <1>2, <2>1, <2>3, <2>4, <2>5 DEF Moved, Profile, StillAsSeen
  <2> QED
    BY <2>6 DEF ver
<1> QED
  BY <1>1, <1>2 DEF Activate

\* The script gives version 1 to a profile it read without a version.
LEMMA BackfillMoves ==
  ASSUME UserTypeOK, UnversionedAreOld, NEW u \in Users, BackfillWrite(u)
  PROVE  backfill' \subseteq Users /\ Moved(u, profiles[u].status, 1)
<1>a. profiles \in [Users -> Profile \union {None}] /\ backfill \subseteq Users /\ MaxVersion \in Nat
  BY UserAssumption DEF UserTypeOK
<1>1. Known(u) /\ profiles[u] \in Profile
  BY <1>a DEF BackfillWrite, UnversionedAreOld, Unversioned, Known
<1>2. profiles' = [profiles EXCEPT ![u].version = 1]
  BY DEF BackfillWrite
<1>3. profiles'[u] = [profiles[u] EXCEPT !.version = 1]
  BY <1>a, <1>2
<1>4. profiles'[u] \in Profile
  BY <1>a, <1>1, <1>3 DEF Profile
<1>5. profiles' \in [Users -> Profile \union {None}] /\ \A v \in Users \ {u} : profiles'[v] = profiles[v]
  BY <1>a, <1>2, <1>4
<1>6. Moved(u, profiles[u].status, 1)
  BY <1>1, <1>3, <1>4, <1>5 DEF Moved, Profile
<1> QED
  BY <1>a, <1>6 DEF BackfillWrite

\* Activations and the script change the version of a profile and its status, at most.
LEMMA UnguardedStep ==
  ASSUME UserTypeOK, UnversionedAreOld, Unguarded
  PROVE  /\ UNCHANGED <<identities, idem, catalog, inUse, req, failures, unnoticed>>
         /\ activating' \in [Users -> Version \union {None}] /\ backfill' \subseteq Users
         /\ \/ UNCHANGED profiles
            \/ \E u \in Users : \E ver \in Nat, status \in {profiles[u].status, "active"} :
                 Moved(u, status, ver)
<1>a. /\ profiles \in [Users -> Profile \union {None}] /\ backfill \subseteq Users
      /\ activating \in [Users -> Version \union {None}]
      /\ MaxVersion \in Nat
  BY UserAssumption DEF UserTypeOK
<1>1. ASSUME NEW u \in Users, SeePending(u)
      PROVE  activating' \in [Users -> Version \union {None}]
  BY <1>1, <1>a, ReadProfile DEF SeePending, Version
<1>2. CASE BackfillRead
  BY <1>2, <1>a DEF BackfillRead
<1>3. CASE \E u \in Users : SeePending(u)
  BY <1>1, <1>3, <1>a DEF SeePending
<1>4. ASSUME NEW u \in Users, Activate(u), Moved(u, "active", activating[u] + 1), StillAsSeen(u)
      PROVE  activating[u] + 1 \in Nat
  BY <1>4, <1>a DEF Activate, Version
<1>5. CASE \E u \in Users : Activate(u)
  BY <1>4, <1>5, <1>a, ActivateMoves DEF Activate
<1>6. CASE \E u \in Users : BackfillWrite(u)
  BY <1>6, <1>a, BackfillMoves DEF BackfillWrite
<1> QED
  BY <1>2, <1>3, <1>5, <1>6 DEF Unguarded

\* The catalog and the policies change nothing of users.
LEMMA CatalogStepKeeps ==
  ASSUME UserTypeOK, Catalog
  PROVE  /\ UNCHANGED <<profiles, identities, idem, req, activating, backfill, failures, unnoticed>>
         /\ catalog' \in [Items -> {"absent", "active", "archived"}] /\ inUse' \subseteq Items
  BY DEF UserTypeOK, Catalog, CreateItem, ArchiveItem, ReactivateItem, PolicyUse, CatalogStep

\* Every step keeps the types, as long as requests fit the records they are about.
LEMMA NextUserTypes ==
  ASSUME UserTypeOK, CreateFits, ChangeFits, UnversionedAreOld, [Next]_vars
  PROVE  UserTypeOK'
<1>a. /\ profiles \in [Users -> Profile \union {None}]
      /\ identities \in [Users -> Identity \union {None}]
      /\ idem \in [Keys -> Users \union {None}]
      /\ req \in Request \union {None}
      /\ MaxVersion \in Nat
  BY UserAssumption DEF UserTypeOK
<1>1. CASE Starts
  BY <1>1, StartsRequest DEF UserTypeOK
<1>2. CASE Creates \/ Undoes \/ Changes \/ CutOff
  <2>1. req.user \in Users /\ req.new \in Profile
    BY <1>2, RunningStep DEF Request
  <2>2. /\ profiles' \in [Users -> Profile \union {None}]
        /\ identities' \in [Users -> Identity \union {None}]
        /\ idem' \in [Keys -> Users \union {None}]
    BY <1>2, <1>a, <2>1, RunningStep
  <2>3. req' \in Request \union {None}
    BY <1>2, RunningStep DEF RequestGoesOn
  <2> QED
    BY <1>2, <2>2, <2>3, RunningStep DEF UserTypeOK
<1>3. CASE Unguarded
  <2>1. profiles' \in [Users -> Profile \union {None}]
    BY <1>3, <1>a, UnguardedStep DEF Moved
  <2> QED
    BY <1>3, <2>1, UnguardedStep DEF UserTypeOK
<1>4. CASE Catalog
  BY <1>4, CatalogStepKeeps DEF UserTypeOK
<1>5. CASE UNCHANGED vars
  BY <1>5 DEF vars, UserTypeOK
<1> QED
  BY <1>1, <1>2, <1>3, <1>4, <1>5, UserSteps

-----------------------------------------------------------------------------
(* What a request is when it starts. *)

\* A new user is one of whom there is nothing.
StartsCreating ==
  /\ ~Known(req'.user) /\ identities[req'.user] = None
  /\ \A k \in Keys : idem[k] # req'.user
  /\ req'.key # None
  /\ req'.new.active /\ req'.new.status = "pending_activation" /\ req'.new.version = 1
  /\ \A i \in req'.new.depts : catalog[i] = "active"

\* A change is of the profile as it was read; one that takes an administrator away leaves
\* another, and items that are not active are only kept.
StartsChanging ==
  LET u == req'.user IN
  /\ Known(u) /\ req'.old = Read(u)
  /\ req'.expected \in 1 .. Read(u).version /\ req'.new.version = Read(u).version + 1
  /\ Admin(u) /\ (~req'.new.active \/ ~req'.new.admin) => LastAdminStays(u)
  /\ req'.new.active => \A i \in req'.new.depts :
       catalog[i] = "active" \/ (profiles[u].active /\ i \in profiles[u].depts)
  /\ req'.op = "update" =>
       req'.new.active = req'.old.active /\ req'.new.status = req'.old.status
  /\ req'.op = "disable" =>
       /\ ~req'.new.active /\ req'.new.status = "disabled"
       /\ req'.new.email = req'.old.email
       /\ FromPage => req'.old.active
  /\ req'.op = "reactivate" =>
       /\ req'.new.active /\ req'.new.status = "active"
       /\ req'.new.email = req'.old.email /\ req'.new.admin = req'.old.admin
       /\ FromPage => ~req'.old.active

LEMMA StartsFit ==
  ASSUME UserTypeOK, Starts
  PROVE  /\ req'.op = "create" => StartsCreating
         /\ req'.op # "create" => StartsChanging
<1>1. PICK u \in Users, e \in Emails, admin \in BOOLEAN, depts \in SUBSET Items :
        \/ \E k \in Keys : StartCreate(u, e, admin, depts, k)
        \/ \E expected \in Version : StartUpdate(u, e, admin, depts, expected)
        \/ StartDisable(u)
        \/ StartReactivate(u)
  BY DEF Starts
<1>2. ASSUME NEW k \in Keys, StartCreate(u, e, admin, depts, k)
      PROVE  req'.op = "create" /\ StartsCreating
  BY <1>2, NoneAssumption DEF StartCreate, Enter, ValidScopes, StartsCreating
<1>3. ASSUME NEW expected \in Version, StartUpdate(u, e, admin, depts, expected)
      PROVE  req'.op = "update" /\ StartsChanging
  <2> DEFINE next == Read(u).version + 1
             new == [Read(u) EXCEPT !.email = e, !.admin = admin, !.depts = depts,
                                    !.version = next]
  <2>1. /\ Read(u) \in Profile /\ Known(u)
        /\ Read(u).active = profiles[u].active
    BY <1>3, ReadProfile DEF StartUpdate
  <2>2. /\ new.active = Read(u).active /\ new.status = Read(u).status
        /\ new.admin = admin /\ new.depts = depts /\ new.version = next
    BY <2>1 DEF Profile
  <2>3. /\ req'.op = "update" /\ req'.user = u /\ req'.old = Read(u) /\ req'.new = new
        /\ req'.expected = expected /\ expected \in 1 .. Read(u).version
        /\ ~admin => LastAdminStays(u)
        /\ ValidScopes(new, profiles[u].depts)
    BY <1>3 DEF StartUpdate, Enter
  <2> HIDE DEF new
  <2> QED
    BY <2>1, <2>2, <2>3 DEF StartsChanging, Admin, ValidScopes
<1>4. ASSUME StartDisable(u)
      PROVE  req'.op = "disable" /\ StartsChanging
  <2> DEFINE next == Read(u).version + 1
             new == [Read(u) EXCEPT !.active = FALSE, !.status = "disabled", !.version = next]
  <2>1. /\ Read(u) \in Profile /\ Known(u) /\ Read(u).version \in Nat \ {0}
        /\ Read(u).active = profiles[u].active
    BY <1>4, ReadProfile DEF StartDisable
  <2>2. /\ ~new.active /\ new.status = "disabled" /\ new.email = Read(u).email
        /\ new.version = next
    BY <2>1 DEF Profile
  <2>3. /\ req'.op = "disable" /\ req'.user = u /\ req'.old = Read(u) /\ req'.new = new
        /\ req'.expected = Read(u).version
        /\ LastAdminStays(u) /\ (FromPage => profiles[u].active)
    BY <1>4 DEF StartDisable, Enter
  <2> HIDE DEF new
  <2> QED
    BY <2>1, <2>2, <2>3 DEF StartsChanging, Admin
<1>5. ASSUME StartReactivate(u)
      PROVE  req'.op = "reactivate" /\ StartsChanging
  <2> DEFINE next == Read(u).version + 1
             new == [Read(u) EXCEPT !.active = TRUE, !.status = "active", !.version = next]
  <2>1. /\ Read(u) \in Profile /\ Known(u) /\ Read(u).version \in Nat \ {0}
        /\ Read(u).active = profiles[u].active /\ Read(u).depts = profiles[u].depts
        /\ Read(u).admin = profiles[u].admin
    BY <1>5, ReadProfile DEF StartReactivate
  <2>2. /\ new.active /\ new.status = "active" /\ new.email = Read(u).email
        /\ new.admin = Read(u).admin /\ new.depts = Read(u).depts /\ new.version = next
    BY <2>1 DEF Profile
  <2>3. /\ req'.op = "reactivate" /\ req'.user = u /\ req'.old = Read(u) /\ req'.new = new
        /\ req'.expected = Read(u).version
        /\ FromPage => ~profiles[u].active
        /\ ReactivateChecked(u)
    BY <1>5 DEF StartReactivate, Enter
  <2> HIDE DEF new
  <2> QED
    BY <2>1, <2>2, <2>3 DEF StartsChanging, Admin, ReactivateChecked, ValidScopes
<1> QED
  BY <1>1, <1>2, <1>3, <1>4, <1>5

-----------------------------------------------------------------------------
(* Requests fit the records they are about. *)

\* A step of a running request: where it goes, and that nothing else of it changes.
LEMMA RunningRequest ==
  ASSUME UserTypeOK, Creates \/ Undoes \/ Changes \/ CutOff
  PROVE  /\ req \in Request /\ req # None /\ req.user \in Users /\ req.new \in Profile
         /\ req.step \in Steps
         /\ Creates \/ Undoes => req.op = "create"
         /\ Changes => req.op \in Changing
         /\ \A step \in Steps : Goto(step) =>
              /\ req' # None /\ req' \in Request /\ req'.step = step
              /\ req'.op = req.op /\ req'.user = req.user /\ req'.old = req.old
              /\ req'.new = req.new /\ req'.expected = req.expected /\ req'.key = req.key
<1>1. req \in Request
  BY DEF UserTypeOK, Creates, CreateIdentity, InsertProfile, InsertKey, Answer, Undoes, UndoKey,
         UndoProfile, UndoIdentity, LockIdentity, Changes, ChangeIdentity, WriteProfile,
         Restore, CutOff, Step
<1>2. /\ Creates \/ Undoes => req.op = "create"
      /\ Changes => req.op \in Changing
  BY DEF Creates, CreateIdentity, InsertProfile, InsertKey, Answer, Undoes, UndoKey,
         UndoProfile, UndoIdentity, LockIdentity, Changes, ChangeIdentity, WriteProfile,
         Restore, Step
<1>3. /\ req # None /\ req.user \in Users /\ req.new \in Profile /\ req.step \in Steps
  BY <1>1, NoneAssumption DEF Request
<1>4. ASSUME NEW step \in Steps, Goto(step)
      PROVE  /\ req' # None /\ req' \in Request /\ req'.step = step
             /\ req'.op = req.op /\ req'.user = req.user /\ req'.old = req.old
             /\ req'.new = req.new /\ req'.expected = req.expected /\ req'.key = req.key
  BY <1>1, <1>4, GotoRequest, NoneAssumption
<1> QED
  BY <1>1, <1>2, <1>3, <1>4

LEMMA NextCreateFits ==
  ASSUME UserTypeOK, CreateFits, ChangeFits, UnversionedAreOld, [Next]_vars
  PROVE  CreateFits'
<1>a. /\ profiles \in [Users -> Profile \union {None}]
      /\ identities \in [Users -> Identity \union {None}]
  BY DEF UserTypeOK
<1>1. CASE Starts
  BY <1>1, StartsRequest, StartsFit DEF CreateFits, StartsCreating, Known
<1>2. CASE Creates
  BY <1>2, <1>a, RunningRequest, NoneAssumption
  DEF CreateFits, Creates, CreateIdentity, InsertProfile, InsertKey, Answer, Step, Call, Steps,
      SetIdentity, SetProfile, SetKey, Idle, Leave, Known
<1>3. CASE Undoes
  BY <1>3, <1>a, RunningRequest
  DEF CreateFits, Undoes, UndoKey, UndoProfile, UndoIdentity, LockIdentity, Step, Call, Steps, Leave
<1>4. CASE Changes \/ CutOff
  BY <1>4, RunningRequest DEF CreateFits, Changes, ChangeIdentity, WriteProfile, Restore, CutOff,
                              Step, Call, Steps, Leave, Changing
<1>5. CASE Unguarded
  <2>1. \A u \in Users : Known(u)' <=> Known(u)
    BY <1>5, UnguardedStep, NoneAssumption DEF Moved, Known
  <2> QED
    BY <1>5, <2>1, UnguardedStep DEF CreateFits, UserTypeOK, Request
<1>6. CASE Catalog
  BY <1>6, CatalogStepKeeps DEF CreateFits, Known
<1>7. CASE UNCHANGED vars
  BY <1>7 DEF vars, CreateFits, Known
<1> QED
  BY <1>1, <1>2, <1>3, <1>4, <1>5, <1>6, <1>7, UserSteps

LEMMA NextChangeFits ==
  ASSUME UserTypeOK, CreateFits, ChangeFits, UnversionedAreOld, [Next]_vars
  PROVE  ChangeFits'
<1>a. /\ profiles \in [Users -> Profile \union {None}]
      /\ identities \in [Users -> Identity \union {None}]
  BY DEF UserTypeOK
<1>1. CASE Starts
  <2>1. CASE req'.op # "create"
    <3> DEFINE u == req'.user
    <3>1. u \in Users /\ StartsChanging /\ req'.step = "identity" /\ req' # None
      BY <1>1, <2>1, StartsRequest, StartsFit, NoneAssumption DEF Request
    <3>2. /\ Known(u) /\ Read(u) \in Profile /\ Read(u).version \in Nat
          /\ Read(u).email = profiles[u].email /\ Read(u).admin = profiles[u].admin
          /\ Read(u).active = profiles[u].active
      BY <3>1, ReadProfile DEF StartsChanging
    <3> QED
      BY <1>1, <2>1, <3>1, <3>2, StartsRequest, NoneAssumption DEF ChangeFits, StartsChanging, Known
  <2> QED
    BY <2>1 DEF ChangeFits
<1>2. CASE Creates \/ Undoes \/ CutOff
  BY <1>2, RunningRequest
  DEF ChangeFits, Creates, CreateIdentity, InsertProfile, InsertKey, Answer, Undoes, UndoKey,
      UndoProfile, UndoIdentity, LockIdentity, CutOff, Call, Steps, Leave
<1>3. CASE Changes
  <2>1. identities[req.user] # None => identities[req.user] \in Identity
    BY <1>3, <1>a, RunningRequest
  <2>2. identities[req.user] # None => Touched # None
    <3>1. identities[req.user] # None => Touched \in Identity
      <4>1. req.old \in Profile /\ req.new \in Profile
        BY <1>3, RunningRequest DEF ChangeFits, Request, Changing
      <4> QED
        BY <2>1, <4>1 DEF Touched, Identity, Profile
    <3> QED
      BY <3>1, NoneAssumption
  <2> QED
    BY <1>3, <1>a, <2>2, RunningRequest
    DEF ChangeFits, Changes, ChangeIdentity, WriteProfile, Restore, Step, Call, Steps, Changing,
        SetIdentity, Idle, Leave, Known
<1>4. CASE Unguarded
  <2>1. \A u \in Users :
          /\ Known(u)' <=> Known(u)
          /\ Known(u) => /\ profiles'[u].email = profiles[u].email
                         /\ profiles'[u].admin = profiles[u].admin
                         /\ profiles'[u].active = profiles[u].active
    BY <1>4, UnguardedStep, NoneAssumption DEF Moved, Known
  <2> QED
    BY <1>4, <2>1, UnguardedStep DEF ChangeFits, UserTypeOK, Request
<1>5. CASE Catalog
  BY <1>5, CatalogStepKeeps DEF ChangeFits, Known
<1>6. CASE UNCHANGED vars
  BY <1>6 DEF vars, ChangeFits, Known
<1> QED
  BY <1>1, <1>2, <1>3, <1>4, <1>5, <1>6, UserSteps

-----------------------------------------------------------------------------
(* Versions, and what an activation has seen. *)

LEMMA NextUnversionedAreOld ==
  ASSUME UserTypeOK, CreateFits, ChangeFits, UnversionedAreOld, [Next]_vars
  PROVE  UnversionedAreOld'
<1>a. /\ profiles \in [Users -> Profile \union {None}] /\ backfill \subseteq Users
      /\ activating \in [Users -> Version \union {None}]
      /\ MaxVersion \in Nat
  BY UserAssumption DEF UserTypeOK
<1>1. CASE Starts
  <2> SUFFICES ASSUME NEW u \in Users, Unversioned(u), req'.user = u
               PROVE  req'.op # "create" /\ req'.new.status # "pending_activation"
    BY <1>1, StartsRequest DEF UnversionedAreOld, Unversioned, Requesting, Known
  <2>1. Known(u) /\ profiles[u].status # "pending_activation" /\ Read(u).status = profiles[u].status
    BY ReadProfile DEF UnversionedAreOld
  <2>2. req'.op # "create"
    BY <1>1, <2>1, StartsFit DEF StartsCreating
  <2>3. StartsChanging /\ req'.op \in Changing
    BY <1>1, <2>2, StartsFit, StartsRequest DEF Request, Changing
  <2> QED
    BY <2>1, <2>2, <2>3 DEF StartsChanging, Changing
<1>2. CASE Creates \/ Undoes \/ Changes \/ CutOff
  <2>1. /\ req.user \in Users /\ req.new \in Profile /\ req.new.version \in Nat
        /\ req.new # None
    BY <1>2, <1>a, RunningRequest, NoneAssumption DEF Profile
  <2>2. req.new.version # 0
    BY <1>2, RunningRequest, <2>1 DEF CreateFits, ChangeFits, Request
  <2>3. ASSUME NEW u \in Users, Unversioned(u)'
        PROVE  Unversioned(u) /\ (u # req.user \/ req.op # "create")
    <3>1. profiles'[u] = profiles[u] \/ (u = req.user /\ profiles'[u] \in {req.new, None})
      BY <1>2, <1>a, RunningStep
    <3>2. Unversioned(u)
      BY <1>2, <2>2, <2>3, <3>1, RunningStep DEF Unversioned, Known, UnversionedAreOld
    <3> QED
      BY <3>2, <2>1, <1>2, RunningRequest DEF UnversionedAreOld, Requesting
  <2>4. CASE Creates \/ Undoes \/ CutOff
    <3>1. ASSUME NEW u \in Users, u # req.user \/ req.op # "create"
          PROVE  profiles'[u] = profiles[u]
      BY <2>4, <3>1, <1>a, RunningRequest
      DEF Creates, CreateIdentity, InsertProfile, InsertKey, Answer, Undoes, UndoKey,
          UndoProfile, UndoIdentity, LockIdentity, CutOff, Call, SetProfile, SetIdentity, SetKey, Idle
    <3> QED
      BY <1>2, <2>3, <3>1, RunningStep, RunningRequest
      DEF UnversionedAreOld, Unversioned, Requesting, Known, RequestGoesOn
  <2>5. CASE Changes
    <3>1. ASSUME NEW u \in Users
          PROVE  profiles'[u] = profiles[u] \/ (u = req.user /\ profiles'[u] = req.new)
      BY <2>5, <1>a
      DEF Changes, ChangeIdentity, WriteProfile, Restore, Call, SetProfile, SetIdentity, Idle
    <3> QED
      BY <1>2, <2>1, <2>3, <3>1, RunningStep, RunningRequest
      DEF UnversionedAreOld, Unversioned, Requesting, Known, RequestGoesOn
  <2> QED
    BY <1>2, <2>4, <2>5
<1>3. ASSUME NEW v \in Users, SeePending(v)
      PROVE  UnversionedAreOld'
  BY <1>3, <1>a DEF SeePending, UnversionedAreOld, Unversioned, Known, Requesting
<1>4. ASSUME NEW v \in Users, Activate(v)
      PROVE  UnversionedAreOld'
  <2>1. /\ \A u \in Users \ {v} : profiles'[u] = profiles[u] /\ activating'[u] = activating[u]
        /\ activating[v] # None /\ activating[v] \in Nat
        /\ profiles'[v] = profiles[v] \/ profiles'[v].version = activating[v] + 1
        /\ UNCHANGED <<backfill, req>>
    <3>1. activating[v] # None /\ activating[v] \in Nat
      BY <1>4, <1>a DEF Activate, Version
    <3>2. \/ UNCHANGED profiles
          \/ /\ \A u \in Users \ {v} : profiles'[u] = profiles[u]
             /\ profiles'[v].version = activating[v] + 1
      BY <1>4, ActivateMoves DEF Moved
    <3> QED
      BY <1>4, <1>a, <3>1, <3>2 DEF Activate
  <2>2. ~Unversioned(v)'
    BY <2>1 DEF UnversionedAreOld, Unversioned, Known
  <2> QED
    BY <2>1, <2>2 DEF UnversionedAreOld, Unversioned, Known, Requesting
<1>5. ASSUME NEW v \in Users, BackfillWrite(v)
      PROVE  UnversionedAreOld'
  BY <1>5, <1>a, BackfillMoves DEF BackfillWrite, Moved, UnversionedAreOld, Unversioned, Known, Requesting
<1>6. CASE BackfillRead
  BY <1>6 DEF BackfillRead, UnversionedAreOld, Unversioned, Known, Requesting
<1>7. CASE Catalog \/ UNCHANGED vars
  BY <1>7, CatalogStepKeeps DEF vars, UnversionedAreOld, Unversioned, Known, Requesting
<1> QED
  BY <1>1, <1>2, <1>3, <1>4, <1>5, <1>6, <1>7, UserSteps DEF Unguarded

LEMMA NextActivationsFit ==
  ASSUME UserTypeOK, CreateFits, ChangeFits, UnversionedAreOld, ActivationsFit, [Next]_vars
  PROVE  ActivationsFit'
<1>a. /\ profiles \in [Users -> Profile \union {None}]
      /\ activating \in [Users -> Version \union {None}]
      /\ MaxVersion \in Nat
  BY UserAssumption DEF UserTypeOK
<1>b. \A u \in Users :
        /\ activating[u] # None => activating[u] \in Nat
        /\ Known(u) => profiles[u] \in Profile /\ profiles[u].version \in Nat
  BY <1>a DEF Known, Version, Profile
<1>1. CASE Starts
  BY <1>1, StartsRequest, StartsFit DEF ActivationsFit, StartsCreating, Creating, Requesting, Known
<1>2. CASE Creates \/ Undoes
  <2>1. /\ req.user \in Users /\ req.new # None /\ Requesting(req.user) /\ Creating(req.user)
        /\ req.new.active /\ req.new.version = 1
    BY <1>2, RunningRequest, NoneAssumption DEF CreateFits, Requesting, Creating
  <2>2. ASSUME NEW u \in Users
        PROVE  /\ profiles'[u] = profiles[u] \/ (u = req.user /\ profiles'[u] \in {req.new, None})
               /\ activating'[u] = activating[u]
               /\ Creating(u)' => Creating(u)
    BY <1>2, <1>a, RunningStep, RunningRequest DEF RequestGoesOn, Creating, Requesting
  <2> QED
    BY <2>1, <2>2, <1>b DEF ActivationsFit, Known
<1>3. CASE Changes \/ CutOff
  <2>1. ASSUME NEW u \in Users
        PROVE  /\ \/ profiles'[u] = profiles[u]
                  \/ u = req.user /\ profiles'[u] = req.new /\ Matches /\ req.op # "create"
               /\ activating'[u] = activating[u]
               /\ Creating(u)' => Creating(u)
    <3>1. activating'[u] = activating[u] /\ (Creating(u)' => Creating(u))
      BY <1>3, RunningStep, RunningRequest DEF RequestGoesOn, Creating, Requesting
    <3>2. \/ profiles'[u] = profiles[u]
          \/ u = req.user /\ profiles'[u] = req.new /\ Matches /\ req.op # "create"
      BY <1>3, <1>a
      DEF Changes, ChangeIdentity, WriteProfile, Restore, CutOff, Step, Call, SetProfile, SetIdentity,
          Idle, Changing
    <3> QED
      BY <3>1, <3>2
  <2>2. ASSUME NEW u \in Users, u = req.user, profiles'[u] = req.new, Matches, req.op # "create",
               activating[u] # None
        PROVE  Known(u) /\ profiles[u].version = req.expected /\ req.new.version > profiles[u].version
    BY <1>3, <2>2, RunningRequest
    DEF Matches, ChangeFits, UnversionedAreOld, Unversioned, Known
  <2>3. req.new \in Profile /\ req.new.version \in Nat /\ req.new # None
    BY <1>3, <1>a, RunningRequest, NoneAssumption DEF Profile
  <2>4. ASSUME NEW u \in Users, u = req.user, profiles'[u] = req.new, Matches, req.op # "create"
        PROVE  ~Creating(u)
    BY <2>4 DEF Creating
  <2>5. ASSUME NEW u \in Users, profiles'[u] # profiles[u]
        PROVE  /\ activating[u] # None =>
                    /\ profiles'[u].version > activating[u]
                    /\ profiles'[u] # None
               /\ profiles'[u] # None /\ ~Creating(u)
    BY <2>1, <2>2, <2>3, <2>4, <2>5, <1>b DEF ActivationsFit
  <2>6. ASSUME NEW u \in Users, profiles'[u] = profiles[u]
        PROVE  Known(u)' <=> Known(u)
    BY <2>6 DEF Known
  <2>7. ASSUME NEW u \in Users, activating[u] # None, profiles'[u] # None, profiles'[u] # profiles[u]
        PROVE  profiles'[u].version \in Nat
    BY <2>1, <2>3, <2>7
  <2> QED
    BY <2>1, <2>5, <2>6, <2>7, <1>b DEF ActivationsFit, Known
<1>4. ASSUME NEW v \in Users, SeePending(v)
      PROVE  ActivationsFit'
  <2>1. /\ Known(v) /\ profiles[v].active /\ profiles[v].status = "pending_activation"
        /\ profiles[v].version # 0
    BY <1>4 DEF SeePending, UnversionedAreOld, Unversioned
  <2>2. /\ \A u \in Users \ {v} : activating'[u] = activating[u]
        /\ activating'[v] = profiles[v].version
        /\ UNCHANGED <<profiles, req>>
    BY <1>4, <1>a, <2>1, ReadProfile DEF SeePending
  <2> QED
    BY <2>1, <2>2, <1>b DEF ActivationsFit, Creating, Requesting, Known
<1>5. ASSUME NEW v \in Users, Activate(v)
      PROVE  ActivationsFit'
  <2>1. /\ \A u \in Users \ {v} : activating'[u] = activating[u] /\ profiles'[u] = profiles[u]
        /\ activating'[v] = None /\ UNCHANGED req
        /\ \/ profiles'[v] = profiles[v]
           \/ /\ Known(v) /\ profiles'[v] # None
              /\ profiles'[v].active = profiles[v].active /\ profiles'[v].status = "active"
    BY <1>5, <1>a, ActivateMoves, NoneAssumption DEF Activate, Moved
  <2> QED
    BY <2>1, <1>b DEF ActivationsFit, Creating, Requesting, Known
<1>6. ASSUME NEW v \in Users, BackfillWrite(v)
      PROVE  ActivationsFit'
  <2>1. /\ \A u \in Users \ {v} : profiles'[u] = profiles[u]
        /\ Known(v) /\ UNCHANGED <<activating, req>>
        /\ profiles'[v] # None
        /\ activating[v] = None /\ ~Creating(v)
    BY <1>6, <1>a, BackfillMoves, NoneAssumption
    DEF BackfillWrite, Moved, UnversionedAreOld, Unversioned, Creating
  <2> QED
    BY <2>1, <1>b DEF ActivationsFit, Creating, Requesting, Known
<1>7. CASE BackfillRead
  BY <1>7 DEF BackfillRead, ActivationsFit, Creating, Requesting, Known
<1>8. CASE Catalog \/ UNCHANGED vars
  BY <1>8, CatalogStepKeeps DEF vars, ActivationsFit, Creating, Requesting, Known
<1> QED
  BY <1>1, <1>2, <1>3, <1>4, <1>5, <1>6, <1>7, <1>8, UserSteps DEF Unguarded

-----------------------------------------------------------------------------
(* Status, keys and items. *)

\* What a running step writes into a profile is what the request asked for, or nothing.
LEMMA RunningProfiles ==
  ASSUME UserTypeOK, CreateFits, ChangeFits, Creates \/ Undoes \/ Changes \/ CutOff
  PROVE  /\ req.new # None
         /\ \A u \in Users :
              \/ profiles'[u] = profiles[u]
              \/ u = req.user /\ profiles'[u] = req.new
              \/ u = req.user /\ profiles'[u] = None /\ req.op = "create"
<1>a. profiles \in [Users -> Profile \union {None}]
  BY DEF UserTypeOK
<1>1. req.new # None
  BY RunningRequest, NoneAssumption
<1>2. \/ UNCHANGED profiles
      \/ profiles' = [profiles EXCEPT ![req.user] = req.new]
      \/ profiles' = [profiles EXCEPT ![req.user] = None] /\ req.op = "create"
  BY DEF Creates, CreateIdentity, InsertProfile, InsertKey, Answer, Undoes, UndoKey,
         UndoProfile, UndoIdentity, LockIdentity, Changes, ChangeIdentity, WriteProfile,
         Restore, CutOff, Step, Call, SetProfile, SetIdentity, SetKey, Idle
<1> QED
  BY <1>a, <1>1, <1>2

\* Status and activity go together; the activation of a user who was disabled meanwhile has
\* seen another version.
LEMMA NextStatusFits ==
  ASSUME UserTypeOK, CreateFits, ChangeFits, UnversionedAreOld, ActivationsFit,
         StatusFollowsActive, RequestedStatusFits, [Next]_vars
  PROVE  StatusFollowsActive' /\ RequestedStatusFits'
<1>a. /\ profiles \in [Users -> Profile \union {None}]
      /\ activating \in [Users -> Version \union {None}]
  BY DEF UserTypeOK
<1>1. CASE Starts
  <2>1. StatusFollowsActive'
    BY <1>1, StartsRequest DEF StatusFollowsActive, Known
  <2>2. CASE req'.op = "create"
    BY <1>1, <2>1, <2>2, StartsFit DEF StartsCreating, RequestedStatusFits
  <2>3. CASE req'.op # "create"
    <3>1. StartsChanging /\ req'.op \in Changing /\ req'.user \in Users
      BY <1>1, <2>3, StartsFit, StartsRequest DEF Request, Changing
    <3>2. req'.old.active <=> req'.old.status # "disabled"
      <4>1. Known(req'.user) /\ req'.old = Read(req'.user)
        BY <3>1 DEF StartsChanging
      <4>2. /\ Read(req'.user).active = profiles[req'.user].active
            /\ Read(req'.user).status = profiles[req'.user].status
        BY <3>1, <4>1, ReadProfile
      <4>3. profiles[req'.user].active <=> profiles[req'.user].status # "disabled"
        BY <3>1, <4>1 DEF StatusFollowsActive
      <4> QED
        BY <4>1, <4>2, <4>3
    <3>3. req'.new.active <=> req'.new.status # "disabled"
      BY <3>1, <3>2 DEF StartsChanging, Changing
    <3> QED
      BY <2>1, <3>3 DEF RequestedStatusFits
  <2> QED
    BY <2>2, <2>3
<1>2. CASE Creates \/ Undoes \/ Changes \/ CutOff
  <2>1. StatusFollowsActive'
    BY <1>2, RunningProfiles, RunningRequest DEF StatusFollowsActive, RequestedStatusFits, Known
  <2>2. RequestedStatusFits'
    BY <1>2, RunningStep, RunningRequest DEF RequestedStatusFits, RequestGoesOn
  <2> QED
    BY <2>1, <2>2
<1>3. ASSUME NEW v \in Users, SeePending(v)
      PROVE  StatusFollowsActive' /\ RequestedStatusFits'
  BY <1>3 DEF SeePending, StatusFollowsActive, RequestedStatusFits, Known
<1>4. ASSUME NEW v \in Users, Activate(v)
      PROVE  StatusFollowsActive' /\ RequestedStatusFits'
  <2>1. CASE UNCHANGED profiles
    BY <1>4, <2>1 DEF Activate, StatusFollowsActive, RequestedStatusFits, Known
  <2>2. CASE StillAsSeen(v) /\ Moved(v, "active", activating[v] + 1)
    <3>1. profiles[v].active
      <4>1. /\ Known(v) /\ profiles[v].version = activating[v] /\ activating[v] # None
            /\ activating[v] \in Int
        BY <1>4, <1>a, <2>2, UserAssumption DEF StillAsSeen, Activate, Version
      <4>2. ~profiles[v].active => profiles[v].version > activating[v]
        BY <4>1 DEF ActivationsFit
      <4> QED
        BY <4>1, <4>2
    <3>2. /\ \A u \in Users \ {v} : profiles'[u] = profiles[u]
          /\ profiles'[v].active = profiles[v].active /\ profiles'[v].status = "active"
      BY <2>2 DEF Moved
    <3> QED
      BY <1>4, <3>1, <3>2 DEF Activate, StatusFollowsActive, RequestedStatusFits, Known
  <2> QED
    BY <1>4, <2>1, <2>2, ActivateMoves
<1>5. ASSUME NEW v \in Users, BackfillWrite(v)
      PROVE  StatusFollowsActive' /\ RequestedStatusFits'
  <2>1. /\ \A u \in Users \ {v} : profiles'[u] = profiles[u]
        /\ Known(v) /\ profiles'[v].active = profiles[v].active
        /\ profiles'[v].status = profiles[v].status /\ UNCHANGED req
    BY <1>5, BackfillMoves DEF Moved, BackfillWrite
  <2> QED
    BY <2>1 DEF StatusFollowsActive, RequestedStatusFits, Known
<1>6. CASE BackfillRead
  BY <1>6 DEF BackfillRead, StatusFollowsActive, RequestedStatusFits, Known
<1>7. CASE Catalog \/ UNCHANGED vars
  BY <1>7, CatalogStepKeeps DEF vars, StatusFollowsActive, RequestedStatusFits, Known
<1> QED
  BY <1>1, <1>2, <1>3, <1>4, <1>5, <1>6, <1>7, UserSteps DEF Unguarded

\* A key names a user from the moment it is stored to the moment it is taken back, and the
\* profile is stored before and taken back after.
LEMMA NextKeysFit ==
  ASSUME UserTypeOK, CreateFits, ChangeFits, UnversionedAreOld, KeysFit, [Next]_vars
  PROVE  KeysFit'
<1>a. /\ profiles \in [Users -> Profile \union {None}]
      /\ idem \in [Keys -> Users \union {None}]
  BY DEF UserTypeOK
<1>1. CASE Starts
  BY <1>1, <1>a, StartsRequest, StartsFit DEF KeysFit, KeyHasItsUser, StartsCreating, Creating,
                                              Requesting, Known
<1>2. CASE Creates
  <2>1. req \in Request /\ req.op = "create" /\ Creating(req.user) /\ req.new # None
    BY <1>2, RunningRequest, NoneAssumption DEF Creating, Requesting
  <2>2. CASE CreateIdentity \/ InsertProfile \/ Answer
    BY <1>2, <1>a, <2>1, <2>2, RunningRequest
    DEF CreateIdentity, InsertProfile, Answer, Step, Call, SetIdentity, SetProfile, Idle, Steps,
        Leave, KeysFit, KeyHasItsUser, Creating, Requesting, Known
  <2>3. CASE InsertKey
    <3>1. Known(req.user) /\ req.step = "key"
      BY <2>1, <2>3, RunningRequest, <1>2 DEF InsertKey, Step, CreateFits
    <3>2. /\ UNCHANGED profiles /\ (Goto("answer") \/ Goto("undoKey"))
          /\ UNCHANGED idem \/ idem' = [idem EXCEPT ![req.key] = req.user]
      BY <2>3 DEF InsertKey, Call, SetKey, Idle
    <3>3. req' # None /\ req'.user = req.user /\ req'.key = req.key /\ req'.step \in {"answer", "undoKey"}
      BY <1>2, <3>2, RunningRequest DEF Steps
    <3>4. ASSUME NEW k \in Keys
          PROVE  idem'[k] = idem[k] \/ (k = req.key /\ idem'[k] = req.user)
      BY <1>a, <3>2
    <3> QED
      BY <1>a, <2>1, <3>1, <3>2, <3>3, <3>4 DEF KeysFit, KeyHasItsUser, Creating, Requesting, Known
  <2> QED
    BY <1>2, <2>2, <2>3 DEF Creates
<1>3. CASE Undoes
  <2>1. req \in Request /\ req.op = "create" /\ Creating(req.user)
    BY <1>3, RunningRequest DEF Creating, Requesting
  <2>2. CASE UndoKey
    <3>1. /\ UNCHANGED profiles
          /\ \A k \in Keys : idem'[k] = idem[k] \/ (k = req.key /\ idem'[k] = None)
          /\ \/ Leave
             \/ Goto("undoProfile") /\ idem' = [idem EXCEPT ![req.key] = None]
      BY <1>a, <2>2 DEF UndoKey, Call, SetKey, Idle
    <3>2. ASSUME Goto("undoProfile"), idem' = [idem EXCEPT ![req.key] = None],
                 NEW k \in Keys
          PROVE  idem'[k] # req.user
      <4>1. CASE k = req.key
        BY <3>2, <4>1, <1>a, <1>3, RunningRequest, NoneAssumption
      <4>2. CASE k # req.key
        BY <3>2, <4>2, <1>a, <2>1, <1>3, RunningRequest DEF KeysFit
      <4> QED
        BY <4>1, <4>2
    <3> QED
      BY <1>3, <1>a, <3>1, <3>2, RunningRequest
      DEF Steps, Leave, KeysFit, KeyHasItsUser, Creating, Requesting, Known
  <2>3. CASE UndoProfile \/ UndoIdentity \/ LockIdentity
    BY <1>3, <1>a, <2>1, <2>3, RunningRequest
    DEF UndoProfile, UndoIdentity, LockIdentity, Step, Call, SetIdentity, SetProfile, Idle, Steps,
        Leave, KeysFit, KeyHasItsUser, Creating, Requesting, Known
  <2> QED
    BY <1>3, <2>2, <2>3 DEF Undoes
<1>4. CASE Changes \/ CutOff
  <2>1. req.new # None /\ UNCHANGED idem
    BY <1>4, RunningRequest, NoneAssumption
    DEF Changes, ChangeIdentity, WriteProfile, Restore, CutOff, Call, SetIdentity, SetProfile, Idle
  <2>2. CASE Changes
    <3>1. \A u \in Users : profiles'[u] = profiles[u] \/ profiles'[u] = req.new
      BY <2>2, <1>a
      DEF Changes, ChangeIdentity, WriteProfile, Restore, Call, SetProfile, SetIdentity, Idle
    <3>2. \A u \in Users : ~Creating(u)'
      BY <1>4, <2>2, RunningStep, RunningRequest DEF RequestGoesOn, Creating, Requesting, Changing
    <3> QED
      BY <1>a, <2>1, <3>1, <3>2 DEF KeysFit, KeyHasItsUser, Known
  <2>3. CASE CutOff
    BY <2>3 DEF CutOff, Leave, KeysFit, KeyHasItsUser, Creating, Requesting, Known
  <2> QED
    BY <1>4, <2>2, <2>3
<1>5. CASE Unguarded
  <2>1. \A u \in Users : Known(u)' <=> Known(u)
    BY <1>5, UnguardedStep, NoneAssumption DEF Moved, Known
  <2> QED
    BY <1>5, <1>a, <2>1, UnguardedStep DEF KeysFit, KeyHasItsUser, Creating, Requesting
<1>6. CASE Catalog \/ UNCHANGED vars
  BY <1>6, CatalogStepKeeps DEF vars, KeysFit, KeyHasItsUser, Creating, Requesting, Known
<1> QED
  BY <1>1, <1>2, <1>3, <1>4, <1>5, <1>6, UserSteps

\* What an active user may use stays active: archiving asks who uses it, and nobody is being
\* given it, because the request that would is the one that holds the guard.
LEMMA NextItemsFit ==
  ASSUME UserTypeOK, CreateFits, ChangeFits, UnversionedAreOld, ItemsFit, [Next]_vars
  PROVE  ItemsFit'
<1>a. /\ profiles \in [Users -> Profile \union {None}]
      /\ catalog \in [Items -> {"absent", "active", "archived"}]
  BY DEF UserTypeOK
<1>b. \A u \in Users : Known(u) => profiles[u].depts \subseteq Items
  BY <1>a DEF Known, Profile
<1>1. CASE Starts
  <2>1. ActiveUsersUseActiveItems'
    BY <1>1, StartsRequest DEF ItemsFit, ActiveUsersUseActiveItems, Known
  <2>2. req'.new.active => \A i \in req'.new.depts : catalog[i] = "active"
    <3>1. req' \in Request /\ req'.user \in Users
      BY <1>1, StartsRequest DEF Request
    <3> QED
      BY <1>1, <3>1, StartsFit DEF StartsCreating, StartsChanging, ItemsFit, ActiveUsersUseActiveItems
  <2> QED
    BY <1>1, <2>1, <2>2, StartsRequest DEF ItemsFit
<1>2. CASE Creates \/ Undoes \/ Changes \/ CutOff
  <2>1. UNCHANGED catalog /\ (req' # None => req'.new = req.new)
    BY <1>2, RunningStep DEF RequestGoesOn
  <2> QED
    BY <1>2, <2>1, RunningProfiles, RunningRequest DEF ItemsFit, ActiveUsersUseActiveItems, Known
<1>3. CASE Unguarded
  <2>1. \A u \in Users :
          /\ Known(u)' <=> Known(u)
          /\ Known(u) => /\ profiles'[u].depts = profiles[u].depts
                         /\ profiles'[u].active = profiles[u].active
    BY <1>3, UnguardedStep, NoneAssumption DEF Moved, Known
  <2> QED
    BY <1>3, <2>1, UnguardedStep DEF ItemsFit, ActiveUsersUseActiveItems
<1>4. CASE Catalog
  <2>1. PICK i \in Items : CreateItem(i) \/ ArchiveItem(i) \/ ReactivateItem(i) \/ PolicyUse(i)
    BY <1>4 DEF Catalog
  <2>2. CASE PolicyUse(i)
    BY <2>2 DEF PolicyUse, ItemsFit, ActiveUsersUseActiveItems, Known
  <2>3. CASE CreateItem(i) \/ ReactivateItem(i)
    <3>1. \A j \in Items : catalog'[j] = "active" \/ catalog'[j] = catalog[j]
      BY <2>3, <1>a DEF CreateItem, ReactivateItem, CatalogStep
    <3> QED
      BY <2>3, <3>1, <1>b DEF CreateItem, ReactivateItem, CatalogStep, ItemsFit,
                              ActiveUsersUseActiveItems, Known
  <2>4. CASE ArchiveItem(i)
    <3>1. \A j \in Items \ {i} : catalog'[j] = catalog[j]
      BY <2>4, <1>a DEF ArchiveItem, CatalogStep
    <3> QED
      BY <2>4, <3>1, <1>b DEF ArchiveItem, CatalogStep, Used, ItemsFit, ActiveUsersUseActiveItems, Known
  <2> QED
    BY <2>1, <2>2, <2>3, <2>4
<1>5. CASE UNCHANGED vars
  BY <1>5 DEF vars, ItemsFit, ActiveUsersUseActiveItems, Known
<1> QED
  BY <1>1, <1>2, <1>3, <1>4, <1>5, UserSteps

-----------------------------------------------------------------------------
(* Administrators. *)

\* If there is more than one administrator, there is another one than this.
LEMMA AnotherAdmin ==
  ASSUME NEW u \in Users, AdminCount > 1
  PROVE  \E a \in Users \ {u} : Admin(a)
<1> DEFINE admins == {a \in Users : Known(a) /\ profiles[a].active /\ profiles[a].admin}
<1>1. Cardinality(admins) > 1
  BY DEF AdminCount
<1>2. Cardinality({u}) = 1 /\ Cardinality({}) = 0
  BY FS_Singleton, FS_EmptySet
<1>3. admins # {u} /\ admins # {}
  BY <1>1, <1>2
<1> QED
  BY <1>3 DEF Admin

LEMMA NextAdminStays ==
  ASSUME UserTypeOK, CreateFits, ChangeFits, UnversionedAreOld, AdminStays, [Next]_vars
  PROVE  AdminStays'
<1>1. PICK a \in Users : Admin(a) /\ ~TakesAway(a)
  BY DEF AdminStays
<1>2. CASE Starts
  <2>1. /\ UNCHANGED profiles /\ req'.user \in Users /\ req' # None
        /\ req'.op \in Changing \union {"create"}
    BY <1>2, StartsRequest, NoneAssumption DEF Request, Changing
  <2>2. \A u \in Users : Admin(u)' <=> Admin(u)
    BY <2>1 DEF Admin, Known
  <2>3. CASE req'.op = "create" \/ req'.user # a \/ (req'.new.active /\ req'.new.admin)
    <3>1. req'.op = "create" => req'.user # a
      BY <1>1, <1>2, StartsFit DEF StartsCreating, Admin
    <3> QED
      BY <1>1, <2>2, <2>3, <3>1 DEF AdminStays, TakesAway, Requesting
  <2>4. CASE req'.op # "create" /\ req'.user = a /\ ~(req'.new.active /\ req'.new.admin)
    <3>1. LastAdminStays(a)
      BY <1>1, <1>2, <2>4, StartsFit DEF StartsChanging
    <3>2. PICK b \in Users \ {a} : Admin(b)
      BY <1>1, <3>1, AnotherAdmin DEF LastAdminStays, Admin
    <3> QED
      BY <2>2, <2>4, <3>2 DEF AdminStays, TakesAway, Requesting
  <2> QED
    BY <2>3, <2>4
<1>3. CASE Creates \/ Undoes \/ Changes \/ CutOff
  <2>1. Admin(a)'
    BY <1>1, <1>3, RunningProfiles, RunningRequest DEF Admin, TakesAway, Requesting, Known
  <2>2. ~TakesAway(a)'
    BY <1>1, <1>3, RunningStep, RunningRequest DEF TakesAway, Requesting, RequestGoesOn
  <2> QED
    BY <2>1, <2>2 DEF AdminStays
<1>4. CASE Unguarded
  <2>1. Admin(a)'
    BY <1>1, <1>4, UnguardedStep, NoneAssumption DEF Moved, Admin, Known
  <2> QED
    BY <1>1, <1>4, <2>1, UnguardedStep DEF AdminStays, TakesAway, Requesting
<1>5. CASE Catalog \/ UNCHANGED vars
  BY <1>5, CatalogStepKeeps DEF vars, AdminStays, Admin, TakesAway, Requesting, Known
<1> QED
  BY <1>2, <1>3, <1>4, <1>5, UserSteps

-----------------------------------------------------------------------------
(* Accounts. *)

\* Failures are not forgotten.
LEMMA FailuresStay ==
  ASSUME UserTypeOK, Creates \/ Undoes \/ Changes \/ CutOff
  PROVE  /\ failures \in Nat /\ failures' \in Nat
         /\ failures' = failures \/ failures' = failures + 1
         /\ unnoticed => unnoticed'
         /\ CutOff => unnoticed' /\ failures' = failures + 1
<1>1. failures \in Nat
  BY UserAssumption DEF UserTypeOK
<1>2. failures' = failures \/ failures' = failures + 1
  BY DEF Creates, CreateIdentity, InsertProfile, InsertKey, Answer, Undoes, UndoKey,
         UndoProfile, UndoIdentity, LockIdentity, Changes, ChangeIdentity, WriteProfile,
         Restore, CutOff, Call, NoFailure
<1>3. unnoticed => unnoticed'
  BY DEF Creates, CreateIdentity, InsertProfile, InsertKey, Answer, Undoes, UndoKey,
         UndoProfile, UndoIdentity, LockIdentity, Changes, ChangeIdentity, WriteProfile,
         Restore, CutOff, Call, NoFailure
<1> QED
  BY <1>1, <1>2, <1>3 DEF CutOff

\* What a running step writes into an account; only the compensation removes one.
LEMMA RunningAccounts ==
  ASSUME UserTypeOK, CreateFits, ChangeFits, Creates \/ Undoes \/ Changes \/ CutOff
  PROVE  \A u \in Users : u # req.user =>
           identities'[u] = identities[u] /\ profiles'[u] = profiles[u]
<1>a. /\ profiles \in [Users -> Profile \union {None}]
      /\ identities \in [Users -> Identity \union {None}]
  BY DEF UserTypeOK
<1> QED
  BY <1>a, RunningStep

LEMMA NextAccountsAreUndone ==
  ASSUME UserTypeOK, CreateFits, ChangeFits, UnversionedAreOld, AccountsAreUndone, [Next]_vars
  PROVE  AccountsAreUndone'
<1>a. /\ profiles \in [Users -> Profile \union {None}]
      /\ identities \in [Users -> Identity \union {None}]
  BY DEF UserTypeOK
<1>1. CASE Starts
  BY <1>1, StartsRequest DEF AccountsAreUndone, Creating, Requesting, Known
<1>2. CASE Creates
  <2> SUFFICES ASSUME failures' <= 1, ~unnoticed'
               PROVE  AccountsAreUndone'
    BY DEF AccountsAreUndone
  <2>1. /\ failures <= 1 /\ ~unnoticed /\ failures \in Nat /\ failures' \in Nat
        /\ req # None /\ req.op = "create" /\ Creating(req.user) /\ req.user \in Users
        /\ req.new # None
    BY <1>2, FailuresStay, RunningRequest, NoneAssumption DEF Creating, Requesting
  <2>2. \A u \in Users \ {req.user} :
          /\ identities[u] # None => Known(u)
          /\ Known(u)' <=> Known(u)
          /\ identities'[u] = identities[u]
    BY <1>2, <2>1, RunningAccounts DEF AccountsAreUndone, Creating, Requesting, Known
  <2>3. CASE CreateIdentity
    <3>1. identities[req.user] = None /\ UNCHANGED profiles
      BY <2>1, <2>3 DEF CreateIdentity, Step, CreateFits, Call, SetIdentity, Idle
    <3>2. \/ Leave /\ UNCHANGED identities
          \/ Goto("profile")
      BY <2>1, <2>3, FailuresStay, <1>2
      DEF CreateIdentity, Call, SetIdentity, Idle, Step, NoFailure
    <3>3. \/ req' = None /\ identities'[req.user] = None
          \/ req' # None /\ req'.op = "create" /\ req'.user = req.user /\ req'.step = "profile"
      BY <1>2, <2>1, <3>1, <3>2, RunningRequest DEF Leave, Steps
    <3> QED
      BY <2>2, <3>3 DEF AccountsAreUndone, Creating, Requesting
  <2>4. CASE InsertProfile
    <3>1. \/ Goto("key") /\ profiles'[req.user] # None
          \/ Goto("undoKey") /\ failures' = failures + 1
      BY <1>a, <2>1, <2>4 DEF InsertProfile, Call, SetProfile
    <3>2. /\ req' # None /\ req'.op = "create" /\ req'.user = req.user
          /\ \/ req'.step = "key" /\ profiles'[req.user] # None
             \/ req'.step = "undoKey" /\ failures' = 1
      BY <1>2, <2>1, <3>1, RunningRequest DEF Steps
    <3> QED
      BY <2>2, <3>2 DEF AccountsAreUndone, Creating, Requesting, Known
  <2>5. CASE InsertKey \/ Answer
    <3>1. Known(req.user) /\ UNCHANGED <<profiles, identities>>
      BY <2>1, <2>5 DEF InsertKey, Answer, Step, CreateFits, Call, SetKey, Idle
    <3>2. \/ Leave
          \/ Goto("answer")
          \/ Goto("undoKey") /\ failures' = failures + 1
      BY <2>5 DEF InsertKey, Answer, Call
    <3>3. /\ profiles'[req.user] # None
          /\ \/ req' = None
             \/ req' # None /\ req'.step = "answer"
             \/ req' # None /\ req'.step = "undoKey" /\ failures' = 1
      BY <1>2, <2>1, <3>1, <3>2, RunningRequest DEF Known, Steps, Leave
    <3> QED
      BY <2>2, <3>3 DEF AccountsAreUndone, Known
  <2> QED
    BY <1>2, <2>3, <2>4, <2>5 DEF Creates
<1>3. CASE Undoes
  <2> SUFFICES ASSUME failures' <= 1, ~unnoticed'
               PROVE  AccountsAreUndone'
    BY DEF AccountsAreUndone
  <2>1. /\ failures <= 1 /\ ~unnoticed /\ failures \in Nat /\ failures' \in Nat
        /\ req # None /\ req.op = "create" /\ Creating(req.user) /\ req.user \in Users
    BY <1>3, FailuresStay, RunningRequest DEF Creating, Requesting
  <2>2. \A u \in Users \ {req.user} :
          /\ identities[u] # None => Known(u)
          /\ Known(u)' <=> Known(u)
          /\ identities'[u] = identities[u]
    BY <1>3, <2>1, RunningAccounts DEF AccountsAreUndone, Creating, Requesting, Known
  <2>3. req.step \in {"undoKey", "undoProfile", "undoIdentity"} /\ failures = 1
    BY <1>3, <2>1 DEF AccountsAreUndone, Undoes, UndoKey, UndoProfile, UndoIdentity, LockIdentity, Step
  <2>4. failures' # failures + 1
    BY <2>1, <2>3
  <2>5. \/ Goto("undoProfile") \/ Goto("undoIdentity")
        \/ Leave /\ identities'[req.user] = None
    BY <1>a, <1>3, <2>1, <2>3, <2>4
    DEF Undoes, UndoKey, UndoProfile, UndoIdentity, LockIdentity, Step, Call, SetIdentity
  <2>6. failures' = failures
    BY <1>3, <2>4, FailuresStay
  <2>7. \/ req' = None /\ identities'[req.user] = None
        \/ /\ req' # None /\ req'.op = "create" /\ req'.user = req.user
           /\ req'.step \in {"undoProfile", "undoIdentity"}
    BY <1>3, <2>1, <2>5, RunningRequest DEF Steps, Leave
  <2> QED
    BY <2>2, <2>3, <2>6, <2>7 DEF AccountsAreUndone, Creating, Requesting
<1>4. CASE Changes
  <2> SUFFICES ASSUME failures' <= 1, ~unnoticed'
               PROVE  AccountsAreUndone'
    BY DEF AccountsAreUndone
  <2>1. /\ failures <= 1 /\ ~unnoticed
        /\ req # None /\ req.op # "create" /\ req.user \in Users /\ Known(req.user)
    BY <1>4, FailuresStay, RunningRequest DEF ChangeFits, Changing
  <2>2. profiles'[req.user] # None
    BY <1>4, <2>1, RunningProfiles DEF Known
  <2>3. \A u \in Users : identities'[u] # None => Known(u)'
    BY <1>4, <2>1, <2>2, RunningAccounts DEF AccountsAreUndone, Creating, Requesting, Known
  <2>4. req' # None => req'.step \in {"write", "undo"}
    BY <1>4, RunningRequest DEF Changes, ChangeIdentity, WriteProfile, Restore, Call, Leave, Steps
  <2> QED
    BY <2>3, <2>4 DEF AccountsAreUndone
<1>5. CASE CutOff
  BY <1>5, FailuresStay DEF AccountsAreUndone
<1>6. CASE Unguarded
  <2>1. \A u \in Users : Known(u)' <=> Known(u)
    BY <1>6, UnguardedStep, NoneAssumption DEF Moved, Known
  <2> QED
    BY <1>6, <2>1, UnguardedStep DEF AccountsAreUndone, Creating, Requesting
<1>7. CASE Catalog \/ UNCHANGED vars
  BY <1>7, CatalogStepKeeps DEF vars, AccountsAreUndone, Creating, Requesting, Known
<1> QED
  BY <1>1, <1>2, <1>3, <1>4, <1>5, <1>6, <1>7, UserSteps

\* As long as nothing failed: what a request does to the account of its user, it does to the
\* profile or takes back.  Taking back assumes that the account was what the request found:
\* the page disables active users and reactivates the others.
LEMMA NextAccountsFit ==
  ASSUME FromPage, UserTypeOK, CreateFits, ChangeFits, UnversionedAreOld, AccountsFit,
         [Next]_vars
  PROVE  AccountsFit'
<1>a. /\ profiles \in [Users -> Profile \union {None}]
      /\ identities \in [Users -> Identity \union {None}]
  BY DEF UserTypeOK
<1>1. CASE Starts
  BY <1>1, StartsRequest DEF AccountsFit, Agree, Requesting, Known
<1>2. CASE Creates \/ Undoes \/ Changes \/ CutOff
  <2> SUFFICES ASSUME failures' = 0
               PROVE  AccountsFit'
    BY DEF AccountsFit
  <2>1. /\ failures = 0 /\ failures' # failures + 1 /\ ~CutOff
        /\ req # None /\ req.user \in Users /\ req.new \in Profile /\ req.new # None
        /\ Requesting(req.user)
    BY <1>2, FailuresStay, RunningRequest, NoneAssumption DEF Requesting
  <2>2. req.step \in {"identity", "profile", "key", "answer", "write", "undo"}
    BY <2>1 DEF AccountsFit
  <2>3. \A u \in Users \ {req.user} :
          /\ Agree(u)
          /\ identities'[u] = identities[u] /\ profiles'[u] = profiles[u]
    BY <1>2, <2>1, RunningAccounts DEF AccountsFit, Requesting
  <2>4. ~Undoes
    BY <2>2 DEF Undoes, UndoKey, UndoProfile, UndoIdentity, LockIdentity, Step
  \* It is enough that the account and the profile of the request agree, or differ by it.
  <2> DEFINE Ends ==
               /\ profiles'[req.user] # None <=> identities'[req.user] # None
               /\ profiles'[req.user] # None =>
                    /\ identities'[req.user].email = profiles'[req.user].email
                    /\ identities'[req.user].enabled = profiles'[req.user].active
             Differs ==
               /\ identities'[req.user] # None
               /\ identities'[req.user].email = req.new.email
               /\ identities'[req.user].enabled = req.new.active
             Continues(step) ==
               req' # None /\ req'.user = req.user /\ req'.new = req.new /\ req'.step = step
  <2>5. ASSUME \/ req' = None /\ Ends
               \/ (Continues("key") \/ Continues("answer")) /\ Ends
               \/ (Continues("profile") \/ Continues("write") \/ Continues("undo")) /\ Differs
        PROVE  AccountsFit'
    <3>1. \A u \in Users \ {req.user} : Agree(u)'
      BY <2>3 DEF Agree, Known
    <3>2. \A u \in Users : Requesting(u)' => u = req.user
      BY <2>5 DEF Requesting
    <3>3. Ends => \A u \in Users : u = req.user => Agree(u)'
      BY DEF Agree, Known
    <3>4. ASSUME req' # None, req'.new = req.new, Differs
          PROVE  \A u \in Users : u = req.user => Changed(u)'
      BY <3>4 DEF Changed
    <3>5. CASE req' = None /\ Ends
      BY <3>1, <3>3, <3>5 DEF AccountsFit, Requesting
    <3>6. CASE (Continues("key") \/ Continues("answer")) /\ Ends
      BY <2>1, <3>1, <3>2, <3>3, <3>6 DEF AccountsFit, Requesting
    <3>7. CASE (Continues("profile") \/ Continues("write") \/ Continues("undo")) /\ Differs
      BY <2>1, <3>1, <3>2, <3>4, <3>7 DEF AccountsFit, Requesting
    <3> QED
      BY <2>5, <3>5, <3>6, <3>7
  <2>6. ASSUME NEW step \in Steps, Goto(step)
        PROVE  Continues(step)
    BY <1>2, <2>6, RunningRequest
  <2>7. CASE Creates
    <3>1. req.op = "create" /\ req.new.active /\ req.new.active \in BOOLEAN
      BY <1>2, <2>1, <2>7, RunningRequest DEF CreateFits, Profile
    <3>2. CASE CreateIdentity
      <4>1. \/ UNCHANGED <<profiles, identities>> /\ req' = None
            \/ /\ Goto("profile")
               /\ identities'[req.user] = [email |-> req.new.email, enabled |-> TRUE]
        BY <1>a, <2>1, <3>2 DEF CreateIdentity, Call, SetIdentity, Idle, Leave
      <4>2. ASSUME identities'[req.user] = [email |-> req.new.email, enabled |-> TRUE]
            PROVE  Differs
        <5>1. req.new.email \in Emails
          BY <2>1 DEF Profile
        <5>2. [email |-> req.new.email, enabled |-> TRUE] \in Identity
          BY <5>1 DEF Identity
        <5>3. req.new.active = TRUE
          BY <3>1
        <5>4. identities'[req.user] # None
          BY <4>2, <5>2, NoneAssumption
        <5>5. identities'[req.user].enabled = TRUE /\ identities'[req.user].email = req.new.email
          BY <4>2
        <5> QED
          BY <5>3, <5>4, <5>5
      <4>3. Agree(req.user)
        BY <2>1, <3>2 DEF CreateIdentity, Step, AccountsFit
      <4>4. CASE UNCHANGED <<profiles, identities>> /\ req' = None
        BY <2>5, <4>3, <4>4 DEF Agree, Known
      <4>5. CASE Goto("profile") /\ identities'[req.user] = [email |-> req.new.email, enabled |-> TRUE]
        <5> HIDE DEF Continues, Differs
        <5> QED
          BY <2>5, <2>6, <4>2, <4>5 DEF Steps
      <4> QED
        BY <4>1, <4>4, <4>5
    <3>3. CASE InsertProfile
      <4>1. /\ Goto("key") /\ profiles'[req.user] = req.new
            /\ identities'[req.user] = identities[req.user]
        BY <1>a, <2>1, <3>3 DEF InsertProfile, Call, SetProfile
      <4>2. Changed(req.user)
        BY <2>1, <3>3 DEF InsertProfile, Step, AccountsFit
      <4> HIDE DEF Continues
      <4> QED
        BY <2>1, <2>5, <2>6, <4>1, <4>2 DEF Steps, Changed
    <3>4. CASE InsertKey \/ Answer
      <4>1. /\ Goto("answer") \/ req' = None
            /\ UNCHANGED <<profiles, identities>>
        BY <2>1, <3>4 DEF InsertKey, Answer, Call, SetKey, Idle, Leave
      <4>2. Agree(req.user)
        BY <2>1, <3>4 DEF InsertKey, Answer, Step, AccountsFit
      <4> HIDE DEF Continues
      <4> QED
        BY <2>5, <2>6, <4>1, <4>2 DEF Steps, Agree, Known
    <3> QED
      BY <2>7, <3>2, <3>3, <3>4 DEF Creates
  <2>8. CASE Changes
    <3>1. /\ req.op \in Changing /\ req.old \in Profile /\ Known(req.user)
          /\ profiles[req.user].email = req.old.email
          /\ profiles[req.user].active = req.old.active
          /\ req.new.active \in BOOLEAN /\ req.old.active \in BOOLEAN
      <4>1. req.op \in Changing /\ req.op # "create" /\ req \in Request
        BY <2>8, RunningRequest DEF Changing
      <4> QED
        BY <2>1, <4>1 DEF ChangeFits, Request, Profile
    <3>2. identities[req.user] # None => identities[req.user] \in Identity
      BY <1>a, <2>1
    <3>3. /\ req.op = "update" => req.new.active = req.old.active
          /\ req.op = "disable" =>
               /\ req.new.active = FALSE /\ req.new.email = req.old.email
               /\ req.old.active = TRUE
          /\ req.op = "reactivate" =>
               /\ req.new.active = TRUE /\ req.new.email = req.old.email
               /\ req.old.active = FALSE
      BY <2>1, <3>1 DEF ChangeFits, Changing
    <3>4. CASE ChangeIdentity
      <4>1. \/ UNCHANGED <<profiles, identities>> /\ req' = None
            \/ /\ Goto("write") /\ identities[req.user] # None
               /\ identities'[req.user] = Touched
        BY <1>a, <2>1, <3>4 DEF ChangeIdentity, Call, SetIdentity, Idle, Leave
      <4>2. Agree(req.user)
        BY <2>1, <3>4 DEF ChangeIdentity, Step, AccountsFit
      <4>3. ASSUME identities[req.user] # None
            PROVE  /\ Touched \in Identity /\ Touched # None
                   /\ Touched.email = req.new.email /\ Touched.enabled = req.new.active
        <5>1. /\ identities[req.user] \in Identity
              /\ identities[req.user].email = req.old.email
              /\ identities[req.user].enabled = req.old.active
          BY <3>1, <3>2, <4>2, <4>3 DEF Agree
        <5>2. Touched \in Identity
          BY <2>1, <5>1 DEF Touched, Identity, Profile
        <5> QED
          BY <2>1, <3>1, <3>3, <5>1, <5>2, NoneAssumption DEF Touched, Identity, Profile, Changing
      <4> HIDE DEF Continues
      <4> QED
        BY <2>5, <2>6, <4>1, <4>2, <4>3 DEF Steps, Agree, Known
    <3>5. CASE WriteProfile
      <4>1. /\ identities'[req.user] = identities[req.user]
            /\ \/ req' = None /\ profiles'[req.user] = req.new
               \/ Goto("undo")
        BY <1>a, <2>1, <3>5 DEF WriteProfile, Call, SetProfile, Idle, Leave
      <4>2. Changed(req.user)
        BY <2>1, <3>5 DEF WriteProfile, Step, AccountsFit
      <4> HIDE DEF Continues
      <4> QED
        BY <2>1, <2>5, <2>6, <4>1, <4>2 DEF Steps, Changed
    <3>6. CASE Restore
      <4>1. /\ req' = None /\ profiles'[req.user] = profiles[req.user]
            /\ identities'[req.user] = Restored
        BY <1>a, <2>1, <3>6 DEF Restore, Call, SetIdentity, Leave
      <4>2. Changed(req.user)
        BY <2>1, <3>6 DEF Restore, Step, AccountsFit
      <4>3. /\ Restored \in Identity /\ Restored # None
            /\ Restored.email = req.old.email /\ Restored.enabled = req.old.active
        <5>1. /\ identities[req.user] \in Identity
              /\ identities[req.user].email = req.new.email
              /\ identities[req.user].enabled = req.new.active
          BY <3>2, <4>2 DEF Changed
        <5>2. Restored \in Identity
          BY <3>1, <5>1 DEF Restored, Identity, Profile
        <5> QED
          BY <3>1, <3>3, <5>1, <5>2, NoneAssumption DEF Restored, Identity, Profile, Changing
      <4> QED
        BY <2>5, <3>1, <4>1, <4>3 DEF Known
    <3> QED
      BY <2>8, <3>4, <3>5, <3>6 DEF Changes
  <2> QED
    BY <1>2, <2>1, <2>4, <2>7, <2>8
<1>3. CASE Unguarded
  <2>1. \A u \in Users :
          /\ Known(u)' <=> Known(u)
          /\ Known(u) => /\ profiles'[u].email = profiles[u].email
                         /\ profiles'[u].active = profiles[u].active
    BY <1>3, UnguardedStep, NoneAssumption DEF Moved, Known
  <2> QED
    BY <1>3, <2>1, UnguardedStep DEF AccountsFit, Agree, Changed, Requesting
<1>4. CASE Catalog \/ UNCHANGED vars
  BY <1>4, CatalogStepKeeps DEF vars, AccountsFit, Agree, Changed, Requesting, Known
<1> QED
  BY <1>1, <1>2, <1>3, <1>4, UserSteps

-----------------------------------------------------------------------------
(* The invariant of every run. *)

LEMMA InitUserInv ==
  ASSUME Init
  PROVE  UserInv /\ AccountsFit
<1>1. PICK admins \in SUBSET Users, ver \in [Users -> {0, 1}] :
        /\ profiles = [u \in Users |-> IF Founders[u] = None THEN None ELSE
             [email |-> Founders[u], admin |-> u \in admins, depts |-> {}, active |-> TRUE,
              status |-> "active", version |-> ver[u]]]
        /\ \E u \in admins : Founders[u] # None
        /\ \A u \in Users : Founders[u] # None \/ (ver[u] = 1 /\ u \notin admins)
  BY DEF Init
<1>2. /\ identities = [u \in Users |-> IF Founders[u] = None THEN None ELSE
                                         [email |-> Founders[u], enabled |-> TRUE]]
      /\ idem = [k \in Keys |-> None]
      /\ catalog = [i \in Items |-> "absent"] /\ inUse = {}
      /\ req = None /\ activating = [u \in Users |-> None] /\ backfill = {}
      /\ failures = 0 /\ unnoticed = FALSE
  BY DEF Init
<1>3. ASSUME NEW u \in Users, Founders[u] # None
      PROVE  /\ profiles[u] \in Profile /\ identities[u] \in Identity
             /\ profiles[u].email = Founders[u] /\ (profiles[u].admin <=> u \in admins)
             /\ profiles[u].depts = {} /\ profiles[u].active = TRUE
             /\ profiles[u].status = "active"
             /\ identities[u].email = Founders[u] /\ identities[u].enabled = TRUE
             /\ profiles[u] # None /\ identities[u] # None
  <2>1. Founders[u] \in Emails /\ ver[u] \in 0 .. MaxVersion + 1
    BY <1>3, UserAssumption
  <2>2. profiles[u] = [email |-> Founders[u], admin |-> u \in admins, depts |-> {}, active |-> TRUE,
                       status |-> "active", version |-> ver[u]]
    BY <1>1, <1>3
  <2>3. identities[u] = [email |-> Founders[u], enabled |-> TRUE]
    BY <1>2, <1>3
  <2>4. (u \in admins) \in BOOLEAN
    OBVIOUS
  <2>5. profiles[u] \in Profile /\ identities[u] \in Identity
    BY <2>1, <2>2, <2>3, <2>4 DEF Profile, Identity
  <2>6. /\ profiles[u].email = Founders[u] /\ profiles[u].depts = {}
        /\ profiles[u].active = TRUE /\ profiles[u].status = "active"
        /\ identities[u].email = Founders[u] /\ identities[u].enabled = TRUE
    BY <2>2, <2>3
  <2>7. profiles[u].admin = (u \in admins)
    BY <2>2
  <2>8. profiles[u].admin <=> u \in admins
    BY <2>7
  <2> QED
    BY <2>5, <2>6, <2>8, NoneAssumption
<1>4. ASSUME NEW u \in Users, Founders[u] = None
      PROVE  profiles[u] = None /\ identities[u] = None
  BY <1>1, <1>2, <1>4
<1>5. UserTypeOK
  <2>1. /\ profiles \in [Users -> Profile \union {None}]
        /\ identities \in [Users -> Identity \union {None}]
    BY <1>1, <1>2, <1>3, <1>4
  <2>2. /\ idem \in [Keys -> Users \union {None}]
        /\ catalog \in [Items -> {"absent", "active", "archived"}] /\ inUse \subseteq Items
        /\ activating \in [Users -> Version \union {None}] /\ backfill \subseteq Users
        /\ req \in Request \union {None} /\ unnoticed \in BOOLEAN
    BY <1>2
  <2>3. failures \in 0 .. MaxFailures
    BY <1>2, UserAssumption
  <2> QED
    BY <2>1, <2>2, <2>3 DEF UserTypeOK
<1>6. CreateFits /\ ChangeFits /\ RequestedStatusFits
  BY <1>2 DEF CreateFits, ChangeFits, RequestedStatusFits
<1>7. UnversionedAreOld /\ ActivationsFit
  BY <1>2, <1>3, <1>4 DEF UnversionedAreOld, ActivationsFit, Unversioned, Creating, Requesting, Known
<1>8. StatusFollowsActive
  BY <1>3, <1>4 DEF StatusFollowsActive, Known
<1>9. KeysFit /\ ItemsFit
  BY <1>2, <1>3, <1>4 DEF KeysFit, KeyHasItsUser, ItemsFit, ActiveUsersUseActiveItems, Known,
                          Creating, Requesting
<1>10. AdminStays
  BY <1>1, <1>2, <1>3 DEF AdminStays, Admin, TakesAway, Requesting, Known
<1>11. AccountsAreUndone
  BY <1>2, <1>3, <1>4 DEF AccountsAreUndone, Known
<1>12. AccountsFit
  BY <1>2, <1>3, <1>4 DEF AccountsFit, Agree, Requesting, Known
<1> QED
  BY <1>5, <1>6, <1>7, <1>8, <1>9, <1>10, <1>11, <1>12 DEF UserInv

LEMMA NextUserInv ==
  ASSUME UserInv, [Next]_vars
  PROVE  UserInv'
BY NextUserTypes, NextCreateFits, NextChangeFits, NextUnversionedAreOld, NextActivationsFit,
   NextStatusFits, NextKeysFit, NextItemsFit, NextAdminStays, NextAccountsAreUndone
DEF UserInv

LEMMA UserInvariant == Spec => []UserInv
<1>1. Init => UserInv
  BY InitUserInv
<1>2. UserInv /\ [Next]_vars => UserInv'
  BY NextUserInv
<1> QED
  BY <1>1, <1>2, PTL DEF Spec

LEMMA AccountsInvariant ==
  ASSUME FromPage
  PROVE  Spec => []AccountsFit
<1>1. Init => AccountsFit
  BY InitUserInv
<1>2. UserInv /\ AccountsFit /\ [Next]_vars => AccountsFit'
  BY NextAccountsFit DEF UserInv
<1> QED
  BY <1>1, <1>2, UserInvariant, PTL DEF Spec

-----------------------------------------------------------------------------
(* What holds of every behaviour of UserAdminService, OrganizationService, the        *)
(* activations and the script.                                                       *)

(* Every record is what its model in the code admits; a version goes one beyond the   *)
(* largest that a request starts from, however activations and the script interfere.  *)
THEOREM UserTypes == Spec => []UserTypeOK
<1>1. UserInv => UserTypeOK
  BY DEF UserInv
<1> QED
  BY <1>1, UserInvariant, PTL

(* Whatever calls to Firebase and Mongo fail and wherever requests are cut off, an     *)
(* idempotency key names a user whose profile is there: create_user stores the key     *)
(* last, and takes it back first.                                                     *)
THEOREM KeysKeepTheirUser == Spec => []KeyHasItsUser
<1>1. UserInv => KeyHasItsUser
  BY DEF UserInv, KeysFit
<1> QED
  BY <1>1, UserInvariant, PTL

(* What active users have selected stays active in the catalog: archive and delete ask *)
(* for usage under the guard that the updates of users hold.                          *)
THEOREM ItemsStayActive == Spec => []ActiveUsersUseActiveItems
<1>1. UserInv => ActiveUsersUseActiveItems
  BY DEF UserInv, ItemsFit
<1> QED
  BY <1>1, UserInvariant, PTL

(* The first request of a pending user, which does not take the guard, never makes a    *)
(* user active whom an administrator disabled meanwhile: its update matches the version *)
(* it read.                                                                           *)
THEOREM DisabledStaysDisabled == Spec => []StatusFollowsActive
<1>1. UserInv => StatusFollowsActive
  BY DEF UserInv
<1> QED
  BY <1>1, UserInvariant, PTL

(* One call that fails leaves no account without a profile when create_user answers.    *)
THEOREM OneFailureIsUndone == Spec => []FailedCreateIsUndone
<1>1. UserInv => FailedCreateIsUndone
  BY DEF UserInv, AccountsAreUndone, FailedCreateIsUndone, Creating, Requesting
<1> QED
  BY <1>1, UserInvariant, PTL

(* As long as no call fails, accounts and profiles agree between requests, if users are *)
(* disabled and reactivated from the page, which offers what applies.                  *)
THEOREM AccountsAgree ==
  ASSUME FromPage
  PROVE  Spec => []AgreesAtRest
<1>1. AccountsFit => AgreesAtRest
  BY DEF AccountsFit, AgreesAtRest, Agree, Requesting
<1> QED
  BY <1>1, AccountsInvariant, PTL

(* However users are disabled and reactivated, and whatever fails, there is an active   *)
(* system administrator whom the request under way leaves one.                          *)
THEOREM AnAdminStays == Spec => []AdminStays
<1>1. UserInv => AdminStays
  BY DEF UserInv
<1> QED
  BY <1>1, UserInvariant, PTL

(* However requests, activations and failures interleave, an active system             *)
(* administrator remains; and one whose account can sign in, as long as no call fails.  *)
THEOREM OneAdminRemains ==
  ASSUME FromPage
  PROVE  Spec => []AdminRemains
<1>1. UserInv /\ AccountsFit => AdminRemains
  <2> SUFFICES ASSUME UserInv, AccountsFit
               PROVE  AdminRemains
    OBVIOUS
  <2>1. PICK u \in Users : Admin(u) /\ ~TakesAway(u)
    BY DEF UserInv, AdminStays
  <2>2. CASE failures # 0
    BY <2>1, <2>2 DEF AdminRemains, Admin
  <2>3. CASE failures = 0 /\ ~Requesting(u)
    BY <2>1, <2>3 DEF AccountsFit, Agree, AdminRemains, Admin
  <2>4. CASE failures = 0 /\ Requesting(u)
    <3>1. req # None /\ req.op # "create" /\ req.new.active
      BY <2>1, <2>4 DEF TakesAway, Requesting
    <3>2. req.step \in {"identity", "write", "undo"}
      BY <3>1 DEF UserInv, ChangeFits
    <3>3. identities[u] # None /\ identities[u].enabled
      BY <2>1, <2>4, <3>1, <3>2 DEF AccountsFit, Agree, Changed, Admin
    <3> QED
      BY <2>1, <3>3 DEF AdminRemains, Admin
  <2> QED
    BY <2>2, <2>3, <2>4
<1> QED
  BY <1>1, UserInvariant, AccountsInvariant, PTL
=============================================================================
