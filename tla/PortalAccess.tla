--------------------------- MODULE PortalAccess ---------------------------
(***************************************************************************)
(* Who may use which downstream key: the access policies, the bindings of  *)
(* keys to portal users, the users' model group grants, the reviewed       *)
(* migration of an old key and the login that opens a portal session.      *)
(* Every access mutation is one database transaction under an advisory     *)
(* lock, which changes of a user's grants, disabling and logins do not     *)
(* take: they may commit in the middle of one.  Only the migration reads   *)
(* grants it writes afterwards, so it is two actions, its check and its    *)
(* commit; in the others the grants are read once and not written, or      *)
(* written and not read, and the order makes no difference to what is      *)
(* stored.  A login reads the user and writes its session in two           *)
(* transactions, hence two actions.                                        *)
(***************************************************************************)
EXTENDS Naturals, FiniteSets

CONSTANTS Users,        \* portal users
          AccessKeys,         \* downstream keys, numbered in the order of their ids
          Migrated,     \* the key with an open migration record
          Conflicted,   \* a key the migration found bound to every user
          KeyLimit,     \* the keys a user may create (10 in the code)
          MaxTransactions,   \* bound on the transactions of a behaviour
          NoUser, NoKey

ASSUME AccessAssumption ==
    /\ AccessKeys \subseteq Nat /\ Migrated \in AccessKeys /\ Conflicted \in AccessKeys
    /\ Migrated # Conflicted /\ KeyLimit \in Nat \ {0} /\ MaxTransactions \in Nat
    /\ NoUser \notin Users /\ NoKey \notin AccessKeys

VARIABLES policy,       \* downstream_access_policies
          bindings,     \* portal_user_downstreams, without the default mark
          defaultKey,   \* the key each user's default mark is on
          grants,       \* portal_user_model_groups
          blocked,      \* portal_users.disabled
          groupEdit,    \* the contents of the group "team"
          resolved,     \* the migration record has resolved_at
          preview,      \* the administrator's last migration preview
          migrating,    \* the preview a migration transaction has checked and not yet applied
          login,        \* users whose login has passed its checks
          sessions,     \* users with a portal session
          transactions,      \* the transactions so far
          cut,          \* ghost: keys revoked or rotated and not restored since
          outlived      \* ghost: users with a session of a login from before a disabling

accessVars == <<policy, bindings, defaultKey, grants, blocked, groupEdit,
                resolved, preview, migrating, login, sessions, transactions, cut, outlived>>

Groups == {"basic", "team"}
Modes  == {"inherit", "group", "deny"}
Absent == [kind |-> "absent", owner |-> NoUser, mode |-> "deny", group |-> "deny-all"]
Denied(u) == [kind |-> "portal", owner |-> u, mode |-> "deny", group |-> "deny-all"]
NoPreview == [fresh |-> FALSE, owner |-> NoUser, grants |-> {}, edit |-> FALSE]

\* What a selection stores: a group only in group mode.
Selections == {[mode |-> "inherit", group |-> "deny-all"],
               [mode |-> "deny", group |-> "deny-all"]}
                   \cup {[mode |-> "group", group |-> g] : g \in Groups}

\* After the start-up migration: one key the review must still settle, owned
\* by its only user, one in conflict; the others are direct keys of the group
\* "team" or ids still to be given out.
AccessInit ==
    \E u \in Users, direct \in SUBSET (AccessKeys \ {Migrated, Conflicted}) :
        /\ policy = [k \in AccessKeys |->
               IF k = Migrated THEN Denied(u)
               ELSE IF k = Conflicted THEN Denied(NoUser)
               ELSE IF k \in direct
                    THEN [kind |-> "direct", owner |-> NoUser, mode |-> "group", group |-> "team"]
               ELSE Absent]
        /\ bindings = {<<u, Migrated>>} \cup {<<v, Conflicted>> : v \in Users}
        /\ defaultKey = [v \in Users |-> IF v = u THEN Migrated ELSE Conflicted]
        /\ grants = [v \in Users |-> {}] /\ blocked = [v \in Users |-> FALSE]
        /\ groupEdit = FALSE /\ resolved = FALSE /\ preview = NoPreview /\ migrating = NoPreview
        /\ login = {} /\ sessions = {} /\ transactions = 0 /\ cut = {} /\ outlived = {}

BoundTo(k) == {u \in Users : <<u, k>> \in bindings}
KeysOf(u) == {k \in AccessKeys : <<u, k>> \in bindings}
MayUse(u, g) == g = "basic" \/ g \in grants[u]

(*************************** what a key may use ****************************)

OwnerValid(k) == /\ policy[k].kind = "portal" /\ policy[k].owner # NoUser
                 /\ ~blocked[policy[k].owner]
                 /\ BoundTo(k) = {policy[k].owner}

Ceiling(u) == {"basic"} \cup grants[u]

\* The groups whose models a request with key k may name.
Effective(k) ==
    LET p == policy[k] IN
    CASE p.mode = "deny"                                    -> {}
      [] p.kind = "direct" /\ p.mode = "group"              -> {p.group} \ {"deny-all"}
      [] p.mode = "inherit" /\ OwnerValid(k)                -> Ceiling(p.owner)
      [] p.mode = "group" /\ p.kind = "portal" /\ OwnerValid(k)
                                                            -> Ceiling(p.owner) \cap {p.group}
      [] OTHER                                              -> {}

(*************************** access mutations ******************************)

\* A migration transaction is open: it holds lock_access_writes and a share of
\* the group's row.
AccessLocked == migrating.fresh

\* Mutant: a write that leaves the revision alone.
WriteUnrevised(k, p) == policy' = [policy EXCEPT ![k] = p] /\ UNCHANGED preview

\* Every write of a policy bumps its revision, which ages the preview.
Write(k, p) == /\ policy' = [policy EXCEPT ![k] = p]
               /\ preview' = IF k = Migrated THEN [preview EXCEPT !.fresh = FALSE] ELSE preview

\* set_binding: mark "keep" leaves an existing mark and gives a new binding the
\* mark when the user has no default.
SetBinding(k, u, mark) ==
    LET isDefault == IF mark # "keep" THEN mark = "yes"
                     ELSE IF <<u, k>> \in bindings THEN defaultKey[u] = k
                     ELSE defaultKey[u] = NoKey
    IN /\ bindings' = bindings \cup {<<u, k>>}
       /\ defaultKey' = [defaultKey EXCEPT ![u] =
              IF isDefault THEN k ELSE IF @ = k THEN NoKey ELSE @]

\* The default mark of u once only the keys in left are bound.
Promoted(u, left, mark) ==
    IF mark \in left THEN mark
    ELSE IF left = {} THEN NoKey ELSE CHOOSE k \in left : \A o \in left : k <= o

\* Update by the owner, who may only name groups granted to it, or by an
\* administrator (actor NoUser).
Update(actor, k, s) ==
    /\ policy[k].kind # "absent"
    /\ actor # NoUser => /\ ~blocked[actor] /\ policy[k].owner = actor
                         /\ s.mode = "group" => MayUse(actor, s.group)
    /\ s.mode = "inherit" => policy[k].kind = "portal" /\ policy[k].owner # NoUser
    /\ Write(k, [policy[k] EXCEPT !.mode = s.mode, !.group = s.group])
    /\ cut' = cut \ {k}
    /\ UNCHANGED <<bindings, defaultKey, grants, blocked, groupEdit, resolved, migrating, login, sessions, outlived>>

CreatePortal(u, k, s) ==
    /\ policy[k] = Absent /\ ~blocked[u]
    /\ s.mode = "group" => MayUse(u, s.group)
    /\ Cardinality({o \in KeysOf(u) : policy[o].owner = u}) < KeyLimit
    /\ Write(k, [kind |-> "portal", owner |-> u, mode |-> s.mode, group |-> s.group])
    /\ SetBinding(k, u, "keep")
    /\ UNCHANGED <<grants, blocked, groupEdit, resolved, migrating, login, sessions, cut, outlived>>

\* A key bound to, or owned by, somebody else is not given away.
BindRefused(k, u) == \/ BoundTo(k) \ {u} # {}
                     \/ policy[k].owner \notin {NoUser, u}

\* Bind: by an administrator or by the login that asked for the key; the
\* selection, when there is one, is validated against no user.
Bind(k, u, mark, selection) ==
    /\ policy[k].kind # "absent" /\ ~blocked[u] /\ ~BindRefused(k, u)
    /\ LET p == [policy[k] EXCEPT !.kind = "portal", !.owner = u]
       IN Write(k, IF selection = {} THEN p
                   ELSE LET s == CHOOSE s \in selection : TRUE
                        IN [p EXCEPT !.mode = s.mode, !.group = s.group])
    /\ SetBinding(k, u, mark)
    /\ cut' = cut \ {k}
    /\ UNCHANGED <<grants, blocked, groupEdit, resolved, migrating, login, sessions, outlived>>

\* The first portal use of a bearer key makes its user: a direct key brings its
\* group along as a grant; a portal key without an owner is refused.
EnsureUser(k, u) ==
    /\ policy[k].kind = "direct" /\ policy[k].owner = NoUser
    /\ ~blocked[u] /\ ~BindRefused(k, u)
    /\ grants' = [grants EXCEPT ![u] =
           IF policy[k].mode = "group" /\ policy[k].group # "deny-all"
           THEN @ \cup ({policy[k].group} \ {"basic"}) ELSE @]
    /\ Write(k, [policy[k] EXCEPT !.kind = "portal", !.owner = u])
    /\ SetBinding(k, u, "yes")
    /\ cut' = cut \ {k}
    /\ UNCHANGED <<blocked, groupEdit, resolved, migrating, login, sessions, outlived>>

\* Unbind, by an administrator or with the deletion of the key in the portal.
Unbind(k, u) ==
    /\ policy[k].kind # "absent" /\ policy[k].owner \in {NoUser, u}
    /\ Write(k, Denied(NoUser))
    /\ bindings' = bindings \ {<<u, k>>}
    /\ defaultKey' = [defaultKey EXCEPT ![u] = Promoted(u, KeysOf(u) \ {k}, @)]
    /\ cut' = cut \cup {k}
    /\ UNCHANGED <<grants, blocked, groupEdit, resolved, migrating, login, sessions, outlived>>

SetDefault(k, u) ==
    /\ ~blocked[u] /\ policy[k].owner = u
    /\ SetBinding(k, u, "yes")
    /\ UNCHANGED <<policy, preview, grants, blocked, groupEdit, resolved, migrating, login, sessions, cut, outlived>>

\* The policy of a key that was replaced: its owner stays, its access goes.
RotatedOut(p) == [p EXCEPT !.mode = "deny", !.group = "deny-all"]

\* RotatePortal: the new key takes over policy, binding and mark.
RotatePortal(old, new, u) ==
    /\ policy[old].kind # "absent" /\ policy[new] = Absent /\ ~blocked[u]
    /\ policy[old].owner = u /\ <<u, old>> \in bindings
    /\ policy' = [policy EXCEPT ![new] = [policy[old] EXCEPT !.kind = "portal"],
                                ![old] = RotatedOut(policy[old])]
    /\ preview' = IF old = Migrated THEN [preview EXCEPT !.fresh = FALSE] ELSE preview
    /\ bindings' = (bindings \ {<<u, old>>}) \cup {<<u, new>>}
    /\ defaultKey' = [defaultKey EXCEPT ![u] =
           Promoted(u, (KeysOf(u) \ {old}) \cup {new}, IF @ = old THEN new ELSE @)]
    /\ cut' = cut \cup {old}
    /\ UNCHANGED <<grants, blocked, groupEdit, resolved, migrating, login, sessions, outlived>>

(********************** grants, groups and the migration *******************)

ReplaceGrants(u, gs) ==
    /\ grants' = [grants EXCEPT ![u] = gs]
    /\ UNCHANGED <<policy, bindings, defaultKey, blocked, groupEdit, resolved, preview, migrating,
                   login, sessions, cut, outlived>>

EditGroup == /\ groupEdit' = ~groupEdit
             /\ UNCHANGED <<policy, bindings, defaultKey, grants, blocked, resolved, preview, migrating,
                            login, sessions, cut, outlived>>

\* access_migration_preview: the revision, the owner's grants and the contents
\* of the candidate group, from one snapshot.
PreviewMigration ==
    /\ LET u == policy[Migrated].owner
       IN preview' = [fresh |-> TRUE, owner |-> u, edit |-> groupEdit,
                      grants |-> IF u = NoUser THEN {} ELSE grants[u]]
    /\ UNCHANGED <<policy, bindings, defaultKey, grants, blocked, groupEdit, resolved, migrating,
                   login, sessions, cut, outlived>>

\* apply_access_migration_one: revision and fingerprint are checked again under
\* the advisory lock, with the policy row and the group locked too.  The owner
\* is in neither, and the grants are read without a lock.
CheckMigration ==
    LET u == policy[Migrated].owner IN
    /\ ~resolved /\ preview.fresh /\ u # NoUser
    /\ preview.grants = grants[u] /\ preview.edit = groupEdit
    /\ migrating' = preview
    /\ UNCHANGED <<policy, bindings, defaultKey, grants, blocked, groupEdit, resolved, preview,
                   login, sessions, cut, outlived>>

\* The owner is granted the group, inherits when the administrator asked for it
\* (set_inherit), and the record is resolved; or the transaction fails.
CommitMigration ==
    /\ AccessLocked /\ migrating' = NoPreview
    /\ \/ /\ grants' = [grants EXCEPT ![policy[Migrated].owner] = @ \cup {"team"}]
          /\ resolved' = TRUE
          /\ \/ /\ Write(Migrated, [policy[Migrated] EXCEPT !.mode = "inherit", !.group = "deny-all"])
                /\ cut' = cut \ {Migrated}
             \/ UNCHANGED <<policy, preview, cut>>
       \/ UNCHANGED <<grants, resolved, policy, preview, cut>>
    /\ UNCHANGED <<bindings, defaultKey, blocked, groupEdit, login, sessions, outlived>>

(********************************* sessions ********************************)

\* resolve_identity: the account is enabled and has a default key.
CheckLogin(u) ==
    /\ u \notin login /\ ~blocked[u] /\ defaultKey[u] # NoKey
    /\ login' = login \cup {u}
    /\ UNCHANGED <<policy, bindings, defaultKey, grants, blocked, groupEdit, resolved, preview, migrating,
                   sessions, cut, outlived>>

OpenSession(u) ==
    /\ u \in login
    /\ login' = login \ {u} /\ sessions' = sessions \cup {u}
    /\ UNCHANGED <<policy, bindings, defaultKey, grants, blocked, groupEdit, resolved, preview, migrating,
                   cut, outlived>>

Logout(u) ==
    /\ u \in sessions /\ sessions' = sessions \ {u} /\ outlived' = outlived \ {u}
    /\ UNCHANGED <<policy, bindings, defaultKey, grants, blocked, groupEdit, resolved, preview, migrating,
                   login, cut>>

\* set_user_disabled: disabling purges the sessions in its transaction.
SetDisabled(u, d) ==
    /\ blocked[u] # d /\ blocked' = [blocked EXCEPT ![u] = d]
    /\ sessions' = IF d THEN sessions \ {u} ELSE sessions
    /\ outlived' = IF ~d THEN outlived ELSE IF u \in login THEN outlived \cup {u} ELSE outlived \ {u}
    /\ UNCHANGED <<policy, bindings, defaultKey, grants, groupEdit, resolved, preview, migrating, login, cut>>

(********************* the handlers that mutate access *********************)

\* The portal's own key page.  Deletion asks for the owner first, which an
\* unbinding alone would not.
PortalCreate(u, k, s) == CreatePortal(u, k, s)
PortalUpdate(u, k, s) == Update(u, k, s)
PortalRotate(u, old, new) == RotatePortal(old, new, u)
PortalDefault(u, k) == policy[k].kind # "absent" /\ SetDefault(k, u)
PortalDelete(u, k) == policy[k].owner = u /\ Unbind(k, u)

\* The administrator's pages: a binding saved without is_default is saved with
\* is_default = false.
AdminUpdate(k, s) == Update(NoUser, k, s)
AdminBind(u, k, selection) == \E mark \in {"yes", "no"} : Bind(k, u, mark, selection)
AdminUnbind(u, k) == Unbind(k, u)

\* A login with a bind intent adopts the key when the user has none.
LoginBind(u, k) == KeysOf(u) = {} /\ Bind(k, u, "yes", {})

AccessStep ==
    \/ ~AccessLocked /\ \E u \in Users, k \in AccessKeys :
           \/ \E s \in Selections : \/ PortalCreate(u, k, s) \/ PortalUpdate(u, k, s)
                                     \/ AdminUpdate(k, s) \/ AdminBind(u, k, {s})
           \/ AdminBind(u, k, {}) \/ AdminUnbind(u, k) \/ LoginBind(u, k)
           \/ EnsureUser(k, u) \/ PortalDefault(u, k) \/ PortalDelete(u, k)
           \/ \E new \in AccessKeys : PortalRotate(u, k, new)
    \/ \E u \in Users :
           \/ \E gs \in SUBSET {"team"} : ReplaceGrants(u, gs)
           \/ CheckLogin(u) \/ OpenSession(u) \/ Logout(u)
           \/ \E d \in BOOLEAN : SetDisabled(u, d)
    \/ ~AccessLocked /\ (EditGroup \/ CheckMigration)
    \/ PreviewMigration \/ CommitMigration

AccessNext == transactions < MaxTransactions /\ transactions' = transactions + 1 /\ AccessStep

AccessSpec == AccessInit /\ [][AccessNext]_accessVars

(******************************* properties ********************************)

\* A key that was revoked or rotated opens no model until somebody entitled to
\* (its owner, an administrator, a new binding) gives it access again: not
\* through its old binding, not by being made the default, not by a grant.
RevokedKeyOpensNothing == \A k \in cut : Effective(k) = {}

\* An owned key is bound to nobody but its owner, also when the key started
\* out in an ownership conflict and its bindings were removed one by one.
OwnerBindsAlone == \A k \in AccessKeys : policy[k].owner # NoUser => BoundTo(k) \subseteq {policy[k].owner}

\* A migration is applied to the owner and the group contents the administrator
\* saw in the preview, whoever was bound, unbound or edited in between: the
\* owner is in no fingerprint, the contents are compared before the grant.
MigrationAsPreviewed ==
    [][resolved' /\ ~resolved => /\ migrating.owner = policy[Migrated].owner
                                 /\ migrating.edit = groupEdit]_accessVars

\* "preview is stale; user grants, group content or policy changed": nor is a
\* migration applied on top of other grants than the preview showed.  The code
\* does not guarantee it: a replacement of the grants that commits between the
\* check and the insert goes unnoticed, and a group just taken away is granted
\* again.
GrantsAsPreviewed ==
    [][resolved' /\ ~resolved => migrating.grants = grants[migrating.owner]]_accessVars

\* "when it was the default and bindings remain, another row is promoted so the
\* user still has exactly one default".  The code does not keep this: saving a
\* binding without is_default takes the mark away and promotes no other.
BoundUserHasDefault == \A u \in Users : KeysOf(u) # {} => defaultKey[u] \in KeysOf(u)

\* "Disabling purges every session of the user": no session of a login that
\* began before the user was disabled is usable later.  The code does not
\* guarantee it for a login between its check and its insert.
DisablingEndsLogins == \A u \in sessions : u \in outlived => blocked[u]

(* A revoked key opens nothing, only the owner's account binds a key, and a *)
(* migration is applied to the owner and the group contents its preview     *)
(* showed, whatever logins, rotations, grants and group edits run meanwhile *)
(* (apply_access_mutation, apply_access_migration_one).                     *)
AccessPromise == [](RevokedKeyOpensNothing /\ OwnerBindsAlone) /\ MigrationAsPreviewed
============================================================================
