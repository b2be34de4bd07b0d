------------------------------- MODULE Access -------------------------------
(* Permissions on actors and aliases (auth.py, models.set_permission() and  *)
(* the handlers of controllers.py that register, change, share and remove   *)
(* them).  An object has a document in actors_store or alias_store and one  *)
(* in permissions_store, which no handler writes in one access: between     *)
(* the two, other handlers look at them, and objects come and go.           *)
EXTENDS Integers, Sequences

CONSTANTS
    User,
    World,      \* the user ABACO_WORLD, with whom everybody shares
    Admin,      \* the users with the admin role
    Actor,      \* ids that get_uuid() may generate
    Alias,      \* alias names, which may be used again
    Handler,    \* threads of the API
    NoUser,     \* the owner of an object that is not in its store
    NoObject,   \* what an idle handler works on
    Granted,    \* the levels that POST of a permission is tried with
    MaxGrants   \* bound: POSTs of permissions

READ == 1
UPDATE == 3
LevelOf == 0 .. 3
Object == Actor \cup Alias

ASSUME AccessAssumption ==
    /\ World \notin User /\ NoUser \notin User \cup {World}
    /\ Admin \subseteq User
    /\ Actor \cap Alias = {} /\ NoObject \notin Object
    /\ Granted \subseteq LevelOf
    /\ MaxGrants \in Nat

VARIABLES
    owner,    \* the attribute `owner` of each document of the two stores
    created,  \* the ids generated so far
    perms,    \* the permissions document of each object: its entries in the
              \* order in which they were first set; none: no document
    job,      \* what each handler is about to do
    grants,   \* how many permissions were POSTed
    parted    \* history: objects with handlers that crossed a removal, or
              \* whose registration failed half way

vars == <<owner, created, perms, job, grants, parted>>

Entry == [user : User \cup {World}, level : LevelOf]
Pcs == {"idle", "workers", "add", "write", "grant", "delete", "unpermit"}
Idle == [pc |-> "idle", obj |-> NoObject, user |-> NoUser, to |-> NoUser,
         level |-> 0, owner |-> NoUser]

Init ==
    /\ owner = [o \in Object |-> NoUser]
    /\ created = {}
    /\ perms = [o \in Object |-> <<>>]
    /\ job = [h \in Handler |-> Idle]
    /\ grants = 0
    /\ parted = {}

-----------------------------------------------------------------------------
Exists(o) == owner[o] # NoUser
HasEntry(o, u) == \E i \in DOMAIN perms[o] : perms[o][i].user = u

(* The walk of check_permissions() over the document: the first entry that  *)
(* is the user's own or ABACO_WORLD's decides, the latter whatever its      *)
(* level.                                                                   *)
CheckPermissions(u, o, level) ==
    \E i \in DOMAIN perms[o] :
        /\ perms[o][i].user \in {u, World}
        /\ \A j \in 1 .. i - 1 : perms[o][j].user \notin {u, World}
        /\ perms[o][i].user = World \/ perms[o][i].level >= level

(* authorization(): admins need no permission.                              *)
Authorized(u, o) == u \in Admin \/ CheckPermissions(u, o, UPDATE)

(* set_permission(): two accesses, of which the last write counts; a new    *)
(* field comes after the others, and a missing document is made.            *)
SetPermission(doc, u, level) ==
    IF \E i \in DOMAIN doc : doc[i].user = u
    THEN [i \in DOMAIN doc |-> IF doc[i].user = u THEN [doc[i] EXCEPT !.level = level]
                               ELSE doc[i]]
    ELSE Append(doc, [user |-> u, level |-> level])

Begin(h, pc, u, o) ==
    job' = [job EXCEPT ![h] = [pc |-> pc, obj |-> o, user |-> u, to |-> u,
                               level |-> UPDATE, owner |-> owner[o]]]
Goto(h, pc) == job' = [job EXCEPT ![h].pc = pc]
End(h) == job' = [job EXCEPT ![h] = Idle]

(* get_db_id() looks an alias up, and takes any id of an actor.             *)
Known(o) == IF o \in Alias THEN Exists(o) ELSE o \in created

Obj(h) == job[h].obj
(* Another handler is between two accesses to the same object.              *)
Crossed(h) == \E g \in Handler \ {h} : job[g].obj = Obj(h)

-----------------------------------------------------------------------------
(* ActorsResource.post(): the document, a worker, then the permission.      *)
PostActor(h, u, a) ==
    /\ job[h] = Idle
    /\ a \notin created
    /\ created' = created \cup {a}
    /\ owner' = [owner EXCEPT ![a] = u]
    /\ Begin(h, "workers", u, a)
    /\ UNCHANGED <<perms, grants, parted>>

(* ensure_one_worker() needs the store and the broker, and may raise.       *)
EnsureWorker(h) ==
    /\ job[h].pc = "workers"
    /\ \/ Goto(h, "grant") /\ UNCHANGED parted
       \/ End(h) /\ parted' = parted \cup {Obj(h)}
    /\ UNCHANGED <<owner, created, perms, grants>>

(* ActorResource.put(): the whole document is written again, with the owner *)
(* it had; if that is not the user, the user gets a permission.             *)
PutActor(h, u, a) ==
    /\ job[h] = Idle
    /\ Exists(a) /\ Authorized(u, a)
    /\ Begin(h, "write", u, a)
    /\ UNCHANGED <<owner, created, perms, grants, parted>>

(* AliasesResource.post(): an existing actor the user may update ...        *)
PostAlias(h, u, l) ==
    /\ job[h] = Idle
    /\ \E a \in Actor : Exists(a) /\ CheckPermissions(u, a, UPDATE)
    /\ Begin(h, "add", u, l)
    /\ UNCHANGED <<owner, created, perms, grants, parted>>

(* ... and a name that is free: check_and_create_alias().                   *)
AddAlias(h) ==
    /\ job[h].pc = "add"
    /\ IF Exists(Obj(h))
       THEN End(h) /\ UNCHANGED <<owner, parted>>
       ELSE /\ owner' = [owner EXCEPT ![Obj(h)] = job[h].user]
            /\ parted' = IF \E g \in Handler : job[g].pc = "unpermit" /\ Obj(g) = Obj(h)
                         THEN parted \cup {Obj(h)} ELSE parted
            /\ Goto(h, "grant")
    /\ UNCHANGED <<created, perms, grants>>

(* AliasResource.put(): the user may update the alias and the new actor.    *)
PutAlias(h, u, l) ==
    /\ job[h] = Idle
    /\ Exists(l) /\ Authorized(u, l)
    /\ \E a \in Actor : Authorized(u, a)
    /\ Begin(h, "write", u, l)
    /\ UNCHANGED <<owner, created, perms, grants, parted>>

(* The late write of both PUTs, which makes a document that was removed.    *)
WriteObject(h) ==
    /\ job[h].pc = "write"
    /\ owner' = [owner EXCEPT ![Obj(h)] = job[h].owner]
    /\ IF Obj(h) \in Actor /\ job[h].owner = job[h].user THEN End(h) ELSE Goto(h, "grant")
    /\ UNCHANGED <<created, perms, grants, parted>>

(* PermissionsResource.post(): any level for any user.                      *)
PostPermission(h, u, o, to, level) ==
    /\ job[h] = Idle
    /\ grants < MaxGrants
    /\ grants' = grants + 1
    /\ Authorized(u, o) /\ Known(o)
    /\ job' = [job EXCEPT ![h] = [pc |-> "grant", obj |-> o, user |-> u, to |-> to,
                                  level |-> level, owner |-> NoUser]]
    /\ UNCHANGED <<owner, created, perms, parted>>

(* Mutant of Grant: a new entry comes before the others.                    *)
GrantFirst(h) ==
    /\ job[h].pc = "grant"
    /\ perms' = [perms EXCEPT ![Obj(h)] =
                    IF HasEntry(Obj(h), job[h].to)
                    THEN SetPermission(@, job[h].to, job[h].level)
                    ELSE <<[user |-> job[h].to, level |-> job[h].level]>> \o @]
    /\ End(h)
    /\ UNCHANGED <<owner, created, grants, parted>>

(* Mutant of Grant: the entry is added without a look for an older one.     *)
GrantAppends(h) ==
    /\ job[h].pc = "grant"
    /\ perms' = [perms EXCEPT ![Obj(h)] =
                    Append(@, [user |-> job[h].to, level |-> job[h].level])]
    /\ End(h)
    /\ UNCHANGED <<owner, created, grants, parted>>

(* Mutant of Grant: the permission takes the place of the document.         *)
GrantReplaces(h) ==
    /\ job[h].pc = "grant"
    /\ perms' = [perms EXCEPT ![Obj(h)] =
                    <<[user |-> job[h].to, level |-> job[h].level]>>]
    /\ End(h)
    /\ UNCHANGED <<owner, created, grants, parted>>

(* set_permission(), the last step of a registration, a PUT and a POST of a *)
(* permission; nobody looks whether the object is still there.              *)
Grant(h) ==
    /\ job[h].pc = "grant"
    /\ perms' = [perms EXCEPT ![Obj(h)] = SetPermission(@, job[h].to, job[h].level)]
    /\ End(h)
    /\ UNCHANGED <<owner, created, grants, parted>>

(* DELETE of an actor, which shuts its workers down first, or of an alias.  *)
DeleteObject(h, u, o) ==
    /\ job[h] = Idle
    /\ Authorized(u, o) /\ Known(o)
    /\ Begin(h, "delete", u, o)
    /\ UNCHANGED <<owner, created, perms, grants, parted>>

Part(h) == parted' = IF Crossed(h) THEN parted \cup {Obj(h)} ELSE parted

RemoveObject(h) ==
    /\ job[h].pc = "delete"
    /\ owner' = [owner EXCEPT ![Obj(h)] = NoUser]
    /\ Part(h)
    /\ Goto(h, "unpermit")
    /\ UNCHANGED <<created, perms, grants>>

(* Mutant of RemovePermissions: only the user's own permission is removed.  *)
RemoveOwnPermission(h) ==
    /\ job[h].pc = "unpermit"
    /\ perms' = [perms EXCEPT ![Obj(h)] = SelectSeq(@, LAMBDA e : e.user # job[h].user)]
    /\ Part(h)
    /\ End(h)
    /\ UNCHANGED <<owner, created, grants>>

RemovePermissions(h) ==
    /\ job[h].pc = "unpermit"
    /\ perms' = [perms EXCEPT ![Obj(h)] = <<>>]
    /\ Part(h)
    /\ End(h)
    /\ UNCHANGED <<owner, created, grants>>

Next ==
    \E h \in Handler :
       \/ \E u \in User :
            \/ \E a \in Actor : PostActor(h, u, a) \/ PutActor(h, u, a)
            \/ \E l \in Alias : PostAlias(h, u, l) \/ PutAlias(h, u, l)
            \/ \E o \in Object :
                 \/ DeleteObject(h, u, o)
                 \/ \E to \in User \cup {World}, level \in Granted :
                       PostPermission(h, u, o, to, level)
       \/ EnsureWorker(h) \/ AddAlias(h) \/ WriteObject(h) \/ Grant(h)
       \/ RemoveObject(h) \/ RemovePermissions(h)

Spec == Init /\ [][Next]_vars

-----------------------------------------------------------------------------
TypeOK ==
    /\ owner \in [Object -> User \cup {NoUser}]
    /\ created \subseteq Actor
    /\ perms \in [Object -> Seq(Entry)]
    /\ \A o \in Object : \A i, j \in DOMAIN perms[o] :
          perms[o][i].user = perms[o][j].user => i = j
    /\ job \in [Handler -> [pc : Pcs, obj : Object \cup {NoObject},
                            user : User \cup {NoUser},
                            to : User \cup {World, NoUser}, level : LevelOf,
                            owner : User \cup {NoUser}]]
    /\ \A h \in Handler : job[h].pc = "idle" => job[h] = Idle
    /\ grants \in 0 .. MaxGrants
    /\ parted \subseteq Object

Quiet(o) == \A h \in Handler : job[h].obj # o

(* An object and its permissions come and go together: an actor that has    *)
(* no permissions document makes GET /actors fail for everybody             *)
(* (controllers.py:697, models.py:1887), and permissions that outlive an    *)
(* alias are the next owner's of that name.  Only handlers that cross a     *)
(* removal, and a registration that fails half way, part the two.           *)
PermissionsMatchStores ==
    \A o \in Object \ parted : Quiet(o) =>
        /\ Exists(o) => perms[o] # <<>>
        /\ o \in Alias /\ perms[o] # <<>> => Exists(o)

(* The owner of an object is never without an entry of its own, whoever     *)
(* shares and changes it: what others are granted is added, and a PUT by    *)
(* another user leaves the owner as it is.                                  *)
OwnerIsListed ==
    \A o \in Object \ parted :
        Quiet(o) /\ Exists(o) => HasEntry(o, owner[o])

(* A permission that is granted takes nobody's access away, unless it       *)
(* lowers an entry that the user has already: neither ABACO_WORLD's entry   *)
(* nor a first entry of a low level for a user who has access through it.   *)
(* This rests on the order of the fields of a document (auth.py:338-353).   *)
GrantsAreMonotone ==
    [][\A h \in Handler : Grant(h) =>
          \A o \in {Obj(h)}, u \in User, level \in LevelOf :
             CheckPermissions(u, o, level) =>
                \/ CheckPermissions(u, o, level)'
                \/ job[h].to = u /\ HasEntry(o, u) /\ job[h].level < level]_vars
=============================================================================
