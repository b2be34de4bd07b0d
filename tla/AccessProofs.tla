---------------------------- MODULE AccessProofs ----------------------------
(* Proofs about Access, for every set of users, actors, aliases and         *)
(* handlers: the type invariant, that objects and their permissions come    *)
(* and go together, that an owner is always listed, and that grants are     *)
(* monotone.                                                                *)
EXTENDS Access, TLAPS

Listed(doc, u) == \E i \in DOMAIN doc : doc[i].user = u

DocOK(doc) ==
    /\ doc \in Seq(Entry)
    /\ \A i, j \in DOMAIN doc : doc[i].user = doc[j].user => i = j

-----------------------------------------------------------------------------
(* What set_permission() makes of a document.                               *)

(* It stays a document with one entry per user, loses no user and has one   *)
(* for the user it was set for.                                             *)
LEMMA SetPermissionOK ==
    ASSUME NEW doc, DocOK(doc), NEW u \in User \cup {World}, NEW l \in LevelOf
    PROVE  /\ DocOK(SetPermission(doc, u, l))
           /\ Listed(SetPermission(doc, u, l), u)
           /\ \A v : Listed(doc, v) => Listed(SetPermission(doc, u, l), v)
           /\ SetPermission(doc, u, l) # <<>>
<1> DEFINE new == SetPermission(doc, u, l)
<1>e. [user |-> u, level |-> l] \in Entry
  BY DEF Entry
<1>s. doc \in Seq(Entry) /\ DOMAIN doc = 1 .. Len(doc) /\ Len(doc) \in Nat
  BY DEF DocOK
<1>1. CASE Listed(doc, u)
  <2>1. new = [i \in DOMAIN doc |-> IF doc[i].user = u THEN [doc[i] EXCEPT !.level = l]
                                    ELSE doc[i]]
    BY <1>1 DEF SetPermission, Listed
  <2>2. \A i \in DOMAIN doc : /\ doc[i] \in Entry /\ new[i] \in Entry
                              /\ new[i].user = doc[i].user
    <3> TAKE i \in DOMAIN doc
    <3>1. doc[i] \in Entry
      BY <1>s
    <3>2. new[i] = IF doc[i].user = u THEN [doc[i] EXCEPT !.level = l] ELSE doc[i]
      BY <2>1
    <3> HIDE DEF new
    <3> QED BY <3>1, <3>2 DEF Entry
  <2>3. DOMAIN new = DOMAIN doc
    BY <2>1
  <2>4. new \in Seq(Entry)
    BY <2>1, <2>2, <1>s
  <2> QED BY <2>2, <2>3, <2>4, <1>1 DEF DocOK, Listed
<1>2. CASE ~Listed(doc, u)
  <2>1. new = Append(doc, [user |-> u, level |-> l])
    BY <1>2 DEF SetPermission, Listed
  <2>2. /\ new \in Seq(Entry) /\ Len(new) = Len(doc) + 1
        /\ DOMAIN new = 1 .. Len(doc) + 1
        /\ \A i \in DOMAIN doc : new[i] = doc[i]
        /\ new[Len(doc) + 1] = [user |-> u, level |-> l]
    BY <2>1, <1>e, <1>s
  <2>3. \A i, j \in DOMAIN new : new[i].user = new[j].user => i = j
    BY <2>2, <1>2, <1>s DEF DocOK, Listed
  <2>4. Listed(new, u) /\ \A v : Listed(doc, v) => Listed(new, v)
    BY <2>2, <1>s DEF Listed
  <2>5. new # <<>>
    BY <2>2, <1>s
  <2> QED BY <2>2, <2>3, <2>4, <2>5 DEF DocOK
<1> QED BY <1>1, <1>2

-----------------------------------------------------------------------------
(* The type invariant.                                                      *)

LEMMA GrantTypes ==
    ASSUME TypeOK, NEW h \in Handler, job[h].pc = "grant",
           job[h].obj \in Object, job[h].to \in User \cup {World}
    PROVE  /\ DocOK(SetPermission(perms[Obj(h)], job[h].to, job[h].level))
           /\ Listed(SetPermission(perms[Obj(h)], job[h].to, job[h].level), job[h].to)
           /\ \A v : Listed(perms[Obj(h)], v) =>
                 Listed(SetPermission(perms[Obj(h)], job[h].to, job[h].level), v)
           /\ SetPermission(perms[Obj(h)], job[h].to, job[h].level) # <<>>
<1>1. DocOK(perms[Obj(h)]) /\ job[h].level \in LevelOf
  BY DEF TypeOK, DocOK, Obj
<1> QED BY <1>1, SetPermissionOK

JobRecord == [pc : Pcs, obj : Object \cup {NoObject}, user : User \cup {NoUser},
              to : User \cup {World, NoUser}, level : LevelOf,
              owner : User \cup {NoUser}]

(* What a job says of itself: the object and the users of one that is under *)
(* way, and the owner that a PUT writes.                                    *)
Fits(j) ==
    IF j.pc = "idle" THEN j = Idle
    ELSE /\ j.obj \in Object /\ j.user \in User /\ j.to \in User \cup {World}
         /\ j.pc = "workers" => j.obj \in Actor
         /\ j.pc \in {"workers", "add"} => j.to = j.user
         /\ j.pc = "add" => j.obj \in Alias
         /\ j.pc = "write" => j.owner \in User

Types == TypeOK /\ \A h \in Handler : Fits(job[h])

Works(h, j) == job' = [job EXCEPT ![h] = j]

LEMMA StepTypes ==
    ASSUME Types, NEW h \in Handler, NEW j \in JobRecord, Fits(j), Works(h, j),
           owner' \in [Object -> User \cup {NoUser}], created' \subseteq Actor,
           DOMAIN perms' = Object, perms' = [o \in Object |-> perms'[o]],
           \A o \in Object : DocOK(perms'[o]),
           grants' \in 0 .. MaxGrants, parted' \subseteq Object
    PROVE  Types'
<1>1. job' \in [Handler -> JobRecord]
  BY DEF Types, TypeOK, JobRecord, Works
<1>2. \A g \in Handler : job'[g] = IF g = h THEN j ELSE job[g]
  BY DEF Types, TypeOK, Works
<1>3. \A g \in Handler : Fits(job[g])'
  BY <1>2 DEF Types, Fits, Idle
<1>4. perms' \in [Object -> Seq(Entry)]
  BY DEF DocOK
<1>5. \A g \in Handler : job'[g].pc = "idle" => job'[g] = Idle
  BY <1>3 DEF Fits, Idle
<1> QED BY <1>1, <1>3, <1>4, <1>5 DEF Types, TypeOK, JobRecord, DocOK, Idle

(* The job with which a handler begins.                                     *)
Begun(pc, u, o) == [pc |-> pc, obj |-> o, user |-> u, to |-> u, level |-> UPDATE,
                    owner |-> owner[o]]

LEMMA BeginWorks ==
    ASSUME Types, NEW h \in Handler, NEW pc \in Pcs \ {"idle"}, NEW u \in User,
           NEW o \in Object, Begin(h, pc, u, o),
           pc = "workers" => o \in Actor, pc = "add" => o \in Alias,
           pc = "write" => Exists(o)
    PROVE  Works(h, Begun(pc, u, o)) /\ Begun(pc, u, o) \in JobRecord
           /\ Fits(Begun(pc, u, o))
<1>1. Works(h, Begun(pc, u, o))
  BY DEF Begin, Works, Begun
<1>2. owner[o] \in User \cup {NoUser}
  BY DEF Types, TypeOK
<1>3. Begun(pc, u, o) \in JobRecord
  BY <1>2 DEF Begun, JobRecord, LevelOf, UPDATE
<1>4. Fits(Begun(pc, u, o))
  BY <1>2 DEF Begun, Fits, Exists
<1> QED BY <1>1, <1>3, <1>4

LEMMA GotoWorks ==
    ASSUME Types, NEW h \in Handler, NEW pc \in Pcs \ {"idle", "workers", "add", "write"},
           Goto(h, pc), job[h].pc # "idle"
    PROVE  LET j == [job[h] EXCEPT !.pc = pc]
           IN  Works(h, j) /\ j \in JobRecord /\ Fits(j)
<1>1. job[h] \in JobRecord /\ Fits(job[h])
  BY DEF Types, TypeOK, JobRecord
<1>2. [job[h] EXCEPT !.pc = pc] \in JobRecord
  BY <1>1 DEF JobRecord
<1>3. Fits([job[h] EXCEPT !.pc = pc])
  BY <1>1 DEF JobRecord, Fits
<1>4. Works(h, [job[h] EXCEPT !.pc = pc])
  BY <1>1 DEF Goto, Works, Types, TypeOK
<1> QED BY <1>2, <1>3, <1>4

LEMMA EndWorks ==
    ASSUME Types, NEW h \in Handler, End(h)
    PROVE  Works(h, Idle) /\ Idle \in JobRecord /\ Fits(Idle)
  BY DEF End, Works, Idle, JobRecord, Fits, Pcs, LevelOf

LEMMA Shares == ASSUME Types, UNCHANGED perms
                PROVE  /\ DOMAIN perms' = Object /\ perms' = [o \in Object |-> perms'[o]]
                       /\ \A o \in Object : DocOK(perms'[o])
  BY DEF Types, TypeOK, DocOK

(* A handler that begins writes nothing but its job, save PostActor.        *)
LEMMA BeginTypes ==
    ASSUME Types, NEW h \in Handler, NEW pc \in Pcs \ {"idle"}, NEW u \in User,
           NEW o \in Object, Begin(h, pc, u, o),
           pc = "workers" => o \in Actor, pc = "add" => o \in Alias,
           pc = "write" => Exists(o),
           owner' \in [Object -> User \cup {NoUser}], created' \subseteq Actor,
           UNCHANGED <<perms, grants, parted>>
    PROVE  Types'
<1>1. Works(h, Begun(pc, u, o)) /\ Begun(pc, u, o) \in JobRecord /\ Fits(Begun(pc, u, o))
  BY BeginWorks
<1>2. grants' \in 0 .. MaxGrants /\ parted' \subseteq Object
  BY DEF Types, TypeOK
<1> QED BY <1>1, <1>2, Shares, StepTypes

LEMMA GotoTypes ==
    ASSUME Types, NEW h \in Handler, NEW pc \in Pcs \ {"idle", "workers", "add", "write"},
           Goto(h, pc), job[h].pc # "idle",
           owner' \in [Object -> User \cup {NoUser}], parted' \subseteq Object,
           UNCHANGED <<created, perms, grants>>
    PROVE  Types'
<1>1. PICK j \in JobRecord : Works(h, j) /\ Fits(j)
  BY GotoWorks
<1>2. grants' \in 0 .. MaxGrants /\ created' \subseteq Actor
  BY DEF Types, TypeOK
<1> QED BY <1>1, <1>2, Shares, StepTypes

LEMMA EndTypes ==
    ASSUME Types, NEW h \in Handler, End(h),
           owner' \in [Object -> User \cup {NoUser}], parted' \subseteq Object,
           DOMAIN perms' = Object, perms' = [o \in Object |-> perms'[o]],
           \A o \in Object : DocOK(perms'[o]),
           UNCHANGED <<created, grants>>
    PROVE  Types'
<1>1. grants' \in 0 .. MaxGrants /\ created' \subseteq Actor
  BY DEF Types, TypeOK
<1> QED BY <1>1, EndWorks, StepTypes

LEMMA TypesInit == Init => Types
<1> SUFFICES ASSUME Init PROVE Types
  OBVIOUS
<1>1. perms \in [Object -> Seq(Entry)] /\ \A o \in Object : DOMAIN perms[o] = {}
  BY DEF Init
<1>2. Idle \in JobRecord /\ Fits(Idle)
  BY DEF Idle, JobRecord, Fits, Pcs, LevelOf
<1>3. 0 \in 0 .. MaxGrants
  BY AccessAssumption DEF AccessAssumption
<1> QED BY <1>1, <1>2, <1>3 DEF Init, Types, TypeOK, JobRecord

LEMMA TypesNext == Types /\ [Next]_vars => Types'
<1> SUFFICES ASSUME Types, [Next]_vars PROVE Types'
  OBVIOUS
<1>o. /\ owner \in [Object -> User \cup {NoUser}] /\ created \subseteq Actor
      /\ parted \subseteq Object /\ grants \in 0 .. MaxGrants
  BY DEF Types, TypeOK
<1>a. ASSUME NEW o \in Actor PROVE o \in Object
  BY DEF Object
<1>l. ASSUME NEW o \in Alias PROVE o \in Object
  BY DEF Object
<1>1. ASSUME NEW h \in Handler, NEW u \in User, NEW a \in Actor, PostActor(h, u, a)
      PROVE  Types'
  <2>1. owner' \in [Object -> User \cup {NoUser}] /\ created' \subseteq Actor
    BY <1>1, <1>o DEF PostActor
  <2> QED BY <2>1, <1>1, <1>a, BeginTypes DEF PostActor, Pcs
<1>2. ASSUME NEW h \in Handler, NEW u \in User, NEW a \in Actor, PutActor(h, u, a)
      PROVE  Types'
  BY <1>2, <1>a, <1>o, BeginTypes DEF PutActor, Pcs
<1>3. ASSUME NEW h \in Handler, NEW u \in User, NEW l \in Alias, PostAlias(h, u, l)
      PROVE  Types'
  BY <1>3, <1>l, <1>o, BeginTypes DEF PostAlias, Pcs
<1>4. ASSUME NEW h \in Handler, NEW u \in User, NEW l \in Alias, PutAlias(h, u, l)
      PROVE  Types'
  BY <1>4, <1>l, <1>o, BeginTypes DEF PutAlias, Pcs
<1>5. ASSUME NEW h \in Handler, NEW u \in User, NEW o \in Object, DeleteObject(h, u, o)
      PROVE  Types'
  BY <1>5, <1>o, BeginTypes DEF DeleteObject, Pcs
<1>6. ASSUME NEW h \in Handler, NEW u \in User, NEW o \in Object,
             NEW to \in User \cup {World}, NEW level \in Granted,
             PostPermission(h, u, o, to, level)
      PROVE  Types'
  <2> DEFINE j == [pc |-> "grant", obj |-> o, user |-> u, to |-> to,
                   level |-> level, owner |-> NoUser]
  <2>1. j \in JobRecord /\ Fits(j)
    BY AccessAssumption DEF JobRecord, Fits, Pcs, AccessAssumption
  <2>2. Works(h, j) /\ grants' \in 0 .. MaxGrants
    BY <1>6, AccessAssumption DEF PostPermission, Works, AccessAssumption, Types, TypeOK
  <2>3. UNCHANGED <<owner, created, perms, parted>>
    BY <1>6 DEF PostPermission
  <2> QED BY <2>1, <2>2, <2>3, <1>o, Shares, StepTypes
<1>7. ASSUME NEW h \in Handler, EnsureWorker(h) PROVE Types'
  <2>1. job[h].obj \in Object /\ parted' \subseteq Object
    BY <1>7, <1>o DEF EnsureWorker, Types, Fits, Obj
  <2> QED BY <1>7, <1>o, <2>1, GotoTypes, EndTypes, Shares DEF EnsureWorker, Pcs
<1>8. ASSUME NEW h \in Handler, AddAlias(h) PROVE Types'
  <2>1. job[h].obj \in Object /\ job[h].user \in User
    BY <1>8 DEF AddAlias, Types, Fits
  <2>2. parted' \subseteq Object /\ owner' \in [Object -> User \cup {NoUser}]
    BY <1>8, <1>o, <2>1 DEF AddAlias, Obj
  <2> QED BY <1>8, <1>o, <2>2, GotoTypes, EndTypes, Shares DEF AddAlias, Pcs
<1>9. ASSUME NEW h \in Handler, WriteObject(h) PROVE Types'
  <2>1. owner' \in [Object -> User \cup {NoUser}]
    BY <1>9, <1>o DEF WriteObject, Types, Fits
  <2> QED BY <1>9, <1>o, <2>1, GotoTypes, EndTypes, Shares DEF WriteObject, Pcs
<1>10. ASSUME NEW h \in Handler, Grant(h) PROVE Types'
  <2>1. DocOK(SetPermission(perms[Obj(h)], job[h].to, job[h].level))
    BY <1>10, GrantTypes DEF Grant, Types, Fits
  <2>2. /\ DOMAIN perms' = Object /\ perms' = [o \in Object |-> perms'[o]]
        /\ \A o \in Object : DocOK(perms'[o])
    <3> DEFINE new == SetPermission(perms[Obj(h)], job[h].to, job[h].level)
    <3>1. perms' = [perms EXCEPT ![Obj(h)] = new]
      BY <1>10 DEF Grant
    <3>2. /\ DOMAIN perms = Object /\ perms = [o \in Object |-> perms[o]]
          /\ \A o \in Object : DocOK(perms[o])
      BY DEF Types, TypeOK, DocOK
    <3> HIDE DEF new
    <3>3. DOMAIN perms' = Object /\ perms' = [o \in Object |-> perms'[o]]
      BY <3>1, <3>2
    <3>4. \A o \in Object : perms'[o] \in {perms[o], new}
      BY <3>1, <3>2
    <3>5. DocOK(new)
      BY <2>1 DEF new
    <3> QED BY <3>2, <3>3, <3>4, <3>5
  <2> QED BY <1>10, <1>o, <2>2, EndTypes DEF Grant
<1>11. ASSUME NEW h \in Handler, RemoveObject(h) PROVE Types'
  <2>1. owner' \in [Object -> User \cup {NoUser}] /\ parted' \subseteq Object
    BY <1>11, <1>o DEF RemoveObject, Part, Types, Fits, Obj
  <2> QED BY <1>11, <1>o, <2>1, GotoTypes DEF RemoveObject, Pcs
<1>12. ASSUME NEW h \in Handler, RemovePermissions(h) PROVE Types'
  <2>1. parted' \subseteq Object
    BY <1>12, <1>o DEF RemovePermissions, Part, Types, Fits, Obj
  <2>2. DocOK(<<>>)
    BY DEF DocOK
  <2>3. /\ DOMAIN perms' = Object /\ perms' = [o \in Object |-> perms'[o]]
        /\ \A o \in Object : DocOK(perms'[o])
    <3>1. perms' = [perms EXCEPT ![Obj(h)] = <<>>]
      BY <1>12 DEF RemovePermissions
    <3>2. /\ DOMAIN perms = Object /\ perms = [o \in Object |-> perms[o]]
          /\ \A o \in Object : DocOK(perms[o])
      BY DEF Types, TypeOK, DocOK
    <3>3. DOMAIN perms' = Object /\ perms' = [o \in Object |-> perms'[o]]
      BY <3>1, <3>2
    <3>4. \A o \in Object : perms'[o] \in {perms[o], <<>>}
      BY <3>1, <3>2
    <3> QED BY <2>2, <3>2, <3>3, <3>4
  <2> QED BY <1>12, <1>o, <2>1, <2>3, EndTypes DEF RemovePermissions
<1>13. CASE UNCHANGED vars
  BY <1>13 DEF vars, Types, TypeOK, Fits, Idle
<1> QED
  BY <1>1, <1>2, <1>3, <1>4, <1>5, <1>6, <1>7, <1>8, <1>9, <1>10, <1>11, <1>12, <1>13
     DEF Next

(* Every variable keeps to its type: a permissions document has one entry   *)
(* per user at most, whatever handlers write to it.                         *)
THEOREM Typing == Spec => []TypeOK
<1>1. Types => TypeOK
  BY DEF Types
<1> QED BY <1>1, TypesInit, TypesNext, PTL DEF Spec

-----------------------------------------------------------------------------
(* Objects and permissions: the inductive invariant.  Ids are generated     *)
(* before anything is done about an actor ...                               *)
Fresh ==
    /\ \A h \in Handler : job[h].obj \in Actor => job[h].obj \in created
    /\ \A a \in Actor : Exists(a) => a \in created

(* ... a handler finds what it is about to complete as it left it ...       *)
Pending(g, o) ==
    /\ job[g].pc = "workers" => owner[o] = job[g].to
    /\ job[g].pc = "write" => owner[o] = job[g].owner
    /\ job[g].pc = "grant" /\ o \in Alias => Exists(o)
    /\ job[g].pc = "unpermit" => ~Exists(o)

(* ... an owner without an entry has a handler that will set it ...         *)
OwnerComing(o) ==
    Exists(o) /\ ~HasEntry(o, owner[o]) =>
        \E h \in Handler : job[h].obj = o /\ job[h].pc \in {"workers", "grant"}
                           /\ job[h].to = owner[o]

(* ... and what is left of an alias has a handler that will remove it.      *)
LeavesNothing(o) ==
    o \in Alias /\ ~Exists(o) /\ perms[o] # <<>> =>
        \E h \in Handler : job[h].obj = o /\ job[h].pc = "unpermit"

Sound(o) == /\ OwnerComing(o) /\ LeavesNothing(o)
            /\ \A g \in Handler : job[g].obj = o => Pending(g, o)

Joined == \A o \in Object \ parted : Sound(o)

IInv == Types /\ Fresh /\ Joined

LEMMA WorksOthers ==
    ASSUME Types, NEW h \in Handler, NEW j, Works(h, j)
    PROVE  job'[h] = j /\ \A g \in Handler \ {h} : job'[g] = job[g]
  BY DEF Types, TypeOK, Works

LEMMA NotIdle ==
    ASSUME Types, NEW g \in Handler, job[g].obj \in Object
    PROVE  job[g].pc # "idle"
  BY AccessAssumption DEF Types, Fits, Idle, AccessAssumption

(* A step on one object leaves the others sound ...                         *)
LEMMA JoinedStep ==
    ASSUME Types, Joined, NEW h \in Handler, NEW j, Works(h, j), NEW oo \in Object,
           job[h].obj \in {oo, NoObject}, j.obj \in {oo, NoObject},
           \A o \in Object \ {oo} : /\ owner'[o] = owner[o] /\ perms'[o] = perms[o]
                                    /\ o \in parted' <=> o \in parted,
           oo \notin parted' => Sound(oo)'
    PROVE  Joined'
<1> SUFFICES ASSUME NEW o \in Object, o \notin parted', o # oo PROVE Sound(o)'
  BY DEF Joined
<1>1. Sound(o) /\ owner'[o] = owner[o] /\ perms'[o] = perms[o]
  BY DEF Joined
<1>2. NoObject # o
  BY AccessAssumption DEF AccessAssumption
<1>3. \A g \in Handler : (job[g].obj = o \/ job'[g].obj = o) => job'[g] = job[g]
  BY <1>2, WorksOthers
<1>4. OwnerComing(o)'
  BY <1>1, <1>3 DEF Sound, OwnerComing, Exists, HasEntry
<1>5. LeavesNothing(o)'
  BY <1>1, <1>3 DEF Sound, LeavesNothing, Exists
<1>6. ASSUME NEW g \in Handler, job'[g].obj = o PROVE Pending(g, o)'
  <2>1. job'[g] = job[g] /\ Pending(g, o)
    BY <1>1, <1>3, <1>6 DEF Sound
  <2> QED BY <2>1, <1>1 DEF Pending, Exists
<1> QED BY <1>4, <1>5, <1>6 DEF Sound

(* ... and keeps the order of generation and use of an id.                  *)
LEMMA FreshStep ==
    ASSUME Types, Fresh, NEW h \in Handler, NEW j, Works(h, j),
           j.obj \in Actor => j.obj \in created', created \subseteq created',
           \A a \in Actor : owner'[a] # NoUser => owner[a] # NoUser \/ a \in created'
    PROVE  Fresh'
  BY WorksOthers DEF Fresh, Exists

(* A step of a handler that does not write the object itself.               *)
LEMMA QuietSound ==
    ASSUME Types, NEW h \in Handler, NEW j, Works(h, j), NEW oo \in Object, Sound(oo),
           job[h].obj = oo => job[h].pc \notin {"grant", "unpermit"},
           job[h].obj = oo /\ job[h].pc = "workers" => j.obj = oo /\ j.pc = "grant"
                                                      /\ j.to = job[h].to,
           owner'[oo] = owner[oo], perms'[oo] = perms[oo],
           j.obj = oo => /\ j.pc = "workers" => owner[oo] = j.to
                         /\ j.pc = "write" => owner[oo] = j.owner
                         /\ j.pc = "grant" /\ oo \in Alias => Exists(oo)
                         /\ j.pc = "unpermit" => ~Exists(oo)
    PROVE  Sound(oo)'
<1>1. job'[h] = j /\ \A g \in Handler \ {h} : job'[g] = job[g]
  BY WorksOthers
<1>2. OwnerComing(oo)'
  <2> SUFFICES ASSUME Exists(oo), ~HasEntry(oo, owner[oo])
               PROVE  \E g \in Handler : job'[g].obj = oo /\ job'[g].pc \in {"workers", "grant"}
                                         /\ job'[g].to = owner[oo]
    BY DEF OwnerComing, Exists, HasEntry
  <2>1. PICK g \in Handler : job[g].obj = oo /\ job[g].pc \in {"workers", "grant"}
                             /\ job[g].to = owner[oo]
    BY DEF Sound, OwnerComing
  <2> QED BY <2>1, <1>1
<1>3. LeavesNothing(oo)'
  <2> SUFFICES ASSUME oo \in Alias, ~Exists(oo), perms[oo] # <<>>
               PROVE  \E g \in Handler : job'[g].obj = oo /\ job'[g].pc = "unpermit"
    BY DEF LeavesNothing, Exists
  <2>1. PICK g \in Handler : job[g].obj = oo /\ job[g].pc = "unpermit"
    BY DEF Sound, LeavesNothing
  <2> QED BY <2>1, <1>1
<1>4. ASSUME NEW g \in Handler, job'[g].obj = oo PROVE Pending(g, oo)'
  <2>1. CASE g = h
    BY <2>1, <1>1, <1>4 DEF Pending, Exists
  <2>2. CASE g # h
    BY <2>2, <1>1, <1>4 DEF Sound, Pending, Exists
  <2> QED BY <2>1, <2>2
<1> QED BY <1>2, <1>3, <1>4 DEF Sound

(* The beginning of a handler that writes nothing yet.                      *)
LEMMA BeginInv ==
    ASSUME IInv, NEW h \in Handler, job[h] = Idle, NEW pc \in Pcs \ {"idle"},
           NEW u \in User, NEW o \in Object, Begin(h, pc, u, o),
           pc \in {"add", "write", "delete"},
           pc = "add" => o \in Alias, pc = "write" => Exists(o),
           o \in Actor => o \in created,
           UNCHANGED <<owner, created, perms, parted>>
    PROVE  Fresh' /\ Joined'
<1> DEFINE j == Begun(pc, u, o)
<1>1. Works(h, j) /\ j.obj = o /\ j.pc = pc /\ j.owner = owner[o]
  BY BeginWorks DEF IInv, Begun
<1>2. job[h].obj = NoObject /\ o # NoObject
  BY AccessAssumption DEF Idle, AccessAssumption
<1>3. Fresh'
  BY <1>1, FreshStep DEF IInv
<1>4. o \notin parted => Sound(o)'
  <2> HIDE DEF j
  <2> QED BY <1>1, <1>2, QuietSound DEF IInv, Joined
<1> HIDE DEF j
<1>5. Joined'
  BY <1>1, <1>2, <1>4, JoinedStep DEF IInv
<1> QED BY <1>3, <1>5

-----------------------------------------------------------------------------
(* What each action does to the inductive invariant.                        *)

LEMMA KnownCreated ==
    ASSUME Fresh, NEW o \in Object, Known(o) \/ Exists(o), o \in Actor
    PROVE  o \in created
  BY AccessAssumption DEF Fresh, Known, AccessAssumption

LEMMA BeginActions ==
    ASSUME IInv, NEW h \in Handler, NEW u \in User, NEW o \in Object,
           \/ o \in Actor /\ PutActor(h, u, o)
           \/ o \in Alias /\ (PostAlias(h, u, o) \/ PutAlias(h, u, o))
           \/ DeleteObject(h, u, o)
    PROVE  Fresh' /\ Joined'
<1>1. Actor \cap Alias = {} /\ Fresh
  BY AccessAssumption DEF AccessAssumption, IInv
<1>2. CASE o \in Actor /\ PutActor(h, u, o)
  BY <1>2, <1>1, KnownCreated, BeginInv DEF PutActor, Pcs
<1>3. CASE o \in Alias /\ PostAlias(h, u, o)
  BY <1>3, <1>1, BeginInv DEF PostAlias, Pcs
<1>4. CASE o \in Alias /\ PutAlias(h, u, o)
  BY <1>4, <1>1, BeginInv DEF PutAlias, Pcs
<1>5. CASE DeleteObject(h, u, o)
  BY <1>5, <1>1, KnownCreated, BeginInv DEF DeleteObject, Pcs
<1> QED BY <1>2, <1>3, <1>4, <1>5

(* A new actor is nobody else's yet.                                        *)
LEMMA PostActorInv ==
    ASSUME IInv, NEW h \in Handler, NEW u \in User, NEW a \in Actor, PostActor(h, u, a)
    PROVE  Fresh' /\ Joined'
<1> DEFINE j == Begun("workers", u, a)
<1>1. /\ Works(h, j) /\ j.obj = a /\ j.pc = "workers" /\ j.to = u
  BY BeginWorks DEF IInv, Begun, PostActor, Pcs, Object
<1>2. job[h].obj = NoObject /\ a # NoObject /\ a \in Object /\ a \notin Alias
  BY AccessAssumption DEF Idle, AccessAssumption, PostActor, Object
<1>3. /\ owner'[a] = u /\ \A o \in Object \ {a} : owner'[o] = owner[o]
      /\ created' = created \cup {a} /\ UNCHANGED <<perms, parted>>
  BY <1>2 DEF PostActor, IInv, Types, TypeOK
<1> HIDE DEF j
<1>4. Fresh'
  BY <1>1, <1>2, <1>3, FreshStep DEF IInv, Object
<1>5. \A g \in Handler \ {h} : job'[g].obj # a
  BY <1>1, WorksOthers DEF IInv, Fresh, PostActor
<1>6. job'[h] = j
  BY <1>1, WorksOthers DEF IInv
<1>7. Sound(a)'
  <2>1. OwnerComing(a)'
    BY <1>1, <1>3, <1>6 DEF OwnerComing
  <2>2. LeavesNothing(a)'
    BY <1>2 DEF LeavesNothing
  <2>3. \A g \in Handler : job'[g].obj = a => Pending(g, a)'
    BY <1>1, <1>3, <1>5, <1>6 DEF Pending
  <2> QED BY <2>1, <2>2, <2>3 DEF Sound
<1>8. Joined'
  BY <1>1, <1>2, <1>3, <1>7, JoinedStep DEF IInv
<1> QED BY <1>4, <1>8

LEMMA PostPermissionInv ==
    ASSUME IInv, NEW h \in Handler, NEW u \in User, NEW o \in Object,
           NEW to \in User \cup {World}, NEW level \in Granted,
           PostPermission(h, u, o, to, level)
    PROVE  Fresh' /\ Joined'
<1> DEFINE j == [pc |-> "grant", obj |-> o, user |-> u, to |-> to,
                 level |-> level, owner |-> NoUser]
<1>1. Works(h, j) /\ j.obj = o /\ j.pc = "grant"
  BY DEF PostPermission, Works
<1>2. job[h].obj = NoObject /\ o # NoObject
  BY AccessAssumption DEF Idle, AccessAssumption, PostPermission
<1>3. UNCHANGED <<owner, created, perms, parted>> /\ Known(o)
  BY DEF PostPermission
<1>4. o \in Actor => o \in created
  BY <1>3, KnownCreated DEF IInv
<1>5. o \in Alias => Exists(o)
  BY <1>3 DEF Known
<1> HIDE DEF j
<1>6. Fresh'
  BY <1>1, <1>3, <1>4, FreshStep DEF IInv
<1>7. o \notin parted => Sound(o)'
  BY <1>1, <1>2, <1>3, <1>5, QuietSound DEF IInv, Joined
<1>8. Joined'
  BY <1>1, <1>2, <1>3, <1>7, JoinedStep DEF IInv
<1> QED BY <1>6, <1>8

(* A step of a handler on its object: the object stays known, and no other  *)
(* object is concerned.                                                     *)
LEMMA WorkInv ==
    ASSUME IInv, NEW h \in Handler, NEW j, Works(h, j), NEW oo \in Object,
           job[h].obj = oo, j.obj \in {oo, NoObject},
           \A o \in Object \ {oo} : /\ owner'[o] = owner[o] /\ perms'[o] = perms[o]
                                    /\ o \in parted' <=> o \in parted,
           created' = created,
           oo \notin parted' => Sound(oo)'
    PROVE  Fresh' /\ Joined'
<1>1. NoObject \notin Object
  BY AccessAssumption DEF AccessAssumption
<1>2. j.obj \in Actor => j.obj \in created
  BY <1>1 DEF IInv, Fresh, Object
<1>3. ASSUME NEW a \in Actor, owner'[a] # NoUser
      PROVE  owner[a] # NoUser \/ a \in created
  <2>1. CASE a = job[h].obj
    BY <2>1 DEF IInv, Fresh
  <2>2. CASE a # job[h].obj
    BY <2>2, <1>3 DEF Object
  <2> QED BY <2>1, <2>2
<1>4. Fresh'
  BY <1>2, <1>3, FreshStep DEF IInv
<1>5. Joined'
  BY JoinedStep DEF IInv
<1> QED BY <1>4, <1>5

LEMMA EnsureWorkerInv ==
    ASSUME IInv, NEW h \in Handler, EnsureWorker(h)
    PROVE  Fresh' /\ Joined'
<1>0. PICK oo \in Object : oo = Obj(h)
  BY DEF EnsureWorker, IInv, Types, Fits, Obj
<1>1. /\ oo \in Object /\ oo \in Actor /\ oo \notin Alias /\ job[h].pc = "workers"
      /\ UNCHANGED <<owner, created, perms>> /\ oo = job[h].obj
  BY <1>0, AccessAssumption DEF AccessAssumption, EnsureWorker, IInv, Types, Fits, Obj
<1>2. CASE Goto(h, "grant") /\ UNCHANGED parted
  <2> DEFINE j == [job[h] EXCEPT !.pc = "grant"]
  <2>1. Works(h, j)
    BY <1>1, <1>2, GotoWorks DEF IInv, Pcs
  <2>2. j.pc = "grant" /\ j.obj = oo /\ j.to = job[h].to
    BY <1>1 DEF IInv, Types, TypeOK
  <2> HIDE DEF j
  <2>3. oo \notin parted' => Sound(oo)'
    BY <1>1, <1>2, <2>1, <2>2, QuietSound DEF IInv, Joined
  <2> QED BY <1>1, <1>2, <2>1, <2>2, <2>3, WorkInv
<1>3. CASE End(h) /\ parted' = parted \cup {oo}
  <2>1. Works(h, Idle) /\ Idle.obj = NoObject
    BY <1>3, EndWorks DEF IInv, Idle
  <2> QED BY <1>1, <1>3, <2>1, WorkInv
<1> QED BY <1>0, <1>2, <1>3 DEF EnsureWorker

(* A free name: a removal that is still to come tears the two apart.        *)
LEMMA AddAliasInv ==
    ASSUME IInv, NEW h \in Handler, AddAlias(h)
    PROVE  Fresh' /\ Joined'
<1>0. PICK oo \in Object : oo = Obj(h)
  BY DEF AddAlias, IInv, Types, Fits, Obj
<1>1. /\ oo \in Object /\ oo \in Alias /\ oo \notin Actor /\ job[h].pc = "add"
      /\ UNCHANGED <<created, perms>> /\ oo = job[h].obj
      /\ job[h].to = job[h].user /\ job[h].user \in User
  BY <1>0, AccessAssumption DEF AccessAssumption, AddAlias, IInv, Types, Fits, Obj
<1>2. CASE Exists(oo)
  <2>1. End(h) /\ UNCHANGED <<owner, parted>>
    BY <1>0, <1>2 DEF AddAlias
  <2>2. Works(h, Idle) /\ Idle.obj = NoObject /\ NoObject # oo
    BY <1>1, <2>1, EndWorks, AccessAssumption DEF IInv, Idle, AccessAssumption
  <2>3. oo \notin parted' => Sound(oo)'
    BY <1>1, <2>1, <2>2, QuietSound DEF IInv, Joined
  <2> QED BY <1>1, <2>1, <2>2, <2>3, WorkInv
<1>3. CASE ~Exists(oo)
  <2> DEFINE j == [job[h] EXCEPT !.pc = "grant"]
  <2>1. Goto(h, "grant") /\ owner' = [owner EXCEPT ![oo] = job[h].user]
        /\ parted' = IF \E g \in Handler : job[g].pc = "unpermit" /\ Obj(g) = oo
                     THEN parted \cup {oo} ELSE parted
    BY <1>0, <1>3 DEF AddAlias
  <2>2. Works(h, j)
    BY <1>1, <2>1, GotoWorks DEF IInv, Pcs
  <2>3. j.pc = "grant" /\ j.obj = oo /\ j.to = job[h].user
    BY <1>1 DEF IInv, Types, TypeOK
  <2>4. owner'[oo] = job[h].user /\ \A o \in Object \ {oo} : owner'[o] = owner[o]
    BY <1>1, <2>1 DEF IInv, Types, TypeOK
  <2>5. NoUser \notin User
    BY AccessAssumption DEF AccessAssumption
  <2>6. job'[h] = j /\ \A g \in Handler \ {h} : job'[g] = job[g]
    BY <2>2, WorksOthers DEF IInv
  <2>7. \A g \in Handler : Obj(g) = job[g].obj
    BY DEF Obj
  <2> HIDE DEF j
  <2>8. ASSUME oo \notin parted' PROVE Sound(oo)'
    <3>1. Sound(oo) /\ \A g \in Handler : ~(job[g].pc = "unpermit" /\ job[g].obj = oo)
      BY <1>1, <2>1, <2>7, <2>8 DEF IInv, Joined
    <3>2. OwnerComing(oo)'
      BY <1>1, <2>3, <2>4, <2>6 DEF OwnerComing
    <3>3. LeavesNothing(oo)'
      BY <1>1, <2>4, <2>5 DEF LeavesNothing, Exists
    <3>4. ASSUME NEW g \in Handler, job'[g].obj = oo PROVE Pending(g, oo)'
      <4>1. CASE g = h
        BY <4>1, <1>1, <2>3, <2>4, <2>5, <2>6 DEF Pending, Exists
      <4>2. CASE g # h
        <5>1. job'[g] = job[g] /\ Pending(g, oo) /\ Fits(job[g])
          BY <4>2, <2>6, <3>1, <3>4 DEF Sound, IInv, Types
        <5>2. job[g].pc # "workers"
          BY <5>1, <1>1, <3>4 DEF Fits, Idle
        <5>3. job[g].pc # "write"
          BY <5>1, <1>3, <2>5 DEF Pending, Fits, Exists
        <5> QED BY <5>1, <5>2, <5>3, <3>1, <3>4, <1>1, <2>4, <2>5 DEF Pending, Exists
      <4> QED BY <4>1, <4>2
    <3> QED BY <3>2, <3>3, <3>4 DEF Sound
  <2> QED BY <1>1, <2>1, <2>2, <2>3, <2>4, <2>8, WorkInv
<1> QED BY <1>2, <1>3

(* A PUT writes the owner that the object has.                              *)
LEMMA WriteObjectInv ==
    ASSUME IInv, NEW h \in Handler, WriteObject(h)
    PROVE  Fresh' /\ Joined'
<1>0. PICK oo \in Object : oo = Obj(h)
  BY DEF WriteObject, IInv, Types, Fits, Obj
<1>1. /\ oo \in Object /\ job[h].pc = "write" /\ UNCHANGED <<created, perms, parted>>
      /\ oo = job[h].obj /\ job[h].owner \in User
      /\ owner' = [owner EXCEPT ![oo] = job[h].owner]
  BY <1>0 DEF WriteObject, IInv, Types, Fits, Obj
<1>2. PICK j : Works(h, j) /\ j.obj \in {oo, NoObject} /\ j.pc \in {"idle", "grant"}
  <2>1. CASE End(h)
    BY <2>1, EndWorks DEF IInv, Idle
  <2>2. CASE Goto(h, "grant")
    <3> DEFINE k == [job[h] EXCEPT !.pc = "grant"]
    <3>1. Works(h, k)
      BY <1>1, <2>2, GotoWorks DEF IInv, Pcs
    <3>2. k.pc = "grant" /\ k.obj = oo
      BY <1>1 DEF IInv, Types, TypeOK
    <3> QED BY <3>1, <3>2
  <2> QED BY <2>1, <2>2 DEF WriteObject
<1>3. \A o \in Object \ {oo} : owner'[o] = owner[o]
  BY <1>1 DEF IInv, Types, TypeOK
<1>4. NoUser \notin User
  BY AccessAssumption DEF AccessAssumption
<1>5. ASSUME oo \notin parted' PROVE Sound(oo)'
  <2>1. Sound(oo)
    BY <1>1, <1>5 DEF IInv, Joined
  <2>2. owner[oo] = job[h].owner
    BY <1>1, <2>1 DEF Sound, Pending
  <2>3. owner'[oo] = owner[oo] /\ Exists(oo)
    BY <1>1, <1>4, <2>2 DEF IInv, Types, TypeOK, Exists
  <2> QED BY <1>1, <1>2, <2>1, <2>3, QuietSound DEF IInv
<1> QED BY <1>1, <1>2, <1>3, <1>5, WorkInv

(* Setting a permission settles what the handler had pending.               *)
LEMMA GrantInv ==
    ASSUME IInv, NEW h \in Handler, Grant(h)
    PROVE  Fresh' /\ Joined'
<1>0. PICK oo \in Object : oo = Obj(h)
  BY DEF Grant, IInv, Types, Fits, Obj
<1>1. /\ job[h].pc = "grant" /\ UNCHANGED <<owner, created, parted>>
      /\ oo = job[h].obj /\ job[h].to \in User \cup {World}
      /\ perms' = [perms EXCEPT ![oo] = SetPermission(@, job[h].to, job[h].level)]
  BY <1>0 DEF Grant, IInv, Types, Fits, Obj
<1>2. Works(h, Idle) /\ Idle.obj = NoObject /\ NoObject # oo
  BY EndWorks, AccessAssumption DEF Grant, IInv, Idle, AccessAssumption
<1>3. /\ \A o \in Object \ {oo} : perms'[o] = perms[o]
      /\ perms'[oo] = SetPermission(perms[oo], job[h].to, job[h].level)
  BY <1>1 DEF IInv, Types, TypeOK
<1>4. /\ Listed(perms'[oo], job[h].to)
      /\ \A v : Listed(perms[oo], v) => Listed(perms'[oo], v)
  BY <1>0, <1>1, <1>3, GrantTypes DEF IInv, Types
<1>5. job'[h] = Idle /\ \A g \in Handler \ {h} : job'[g] = job[g]
  BY <1>2, WorksOthers DEF IInv
<1>6. ASSUME oo \notin parted' PROVE Sound(oo)'
  <2>1. Sound(oo)
    BY <1>1, <1>6 DEF IInv, Joined
  <2>2. OwnerComing(oo)'
    <3> SUFFICES ASSUME Exists(oo), ~Listed(perms'[oo], owner[oo])
                 PROVE  \E g \in Handler : job'[g].obj = oo /\ job'[g].pc \in {"workers", "grant"}
                                           /\ job'[g].to = owner[oo]
      BY <1>1 DEF OwnerComing, Exists, HasEntry, Listed
    <3>1. PICK g \in Handler : job[g].obj = oo /\ job[g].pc \in {"workers", "grant"}
                               /\ job[g].to = owner[oo]
      BY <1>4, <2>1 DEF Sound, OwnerComing, HasEntry, Listed
    <3>2. g # h
      BY <1>4, <3>1
    <3> QED BY <1>5, <3>1, <3>2
  <2>3. LeavesNothing(oo)'
    BY <1>1, <2>1 DEF Sound, Pending, LeavesNothing, Exists
  <2>4. \A g \in Handler : job'[g].obj = oo => Pending(g, oo)'
    BY <1>1, <1>2, <1>5, <2>1 DEF Sound, Pending, Exists
  <2> QED BY <2>2, <2>3, <2>4 DEF Sound
<1> QED BY <1>1, <1>2, <1>3, <1>6, WorkInv

(* A removal that nobody crosses leaves no handler but its own.             *)
LEMMA RemoveObjectInv ==
    ASSUME IInv, NEW h \in Handler, RemoveObject(h)
    PROVE  Fresh' /\ Joined'
<1>0. PICK oo \in Object : oo = Obj(h)
  BY DEF RemoveObject, IInv, Types, Fits, Obj
<1> DEFINE j == [job[h] EXCEPT !.pc = "unpermit"]
<1>1. /\ job[h].pc = "delete" /\ UNCHANGED <<created, perms>> /\ oo = job[h].obj
      /\ owner' = [owner EXCEPT ![oo] = NoUser] /\ Goto(h, "unpermit")
      /\ parted' = IF \E g \in Handler \ {h} : job[g].obj = oo
                   THEN parted \cup {oo} ELSE parted
  BY <1>0 DEF RemoveObject, Part, Crossed, Obj
<1>2. Works(h, j)
  BY <1>1, GotoWorks DEF IInv, Pcs
<1>3. j.pc = "unpermit" /\ j.obj = oo
  BY <1>1 DEF IInv, Types, TypeOK
<1> HIDE DEF j
<1>4. owner'[oo] = NoUser /\ \A o \in Object \ {oo} : owner'[o] = owner[o]
  BY <1>1 DEF IInv, Types, TypeOK
<1>5. job'[h] = j /\ \A g \in Handler \ {h} : job'[g] = job[g]
  BY <1>2, WorksOthers DEF IInv
<1>6. ASSUME oo \notin parted' PROVE Sound(oo)'
  <2>1. \A g \in Handler \ {h} : job'[g].obj # oo
    BY <1>1, <1>5, <1>6
  <2>2. OwnerComing(oo)' /\ LeavesNothing(oo)'
    BY <1>3, <1>4, <1>5 DEF OwnerComing, LeavesNothing, Exists
  <2>3. \A g \in Handler : job'[g].obj = oo => Pending(g, oo)'
    BY <2>1, <1>3, <1>4, <1>5 DEF Pending, Exists
  <2> QED BY <2>2, <2>3 DEF Sound
<1> QED BY <1>1, <1>2, <1>3, <1>4, <1>6, WorkInv

LEMMA RemovePermissionsInv ==
    ASSUME IInv, NEW h \in Handler, RemovePermissions(h)
    PROVE  Fresh' /\ Joined'
<1>0. PICK oo \in Object : oo = Obj(h)
  BY DEF RemovePermissions, IInv, Types, Fits, Obj
<1>1. /\ job[h].pc = "unpermit" /\ UNCHANGED <<owner, created>> /\ oo = job[h].obj
      /\ perms' = [perms EXCEPT ![oo] = <<>>] /\ End(h)
      /\ parted' = IF \E g \in Handler \ {h} : job[g].obj = oo
                   THEN parted \cup {oo} ELSE parted
  BY <1>0 DEF RemovePermissions, Part, Crossed, Obj
<1>2. Works(h, Idle) /\ Idle.obj = NoObject /\ NoObject # oo
  BY <1>1, EndWorks, AccessAssumption DEF IInv, Idle, AccessAssumption
<1>3. perms'[oo] = <<>> /\ \A o \in Object \ {oo} : perms'[o] = perms[o]
  BY <1>1 DEF IInv, Types, TypeOK
<1>4. job'[h] = Idle /\ \A g \in Handler \ {h} : job'[g] = job[g]
  BY <1>2, WorksOthers DEF IInv
<1>5. ASSUME oo \notin parted' PROVE Sound(oo)'
  <2>1. \A g \in Handler : job'[g].obj # oo
    BY <1>1, <1>2, <1>4, <1>5
  <2>2. ~Exists(oo)
    BY <1>1, <1>5 DEF IInv, Joined, Sound, Pending
  <2> QED BY <1>1, <1>3, <2>1, <2>2 DEF Sound, OwnerComing, LeavesNothing, Exists
<1> QED BY <1>1, <1>2, <1>3, <1>5, WorkInv

LEMMA IInvInit == Init => IInv
<1> SUFFICES ASSUME Init PROVE Fresh /\ Joined
  BY TypesInit DEF IInv
<1>1. NoObject \notin Object /\ Actor \subseteq Object
  BY AccessAssumption DEF AccessAssumption, Object
<1>2. \A h \in Handler : job[h].obj = NoObject
  BY DEF Init, Idle
<1>3. \A o \in Object : ~Exists(o) /\ perms[o] = <<>>
  BY DEF Init, Exists
<1> QED BY <1>1, <1>2, <1>3
        DEF Fresh, Joined, Sound, OwnerComing, LeavesNothing, Pending

LEMMA IInvNext == IInv /\ [Next]_vars => IInv'
<1> SUFFICES ASSUME IInv, [Next]_vars PROVE Fresh' /\ Joined'
  BY TypesNext DEF IInv
<1>a. Actor \subseteq Object /\ Alias \subseteq Object
  BY DEF Object
<1>1. ASSUME NEW h \in Handler, NEW u \in User, NEW a \in Actor,
             PostActor(h, u, a) \/ PutActor(h, u, a)
      PROVE  Fresh' /\ Joined'
  BY <1>1, <1>a, PostActorInv, BeginActions
<1>2. ASSUME NEW h \in Handler, NEW u \in User, NEW l \in Alias,
             PostAlias(h, u, l) \/ PutAlias(h, u, l)
      PROVE  Fresh' /\ Joined'
  BY <1>2, <1>a, BeginActions
<1>3. ASSUME NEW h \in Handler, NEW u \in User, NEW o \in Object, DeleteObject(h, u, o)
      PROVE  Fresh' /\ Joined'
  BY <1>3, BeginActions
<1>4. ASSUME NEW h \in Handler, EnsureWorker(h) \/ AddAlias(h) \/ WriteObject(h)
                                \/ Grant(h) \/ RemoveObject(h) \/ RemovePermissions(h)
      PROVE  Fresh' /\ Joined'
  BY <1>4, EnsureWorkerInv, AddAliasInv, WriteObjectInv, GrantInv, RemoveObjectInv,
     RemovePermissionsInv
<1>5. CASE UNCHANGED vars
  BY <1>5 DEF vars, IInv, Fresh, Joined, Sound, OwnerComing, LeavesNothing, Pending,
              Exists, HasEntry
<1> QED BY <1>1, <1>2, <1>3, <1>4, <1>5, PostPermissionInv DEF Next

(* An object that no handler works on, and that no removal was crossed on,  *)
(* has a permissions document if it exists; an alias has none if it does    *)
(* not (controllers.py:339-370, 442-467, 737-877).                          *)
THEOREM ObjectsAndPermissions == Spec => []PermissionsMatchStores
<1>1. IInv => PermissionsMatchStores
  BY DEF IInv, Joined, Sound, OwnerComing, LeavesNothing, HasEntry, Quiet,
         PermissionsMatchStores
<1> QED BY <1>1, IInvInit, IInvNext, PTL DEF Spec

(* Its owner has an entry there, whoever shared and changed it.             *)
THEOREM OwnersAreListed == Spec => []OwnerIsListed
<1>1. IInv => OwnerIsListed
  BY DEF IInv, Joined, Sound, OwnerComing, Quiet, OwnerIsListed
<1> QED BY <1>1, IInvInit, IInvNext, PTL DEF Spec

-----------------------------------------------------------------------------
(* What a grant takes away.                                                 *)

Decides(doc, i, u, level) ==
    /\ i \in DOMAIN doc /\ doc[i].user \in {u, World}
    /\ \A j \in 1 .. i - 1 : doc[j].user \notin {u, World}
    /\ doc[i].user = World \/ doc[i].level >= level

LEMMA SetPermissionMonotone ==
    ASSUME NEW doc, DocOK(doc), NEW to \in User \cup {World}, NEW l \in LevelOf,
           NEW u \in User, NEW level \in LevelOf, NEW i, Decides(doc, i, u, level)
    PROVE  Decides(SetPermission(doc, to, l), i, u, level) \/ (to = u /\ Listed(doc, u) /\ l < level)
<1> DEFINE new == SetPermission(doc, to, l)
<1>1. doc \in Seq(Entry) /\ DOMAIN doc = 1 .. Len(doc) /\ Len(doc) \in Nat /\ i \in 1 .. Len(doc)
  BY DEF DocOK, Decides
<1>2. \A j \in 1 .. i - 1 : j \in DOMAIN doc
  BY <1>1
<1>3. CASE Listed(doc, to)
  <2>1. new = [j \in DOMAIN doc |-> IF doc[j].user = to THEN [doc[j] EXCEPT !.level = l]
                                    ELSE doc[j]]
    BY <1>3 DEF SetPermission, Listed
  <2>2. \A j \in DOMAIN doc : doc[j] \in Entry
    BY <1>1
  <2>3. \A j \in DOMAIN doc : new[j] = IF doc[j].user = to THEN [doc[j] EXCEPT !.level = l]
                                       ELSE doc[j]
    BY <2>1
  <2>4. DOMAIN new = DOMAIN doc
    BY <2>1
  <2> HIDE DEF new
  <2>5. \A j \in DOMAIN doc : /\ new[j].user = doc[j].user
                              /\ new[j].level = IF doc[j].user = to THEN l ELSE doc[j].level
    BY <2>2, <2>3 DEF Entry
  <2>6. u # World
    BY AccessAssumption DEF AccessAssumption
  <2>7. Decides(new, i, u, level) \/ (to = u /\ Listed(doc, u) /\ l < level)
    BY <1>1, <1>2, <2>4, <2>5, <2>6 DEF Decides, Listed, LevelOf
  <2> QED BY <2>7 DEF new
<1>4. CASE ~Listed(doc, to)
  <2>1. new = Append(doc, [user |-> to, level |-> l])
    BY <1>4 DEF SetPermission, Listed
  <2>2. DOMAIN new = 1 .. Len(doc) + 1 /\ \A j \in DOMAIN doc : new[j] = doc[j]
    BY <2>1, <1>1 DEF Entry
  <2> QED BY <1>1, <1>2, <2>2 DEF Decides
<1> QED BY <1>3, <1>4

(* Granting a level to somebody leaves everybody the access that they had,  *)
(* unless it lowers the user's own entry (models.py:1890-1898,              *)
(* auth.py:312-345).                                                        *)
THEOREM Monotone == Spec => GrantsAreMonotone
<1> DEFINE Step ==
      \A h \in Handler : Grant(h) =>
          \A o \in {Obj(h)}, u \in User, level \in LevelOf :
             CheckPermissions(u, o, level) =>
                \/ CheckPermissions(u, o, level)'
                \/ job[h].to = u /\ HasEntry(o, u) /\ job[h].level < level
<1>1. ASSUME Types PROVE Step
  <2> SUFFICES ASSUME NEW h \in Handler, Grant(h), NEW o, o = Obj(h), NEW u \in User,
                      NEW level \in LevelOf, CheckPermissions(u, o, level)
               PROVE  \/ CheckPermissions(u, o, level)'
                      \/ job[h].to = u /\ HasEntry(o, u) /\ job[h].level < level
    OBVIOUS
  <2>1. /\ o \in Object /\ job[h].to \in User \cup {World} /\ job[h].level \in LevelOf
        /\ DocOK(perms[o])
    BY <1>1 DEF Grant, Types, TypeOK, Fits, Obj, DocOK
  <2>2. perms'[o] = SetPermission(perms[o], job[h].to, job[h].level)
    BY <2>1, <1>1 DEF Grant, Types, TypeOK, Obj
  <2>3. PICK i : Decides(perms[o], i, u, level)
    BY DEF CheckPermissions, Decides
  <2>4. Decides(perms'[o], i, u, level)
        \/ (job[h].to = u /\ Listed(perms[o], u) /\ job[h].level < level)
    BY <2>1, <2>2, <2>3, SetPermissionMonotone
  <2> QED BY <2>4 DEF CheckPermissions, Decides, HasEntry, Listed
<1>2. Types /\ [Next]_vars => [Step]_vars
  BY <1>1
<1>3. Spec => [][Step]_vars
  BY <1>2, TypesInit, TypesNext, PTL DEF Spec
<1> QED BY <1>3 DEF GrantsAreMonotone
=============================================================================
