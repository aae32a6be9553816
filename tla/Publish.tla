------------------------------- MODULE Publish -------------------------------
(***************************************************************************)
(* Uploading, publishing, yanking and reconciling artifacts.               *)
(*                                                                         *)
(* Worker threads run PUT /artifact/... (handle_artifact), the             *)
(* reconciliation thread runs reconcile_stale_pending, administrators      *)
(* create and delete groups.  They share the object store (files) and the  *)
(* database.  The server holds no lock across calls and opens no           *)
(* transaction, so one store call or one SQL statement is one atomic step  *)
(* here, and everything else may happen between two of them.               *)
(***************************************************************************)
EXTENDS Naturals, FiniteSets

CONSTANTS Worker,          \* request threads
          Coord,           \* coordinates group:artifact:version
          Group, GroupOf,  \* groups, and the group of each coordinate
          Body, Names,     \* request bodies, and what each says as a now.pasta
          None, Torn,      \* null value; a file truncated or only partly written
          HasRegistryKey,  \* is a countersigning key configured?
          Aging,           \* may pending rows outlive the pending timeout?
          GroupAdmin,      \* are there group administration requests?
          BatchCap,        \* rows one reconciliation pass collects (100 in the code)
          MaxPuts,         \* bound: upload requests
          MaxFaults,       \* bound: failing store calls and SQL statements
          MaxCrashes       \* bound: crashes

(* What a now.pasta may be instead of naming a coordinate. *)
Flaw == {"unparsable", "invalid", "fieldless"}

ASSUME PublishAssumption ==
  /\ GroupOf \in [Coord -> Group]
  /\ Names \in [Body -> Coord \cup Flaw]
  /\ Coord \cap Flaw = {}
  /\ None \notin Body \cup Coord \cup Group
  /\ Torn \notin Body \cup {None}
  /\ {HasRegistryKey, Aging, GroupAdmin} \subseteq BOOLEAN
  /\ {BatchCap, MaxPuts, MaxFaults, MaxCrashes} \subseteq Nat

VARIABLES
  objects,    \* [Key -> Body, Torn or None]: the files uploaded
  countersig, \* [Key -> Body or None]: what key.countersig signs
  shafile,    \* [Coord -> Body or None]: what now.pasta.sha256 hashes
  groups,     \* SUBSET Group: table groups
  rows,       \* [Coord -> Row]: table artifacts
  semver,     \* [Coord -> Nat]: number of rows of table artifact_semver
  worker,     \* [Worker -> [pc, key, body]]
  recon,      \* reconciliation thread: rows collected, row being deleted
  deleting,   \* group whose DELETE has passed the reference count
  acked,      \* uploads answered 201: a set of <<key, body>>
  crossed,    \* history: keys with two uploads under way at one time
  aged,       \* history: coordinates with a row that outlived the pending timeout
  puts, faults, crashes \* what has been used of the bounds

store == <<objects, countersig, shafile>>
db    == <<groups, rows, semver>>
admin == <<recon, deleting>>
past  == <<crossed, aged>>
used  == <<past, puts, faults, crashes>>
vars  == <<store, db, worker, admin, acked, used>>

File == {"now.pasta", "archive"}
Key  == [coord : Coord, file : File]

Row == [status : {"absent", "pending", "published"},
        sha : Body \cup {None}, yanked : {0, 1}, stale : BOOLEAN]

NoRow == [status |-> "absent", sha |-> None, yanked |-> 0, stale |-> FALSE]

Pc == {"idle", "body", "write", "unlinked", "countersign", "parse",
       "group", "row", "semver", "check", "publish"}

Idle == [pc |-> "idle", key |-> None, body |-> None]

Init ==
  /\ objects = [k \in Key |-> None]
  /\ countersig = [k \in Key |-> None]
  /\ shafile = [c \in Coord |-> None]
  /\ groups = {}
  /\ rows = [c \in Coord |-> NoRow]
  /\ semver = [c \in Coord |-> 0]
  /\ worker = [w \in Worker |-> Idle]
  /\ recon = [todo |-> {}, cur |-> None]
  /\ deleting = None
  /\ acked = {}
  /\ crossed = {} /\ aged = {}
  /\ puts = 0 /\ faults = 0 /\ crashes = 0

-----------------------------------------------------------------------------
(* The request of a worker. *)

At(w, pc) == worker[w].pc = pc

KeyOf(w) == worker[w].key

BodyOf(w) == worker[w].body

IsDescriptor(w) == KeyOf(w).file = "now.pasta"

(* Mutant: the coordinate of the URL, whatever the descriptor says. *)
UrlTarget(w) == KeyOf(w).coord

(* The coordinate try_publish is called with: the one the descriptor names, *)
(* or for any other file the one in the URL.                                *)
Target(w) == IF IsDescriptor(w) THEN Names[BodyOf(w)] ELSE KeyOf(w).coord

DescriptorKey(c) == [coord |-> c, file |-> "now.pasta"]

Goto(w, pc) == worker' = [worker EXCEPT ![w].pc = pc]

(* Answer without creating anything, and answer 201. *)
Refuse(w) == worker' = [worker EXCEPT ![w] = Idle]

Created(w) ==
  /\ worker' = [worker EXCEPT ![w] = Idle]
  /\ acked' = acked \cup {<<KeyOf(w), BodyOf(w)>>}

AfterWrite(w) ==
  IF HasRegistryKey THEN "countersign"
  ELSE IF IsDescriptor(w) THEN "parse" ELSE "check"

(* Mutant: every file is parsed as a descriptor. *)
AfterCountersignParse(w) == "parse"

AfterCountersign(w) == IF IsDescriptor(w) THEN "parse" ELSE "check"

-----------------------------------------------------------------------------
(* PUT: the immutability check, then the body, then fs_put. *)

PutConflict(w) == \* 409
  /\ At(w, "idle")
  /\ puts < MaxPuts
  /\ \E k \in Key : objects[k] # None
  /\ puts' = puts + 1
  /\ UNCHANGED <<store, db, worker, admin, acked, past, faults, crashes>>

(* Uploads under way of one key. *)
Uploads(k) == {w \in Worker : ~At(w, "idle") /\ KeyOf(w) = k}

(* Mutant: no immutability check. *)
PutUnchecked(w) ==
  /\ At(w, "idle")
  /\ puts < MaxPuts
  /\ \E k \in Key, b \in Body :
       /\ worker' = [worker EXCEPT ![w] = [pc |-> "body", key |-> k, body |-> b]]
       /\ crossed' = IF Uploads(k) = {} THEN crossed ELSE crossed \cup {k}
  /\ puts' = puts + 1
  /\ UNCHANGED <<store, db, admin, acked, aged, faults, crashes>>

PutAdmitted(w) ==
  /\ At(w, "idle")
  /\ puts < MaxPuts
  /\ \E k \in Key, b \in Body :
       /\ objects[k] = None
       /\ worker' = [worker EXCEPT ![w] = [pc |-> "body", key |-> k, body |-> b]]
       /\ crossed' = IF Uploads(k) = {} THEN crossed ELSE crossed \cup {k}
  /\ puts' = puts + 1
  /\ UNCHANGED <<store, db, admin, acked, aged, faults, crashes>>

(* 413 or 400: too large, empty, not ASCII, not a .repro document. *)
RejectBody(w) ==
  /\ At(w, "body")
  /\ Refuse(w)
  /\ UNCHANGED <<store, db, admin, acked, used>>

(* fopen(path, "wb") creates or truncates the file. *)
OpenObject(w) ==
  /\ At(w, "body")
  /\ objects' = [objects EXCEPT ![KeyOf(w)] = Torn]
  /\ Goto(w, "write")
  /\ UNCHANGED <<countersig, shafile, db, admin, acked, used>>

(* Is somebody else writing this file, or has somebody since it was opened? *)
Contended(w) ==
  \/ objects[KeyOf(w)] # Torn
  \/ \E v \in Worker \ {w} : At(v, "write") /\ KeyOf(v) = KeyOf(w)

(* fwrite and fclose; two writers of one file may leave a mix of both. *)
WriteObject(w) ==
  /\ At(w, "write")
  /\ \E o \in IF Contended(w) THEN {BodyOf(w), Torn} ELSE {BodyOf(w)} :
       objects' = [objects EXCEPT ![KeyOf(w)] = o]
  /\ Goto(w, AfterWrite(w))
  /\ UNCHANGED <<countersig, shafile, db, admin, acked, used>>

(* The file was removed while open: the bytes go to an unlinked inode. *)
WriteUnlinked(w) ==
  /\ At(w, "unlinked")
  /\ Goto(w, AfterWrite(w))
  /\ UNCHANGED <<store, db, admin, acked, used>>

(* fopen or fwrite fails: 500, and what was written stays. *)
PutFails(w) ==
  /\ worker[w].pc \in {"body", "write", "unlinked"}
  /\ faults < MaxFaults
  /\ faults' = faults + 1
  /\ Refuse(w)
  /\ UNCHANGED <<store, db, admin, acked, past, puts, crashes>>

Countersign(w) ==
  /\ At(w, "countersign")
  /\ countersig' = [countersig EXCEPT ![KeyOf(w)] = BodyOf(w)]
  /\ Goto(w, AfterCountersign(w))
  /\ UNCHANGED <<objects, shafile, db, admin, acked, used>>

-----------------------------------------------------------------------------
(* PUT of a now.pasta: validation and registration. *)

(* store->del(key): the name is gone; a writer holding the file open keeps *)
(* writing to the unlinked inode.                                           *)
Unlink(k, w) ==
  /\ objects' = [objects EXCEPT ![k] = None]
  /\ worker' = [v \in Worker |->
                  IF v = w THEN Idle
                  ELSE IF At(v, "write") /\ KeyOf(v) = k
                       THEN [worker[v] EXCEPT !.pc = "unlinked"]
                       ELSE worker[v]]

RejectDescriptor(w) == \* 400, the file just stored is removed
  /\ At(w, "parse")
  /\ Names[BodyOf(w)] \in {"unparsable", "invalid"}
  /\ Unlink(KeyOf(w), w)
  /\ UNCHANGED <<countersig, shafile, db, admin, acked, used>>

AcceptFieldless(w) == \* 201, nothing is registered
  /\ At(w, "parse")
  /\ Names[BodyOf(w)] = "fieldless"
  /\ Created(w)
  /\ UNCHANGED <<store, db, admin, used>>

(* Mutant: the .sha256 file goes to the coordinate the descriptor names. *)
WriteShafileNamed(w) ==
  /\ At(w, "parse")
  /\ Names[BodyOf(w)] \in Coord
  /\ shafile' = [shafile EXCEPT ![Target(w)] = BodyOf(w)]
  /\ Goto(w, "group")
  /\ UNCHANGED <<objects, countersig, db, admin, acked, used>>

WriteShafile(w) ==
  /\ At(w, "parse")
  /\ Names[BodyOf(w)] \in Coord
  /\ shafile' = [shafile EXCEPT ![KeyOf(w).coord] = BodyOf(w)]
  /\ Goto(w, "group")
  /\ UNCHANGED <<objects, countersig, db, admin, acked, used>>

InsertGroup(w) ==
  /\ At(w, "group")
  /\ groups' = groups \cup {GroupOf[Target(w)]}
  /\ Goto(w, "row")
  /\ UNCHANGED <<store, rows, semver, admin, acked, used>>

(* INSERT OR IGNORE INTO artifacts: ignored when the row is there, refused *)
(* by the foreign key when the group is not; the caller looks at neither.  *)
InsertRow(w) ==
  LET c == Target(w) IN
  /\ At(w, "row")
  /\ rows' = IF rows[c].status = "absent" /\ GroupOf[c] \in groups
             THEN [rows EXCEPT ![c] = [status |-> "pending", sha |-> BodyOf(w),
                                       yanked |-> 0, stale |-> FALSE]]
             ELSE rows
  /\ Goto(w, "semver")
  /\ UNCHANGED <<store, groups, semver, admin, acked, used>>

(* Mutant: only a published artifact gets a semver row. *)
InsertSemverPublished(w) ==
  LET c == Target(w) IN
  /\ At(w, "semver")
  /\ semver' = IF rows[c].status = "published"
               THEN [semver EXCEPT ![c] = @ + 1]
               ELSE semver
  /\ Goto(w, "check")
  /\ UNCHANGED <<store, groups, rows, admin, acked, used>>

(* artifact_semver has no key: a second insert adds a second row. *)
InsertSemver(w) ==
  LET c == Target(w) IN
  /\ At(w, "semver")
  /\ semver' = IF rows[c].status # "absent"
               THEN [semver EXCEPT ![c] = @ + 1]
               ELSE semver
  /\ Goto(w, "check")
  /\ UNCHANGED <<store, groups, rows, admin, acked, used>>

-----------------------------------------------------------------------------
(* try_publish: is there a now.pasta?  Then promote the pending row. *)

(* Mutant: publish without looking. *)
CheckNothing(w) ==
  /\ At(w, "check")
  /\ Goto(w, "publish")
  /\ UNCHANGED <<store, db, admin, acked, used>>

CheckDescriptor(w) ==
  /\ At(w, "check")
  /\ IF objects[DescriptorKey(Target(w))] # None
     THEN Goto(w, "publish") /\ UNCHANGED acked
     ELSE Created(w)
  /\ UNCHANGED <<store, db, admin, used>>

PublishRow(w) ==
  LET c == Target(w) IN
  /\ At(w, "publish")
  /\ rows' = IF rows[c].status = "pending"
             THEN [rows EXCEPT ![c].status = "published"]
             ELSE rows
  /\ Created(w)
  /\ UNCHANGED <<store, groups, semver, admin, used>>

(* A store call or SQL statement whose status the handler ignores fails:   *)
(* the request goes on as if it had been done.                             *)
IgnoredFault(w) ==
  /\ faults < MaxFaults
  /\ faults' = faults + 1
  /\ \/ At(w, "countersign") /\ Goto(w, AfterCountersign(w)) /\ UNCHANGED acked
     \/ At(w, "parse") /\ Names[BodyOf(w)] \in {"unparsable", "invalid"}
                       /\ Refuse(w) /\ UNCHANGED acked
     \/ At(w, "parse") /\ Names[BodyOf(w)] \in Coord
                       /\ Goto(w, "group") /\ UNCHANGED acked
     \/ At(w, "group") /\ Goto(w, "row") /\ UNCHANGED acked
     \/ At(w, "row") /\ Goto(w, "semver") /\ UNCHANGED acked
     \/ At(w, "semver") /\ Goto(w, "check") /\ UNCHANGED acked
     \/ At(w, "publish") /\ Created(w)
  /\ UNCHANGED <<store, db, admin, past, puts, crashes>>

-----------------------------------------------------------------------------
(* POST .../yank, in any status. *)
Yank(c) ==
  /\ rows[c].status # "absent"
  /\ rows' = [rows EXCEPT ![c].yanked = 1]
  /\ UNCHANGED <<store, groups, semver, worker, admin, acked, used>>

(* The pending timeout of a row passes. *)
Age(c) ==
  /\ Aging
  /\ rows[c].status = "pending" /\ ~rows[c].stale
  /\ rows' = [rows EXCEPT ![c].stale = TRUE]
  /\ aged' = aged \cup {c}
  /\ UNCHANGED <<store, groups, semver, worker, admin, acked, crossed, puts, faults, crashes>>

StalePending == {c \in Coord : rows[c].status = "pending" /\ rows[c].stale}

(* reconcile_stale_pending collects at most BatchCap rows, then deletes     *)
(* them one by one with two statements each.                                *)
ReconSelect ==
  /\ recon.todo = {}
  /\ \E S \in SUBSET StalePending :
       /\ S # {}
       /\ Cardinality(S) <= BatchCap
       /\ S = StalePending \/ Cardinality(S) = BatchCap
       /\ recon' = [recon EXCEPT !.todo = S]
  /\ UNCHANGED <<store, db, worker, deleting, acked, used>>

(* Mutant: the rows that refer to the artifact are left. *)
ReconSkipSemver(c) ==
  /\ recon.cur = None
  /\ c \in recon.todo
  /\ recon' = [recon EXCEPT !.cur = c]
  /\ UNCHANGED <<store, db, worker, deleting, acked, used>>

ReconDeleteSemver(c) ==
  /\ recon.cur = None
  /\ c \in recon.todo
  /\ semver' = [semver EXCEPT ![c] = 0]
  /\ recon' = [recon EXCEPT !.cur = c]
  /\ UNCHANGED <<store, groups, rows, worker, deleting, acked, used>>

(* Mutant: no AND status = 'pending' in the DELETE. *)
DeletableAnyStatus(c) == semver[c] = 0

(* DELETE ... AND status = 'pending'; refused by the foreign key if a       *)
(* semver row has come back.                                                *)
Deletable(c) == rows[c].status = "pending" /\ semver[c] = 0

ReconDeleteRow(c) ==
  /\ recon.cur = c
  /\ rows' = IF Deletable(c) THEN [rows EXCEPT ![c] = NoRow] ELSE rows
  /\ recon' = [todo |-> recon.todo \ {c}, cur |-> None]
  /\ UNCHANGED <<store, groups, semver, worker, deleting, acked, used>>

ReconFault(c) ==
  /\ faults < MaxFaults
  /\ faults' = faults + 1
  /\ \/ recon.cur = None /\ c \in recon.todo /\ recon' = [recon EXCEPT !.cur = c]
     \/ recon.cur = c /\ recon' = [todo |-> recon.todo \ {c}, cur |-> None]
  /\ UNCHANGED <<store, db, worker, deleting, acked, past, puts, crashes>>

-----------------------------------------------------------------------------
(* /admin/groups *)

CreateGroup(g) ==
  /\ GroupAdmin
  /\ g \notin groups \* 409 otherwise
  /\ groups' = groups \cup {g}
  /\ UNCHANGED <<store, rows, semver, worker, admin, acked, used>>

References(g) == {c \in Coord : GroupOf[c] = g /\ rows[c].status # "absent"}

CountReferences(g) ==
  /\ GroupAdmin
  /\ deleting = None
  /\ References(g) = {} \* 409 otherwise
  /\ deleting' = g
  /\ UNCHANGED <<store, db, worker, recon, acked, used>>

(* Mutant: the count is trusted, no foreign key. *)
DeleteCountedGroup(g) ==
  /\ deleting = g
  /\ groups' = groups \ {g}
  /\ deleting' = None
  /\ UNCHANGED <<store, rows, semver, worker, recon, acked, used>>

(* DELETE FROM groups, refused by the foreign key if a row has come in. *)
DeleteGroup(g) ==
  /\ deleting = g
  /\ groups' = IF References(g) = {} THEN groups \ {g} ELSE groups
  /\ deleting' = None
  /\ UNCHANGED <<store, rows, semver, worker, recon, acked, used>>

-----------------------------------------------------------------------------
(* The process dies and is restarted: files and tables survive. *)
Crash ==
  /\ crashes < MaxCrashes
  /\ crashes' = crashes + 1
  /\ worker' = [w \in Worker |-> Idle]
  /\ recon' = [todo |-> {}, cur |-> None]
  /\ deleting' = None
  /\ UNCHANGED <<store, db, acked, past, puts, faults>>

Request(w) == PutConflict(w) \/ PutAdmitted(w)

Step(w) ==
  \/ OpenObject(w) \/ WriteObject(w) \/ WriteUnlinked(w)
  \/ Countersign(w)
  \/ RejectDescriptor(w) \/ AcceptFieldless(w) \/ WriteShafile(w)
  \/ InsertGroup(w) \/ InsertRow(w) \/ InsertSemver(w)
  \/ CheckDescriptor(w) \/ PublishRow(w)

Reconcile == ReconSelect \/ \E c \in Coord : ReconDeleteSemver(c) \/ ReconDeleteRow(c)

Next ==
  \/ \E w \in Worker : \/ Request(w) \/ RejectBody(w) \/ Step(w)
                       \/ PutFails(w) \/ IgnoredFault(w)
  \/ \E c \in Coord : Yank(c) \/ Age(c) \/ ReconFault(c)
  \/ Reconcile
  \/ \E g \in Group : CreateGroup(g) \/ CountReferences(g) \/ DeleteGroup(g)
  \/ Crash

Spec == Init /\ [][Next]_vars

(* The thread pool runs every request it has taken on; the reconciliation  *)
(* thread wakes up every minute; time passes.                              *)
Fairness ==
  /\ \A w \in Worker : WF_vars(Step(w) \/ RejectBody(w))
  /\ WF_vars(Reconcile)
  /\ \A c \in Coord : WF_vars(Age(c))

FairSpec == Spec /\ Fairness

-----------------------------------------------------------------------------
(* What a worker's program counter says about its request. *)
RequestOK(w) ==
  /\ ~At(w, "idle") => KeyOf(w) \in Key /\ BodyOf(w) \in Body
  /\ worker[w].pc \in {"parse", "group", "row", "semver"} => IsDescriptor(w)
  /\ worker[w].pc \in {"group", "row", "semver", "check", "publish"} => Target(w) \in Coord

StoreOK ==
  /\ objects \in [Key -> Body \cup {Torn, None}]
  /\ countersig \in [Key -> Body \cup {None}]
  /\ shafile \in [Coord -> Body \cup {None}]

TablesOK ==
  /\ groups \subseteq Group
  /\ rows \in [Coord -> Row]
  /\ semver \in [Coord -> Nat]

WorkersOK ==
  /\ worker \in [Worker -> [pc : Pc, key : Key \cup {None}, body : Body \cup {None}]]
  /\ \A w \in Worker : RequestOK(w)

(* Every variable keeps its shape: files hold bodies, tables hold rows, a   *)
(* worker past its immutability check has a key and a body, and one that is *)
(* registering a descriptor holds a body that names a coordinate.           *)
TypeOK ==
  /\ StoreOK
  /\ TablesOK
  /\ WorkersOK
  /\ recon \in [todo : SUBSET Coord, cur : Coord \cup {None}]
  /\ deleting \in Group \cup {None}
  /\ acked \subseteq Key \X Body
  /\ crossed \subseteq Key /\ aged \subseteq Coord
  /\ puts \in Nat /\ faults \in Nat /\ crashes \in Nat

(* Whatever the order in which uploads, reconciliation and DELETE of a      *)
(* group run their separate statements, no artifact row is left without its *)
(* group and no semver row without its artifact.                            *)
NoDanglingReferences ==
  \A c \in Coord :
    /\ rows[c].status # "absent" => GroupOf[c] \in groups
    /\ semver[c] > 0 => rows[c].status # "absent"

(* The hash an artifact row records is that of a descriptor naming this     *)
(* very coordinate, and the row of no upload is ever overwritten by         *)
(* another's: INSERT OR IGNORE with the coordinate of the descriptor.       *)
RowProvenance ==
  \A c \in Coord :
    IF rows[c].status = "absent"
    THEN rows[c] = NoRow
    ELSE rows[c].sha \in Body /\ Names[rows[c].sha] = c

(* What a reader of the artifacts table sees of the pending timeout is only *)
(* whether the row is still there.                                          *)
Cat == INSTANCE Catalog WITH
         catalog <- [c \in Coord |-> [status |-> rows[c].status, sha |-> rows[c].sha,
                                      yanked |-> rows[c].yanked]]

(* The handlers and the reconciliation thread implement the row life cycle  *)
(* of module Catalog: registered once, dropped only while pending, final    *)
(* once published, even when reconciliation works from a list that was      *)
(* collected before the row was published.                                  *)
CatalogSpec == Cat!Spec

(* docs/capabilities.md:63: "Duplicate PUTs to the same coordinate return   *)
(* 409 Conflict": no two different bodies are both accepted for one key.    *)
DuplicatePutsConflict ==
  \A k \in Key : \A b1, b2 \in Body :
    <<k, b1>> \in acked /\ <<k, b2>> \in acked => b1 = b2

(* What the immutability check does guarantee: a key is accepted with two   *)
(* bodies only if two of its uploads were under way at one time, whatever   *)
(* fails or crashes meanwhile.                                              *)
AcceptedOnce ==
  \A k \in Key \ crossed : \A b1, b2 \in Body :
    <<k, b1>> \in acked /\ <<k, b2>> \in acked => b1 = b2

(* An upload answered 201 stays as it was uploaded, with its                *)
(* countersignature and, for a registered now.pasta, its .sha256 file,      *)
(* unless a second upload of the key was under way beside it, or a failing  *)
(* call was passed over.                                                    *)
AckedIsIntact ==
  \A k \in Key \ crossed : \A b \in Body :
    <<k, b>> \in acked /\ faults = 0 =>
      /\ objects[k] = b
      /\ HasRegistryKey => countersig[k] = b
      /\ k.file = "now.pasta" /\ Names[b] \in Coord => shafile[k.coord] = b

(* The comment on try_publish (cookbook_server.c:1024): "Required:          *)
(* now.pasta must exist in the store" for a row to be published.            *)
PublishedHasDescriptor ==
  \A c \in Coord :
    rows[c].status = "published" => objects[DescriptorKey(c)] # None

(* A descriptor uploaded where it says it belongs and answered 201 is       *)
(* listed by /resolve: its row is published, whoever registered it, and has *)
(* a semver row to match a range against, unless the row outlived the       *)
(* pending timeout before that or a failing statement was passed over.      *)
AckedIsResolvable ==
  \A k \in Key : \A b \in Body :
    /\ <<k, b>> \in acked /\ k.file = "now.pasta" /\ Names[b] = k.coord
    /\ k.coord \notin aged /\ faults = 0
    =>
      rows[k.coord].status = "published" /\ semver[k.coord] > 0

(* docs/capabilities.md:308: reconciliation "cleans up stale pending rows": *)
(* what belongs to a published row is not deleted.                          *)
ReconcileSparesPublished ==
  [][\A c \in Coord : rows[c].status = "published" => semver'[c] >= semver[c]]_vars

(* No row stays pending for ever: it is published by an upload or dropped   *)
(* by the reconciliation thread, although a semver row inserted between its *)
(* two statements makes a pass fail and a pass sees only BatchCap rows.     *)
PendingSettles ==
  \A c \in Coord : rows[c].status = "pending" ~> rows[c].status # "pending"
==============================================================================
