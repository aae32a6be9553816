---------------------------- MODULE PublishProofs ----------------------------
(* Proofs about module Publish, for every set of workers, coordinates,      *)
(* groups and bodies and every value of the bounds.                         *)
EXTENDS Publish, TLAPS

USE PublishAssumption

(* The inductive invariant holds initially: empty store, empty tables.      *)
LEMMA InitStrong == Init => TypeOK /\ NoDanglingReferences /\ RowProvenance
<1> SUFFICES ASSUME Init PROVE TypeOK /\ NoDanglingReferences /\ RowProvenance
  OBVIOUS
<1>1. StoreOK BY DEF Init, StoreOK
<1>2. TablesOK BY DEF Init, TablesOK, Row, NoRow
<1>3. WorkersOK BY DEF Init, WorkersOK, RequestOK, At, KeyOf, BodyOf, Idle, Pc
<1>4. TypeOK BY <1>1, <1>2, <1>3 DEF Init, TypeOK
<1>5. NoDanglingReferences BY DEF Init, NoDanglingReferences, NoRow
<1>6. RowProvenance BY DEF Init, RowProvenance, NoRow
<1> QED BY <1>4, <1>5, <1>6

(* Moving a worker on, or sending its answer, keeps the worker states. *)
LEMMA GotoKeepsWorkers ==
  ASSUME WorkersOK, NEW w \in Worker, NEW pc \in Pc, Goto(w, pc), ~At(w, "idle"),
         pc \in {"parse", "group", "row", "semver"} => IsDescriptor(w),
         pc \in {"group", "row", "semver", "check", "publish"} => Target(w) \in Coord
  PROVE  WorkersOK'
<1>1. worker' \in [Worker -> [pc : Pc, key : Key \cup {None}, body : Body \cup {None}]]
  BY DEF WorkersOK, Goto
<1>2. ASSUME NEW v \in Worker, v # w PROVE RequestOK(v)'
  BY <1>2 DEF WorkersOK, Goto, RequestOK, At, KeyOf, BodyOf, IsDescriptor, Target
<1>3. RequestOK(w)'
  <2>1. KeyOf(w)' = KeyOf(w) /\ BodyOf(w)' = BodyOf(w) /\ worker'[w].pc = pc
    BY DEF WorkersOK, Goto, KeyOf, BodyOf
  <2>2. KeyOf(w) \in Key /\ BodyOf(w) \in Body
    BY DEF WorkersOK, RequestOK
  <2> QED BY <2>1, <2>2 DEF RequestOK, At, IsDescriptor, Target
<1> QED BY <1>1, <1>2, <1>3 DEF WorkersOK

(* Answering a request makes its worker idle and disturbs no other.         *)
LEMMA AnswerKeepsWorkers ==
  ASSUME WorkersOK, NEW w \in Worker, Refuse(w)
  PROVE  WorkersOK'
BY DEF WorkersOK, Refuse, RequestOK, At, KeyOf, BodyOf, IsDescriptor, Target, Idle, Pc

(* Answering 201 records an upload that the worker really holds.            *)
LEMMA CreatedKeepsTypes ==
  ASSUME TypeOK, NEW w \in Worker, ~At(w, "idle"), Created(w)
  PROVE  WorkersOK' /\ acked' \subseteq Key \X Body
<1>1. WorkersOK' BY AnswerKeepsWorkers DEF TypeOK, Created, Refuse
<1>2. KeyOf(w) \in Key /\ BodyOf(w) \in Body BY DEF TypeOK, WorkersOK, RequestOK
<1> QED BY <1>1, <1>2 DEF TypeOK, Created

(* The updates of single columns keep a row a row. *)
LEMMA RowUpdates ==
  ASSUME NEW r \in Row
  PROVE  /\ [r EXCEPT !.yanked = 1] \in Row
         /\ [r EXCEPT !.stale = TRUE] \in Row
         /\ [r EXCEPT !.status = "published"] \in Row
<1>1. [r EXCEPT !.yanked = 1] \in Row BY DEF Row
<1>2. [r EXCEPT !.stale = TRUE] \in Row BY DEF Row
<1>3. [r EXCEPT !.status = "published"] \in Row BY DEF Row
<1> QED BY <1>1, <1>2, <1>3

(* A step that leaves the workers alone keeps what is known of them.        *)
LEMMA SameWorkers ==
  ASSUME WorkersOK, UNCHANGED worker
  PROVE  WorkersOK'
BY DEF WorkersOK, RequestOK, At, KeyOf, BodyOf, IsDescriptor, Target

(* Every action keeps the types, one step per action.                       *)
LEMMA TypeStep == TypeOK /\ [Next]_vars => TypeOK'
<1> SUFFICES ASSUME TypeOK, [Next]_vars PROVE TypeOK' OBVIOUS
<1> USE DEF TypeOK, StoreOK, TablesOK, store, db, admin, past, used
<1>w. WorkersOK BY DEF TypeOK
<1>r. ASSUME NEW w \in Worker, ~At(w, "idle") PROVE KeyOf(w) \in Key /\ BodyOf(w) \in Body
  BY <1>r DEF WorkersOK, RequestOK
<1>d. ASSUME NEW w \in Worker, worker[w].pc \in {"parse", "group", "row", "semver"}
      PROVE  IsDescriptor(w)
  BY <1>d DEF WorkersOK, RequestOK
<1>1. ASSUME NEW w \in Worker, PutConflict(w) PROVE TypeOK'
  <2>1. WorkersOK' BY <1>1, <1>w, SameWorkers DEF PutConflict
  <2> QED BY <1>1, <2>1 DEF PutConflict
<1>2. ASSUME NEW w \in Worker, PutAdmitted(w) PROVE TypeOK'
  <2>1. PICK k \in Key, b \in Body :
          worker' = [worker EXCEPT ![w] = [pc |-> "body", key |-> k, body |-> b]]
    BY <1>2 DEF PutAdmitted
  <2>2. WorkersOK'
    BY <2>1 DEF WorkersOK, RequestOK, At, KeyOf, BodyOf, IsDescriptor, Target, Pc
  <2>3. crossed' \subseteq Key BY <1>2 DEF PutAdmitted
  <2> QED BY <1>2, <2>2, <2>3 DEF PutAdmitted
<1>3. ASSUME NEW w \in Worker, RejectBody(w) PROVE TypeOK'
  <2>1. WorkersOK' BY <1>w, <1>3, AnswerKeepsWorkers DEF RejectBody
  <2> QED BY <1>3, <2>1 DEF RejectBody
<1>4. ASSUME NEW w \in Worker, PutFails(w) PROVE TypeOK'
  <2>1. WorkersOK' BY <1>w, <1>4, AnswerKeepsWorkers DEF PutFails
  <2> QED BY <1>4, <2>1 DEF PutFails
<1>5. ASSUME NEW w \in Worker, OpenObject(w) PROVE TypeOK'
  <2>1. ~At(w, "idle") BY <1>5 DEF OpenObject, At
  <2>3. WorkersOK' BY <1>w, <1>5, <2>1, GotoKeepsWorkers DEF OpenObject, Pc
  <2>4. StoreOK' BY <1>5, <1>r, <2>1 DEF OpenObject
  <2> QED BY <1>5, <2>3, <2>4 DEF OpenObject
<1>6. ASSUME NEW w \in Worker, WriteObject(w) PROVE TypeOK'
  <2>1. ~At(w, "idle") BY <1>6 DEF WriteObject, At
  <2>2. /\ AfterWrite(w) \in Pc
        /\ AfterWrite(w) \in {"parse", "group", "row", "semver"} => IsDescriptor(w)
        /\ AfterWrite(w) \in {"group", "row", "semver", "check", "publish"} => Target(w) \in Coord
    BY <1>r, <2>1 DEF AfterWrite, Pc, Target, Key
  <2>3. WorkersOK' BY <1>w, <1>6, <2>1, <2>2, GotoKeepsWorkers DEF WriteObject, Pc
  <2>4. StoreOK' BY <1>6, <1>r, <2>1 DEF WriteObject
  <2> QED BY <1>6, <2>3, <2>4 DEF WriteObject
<1>7. ASSUME NEW w \in Worker, WriteUnlinked(w) PROVE TypeOK'
  <2>1. ~At(w, "idle") BY <1>7 DEF WriteUnlinked, At
  <2>2. /\ AfterWrite(w) \in Pc
        /\ AfterWrite(w) \in {"parse", "group", "row", "semver"} => IsDescriptor(w)
        /\ AfterWrite(w) \in {"group", "row", "semver", "check", "publish"} => Target(w) \in Coord
    BY <1>r, <2>1 DEF AfterWrite, Pc, Target, Key
  <2>3. WorkersOK' BY <1>w, <1>7, <2>1, <2>2, GotoKeepsWorkers DEF WriteUnlinked, Pc
  <2> QED BY <1>7, <2>3 DEF WriteUnlinked
<1>8. ASSUME NEW w \in Worker, Countersign(w) PROVE TypeOK'
  <2>1. ~At(w, "idle") BY <1>8 DEF Countersign, At
  <2>2. /\ AfterCountersign(w) \in Pc
        /\ AfterCountersign(w) \in {"parse", "group", "row", "semver"} => IsDescriptor(w)
        /\ AfterCountersign(w) \in {"group", "row", "semver", "check", "publish"} => Target(w) \in Coord
    BY <1>r, <2>1 DEF AfterCountersign, Pc, Target, Key
  <2>3. WorkersOK' BY <1>w, <1>8, <2>1, <2>2, GotoKeepsWorkers DEF Countersign, Pc
  <2>4. StoreOK' BY <1>8, <1>r, <2>1 DEF Countersign
  <2> QED BY <1>8, <2>3, <2>4 DEF Countersign
<1>9. ASSUME NEW w \in Worker, WriteShafile(w) PROVE TypeOK'
  <2>1. ~At(w, "idle") BY <1>9 DEF WriteShafile, At
  <2>2. IsDescriptor(w) /\ Target(w) \in Coord BY <1>9, <1>d DEF WriteShafile, At, Target
  <2>3. WorkersOK' BY <1>w, <1>9, <2>1, <2>2, GotoKeepsWorkers DEF WriteShafile, Pc
  <2>4. StoreOK' BY <1>9, <1>r, <2>1 DEF WriteShafile, Key
  <2> QED BY <1>9, <2>3, <2>4 DEF WriteShafile
<1>10. ASSUME NEW w \in Worker, InsertGroup(w) PROVE TypeOK'
  <2>1. ~At(w, "idle") BY <1>10 DEF InsertGroup, At
  <2>2. IsDescriptor(w) /\ Target(w) \in Coord BY <1>10, <1>d DEF InsertGroup, At, WorkersOK, RequestOK
  <2>3. WorkersOK' BY <1>w, <1>10, <2>1, <2>2, GotoKeepsWorkers DEF InsertGroup, Pc
  <2>4. TablesOK' BY <1>10, <2>2 DEF InsertGroup
  <2> QED BY <1>10, <2>3, <2>4 DEF InsertGroup
<1>11. ASSUME NEW w \in Worker, InsertRow(w) PROVE TypeOK'
  <2>1. ~At(w, "idle") BY <1>11 DEF InsertRow, At
  <2>2. IsDescriptor(w) /\ Target(w) \in Coord BY <1>11, <1>d DEF InsertRow, At, WorkersOK, RequestOK
  <2>3. WorkersOK' BY <1>w, <1>11, <2>1, <2>2, GotoKeepsWorkers DEF InsertRow, Pc
  <2>4. TablesOK' BY <1>11, <1>r, <2>1, <2>2 DEF InsertRow, Row
  <2> QED BY <1>11, <2>3, <2>4 DEF InsertRow
<1>12. ASSUME NEW w \in Worker, InsertSemver(w) PROVE TypeOK'
  <2>1. ~At(w, "idle") BY <1>12 DEF InsertSemver, At
  <2>2. IsDescriptor(w) /\ Target(w) \in Coord BY <1>12, <1>d DEF InsertSemver, At, WorkersOK, RequestOK
  <2>3. WorkersOK' BY <1>w, <1>12, <2>1, <2>2, GotoKeepsWorkers DEF InsertSemver, Pc
  <2>4. TablesOK' BY <1>12, <2>2 DEF InsertSemver
  <2> QED BY <1>12, <2>3, <2>4 DEF InsertSemver
<1>13. ASSUME NEW w \in Worker, RejectDescriptor(w) PROVE TypeOK'
  <2>1. worker' \in [Worker -> [pc : Pc, key : Key \cup {None}, body : Body \cup {None}]]
    BY <1>13 DEF RejectDescriptor, Unlink, WorkersOK, Idle, Pc
  <2>2. ASSUME NEW v \in Worker PROVE RequestOK(v)'
    <3>1. CASE worker'[v] = Idle BY <3>1 DEF RequestOK, At, Idle
    <3>2. CASE worker'[v] = worker[v]
      BY <3>2 DEF WorkersOK, RequestOK, At, KeyOf, BodyOf, IsDescriptor, Target
    <3>3. CASE At(v, "write") /\ worker'[v] = [worker[v] EXCEPT !.pc = "unlinked"]
      <4>1. /\ worker'[v].pc = "unlinked"
            /\ worker'[v].key = worker[v].key /\ worker'[v].body = worker[v].body
        BY <3>3 DEF WorkersOK
      <4>2. KeyOf(v) \in Key /\ BodyOf(v) \in Body BY <1>r, <3>3 DEF At
      <4> QED BY <4>1, <4>2 DEF RequestOK, At, KeyOf, BodyOf
    <3> QED BY <1>13, <3>1, <3>2, <3>3 DEF RejectDescriptor, Unlink
  <2>3. StoreOK' BY <1>13 DEF RejectDescriptor, Unlink
  <2> QED BY <1>13, <2>1, <2>2, <2>3 DEF RejectDescriptor, WorkersOK
<1>14. ASSUME NEW w \in Worker, AcceptFieldless(w) PROVE TypeOK'
  <2>1. WorkersOK' /\ acked' \subseteq Key \X Body
    BY <1>14, CreatedKeepsTypes DEF AcceptFieldless, At
  <2> QED BY <1>14, <2>1 DEF AcceptFieldless
<1>15. ASSUME NEW w \in Worker, CheckDescriptor(w) PROVE TypeOK'
  <2>1. WorkersOK' /\ acked' \subseteq Key \X Body
    <3>1. ~At(w, "idle") /\ Target(w) \in Coord
      BY <1>15 DEF CheckDescriptor, At, WorkersOK, RequestOK
    <3>2. CASE Goto(w, "publish") /\ UNCHANGED acked
      BY <1>w, <3>1, <3>2, GotoKeepsWorkers DEF Pc
    <3>3. CASE Created(w) BY <3>1, <3>3, CreatedKeepsTypes
    <3> QED BY <1>15, <3>2, <3>3 DEF CheckDescriptor
  <2> QED BY <1>15, <2>1 DEF CheckDescriptor
<1>16. ASSUME NEW w \in Worker, PublishRow(w) PROVE TypeOK'
  <2>1. WorkersOK' /\ acked' \subseteq Key \X Body
    BY <1>16, CreatedKeepsTypes DEF PublishRow, At
  <2>2. Target(w) \in Coord /\ rows[Target(w)] \in Row
    BY <1>16 DEF PublishRow, At, WorkersOK, RequestOK
  <2>3. [rows[Target(w)] EXCEPT !.status = "published"] \in Row BY <2>2, RowUpdates
  <2>4. TablesOK' BY <1>16, <2>2, <2>3 DEF PublishRow
  <2> QED BY <1>16, <2>1, <2>4 DEF PublishRow
<1>17. ASSUME NEW w \in Worker, IgnoredFault(w) PROVE TypeOK'
  <2>1. WorkersOK' /\ acked' \subseteq Key \X Body
    <3>0. worker[w].pc \in {"group", "row", "semver"} => Target(w) \in Coord
      BY DEF WorkersOK, RequestOK
    <3>1. CASE Created(w) /\ At(w, "publish") BY <3>1, CreatedKeepsTypes DEF At
    <3>2. CASE Refuse(w) /\ UNCHANGED acked BY <1>w, <3>2, AnswerKeepsWorkers
    <3>3. CASE At(w, "countersign") /\ Goto(w, AfterCountersign(w)) /\ UNCHANGED acked
      <4>1. /\ AfterCountersign(w) \in {"parse", "check"}
            /\ AfterCountersign(w) = "parse" => IsDescriptor(w)
            /\ AfterCountersign(w) = "check" => Target(w) \in Coord
        BY <1>r, <3>3 DEF AfterCountersign, At, Target, Key
      <4> QED BY <1>w, <3>3, <4>1, GotoKeepsWorkers DEF At, Pc
    <3>4. CASE At(w, "parse") /\ Names[BodyOf(w)] \in Coord /\ Goto(w, "group") /\ UNCHANGED acked
      <4>1. IsDescriptor(w) /\ Target(w) \in Coord BY <1>d, <3>4 DEF At, Target
      <4> QED BY <1>w, <3>4, <4>1, GotoKeepsWorkers DEF At, Pc
    <3>5. CASE At(w, "group") /\ Goto(w, "row") /\ UNCHANGED acked
      BY <1>w, <1>d, <3>0, <3>5, GotoKeepsWorkers DEF At, Pc
    <3>6. CASE At(w, "row") /\ Goto(w, "semver") /\ UNCHANGED acked
      BY <1>w, <1>d, <3>0, <3>6, GotoKeepsWorkers DEF At, Pc
    <3>7. CASE At(w, "semver") /\ Goto(w, "check") /\ UNCHANGED acked
      BY <1>w, <1>d, <3>0, <3>7, GotoKeepsWorkers DEF At, Pc
    <3> QED BY <1>17, <3>1, <3>2, <3>3, <3>4, <3>5, <3>6, <3>7 DEF IgnoredFault
  <2> QED BY <1>17, <2>1 DEF IgnoredFault
<1>18. ASSUME NEW c \in Coord, Yank(c) PROVE TypeOK'
  <2>1. [rows[c] EXCEPT !.yanked = 1] \in Row BY RowUpdates
  <2>2. TablesOK' BY <1>18, <2>1 DEF Yank
  <2>3. WorkersOK' BY <1>18, <1>w, SameWorkers DEF Yank
  <2> QED BY <1>18, <2>2, <2>3 DEF Yank
<1>19. ASSUME NEW c \in Coord, Age(c) PROVE TypeOK'
  <2>1. [rows[c] EXCEPT !.stale = TRUE] \in Row BY RowUpdates
  <2>2. TablesOK' BY <1>19, <2>1 DEF Age
  <2>3. WorkersOK' BY <1>19, <1>w, SameWorkers DEF Age
  <2> QED BY <1>19, <2>2, <2>3 DEF Age
<1>20. ASSUME NEW c \in Coord, ReconFault(c) PROVE TypeOK'
  <2>1. WorkersOK' BY <1>20, <1>w, SameWorkers DEF ReconFault
  <2> QED BY <1>20, <2>1 DEF ReconFault
<1>21. ASSUME ReconSelect PROVE TypeOK'
  <2>1. WorkersOK' BY <1>21, <1>w, SameWorkers DEF ReconSelect
  <2> QED BY <1>21, <2>1 DEF ReconSelect, StalePending
<1>22. ASSUME NEW c \in Coord, ReconDeleteSemver(c) PROVE TypeOK'
  <2>1. WorkersOK' BY <1>22, <1>w, SameWorkers DEF ReconDeleteSemver
  <2> QED BY <1>22, <2>1 DEF ReconDeleteSemver
<1>23. ASSUME NEW c \in Coord, ReconDeleteRow(c) PROVE TypeOK'
  <2>1. WorkersOK' BY <1>23, <1>w, SameWorkers DEF ReconDeleteRow
  <2> QED BY <1>23, <2>1 DEF ReconDeleteRow, Deletable, NoRow, Row
<1>24. ASSUME NEW g \in Group, CreateGroup(g) PROVE TypeOK'
  <2>1. WorkersOK' BY <1>24, <1>w, SameWorkers DEF CreateGroup
  <2> QED BY <1>24, <2>1 DEF CreateGroup
<1>25. ASSUME NEW g \in Group, CountReferences(g) PROVE TypeOK'
  <2>1. WorkersOK' BY <1>25, <1>w, SameWorkers DEF CountReferences
  <2> QED BY <1>25, <2>1 DEF CountReferences
<1>26. ASSUME NEW g \in Group, DeleteGroup(g) PROVE TypeOK'
  <2>1. WorkersOK' BY <1>26, <1>w, SameWorkers DEF DeleteGroup
  <2> QED BY <1>26, <2>1 DEF DeleteGroup
<1>27. ASSUME Crash PROVE TypeOK'
  <2>1. WorkersOK' BY <1>27 DEF Crash, WorkersOK, RequestOK, At, Idle, Pc
  <2> QED BY <1>27, <2>1 DEF Crash
<1>28. ASSUME UNCHANGED vars PROVE TypeOK'
  <2>1. WorkersOK' BY <1>28, <1>w, SameWorkers DEF vars
  <2> QED BY <1>28, <2>1 DEF vars
<1> QED
  BY <1>1, <1>2, <1>3, <1>4, <1>5, <1>6, <1>7, <1>8, <1>9, <1>10, <1>11, <1>12, <1>13, <1>14,
     <1>15, <1>16, <1>17, <1>18, <1>19, <1>20, <1>21, <1>22, <1>23, <1>24, <1>25, <1>26,
     <1>27, <1>28 DEF Next, Request, Step, Reconcile

(* Type correctness: every reachable state has the shape TypeOK describes;  *)
(* in particular try_publish is only ever called with a coordinate.         *)
THEOREM TypeCorrect == Spec => []TypeOK
<1>1. Init => TypeOK BY InitStrong
<1> QED BY <1>1, TypeStep, PTL DEF Spec

-----------------------------------------------------------------------------
(* The tables.  Only six actions write rows, groups or semver in a way that *)
(* can disturb the references or the provenance of a row.                   *)

TableWriter ==
  \/ \E w \in Worker : InsertGroup(w) \/ InsertRow(w) \/ InsertSemver(w) \/ PublishRow(w)
  \/ \E c \in Coord : Yank(c) \/ Age(c) \/ ReconDeleteSemver(c) \/ ReconDeleteRow(c)
  \/ \E g \in Group : CreateGroup(g) \/ DeleteGroup(g)

(* Only the actions of TableWriter change a table.                          *)
LEMMA OthersLeaveTables == [Next]_vars => TableWriter \/ UNCHANGED db
<1> SUFFICES ASSUME [Next]_vars PROVE TableWriter \/ UNCHANGED db OBVIOUS
<1>1. ASSUME NEW w \in Worker,
             Request(w) \/ RejectBody(w) \/ PutFails(w) \/ IgnoredFault(w)
      PROVE  UNCHANGED db
  BY <1>1 DEF Request, PutConflict, PutAdmitted, RejectBody, PutFails, IgnoredFault
<1>2. ASSUME NEW w \in Worker, Step(w) PROVE TableWriter \/ UNCHANGED db
  BY <1>2 DEF Step, OpenObject, WriteObject, WriteUnlinked, Countersign, RejectDescriptor,
              AcceptFieldless, WriteShafile, CheckDescriptor, TableWriter
<1>3. ASSUME NEW c \in Coord, Yank(c) \/ Age(c) \/ ReconFault(c)
      PROVE  TableWriter \/ UNCHANGED db
  BY <1>3 DEF ReconFault, TableWriter
<1>4. ASSUME Reconcile PROVE TableWriter \/ UNCHANGED db
  BY <1>4 DEF Reconcile, ReconSelect, TableWriter
<1>5. ASSUME NEW g \in Group, CreateGroup(g) \/ CountReferences(g) \/ DeleteGroup(g)
      PROVE  TableWriter \/ UNCHANGED db
  BY <1>5 DEF CountReferences, TableWriter
<1>6. ASSUME Crash PROVE UNCHANGED db BY <1>6 DEF Crash
<1>7. ASSUME UNCHANGED vars PROVE UNCHANGED db BY <1>7 DEF vars
<1> QED BY <1>1, <1>2, <1>3, <1>4, <1>5, <1>6, <1>7 DEF Next

(* What a worker that registers or publishes holds. *)
LEMMA TargetIsCoord ==
  ASSUME TypeOK, NEW w \in Worker, worker[w].pc \in {"group", "row", "semver", "check", "publish"}
  PROVE  Target(w) \in Coord /\ BodyOf(w) \in Body
BY DEF TypeOK, WorkersOK, RequestOK, At

(* A worker that registers a descriptor registers what it names.            *)
LEMMA RegisteringNames ==
  ASSUME TypeOK, NEW w \in Worker, At(w, "row")
  PROVE  Names[BodyOf(w)] = Target(w)
BY DEF TypeOK, WorkersOK, RequestOK, At, Target

(* Every statement that changes a table keeps the foreign keys.             *)
LEMMA ReferencesStep ==
  TypeOK /\ NoDanglingReferences /\ [Next]_vars => NoDanglingReferences'
<1> SUFFICES ASSUME TypeOK, NoDanglingReferences, [Next]_vars PROVE NoDanglingReferences'
  OBVIOUS
<1> USE DEF TypeOK, TablesOK, NoDanglingReferences, Row
<1>1. ASSUME UNCHANGED db PROVE NoDanglingReferences' BY <1>1 DEF db
<1>2. ASSUME NEW w \in Worker, InsertGroup(w) PROVE NoDanglingReferences'
  BY <1>2 DEF InsertGroup
<1>3. ASSUME NEW w \in Worker, InsertRow(w) PROVE NoDanglingReferences'
  <2>1. Target(w) \in Coord BY <1>3, TargetIsCoord DEF InsertRow, At
  <2> QED BY <1>3, <2>1 DEF InsertRow
<1>4. ASSUME NEW w \in Worker, InsertSemver(w) PROVE NoDanglingReferences'
  <2>1. Target(w) \in Coord BY <1>4, TargetIsCoord DEF InsertSemver, At
  <2> QED BY <1>4, <2>1 DEF InsertSemver
<1>5. ASSUME NEW w \in Worker, PublishRow(w) PROVE NoDanglingReferences'
  <2>1. Target(w) \in Coord BY <1>5, TargetIsCoord DEF PublishRow, At
  <2> QED BY <1>5, <2>1 DEF PublishRow
<1>6. ASSUME NEW c \in Coord, Yank(c) \/ Age(c) PROVE NoDanglingReferences'
  BY <1>6 DEF Yank, Age
<1>7. ASSUME NEW c \in Coord, ReconDeleteSemver(c) PROVE NoDanglingReferences'
  BY <1>7 DEF ReconDeleteSemver
<1>8. ASSUME NEW c \in Coord, ReconDeleteRow(c) PROVE NoDanglingReferences'
  BY <1>8 DEF ReconDeleteRow, Deletable, NoRow
<1>9. ASSUME NEW g \in Group, CreateGroup(g) PROVE NoDanglingReferences'
  BY <1>9 DEF CreateGroup
<1>10. ASSUME NEW g \in Group, DeleteGroup(g) PROVE NoDanglingReferences'
  BY <1>10 DEF DeleteGroup, References
<1> QED
  BY OthersLeaveTables, <1>1, <1>2, <1>3, <1>4, <1>5, <1>6, <1>7, <1>8, <1>9, <1>10 DEF TableWriter

(* A step changes at most one row, and only in one of these five ways. *)
RowStep(c) ==
  /\ \A d \in Coord : d # c => rows'[d] = rows[d]
  /\ \/ /\ rows[c].status = "absent"
        /\ \E b \in Body :
             /\ Names[b] = c
             /\ rows'[c] = [status |-> "pending", sha |-> b, yanked |-> 0, stale |-> FALSE]
     \/ rows[c].status = "pending" /\ rows'[c] = [rows[c] EXCEPT !.status = "published"]
     \/ rows[c].status = "pending" /\ rows'[c] = NoRow
     \/ rows[c].status # "absent" /\ rows'[c] = [rows[c] EXCEPT !.yanked = 1]
     \/ rows[c].status = "pending" /\ rows'[c] = [rows[c] EXCEPT !.stale = TRUE]

(* What a step can do to the artifacts table: one of five row changes.      *)
LEMMA RowSteps ==
  TypeOK /\ [Next]_vars => UNCHANGED rows \/ \E c \in Coord : RowStep(c)
<1> SUFFICES ASSUME TypeOK, [Next]_vars
             PROVE  UNCHANGED rows \/ \E c \in Coord : RowStep(c)
  OBVIOUS
<1>0. rows \in [Coord -> Row] BY DEF TypeOK, TablesOK
<1>1. ASSUME NEW w \in Worker, InsertRow(w) PROVE UNCHANGED rows \/ RowStep(Target(w))
  <2>1. Target(w) \in Coord /\ BodyOf(w) \in Body BY <1>1, TargetIsCoord DEF InsertRow, At
  <2>2. Names[BodyOf(w)] = Target(w) BY <1>1, RegisteringNames DEF InsertRow
  <2> QED BY <1>0, <1>1, <2>1, <2>2 DEF InsertRow, RowStep
<1>2. ASSUME NEW w \in Worker, PublishRow(w) PROVE UNCHANGED rows \/ RowStep(Target(w))
  <2>1. Target(w) \in Coord BY <1>2, TargetIsCoord DEF PublishRow, At
  <2> QED BY <1>0, <1>2, <2>1 DEF PublishRow, RowStep
<1>3. ASSUME NEW c \in Coord, Yank(c) PROVE RowStep(c) BY <1>0, <1>3 DEF Yank, RowStep
<1>4. ASSUME NEW c \in Coord, Age(c) PROVE RowStep(c) BY <1>0, <1>4 DEF Age, RowStep
<1>5. ASSUME NEW c \in Coord, ReconDeleteRow(c) PROVE UNCHANGED rows \/ RowStep(c)
  BY <1>0, <1>5 DEF ReconDeleteRow, Deletable, RowStep
<1>6. \/ UNCHANGED rows
      \/ \E w \in Worker : InsertRow(w) \/ PublishRow(w)
      \/ \E c \in Coord : Yank(c) \/ Age(c) \/ ReconDeleteRow(c)
  BY OthersLeaveTables DEF TableWriter, db, InsertGroup, InsertSemver, ReconDeleteSemver,
                           CreateGroup, DeleteGroup
<1>7. \A w \in Worker : InsertRow(w) \/ PublishRow(w) => Target(w) \in Coord
  BY TargetIsCoord DEF InsertRow, PublishRow, At
<1> QED BY <1>1, <1>2, <1>3, <1>4, <1>5, <1>6, <1>7

(* Each of those row changes keeps the hash with its coordinate.            *)
LEMMA ProvenanceStep ==
  TypeOK /\ RowProvenance /\ [Next]_vars => RowProvenance'
<1> SUFFICES ASSUME TypeOK, RowProvenance, [Next]_vars, NEW d \in Coord
             PROVE  IF rows'[d].status = "absent" THEN rows'[d] = NoRow
                    ELSE rows'[d].sha \in Body /\ Names[rows'[d].sha] = d
  BY DEF RowProvenance
<1>0. /\ rows[d] \in Row
      /\ IF rows[d].status = "absent" THEN rows[d] = NoRow
         ELSE rows[d].sha \in Body /\ Names[rows[d].sha] = d
  BY DEF TypeOK, TablesOK, RowProvenance
<1>1. CASE rows'[d] = rows[d] BY <1>0, <1>1
<1>2. CASE RowStep(d)
  <2>1. CASE \E b \in Body :
               /\ Names[b] = d
               /\ rows'[d] = [status |-> "pending", sha |-> b, yanked |-> 0, stale |-> FALSE]
    BY <2>1
  <2>2. CASE rows[d].status = "pending" /\ rows'[d] = [rows[d] EXCEPT !.status = "published"]
    BY <1>0, <2>2 DEF Row
  <2>3. CASE rows'[d] = NoRow BY <2>3 DEF NoRow
  <2>4. CASE rows[d].status # "absent" /\ rows'[d] = [rows[d] EXCEPT !.yanked = 1]
    BY <1>0, <2>4 DEF Row
  <2>5. CASE rows[d].status = "pending" /\ rows'[d] = [rows[d] EXCEPT !.stale = TRUE]
    BY <1>0, <2>5 DEF Row
  <2> QED BY <1>2, <2>1, <2>2, <2>3, <2>4, <2>5 DEF RowStep
<1>3. rows'[d] = rows[d] \/ RowStep(d) BY RowSteps DEF RowStep
<1> QED BY <1>1, <1>2, <1>3

(* No interleaving of uploads, reconciliation and group deletion leaves an  *)
(* artifact row without its group or a semver row without its artifact.     *)
THEOREM ReferencesHold == Spec => []NoDanglingReferences
<1>1. Init => NoDanglingReferences BY InitStrong
<1> QED BY <1>1, ReferencesStep, TypeCorrect, PTL DEF Spec

(* Every row records the hash of a descriptor that names its coordinate.    *)
THEOREM ProvenanceHolds == Spec => []RowProvenance
<1>1. Init => RowProvenance BY InitStrong
<1> QED BY <1>1, ProvenanceStep, TypeCorrect, PTL DEF Spec

-----------------------------------------------------------------------------
(* Refinement: the row of a coordinate, without its age, moves as Catalog   *)
(* allows.                                                                  *)

EntryOf(r) == [status |-> r.status, sha |-> r.sha, yanked |-> r.yanked]

(* A change of a row, seen through the refinement mapping.                  *)
LEMMA EntryUpdates ==
  ASSUME NEW r \in Row
  PROVE  /\ EntryOf([r EXCEPT !.status = "published"]) = [EntryOf(r) EXCEPT !.status = "published"]
         /\ EntryOf([r EXCEPT !.yanked = 1]) = [EntryOf(r) EXCEPT !.yanked = 1]
         /\ EntryOf([r EXCEPT !.stale = TRUE]) = EntryOf(r)
         /\ EntryOf(r).status = r.status
<1>1. EntryOf([r EXCEPT !.status = "published"]) = [EntryOf(r) EXCEPT !.status = "published"]
  BY DEF EntryOf, Row
<1>2. EntryOf([r EXCEPT !.yanked = 1]) = [EntryOf(r) EXCEPT !.yanked = 1]
  BY DEF EntryOf, Row
<1>3. EntryOf([r EXCEPT !.stale = TRUE]) = EntryOf(r) BY DEF EntryOf, Row
<1>4. EntryOf(r).status = r.status BY DEF EntryOf
<1> QED BY <1>1, <1>2, <1>3, <1>4

(* Every step is a step of Catalog or leaves the catalog unchanged.         *)
LEMMA RefinementStep ==
  TypeOK /\ RowProvenance /\ [Next]_vars => [Cat!Next]_([c \in Coord |-> EntryOf(rows[c])])
<1> SUFFICES ASSUME TypeOK, RowProvenance, [Next]_vars
             PROVE  \/ Cat!Next
                    \/ [c \in Coord |-> EntryOf(rows[c])]' = [c \in Coord |-> EntryOf(rows[c])]
  BY DEF EntryOf
<1>1. CASE UNCHANGED rows BY <1>1
<1>2. ASSUME NEW c \in Coord, RowStep(c)
      PROVE  \/ Cat!Next
             \/ [d \in Coord |-> EntryOf(rows[d])]' = [d \in Coord |-> EntryOf(rows[d])]
  <2> DEFINE cat == [d \in Coord |-> EntryOf(rows[d])]
  <2>0. rows[c] \in Row BY DEF TypeOK, TablesOK
  <2>1. ASSUME NEW e, EntryOf(rows'[c]) = e PROVE cat' = [cat EXCEPT ![c] = e]
    BY <1>2, <2>1 DEF RowStep, EntryOf
  <2>2. ASSUME rows[c].status = "absent", NEW b \in Body, Names[b] = c,
               rows'[c] = [status |-> "pending", sha |-> b, yanked |-> 0, stale |-> FALSE]
        PROVE  Cat!Register(c, b)
    <3>1. rows[c] = NoRow BY <2>2 DEF RowProvenance
    <3>2. cat[c] = Cat!NoEntry
      <4>1. EntryOf(NoRow) = Cat!NoEntry BY Zenon DEF EntryOf, NoRow, Cat!NoEntry
      <4> QED BY <3>1, <4>1
    <3>3. EntryOf(rows'[c]) = [status |-> "pending", sha |-> b, yanked |-> 0]
      BY <2>2 DEF EntryOf
    <3> QED BY <2>1, <2>2, <3>2, <3>3 DEF Cat!Register, EntryOf
  <2>3. ASSUME rows[c].status = "pending", rows'[c] = [rows[c] EXCEPT !.status = "published"]
        PROVE  Cat!Promote(c)
    <3>1. cat[c] = EntryOf(rows[c]) /\ cat[c].status = "pending" BY <2>0, <2>3, EntryUpdates
    <3>2. cat' = [cat EXCEPT ![c] = [cat[c] EXCEPT !.status = "published"]]
      BY <2>0, <2>1, <2>3, <3>1, EntryUpdates
    <3> QED BY <3>1, <3>2 DEF Cat!Promote, EntryOf
  <2>4. ASSUME rows[c].status = "pending", rows'[c] = NoRow PROVE Cat!Drop(c)
    BY <2>1, <2>4 DEF Cat!Drop, Cat!NoEntry, EntryOf, NoRow
  <2>5. ASSUME rows[c].status # "absent", rows'[c] = [rows[c] EXCEPT !.yanked = 1]
        PROVE  Cat!Yank(c)
    <3>1. cat[c] = EntryOf(rows[c]) /\ cat[c].status # "absent" BY <2>0, <2>5, EntryUpdates
    <3>2. cat' = [cat EXCEPT ![c] = [cat[c] EXCEPT !.yanked = 1]]
      BY <2>0, <2>1, <2>5, <3>1, EntryUpdates
    <3> QED BY <3>1, <3>2 DEF Cat!Yank, EntryOf
  <2>6. ASSUME rows'[c] = [rows[c] EXCEPT !.stale = TRUE] PROVE cat' = cat
    BY <1>2, <2>0, <2>6 DEF RowStep, EntryOf, Row
  <2> QED BY <1>2, <2>2, <2>3, <2>4, <2>5, <2>6 DEF RowStep, Cat!Next
<1> QED BY RowSteps, <1>1, <1>2

(* Uploads, yanks, reconciliation, group administration, failing calls and  *)
(* crashes together implement the row life cycle of Catalog.                *)
THEOREM ImplementsCatalog == Spec => CatalogSpec
<1>1. Init => Cat!Init
  BY DEF Init, Cat!Init, Cat!NoEntry, NoRow
<1>2. TypeOK /\ RowProvenance /\ [Next]_vars
        => [Cat!Next]_([c \in Coord |-> [status |-> rows[c].status, sha |-> rows[c].sha,
                                         yanked |-> rows[c].yanked]])
  BY RefinementStep DEF EntryOf
<1> QED BY <1>1, <1>2, TypeCorrect, ProvenanceHolds, PTL DEF Spec, CatalogSpec, Cat!Spec
-----------------------------------------------------------------------------
(* Uploads in flight.  What the store and the tables say of an upload that  *)
(* was answered holds only as long as uploads do not cross each other; the  *)
(* hypotheses say how, and are weaker than one upload at a time.            *)

Busy(w) == ~At(w, "idle")

(* No upload in flight publishes the coordinate another is stored under.    *)
CoordsApart ==
  \A v, w \in Worker : v # w /\ Busy(v) /\ Busy(w) => Target(v) # KeyOf(w).coord

(* Every descriptor that is uploaded is accepted.                           *)
NoRejects == \A b \in Body : Names[b] \notin {"unparsable", "invalid"}

(* A worker that moves on keeps its request, and the others stay.           *)
LEMMA GotoFacts ==
  ASSUME TypeOK, NEW w \in Worker, NEW pc, Goto(w, pc)
  PROVE  /\ worker'[w].pc = pc
         /\ worker'[w].key = worker[w].key /\ worker'[w].body = worker[w].body
         /\ \A v \in Worker : v # w => worker'[v] = worker[v]
BY DEF TypeOK, WorkersOK, Goto

(* A worker that answers is idle, and the others stay.                      *)
LEMMA RefuseFacts ==
  ASSUME TypeOK, NEW w \in Worker, Refuse(w)
  PROVE  /\ worker'[w].pc = "idle"
         /\ \A v \in Worker : v # w => worker'[v] = worker[v]
BY DEF TypeOK, WorkersOK, Refuse, Idle

(* So is a worker that answers 201.                                         *)
LEMMA CreatedFacts ==
  ASSUME TypeOK, NEW w \in Worker, Created(w)
  PROVE  /\ worker'[w].pc = "idle"
         /\ \A v \in Worker : v # w => worker'[v] = worker[v]
         /\ acked' = acked \cup {<<KeyOf(w), BodyOf(w)>>}
BY DEF TypeOK, WorkersOK, Created, Idle

-----------------------------------------------------------------------------
(* A published artifact keeps its descriptor. *)

(* Before the descriptor has been validated. *)
Early == {"body", "write", "unlinked", "countersign", "parse"}

(* What try_publish has seen is still there, and a descriptor that may yet  *)
(* be rejected and removed lies under no published coordinate.              *)
DescriptorInv ==
  /\ PublishedHasDescriptor
  /\ \A w \in Worker : At(w, "publish") => objects[DescriptorKey(Target(w))] # None
  /\ NoRejects \/ \A w \in Worker :
       worker[w].pc \in Early /\ IsDescriptor(w) => rows[KeyOf(w).coord].status # "published"

(* A step that publishes nothing, removes nothing, checks no descriptor and *)
(* starts no upload.                                                        *)
Harmless ==
  /\ \A c \in Coord : rows'[c].status = "published" => rows[c].status = "published"
  /\ \A k \in Key : objects[k] # None => objects'[k] # None
  /\ \A v \in Worker :
       \/ worker'[v].pc = "idle"
       \/ /\ worker'[v].key = worker[v].key /\ worker'[v].body = worker[v].body
          /\ worker'[v].pc = "publish" => worker[v].pc = "publish"
          /\ worker'[v].pc \in Early => worker[v].pc \in Early

(* Every other step is one of four. *)
LEMMA HarmlessSteps ==
  TypeOK /\ [Next]_vars =>
    \/ Harmless
    \/ \E w \in Worker : \/ PutAdmitted(w) \/ RejectDescriptor(w) \/ PublishRow(w)
                         \/ CheckDescriptor(w) /\ objects[DescriptorKey(Target(w))] # None
<1> SUFFICES ASSUME TypeOK, [Next]_vars,
                    ~ \E w \in Worker : PutAdmitted(w) \/ RejectDescriptor(w) \/ PublishRow(w),
                    ~ \E w \in Worker : CheckDescriptor(w) /\ objects[DescriptorKey(Target(w))] # None
             PROVE  Harmless
  OBVIOUS
<1> USE DEF store, db, admin, used
<1>t. /\ objects \in [Key -> Body \cup {Torn, None}]
      /\ rows \in [Coord -> Row]
      /\ \A w \in Worker : Busy(w) => KeyOf(w) \in Key /\ BodyOf(w) \in Body
  BY DEF TypeOK, StoreOK, TablesOK, WorkersOK, RequestOK, Busy
(* A worker moves on or answers, and the files and rows stay. *)
<1>g. ASSUME NEW w \in Worker, NEW pc, Goto(w, pc), UNCHANGED <<objects, rows>>,
             pc # "publish", pc \in Early => worker[w].pc \in Early
      PROVE  Harmless
  BY <1>g, GotoFacts DEF Harmless
<1>r. ASSUME NEW w \in Worker, Refuse(w) \/ Created(w), UNCHANGED <<objects, rows>>
      PROVE  Harmless
  BY <1>r, RefuseFacts, CreatedFacts DEF Harmless
<1>k. ASSUME UNCHANGED <<objects, worker>>,
             \A c \in Coord : rows'[c].status = "published" => rows[c].status = "published"
      PROVE  Harmless
  BY <1>k DEF Harmless
<1>1. ASSUME NEW w \in Worker, RejectBody(w) \/ PutFails(w) \/ AcceptFieldless(w) PROVE Harmless
  BY <1>1, <1>r DEF RejectBody, PutFails, AcceptFieldless
<1>2. ASSUME NEW w \in Worker, OpenObject(w) PROVE Harmless
  <2>1. \A k \in Key : objects'[k] = objects[k] \/ objects'[k] = Torn
    BY <1>2, <1>t DEF OpenObject, Busy, At
  <2> QED BY <1>2, <2>1, GotoFacts DEF OpenObject, Harmless, At, Early
<1>3. ASSUME NEW w \in Worker, WriteObject(w) PROVE Harmless
  <2>0. BodyOf(w) \in Body BY <1>3, <1>t DEF WriteObject, Busy, At
  <2>1. \A k \in Key : objects'[k] = objects[k] \/ objects'[k] = Torn \/ objects'[k] = BodyOf(w)
    BY <1>3, <1>t DEF WriteObject
  <2>2. AfterWrite(w) # "publish" BY DEF AfterWrite
  <2> QED BY <1>3, <2>0, <2>1, <2>2, GotoFacts DEF WriteObject, Harmless, At, Early
<1>4. ASSUME NEW w \in Worker, WriteUnlinked(w) PROVE Harmless
  <2>1. AfterWrite(w) # "publish" BY DEF AfterWrite
  <2> QED BY <1>4, <1>g, <2>1 DEF WriteUnlinked, At, Early
<1>5. ASSUME NEW w \in Worker, Countersign(w) PROVE Harmless
  <2>1. AfterCountersign(w) # "publish" BY DEF AfterCountersign
  <2> QED BY <1>5, <1>g, <2>1 DEF Countersign, At, Early
<1>6. ASSUME NEW w \in Worker, WriteShafile(w) \/ InsertGroup(w) \/ InsertSemver(w) PROVE Harmless
  BY <1>6, <1>g DEF WriteShafile, InsertGroup, InsertSemver, Early
<1>7. ASSUME NEW w \in Worker, InsertRow(w) PROVE Harmless
  <2>1. \A c \in Coord : rows'[c] = rows[c] \/ rows'[c].status = "pending"
    BY <1>7, <1>t DEF InsertRow
  <2> QED BY <1>7, <2>1, GotoFacts DEF InsertRow, Harmless, Early
<1>8. ASSUME NEW w \in Worker, CheckDescriptor(w) PROVE Harmless
  BY <1>8, <1>r DEF CheckDescriptor
<1>9. ASSUME NEW w \in Worker, IgnoredFault(w) PROVE Harmless
  <2>1. AfterCountersign(w) # "publish" BY DEF AfterCountersign
  <2> QED BY <1>9, <1>g, <1>r, <2>1 DEF IgnoredFault, At, Early
<1>10. ASSUME NEW w \in Worker, PutConflict(w) PROVE Harmless
  BY <1>10, <1>k DEF PutConflict
<1>11. ASSUME NEW c \in Coord, Yank(c) \/ Age(c) \/ ReconDeleteRow(c) PROVE Harmless
  <2>1. \A d \in Coord : rows'[d].status = "published" => rows[d].status = "published"
    <3>1. CASE Yank(c) BY <3>1, <1>t DEF Yank, Row
    <3>2. CASE Age(c) BY <3>2, <1>t DEF Age, Row
    <3>3. CASE ReconDeleteRow(c) BY <3>3, <1>t DEF ReconDeleteRow, NoRow
    <3> QED BY <1>11, <3>1, <3>2, <3>3
  <2> QED BY <1>11, <1>k, <2>1 DEF Yank, Age, ReconDeleteRow
<1>12. ASSUME NEW c \in Coord, ReconFault(c) \/ ReconDeleteSemver(c) PROVE Harmless
  BY <1>12, <1>k DEF ReconFault, ReconDeleteSemver
<1>13. ASSUME ReconSelect PROVE Harmless BY <1>13, <1>k DEF ReconSelect
<1>14. ASSUME NEW g \in Group, CreateGroup(g) \/ CountReferences(g) \/ DeleteGroup(g) PROVE Harmless
  BY <1>14, <1>k DEF CreateGroup, CountReferences, DeleteGroup
<1>15. ASSUME Crash PROVE Harmless BY <1>15 DEF Crash, Harmless, Idle
<1>16. ASSUME UNCHANGED vars PROVE Harmless BY <1>16, <1>k DEF vars
<1> QED
  BY <1>1, <1>2, <1>3, <1>4, <1>5, <1>6, <1>7, <1>8, <1>9, <1>10, <1>11, <1>12, <1>13, <1>14,
     <1>15, <1>16 DEF Next, Request, Step, Reconcile

(* The invariant is kept while uploads that may be rejected stay apart.     *)
LEMMA DescriptorStep ==
  TypeOK /\ (NoRejects \/ CoordsApart) /\ DescriptorInv /\ [Next]_vars => DescriptorInv'
<1> SUFFICES ASSUME TypeOK, NoRejects \/ CoordsApart, DescriptorInv, [Next]_vars
             PROVE  DescriptorInv'
  OBVIOUS
<1> USE DEF At, KeyOf, BodyOf, IsDescriptor, Target, DescriptorKey
<1>t. /\ objects \in [Key -> Body \cup {Torn, None}]
      /\ rows \in [Coord -> Row]
      /\ \A c \in Coord : DescriptorKey(c) \in Key
      /\ \A w \in Worker : worker[w].pc # "idle" =>
           worker[w].key \in Key /\ worker[w].key.coord \in Coord /\ worker[w].body \in Body
      /\ \A w \in Worker : worker[w].pc \in {"check", "publish"} => Target(w) \in Coord
  BY DEF TypeOK, StoreOK, TablesOK, WorkersOK, RequestOK, Key, File
<1>1. ASSUME Harmless PROVE DescriptorInv'
  <2>1. PublishedHasDescriptor' BY <1>1, <1>t DEF Harmless, DescriptorInv, PublishedHasDescriptor
  <2>2. ASSUME NEW w \in Worker, At(w, "publish")' PROVE objects'[DescriptorKey(Target(w)')] # None
    <3>1. At(w, "publish") /\ Target(w)' = Target(w) BY <1>1, <2>2 DEF Harmless
    <3>2. objects[DescriptorKey(Target(w))] # None BY <3>1 DEF DescriptorInv
    <3>3. DescriptorKey(Target(w)) \in Key BY <1>t, <3>1
    <3> QED BY <1>1, <3>1, <3>2, <3>3 DEF Harmless
  <2>3. ASSUME ~NoRejects, NEW w \in Worker, worker'[w].pc \in Early, IsDescriptor(w)'
        PROVE  rows'[KeyOf(w)'.coord].status # "published"
    <3>1. worker[w].pc \in Early /\ KeyOf(w)' = KeyOf(w) BY <1>1, <2>3 DEF Harmless, Early
    <3>2. rows[KeyOf(w).coord].status # "published" BY <2>3, <3>1 DEF DescriptorInv
    <3>3. KeyOf(w).coord \in Coord BY <1>t, <3>1 DEF Early
    <3> QED BY <1>1, <3>1, <3>2, <3>3 DEF Harmless
  <2> QED BY <2>1, <2>2, <2>3 DEF DescriptorInv
<1>2. ASSUME NEW w \in Worker, PutAdmitted(w) PROVE DescriptorInv'
  <2> USE DEF store, db
  <2>1. PICK k \in Key, b \in Body :
          /\ objects[k] = None
          /\ worker' = [worker EXCEPT ![w] = [pc |-> "body", key |-> k, body |-> b]]
    BY <1>2 DEF PutAdmitted
  <2>2. UNCHANGED <<objects, rows>> BY <1>2 DEF PutAdmitted
  <2>3. \A v \in Worker : v # w => worker'[v] = worker[v] BY <2>1 DEF TypeOK, WorkersOK
  <2>4. worker'[w] = [pc |-> "body", key |-> k, body |-> b] BY <2>1 DEF TypeOK, WorkersOK
  <2>5. k.file = "now.pasta" => k = DescriptorKey(k.coord) /\ k.coord \in Coord BY DEF Key
  <2>6. k.file = "now.pasta" => rows[k.coord].status # "published"
    BY <2>1, <2>5 DEF DescriptorInv, PublishedHasDescriptor
  <2>7. PublishedHasDescriptor' BY <2>2 DEF DescriptorInv, PublishedHasDescriptor
  <2>8. \A v \in Worker : At(v, "publish")' => objects'[DescriptorKey(Target(v)')] # None
    BY <2>2, <2>3, <2>4 DEF DescriptorInv
  <2>9. ASSUME ~NoRejects, NEW v \in Worker, worker'[v].pc \in Early, IsDescriptor(v)'
        PROVE  rows'[KeyOf(v)'.coord].status # "published"
    <3>1. CASE v = w BY <2>2, <2>4, <2>6, <2>9, <3>1
    <3>2. CASE v # w BY <2>2, <2>3, <2>9, <3>2 DEF DescriptorInv
    <3> QED BY <3>1, <3>2
  <2> QED BY <2>7, <2>8, <2>9 DEF DescriptorInv
<1>3. ASSUME NEW w \in Worker, RejectDescriptor(w) PROVE DescriptorInv'
  <2> USE DEF store, db
  <2>0. worker[w].pc = "parse" /\ IsDescriptor(w) /\ worker[w].key \in Key
    BY <1>3, <1>t DEF RejectDescriptor, TypeOK, WorkersOK, RequestOK
  <2>1. ~NoRejects BY <1>3, <1>t, <2>0 DEF RejectDescriptor, NoRejects
  <2>2. UNCHANGED rows /\ objects' = [objects EXCEPT ![worker[w].key] = None]
    BY <1>3 DEF RejectDescriptor, Unlink
  <2>3. \A v \in Worker :
          \/ worker'[v].pc = "idle"
          \/ worker'[v] = worker[v]
          \/ /\ worker'[v].pc = "unlinked" /\ worker[v].pc = "write"
             /\ worker'[v].key = worker[v].key
    BY <1>3 DEF RejectDescriptor, Unlink, Idle, TypeOK, WorkersOK
  <2>4. worker[w].key = DescriptorKey(worker[w].key.coord) BY <2>0 DEF Key
  <2>5. rows[worker[w].key.coord].status # "published" BY <2>0, <2>1 DEF DescriptorInv, Early
  <2>6. PublishedHasDescriptor'
    <3>1. \A c \in Coord : DescriptorKey(c) = worker[w].key => c = worker[w].key.coord
      BY <2>4
    <3> QED BY <1>t, <2>2, <2>5, <3>1 DEF DescriptorInv, PublishedHasDescriptor
  <2>7. ASSUME NEW v \in Worker, At(v, "publish")' PROVE objects'[DescriptorKey(Target(v)')] # None
    <3>1. worker'[v] = worker[v] /\ worker[v].pc = "publish" BY <2>3, <2>7
    <3>2. v # w BY <2>0, <3>1
    <3>3. Target(v) # worker[w].key.coord
      BY <2>0, <2>1, <3>1, <3>2 DEF CoordsApart, Busy
    <3>4. DescriptorKey(Target(v)) # worker[w].key BY <2>4, <3>3
    <3>5. DescriptorKey(Target(v)) \in Key BY <1>t, <3>1
    <3>6. objects[DescriptorKey(Target(v))] # None BY <3>1 DEF DescriptorInv
    <3>7. objects'[DescriptorKey(Target(v))] # None BY ONLY <1>t, <2>2, <3>4, <3>5, <3>6
    <3> QED BY <3>1, <3>7
  <2>8. ASSUME NEW v \in Worker, worker'[v].pc \in Early, IsDescriptor(v)'
        PROVE  rows'[KeyOf(v)'.coord].status # "published"
    BY <2>1, <2>2, <2>3, <2>8 DEF DescriptorInv, Early
  <2> QED BY <2>6, <2>7, <2>8 DEF DescriptorInv
<1>4. ASSUME NEW w \in Worker, PublishRow(w) PROVE DescriptorInv'
  <2> USE DEF store, db
  <2>0. worker[w].pc = "publish" /\ Target(w) \in Coord BY <1>4, <1>t DEF PublishRow
  <2>1. UNCHANGED objects /\ objects[DescriptorKey(Target(w))] # None
    BY <1>4, <2>0 DEF PublishRow, DescriptorInv
  <2>2. \A c \in Coord : rows'[c].status = "published" => rows[c].status = "published" \/ c = Target(w)
    BY <1>4, <1>t DEF PublishRow
  <2>3. worker'[w].pc = "idle" /\ \A v \in Worker : v # w => worker'[v] = worker[v]
    BY <1>4, CreatedFacts DEF PublishRow
  <2>4. PublishedHasDescriptor' BY <2>1, <2>2 DEF DescriptorInv, PublishedHasDescriptor
  <2>5. \A v \in Worker : At(v, "publish")' => objects'[DescriptorKey(Target(v)')] # None
    BY <2>1, <2>3 DEF DescriptorInv
  <2>6. ASSUME ~NoRejects, NEW v \in Worker, worker'[v].pc \in Early, IsDescriptor(v)'
        PROVE  rows'[KeyOf(v)'.coord].status # "published"
    <3>1. v # w /\ worker'[v] = worker[v] BY <2>3, <2>6 DEF Early
    <3>2. worker[v].pc # "idle" /\ rows[KeyOf(v).coord].status # "published"
      BY <2>6, <3>1 DEF DescriptorInv, Early
    <3>3. KeyOf(v).coord \in Coord BY <1>t, <3>2
    <3>4. Target(w) # KeyOf(v).coord BY <2>0, <2>6, <3>1, <3>2 DEF CoordsApart, Busy
    <3> QED BY <2>2, <3>1, <3>2, <3>3, <3>4
  <2> QED BY <2>4, <2>5, <2>6 DEF DescriptorInv
<1>5. ASSUME NEW w \in Worker, CheckDescriptor(w), objects[DescriptorKey(Target(w))] # None
      PROVE  DescriptorInv'
  <2> USE DEF store, db
  <2>1. UNCHANGED <<objects, rows>> /\ Goto(w, "publish") BY <1>5 DEF CheckDescriptor
  <2>2. /\ worker'[w].pc = "publish" /\ worker'[w].key = worker[w].key
        /\ worker'[w].body = worker[w].body
        /\ \A v \in Worker : v # w => worker'[v] = worker[v]
    BY <2>1, GotoFacts
  <2>3. PublishedHasDescriptor' BY <2>1 DEF DescriptorInv, PublishedHasDescriptor
  <2>4. ASSUME NEW v \in Worker, At(v, "publish")' PROVE objects'[DescriptorKey(Target(v)')] # None
    <3>1. CASE v = w
      <4>1. Target(w)' = Target(w) BY <2>2
      <4> QED BY <1>5, <2>1, <3>1, <4>1
    <3>2. CASE v # w BY <2>1, <2>2, <2>4, <3>2 DEF DescriptorInv
    <3> QED BY <3>1, <3>2
  <2>5. ASSUME ~NoRejects, NEW v \in Worker, worker'[v].pc \in Early, IsDescriptor(v)'
        PROVE  rows'[KeyOf(v)'.coord].status # "published"
    BY <2>1, <2>2, <2>5 DEF DescriptorInv, Early
  <2> QED BY <2>3, <2>4, <2>5 DEF DescriptorInv
<1> QED BY HarmlessSteps, <1>1, <1>2, <1>3, <1>4, <1>5

(* As long as no rejected descriptor crosses an upload that publishes its   *)
(* coordinate, or no descriptor is rejected, whatever is published has its  *)
(* now.pasta: under reconciliation, group deletion, faults and crashes too. *)
THEOREM PublishedKeepsDescriptor ==
  Spec /\ [](NoRejects \/ CoordsApart) => []PublishedHasDescriptor
<1>1. Init => DescriptorInv
  BY DEF Init, DescriptorInv, PublishedHasDescriptor, At, Idle, NoRow, Early
<1>2. DescriptorInv => PublishedHasDescriptor BY DEF DescriptorInv
<1> QED BY <1>1, <1>2, DescriptorStep, TypeCorrect, PTL DEF Spec

-----------------------------------------------------------------------------
(* An upload answered 201 stays as it is. *)

(* The file has been written and closed. *)
Written == {"countersign", "parse", "group", "row", "semver", "check", "publish"}

(* A file is acknowledged with the body it holds and is then nobody's: as   *)
(* long as its uploads have not crossed, a worker past the immutability     *)
(* check holds a key that was not answered, it alone has the file open, and *)
(* what it has written is still there.                                      *)
StoredInv ==
  /\ \A v, w \in Worker :
       v # w /\ Busy(v) /\ Busy(w) /\ KeyOf(v) \notin crossed => KeyOf(v) # KeyOf(w)
  /\ \A k \in Key \ crossed : \A b \in Body : <<k, b>> \in acked => objects[k] = b
  /\ \A w \in Worker : Busy(w) /\ KeyOf(w) \notin crossed =>
       /\ ~At(w, "unlinked")
       /\ \A b \in Body : <<KeyOf(w), b>> \notin acked
       /\ At(w, "write") => objects[KeyOf(w)] = Torn
       /\ worker[w].pc \in Written => objects[KeyOf(w)] = BodyOf(w)

(* What has crossed or aged stays so, and failed calls stay counted.        *)
LEMMA HistoryGrows ==
  TypeOK /\ [Next]_vars =>
    crossed \subseteq crossed' /\ aged \subseteq aged' /\ (faults' = 0 => faults = 0)
<1> DEFINE Grows ==
      crossed \subseteq crossed' /\ aged \subseteq aged' /\ (faults' = 0 => faults = 0)
<1> SUFFICES ASSUME TypeOK, [Next]_vars PROVE Grows
  OBVIOUS
<1> USE DEF used, past
<1>f. faults \in Nat BY DEF TypeOK
<1>1. ASSUME NEW w \in Worker, Request(w) PROVE Grows
  BY <1>1 DEF Request, PutConflict, PutAdmitted
<1>2. ASSUME NEW w \in Worker, RejectBody(w) \/ PutFails(w) \/ IgnoredFault(w) \/ Step(w)
      PROVE  Grows
  BY <1>2, <1>f DEF RejectBody, PutFails, IgnoredFault, Step, OpenObject, WriteObject, WriteUnlinked,
     Countersign, RejectDescriptor, AcceptFieldless, WriteShafile, InsertGroup, InsertRow,
     InsertSemver, CheckDescriptor, PublishRow
<1>3. ASSUME NEW c \in Coord, Yank(c) \/ Age(c) \/ ReconFault(c) PROVE Grows
  BY <1>3, <1>f DEF Yank, Age, ReconFault
<1>4. ASSUME Reconcile \/ Crash PROVE Grows
  BY <1>4 DEF Reconcile, ReconSelect, ReconDeleteSemver, ReconDeleteRow, Crash
<1>5. ASSUME NEW g \in Group, CreateGroup(g) \/ CountReferences(g) \/ DeleteGroup(g)
      PROVE  Grows
  BY <1>5 DEF CreateGroup, CountReferences, DeleteGroup
<1>6. ASSUME UNCHANGED vars PROVE Grows BY <1>6 DEF vars
<1> QED BY <1>1, <1>2, <1>3, <1>4, <1>5, <1>6 DEF Next

(* The worker w moves on, past writing its file, or answers without 201.    *)
MovesOn(w) ==
  /\ UNCHANGED acked
  /\ \A v \in Worker : v # w => worker'[v] = worker[v]
  /\ \/ worker'[w].pc = "idle"
     \/ /\ worker'[w].key = worker[w].key /\ worker'[w].body = worker[w].body
        /\ worker[w].pc \in Written /\ worker'[w].pc \in Written

(* The worker w answers 201 for a file it has written.                      *)
Acknowledges(w) ==
  /\ worker[w].pc \in Written
  /\ Created(w)

(* What a step does to files, answers and requests in flight.               *)
LEMMA UploadSteps ==
  TypeOK /\ [Next]_vars =>
    \/ UNCHANGED <<objects, worker, acked>>
    \/ Crash
    \/ \E w \in Worker :
         \/ PutAdmitted(w) \/ OpenObject(w) \/ WriteObject(w) \/ WriteUnlinked(w)
         \/ RejectDescriptor(w)
         \/ UNCHANGED objects /\ (MovesOn(w) \/ Acknowledges(w))
<1> SUFFICES ASSUME TypeOK, [Next]_vars,
                    ~ UNCHANGED <<objects, worker, acked>>, ~Crash,
                    ~ \E w \in Worker : \/ PutAdmitted(w) \/ OpenObject(w) \/ WriteObject(w)
                                        \/ WriteUnlinked(w) \/ RejectDescriptor(w)
             PROVE  \E w \in Worker : UNCHANGED objects /\ (MovesOn(w) \/ Acknowledges(w))
  OBVIOUS
<1> USE DEF store, db, admin, used
<1>g. ASSUME NEW w \in Worker, NEW pc \in Written, Goto(w, pc), UNCHANGED acked, worker[w].pc \in Written
      PROVE  MovesOn(w)
  BY <1>g, GotoFacts DEF MovesOn
<1>r. ASSUME NEW w \in Worker, Refuse(w), UNCHANGED acked PROVE MovesOn(w)
  BY <1>r, RefuseFacts DEF MovesOn
<1>c. \A w \in Worker : AfterCountersign(w) \in Written BY DEF AfterCountersign, Written
<1>1. ASSUME NEW w \in Worker, RejectBody(w) \/ PutFails(w)
      PROVE  UNCHANGED objects /\ (MovesOn(w) \/ Acknowledges(w))
  BY <1>1, <1>r DEF RejectBody, PutFails
<1>2. ASSUME NEW w \in Worker,
             Countersign(w) \/ WriteShafile(w) \/ InsertGroup(w) \/ InsertRow(w) \/ InsertSemver(w)
      PROVE  UNCHANGED objects /\ (MovesOn(w) \/ Acknowledges(w))
  BY <1>2, <1>c, <1>g DEF Countersign, WriteShafile, InsertGroup, InsertRow, InsertSemver, At, Written
<1>3. ASSUME NEW w \in Worker, AcceptFieldless(w) \/ CheckDescriptor(w) \/ PublishRow(w)
      PROVE  UNCHANGED objects /\ (MovesOn(w) \/ Acknowledges(w))
  <2>1. worker[w].pc \in Written BY <1>3 DEF AcceptFieldless, CheckDescriptor, PublishRow, At, Written
  <2>2. UNCHANGED objects /\ (Created(w) \/ (Goto(w, "publish") /\ UNCHANGED acked))
    BY <1>3 DEF AcceptFieldless, CheckDescriptor, PublishRow
  <2>3. "publish" \in Written BY DEF Written
  <2> QED BY <1>g, <2>1, <2>2, <2>3 DEF Acknowledges
<1>4. ASSUME NEW w \in Worker, IgnoredFault(w)
      PROVE  UNCHANGED objects /\ (MovesOn(w) \/ Acknowledges(w))
  <2>1. worker[w].pc \in Written BY <1>4 DEF IgnoredFault, At, Written
  <2>2. {"group", "row", "semver", "check"} \subseteq Written BY DEF Written
  <2>3. \/ Created(w)
        \/ Refuse(w) /\ UNCHANGED acked
        \/ \E pc \in Written : Goto(w, pc) /\ UNCHANGED acked
    BY <1>4, <1>c, <2>2 DEF IgnoredFault
  <2>4. UNCHANGED objects BY <1>4 DEF IgnoredFault
  <2> QED BY <1>g, <1>r, <2>1, <2>3, <2>4 DEF Acknowledges
<1>5. ~ \E w \in Worker : PutConflict(w) BY DEF PutConflict
<1>6. ~ \E c \in Coord : Yank(c) \/ Age(c) \/ ReconFault(c) BY DEF Yank, Age, ReconFault
<1>7. ~Reconcile BY DEF Reconcile, ReconSelect, ReconDeleteSemver, ReconDeleteRow
<1>8. ~ \E g \in Group : CreateGroup(g) \/ CountReferences(g) \/ DeleteGroup(g)
  BY DEF CreateGroup, CountReferences, DeleteGroup
<1>9. ~ UNCHANGED vars BY DEF vars
<1> QED BY <1>1, <1>2, <1>3, <1>4, <1>5, <1>6, <1>7, <1>8, <1>9 DEF Next, Request, Step

(* Every step keeps the invariant: an upload that finds another of its key  *)
(* under way makes the key a crossed one.                                   *)
LEMMA StoredStep == TypeOK /\ StoredInv /\ [Next]_vars => StoredInv'
<1> SUFFICES ASSUME TypeOK, StoredInv, [Next]_vars PROVE StoredInv'
  OBVIOUS
<1> USE DEF At, KeyOf, BodyOf, Busy, store
<1>t. /\ objects \in [Key -> Body \cup {Torn, None}]
      /\ \A w \in Worker : worker[w].pc # "idle" => worker[w].key \in Key /\ worker[w].body \in Body
  BY DEF TypeOK, StoreOK, WorkersOK, RequestOK
<1>m. \A k : k \notin crossed' => k \notin crossed BY HistoryGrows
<1>a. \A v, w \in Worker :
        v # w /\ worker[v].pc # "idle" /\ worker[w].pc # "idle" /\ worker[v].key \notin crossed
          => worker[v].key # worker[w].key
  BY DEF StoredInv
<1>1. ASSUME UNCHANGED <<objects, worker, acked>> PROVE StoredInv' BY <1>1, <1>m DEF StoredInv
<1>2. ASSUME Crash PROVE StoredInv'
  <2>1. UNCHANGED <<objects, acked>> /\ \A w \in Worker : worker'[w].pc = "idle"
    BY <1>2 DEF Crash, Idle
  <2> QED BY <1>m, <2>1 DEF StoredInv
<1>3. ASSUME NEW w \in Worker, PutAdmitted(w) PROVE StoredInv'
  <2>1. PICK k \in Key, b \in Body :
          /\ objects[k] = None
          /\ worker' = [worker EXCEPT ![w] = [pc |-> "body", key |-> k, body |-> b]]
          /\ crossed' = IF Uploads(k) = {} THEN crossed ELSE crossed \cup {k}
    BY <1>3 DEF PutAdmitted
  <2>2. UNCHANGED <<objects, acked>> BY <1>3 DEF PutAdmitted
  <2>3. /\ \A v \in Worker : v # w => worker'[v] = worker[v]
        /\ worker'[w] = [pc |-> "body", key |-> k, body |-> b]
    BY <2>1 DEF TypeOK, WorkersOK
  <2>4. k \notin crossed' => \A a \in Body : <<k, a>> \notin acked BY <1>m, <2>1 DEF StoredInv
  <2>5. k \notin crossed' => \A v \in Worker : worker[v].pc # "idle" => worker[v].key # k
    BY <2>1 DEF Uploads
  <2>6. ASSUME NEW u \in Worker, NEW v \in Worker, u # v, worker'[u].pc # "idle", worker'[v].pc # "idle",
               worker'[u].key \notin crossed'
        PROVE  worker'[u].key # worker'[v].key
    <3>1. CASE u = w BY <2>3, <2>5, <2>6, <3>1
    <3>2. CASE v = w BY <2>3, <2>5, <2>6, <3>2
    <3>3. CASE u # w /\ v # w BY <1>a, <1>m, <2>3, <2>6, <3>3
    <3> QED BY <3>1, <3>2, <3>3
  <2>7. ASSUME NEW v \in Worker, worker'[v].pc # "idle", worker'[v].key \notin crossed'
        PROVE  /\ worker'[v].pc # "unlinked"
               /\ \A a \in Body : <<worker'[v].key, a>> \notin acked'
               /\ worker'[v].pc = "write" => objects'[worker'[v].key] = Torn
               /\ worker'[v].pc \in Written => objects'[worker'[v].key] = worker'[v].body
    <3>1. CASE v = w BY <2>2, <2>3, <2>4, <2>7, <3>1 DEF Written
    <3>2. CASE v # w
      <4>1. worker'[v] = worker[v] /\ worker[v].key \notin crossed BY <1>m, <2>3, <2>7, <3>2
      <4> QED BY <2>2, <2>7, <4>1 DEF StoredInv
    <3> QED BY <3>1, <3>2
  <2>8. \A j \in Key \ crossed' : \A a \in Body : <<j, a>> \in acked' => objects'[j] = a
    BY <1>m, <2>2 DEF StoredInv
  <2> QED BY <2>6, <2>7, <2>8 DEF StoredInv
<1>4. ASSUME NEW w \in Worker, OpenObject(w) \/ WriteObject(w) PROVE StoredInv'
  <2>1. /\ worker[w].pc # "idle" /\ worker[w].key \in Key /\ worker[w].body \in Body
        /\ worker[w].key \notin crossed => \A b \in Body : <<worker[w].key, b>> \notin acked
    BY <1>4, <1>t DEF OpenObject, WriteObject, StoredInv
  <2>2. UNCHANGED acked BY <1>4 DEF OpenObject, WriteObject
  <2>3. PICK o : /\ objects' = [objects EXCEPT ![worker[w].key] = o]
                 /\ worker[w].key \notin crossed =>
                      \/ worker'[w].pc = "write" /\ o = Torn
                      \/ worker'[w].pc \in Written /\ o = worker[w].body
                 /\ worker'[w].pc # "idle"
    <3>1. CASE OpenObject(w)
      <4>1. objects' = [objects EXCEPT ![worker[w].key] = Torn] BY <3>1 DEF OpenObject
      <4>2. worker'[w].pc = "write" BY <3>1, GotoFacts DEF OpenObject
      <4> QED BY <4>1, <4>2
    <3>2. CASE WriteObject(w)
      <4>1. worker[w].key \notin crossed => ~Contended(w)
        BY <2>1, <3>2 DEF WriteObject, Contended, StoredInv
      <4>2. AfterWrite(w) \in Written BY DEF AfterWrite, Written
      <4>3. PICK o : /\ objects' = [objects EXCEPT ![worker[w].key] = o]
                     /\ ~Contended(w) => o = worker[w].body
        BY <3>2 DEF WriteObject
      <4>4. worker'[w].pc \in Written BY <3>2, <4>2, GotoFacts DEF WriteObject
      <4> QED BY <4>1, <4>3, <4>4 DEF Written
    <3> QED BY <1>4, <3>1, <3>2
  <2>4. /\ worker'[w].key = worker[w].key /\ worker'[w].body = worker[w].body
        /\ \A v \in Worker : v # w => worker'[v] = worker[v]
    BY <1>4, GotoFacts DEF OpenObject, WriteObject
  <2>5. objects'[worker[w].key] = o /\ \A k \in Key : k # worker[w].key => objects'[k] = objects[k]
    BY <1>t, <2>1, <2>3
  <2>6. \A k \in Key \ crossed' : \A b \in Body : <<k, b>> \in acked' => objects'[k] = b
    BY <1>m, <2>1, <2>2, <2>5 DEF StoredInv
  <2>7. ASSUME NEW v \in Worker, worker'[v].pc # "idle", worker'[v].key \notin crossed'
        PROVE  /\ worker'[v].pc # "unlinked"
               /\ \A b \in Body : <<worker'[v].key, b>> \notin acked'
               /\ worker'[v].pc = "write" => objects'[worker'[v].key] = Torn
               /\ worker'[v].pc \in Written => objects'[worker'[v].key] = worker'[v].body
    <3>0. worker'[v].key = worker[v].key /\ worker[v].key \notin crossed
      BY <1>m, <2>4, <2>7
    <3>1. CASE v = w BY <2>1, <2>2, <2>3, <2>4, <2>5, <3>0, <3>1 DEF Written
    <3>2. CASE v # w
      <4>1. worker'[v] = worker[v] BY <2>4, <3>2
      <4>2. worker[v].key \in Key /\ worker[v].key # worker[w].key
        BY <1>a, <1>t, <2>1, <2>7, <3>0, <3>2, <4>1
      <4> QED BY <2>2, <2>5, <2>7, <3>0, <4>1, <4>2 DEF StoredInv
    <3> QED BY <3>1, <3>2
  <2>8. ASSUME NEW u \in Worker, NEW v \in Worker, u # v, worker'[u].pc # "idle", worker'[v].pc # "idle",
               worker'[u].key \notin crossed'
        PROVE  worker'[u].key # worker'[v].key
    BY <1>a, <1>m, <2>1, <2>4, <2>8
  <2> QED BY <2>6, <2>7, <2>8 DEF StoredInv
<1>5. ASSUME NEW w \in Worker, WriteUnlinked(w) PROVE StoredInv'
  <2>1. /\ worker[w].pc = "unlinked" /\ UNCHANGED <<objects, acked>>
        /\ worker'[w].key = worker[w].key
        /\ \A v \in Worker : v # w => worker'[v] = worker[v]
    BY <1>5, GotoFacts DEF WriteUnlinked
  <2>2. worker[w].key \in crossed /\ worker[w].key \in crossed' BY <2>1, HistoryGrows DEF StoredInv
  <2> QED BY <1>m, <2>1, <2>2 DEF StoredInv
<1>6. ASSUME NEW w \in Worker, RejectDescriptor(w) PROVE StoredInv'
  <2>1. /\ worker[w].pc = "parse" /\ worker[w].key \in Key
        /\ worker[w].key \notin crossed => \A b \in Body : <<worker[w].key, b>> \notin acked
    BY <1>6, <1>t DEF RejectDescriptor, StoredInv
  <2>2. UNCHANGED acked /\ objects' = [objects EXCEPT ![worker[w].key] = None]
    BY <1>6 DEF RejectDescriptor, Unlink
  <2>3. worker'[w].pc = "idle" BY <1>6 DEF RejectDescriptor, Unlink, Idle
  <2>4. ASSUME NEW v \in Worker, v # w
        PROVE  /\ worker'[v].key = worker[v].key /\ worker'[v].body = worker[v].body
               /\ worker'[v].pc # "idle" => worker[v].pc # "idle"
               /\ worker[v].key # worker[w].key => worker'[v] = worker[v]
    BY <1>6, <2>4 DEF RejectDescriptor, Unlink, TypeOK, WorkersOK
  <2>5. \A k \in Key : k # worker[w].key => objects'[k] = objects[k] BY <1>t, <2>2
  <2>6. \A k \in Key \ crossed' : \A b \in Body : <<k, b>> \in acked' => objects'[k] = b
    BY <1>m, <2>1, <2>2, <2>5 DEF StoredInv
  <2>7. ASSUME NEW v \in Worker, worker'[v].pc # "idle", worker'[v].key \notin crossed'
        PROVE  /\ worker'[v].pc # "unlinked"
               /\ \A b \in Body : <<worker'[v].key, b>> \notin acked'
               /\ worker'[v].pc = "write" => objects'[worker'[v].key] = Torn
               /\ worker'[v].pc \in Written => objects'[worker'[v].key] = worker'[v].body
    <3>1. v # w /\ worker[v].pc # "idle" /\ worker[v].key \notin crossed
      BY <1>m, <2>3, <2>4, <2>7
    <3>2. worker[v].key \in Key /\ worker[v].key # worker[w].key /\ worker'[v] = worker[v]
      BY <1>a, <1>t, <2>1, <2>4, <3>1
    <3> QED BY <2>2, <2>5, <3>1, <3>2 DEF StoredInv
  <2>8. ASSUME NEW u \in Worker, NEW v \in Worker, u # v, worker'[u].pc # "idle", worker'[v].pc # "idle",
               worker'[u].key \notin crossed'
        PROVE  worker'[u].key # worker'[v].key
    BY <1>a, <1>m, <2>3, <2>4, <2>8
  <2> QED BY <2>6, <2>7, <2>8 DEF StoredInv
<1>7. ASSUME NEW w \in Worker, UNCHANGED objects, MovesOn(w) PROVE StoredInv'
  BY <1>7, <1>m DEF MovesOn, StoredInv, Written
<1>8. ASSUME NEW w \in Worker, UNCHANGED objects, Acknowledges(w) PROVE StoredInv'
  <2>1. /\ worker'[w].pc = "idle"
        /\ \A v \in Worker : v # w => worker'[v] = worker[v]
        /\ acked' = acked \cup {<<worker[w].key, worker[w].body>>}
    BY <1>8, CreatedFacts DEF Acknowledges
  <2>2. worker[w].pc # "idle" /\ (worker[w].key \notin crossed => objects[worker[w].key] = worker[w].body)
    BY <1>8 DEF Acknowledges, StoredInv, Written
  <2>3. \A k \in Key \ crossed' : \A b \in Body : <<k, b>> \in acked' => objects'[k] = b
    BY <1>8, <1>m, <2>1, <2>2 DEF StoredInv
  <2>4. ASSUME NEW v \in Worker, v # w, worker[v].pc # "idle", worker[v].key \notin crossed
        PROVE  \A b \in Body : <<worker[v].key, b>> \notin acked'
    BY <1>a, <2>1, <2>2, <2>4 DEF StoredInv
  <2>5. ASSUME NEW v \in Worker, worker'[v].pc # "idle", worker'[v].key \notin crossed'
        PROVE  /\ worker'[v].pc # "unlinked"
               /\ \A b \in Body : <<worker'[v].key, b>> \notin acked'
               /\ worker'[v].pc = "write" => objects'[worker'[v].key] = Torn
               /\ worker'[v].pc \in Written => objects'[worker'[v].key] = worker'[v].body
    <3>1. v # w /\ worker'[v] = worker[v] /\ worker[v].key \notin crossed BY <1>m, <2>1, <2>5
    <3> QED BY <1>8, <2>4, <2>5, <3>1 DEF StoredInv
  <2>6. ASSUME NEW u \in Worker, NEW v \in Worker, u # v, worker'[u].pc # "idle", worker'[v].pc # "idle",
               worker'[u].key \notin crossed'
        PROVE  worker'[u].key # worker'[v].key
    BY <1>a, <1>m, <2>1, <2>6
  <2> QED BY <2>3, <2>5, <2>6 DEF StoredInv
<1> QED BY UploadSteps, <1>1, <1>2, <1>3, <1>4, <1>5, <1>6, <1>7, <1>8

(* The invariant holds at the start.                                        *)
LEMMA StoredInit == Init => StoredInv
BY DEF Init, StoredInv, At, Busy, Idle, Written

(* The immutability check: a file is acknowledged with two bodies only if   *)
(* two of its uploads were under way at one time, whatever fails and        *)
(* however often the process dies between two steps.                        *)
THEOREM DuplicatesNeedCrossing == Spec => []AcceptedOnce
<1>1. StoredInv => AcceptedOnce BY DEF StoredInv, AcceptedOnce
<1> QED BY <1>1, StoredInit, StoredStep, TypeCorrect, PTL DEF Spec

(* The file has been countersigned, if it is; a descriptor has its .sha256. *)
Signed == {"parse", "group", "row", "semver", "check", "publish"}
Registering == {"group", "row", "semver", "check", "publish"}

(* The files written beside an upload belong to the request that is being   *)
(* answered, and no later request writes them again, as long as uploads of  *)
(* the key have not crossed and no failing call was passed over.            *)
IntactInv ==
  faults = 0 =>
    /\ \A k \in Key \ crossed : \A b \in Body : <<k, b>> \in acked =>
         /\ HasRegistryKey => countersig[k] = b
         /\ k.file = "now.pasta" /\ Names[b] \in Coord => shafile[k.coord] = b
    /\ \A w \in Worker : KeyOf(w) \notin crossed =>
         /\ HasRegistryKey /\ worker[w].pc \in Signed => countersig[KeyOf(w)] = BodyOf(w)
         /\ worker[w].pc \in Registering /\ IsDescriptor(w) => shafile[KeyOf(w).coord] = BodyOf(w)

(* A step that writes no file beside an upload, and moves no request past   *)
(* the point where one is written.                                          *)
Steady ==
  /\ UNCHANGED <<countersig, shafile>>
  /\ \A v \in Worker : worker'[v].pc \in Signed =>
       /\ worker'[v].key = worker[v].key /\ worker'[v].body = worker[v].body
       /\ HasRegistryKey => worker[v].pc \in Signed
       /\ worker'[v].pc \in Registering /\ IsDescriptor(v) => worker[v].pc \in Registering
  /\ \A k \in Key : \A b \in Body : <<k, b>> \in acked' =>
       \/ <<k, b>> \in acked
       \/ \E v \in Worker :
            /\ k = worker[v].key /\ b = worker[v].body
            /\ worker[v].pc \in Signed
            /\ Names[b] \in Coord => worker[v].pc \in Registering

(* Every other step writes a countersignature or a .sha256, or is a failing *)
(* call.                                                                    *)
LEMMA SteadySteps ==
  TypeOK /\ [Next]_vars =>
    Steady \/ faults' # 0 \/ \E w \in Worker : Countersign(w) \/ WriteShafile(w)
<1> SUFFICES ASSUME TypeOK, [Next]_vars, faults' = 0,
                    ~ \E w \in Worker : Countersign(w) \/ WriteShafile(w)
             PROVE  Steady
  OBVIOUS
<1> USE DEF store, db, admin, used, At, KeyOf, BodyOf
<1>f. faults + 1 # faults' BY DEF TypeOK
<1>k. ASSUME UNCHANGED <<countersig, shafile, worker, acked>> PROVE Steady
  BY <1>k DEF Steady, Signed
<1>g. ASSUME NEW w \in Worker, NEW pc, Goto(w, pc), UNCHANGED <<countersig, shafile, acked>>,
             pc \in Signed => /\ HasRegistryKey => worker[w].pc \in Signed
                              /\ pc \in Registering /\ IsDescriptor(w) => worker[w].pc \in Registering
      PROVE  Steady
  BY <1>g, GotoFacts DEF Steady, Signed
<1>r. ASSUME NEW w \in Worker, Refuse(w), UNCHANGED <<countersig, shafile, acked>> PROVE Steady
  BY <1>r, RefuseFacts DEF Steady, Signed
<1>c. ASSUME NEW w \in Worker, Created(w), UNCHANGED <<countersig, shafile>>, worker[w].pc \in Signed,
             Names[worker[w].body] \in Coord => worker[w].pc \in Registering
      PROVE  Steady
  <2>1. /\ worker'[w].pc = "idle"
        /\ \A v \in Worker : v # w => worker'[v] = worker[v]
        /\ acked' = acked \cup {<<worker[w].key, worker[w].body>>}
    BY <1>c, CreatedFacts
  <2>2. ASSUME NEW k \in Key, NEW b \in Body, <<k, b>> \in acked', <<k, b>> \notin acked
        PROVE  k = worker[w].key /\ b = worker[w].body
    BY <2>1, <2>2
  <2> QED BY <1>c, <2>1, <2>2 DEF Steady, Signed
<1>1. ASSUME NEW w \in Worker, PutAdmitted(w) PROVE Steady
  <2>1. PICK k \in Key, b \in Body :
          worker' = [worker EXCEPT ![w] = [pc |-> "body", key |-> k, body |-> b]]
    BY <1>1 DEF PutAdmitted
  <2>2. /\ \A v \in Worker : v # w => worker'[v] = worker[v]
        /\ worker'[w].pc = "body"
    BY <2>1 DEF TypeOK, WorkersOK
  <2> QED BY <1>1, <2>2 DEF PutAdmitted, Steady, Signed
<1>2. ASSUME NEW w \in Worker, RejectBody(w) PROVE Steady BY <1>2, <1>r DEF RejectBody
<1>3. ASSUME NEW w \in Worker, OpenObject(w) PROVE Steady
  BY <1>3, <1>g DEF OpenObject, Signed
<1>4. ASSUME NEW w \in Worker, WriteObject(w) \/ WriteUnlinked(w) PROVE Steady
  <2>1. /\ AfterWrite(w) \in Signed => ~HasRegistryKey
        /\ ~(AfterWrite(w) \in Registering /\ IsDescriptor(w))
    BY DEF AfterWrite, Signed, Registering
  <2> QED BY <1>4, <1>g, <2>1 DEF WriteObject, WriteUnlinked
<1>5. ASSUME NEW w \in Worker, RejectDescriptor(w) PROVE Steady
  <2>1. \A v \in Worker : worker'[v] = worker[v] \/ worker'[v].pc \in {"idle", "unlinked"}
    BY <1>5 DEF RejectDescriptor, Unlink, Idle, TypeOK, WorkersOK
  <2> QED BY <1>5, <2>1 DEF RejectDescriptor, Steady, Signed
<1>6. ASSUME NEW w \in Worker, AcceptFieldless(w) PROVE Steady
  <2>1. Names[worker[w].body] \notin Coord BY <1>6 DEF AcceptFieldless, Flaw
  <2> QED BY <1>6, <1>c, <2>1 DEF AcceptFieldless, Signed
<1>7. ASSUME NEW w \in Worker, InsertGroup(w) \/ InsertRow(w) \/ InsertSemver(w) PROVE Steady
  BY <1>7, <1>g DEF InsertGroup, InsertRow, InsertSemver, Signed, Registering
<1>8. ASSUME NEW w \in Worker, CheckDescriptor(w) PROVE Steady
  BY <1>8, <1>c, <1>g DEF CheckDescriptor, Signed, Registering
<1>9. ASSUME NEW w \in Worker, PublishRow(w) PROVE Steady
  BY <1>9, <1>c DEF PublishRow, Signed, Registering
<1>10. ASSUME NEW w \in Worker PROVE ~PutFails(w) /\ ~IgnoredFault(w)
  BY <1>f DEF PutFails, IgnoredFault
<1>11. ASSUME NEW w \in Worker, PutConflict(w) PROVE Steady BY <1>11, <1>k DEF PutConflict
<1>12. ASSUME NEW c \in Coord, Yank(c) \/ Age(c) \/ ReconFault(c) PROVE Steady
  BY <1>12, <1>k DEF Yank, Age, ReconFault
<1>13. ASSUME Reconcile PROVE Steady
  BY <1>13, <1>k DEF Reconcile, ReconSelect, ReconDeleteSemver, ReconDeleteRow
<1>14. ASSUME NEW g \in Group, CreateGroup(g) \/ CountReferences(g) \/ DeleteGroup(g) PROVE Steady
  BY <1>14, <1>k DEF CreateGroup, CountReferences, DeleteGroup
<1>15. ASSUME Crash PROVE Steady BY <1>15 DEF Crash, Steady, Idle, Signed
<1>16. ASSUME UNCHANGED vars PROVE Steady BY <1>16, <1>k DEF vars
<1> QED
  BY <1>1, <1>2, <1>3, <1>4, <1>5, <1>6, <1>7, <1>8, <1>9, <1>10, <1>11, <1>12, <1>13, <1>14,
     <1>15, <1>16 DEF Next, Request, Step

(* The two steps that do write one overwrite nobody else's.                 *)
LEMMA IntactStep == TypeOK /\ StoredInv /\ IntactInv /\ [Next]_vars => IntactInv'
<1> SUFFICES ASSUME TypeOK, StoredInv, IntactInv, [Next]_vars, faults' = 0 PROVE IntactInv'
  BY DEF IntactInv
<1> USE DEF At, KeyOf, BodyOf, IsDescriptor, Busy, store
<1>t. /\ countersig \in [Key -> Body \cup {None}]
      /\ shafile \in [Coord -> Body \cup {None}]
      /\ \A w \in Worker : worker[w].pc # "idle" =>
           worker[w].key \in Key /\ worker[w].key.coord \in Coord /\ worker[w].body \in Body
      /\ \A w \in Worker : worker[w].pc = "parse" => worker[w].key.file = "now.pasta"
  BY DEF TypeOK, StoreOK, WorkersOK, RequestOK, Key
<1>k. \A j, k \in Key : j.file = k.file /\ j.coord = k.coord => j = k BY DEF Key
<1>m. faults = 0 /\ \A k : k \notin crossed' => k \notin crossed BY HistoryGrows
<1>a. \A v, w \in Worker :
        v # w /\ worker[v].pc # "idle" /\ worker[w].pc # "idle" /\ worker[v].key \notin crossed
          => worker[v].key # worker[w].key
  BY DEF StoredInv
<1>b. \A w \in Worker : worker[w].pc # "idle" /\ worker[w].key \notin crossed
        => \A b \in Body : <<worker[w].key, b>> \notin acked
  BY DEF StoredInv
<1>i. /\ \A k \in Key \ crossed : \A b \in Body : <<k, b>> \in acked =>
           /\ HasRegistryKey => countersig[k] = b
           /\ k.file = "now.pasta" /\ Names[b] \in Coord => shafile[k.coord] = b
      /\ \A w \in Worker : worker[w].key \notin crossed =>
           /\ HasRegistryKey /\ worker[w].pc \in Signed => countersig[worker[w].key] = worker[w].body
           /\ worker[w].pc \in Registering /\ worker[w].key.file = "now.pasta"
                => shafile[worker[w].key.coord] = worker[w].body
  BY <1>m DEF IntactInv
<1>s. SUFFICES /\ \A k \in Key \ crossed' : \A b \in Body : <<k, b>> \in acked' =>
                    /\ HasRegistryKey => countersig'[k] = b
                    /\ k.file = "now.pasta" /\ Names[b] \in Coord => shafile'[k.coord] = b
               /\ \A w \in Worker : worker'[w].key \notin crossed' /\ worker'[w].pc \in Signed =>
                    /\ HasRegistryKey => countersig'[worker'[w].key] = worker'[w].body
                    /\ worker'[w].pc \in Registering /\ worker'[w].key.file = "now.pasta"
                         => shafile'[worker'[w].key.coord] = worker'[w].body
  BY DEF IntactInv, Registering, Signed
<1> DEFINE Answered(k, b) == /\ HasRegistryKey => countersig'[k] = b
                             /\ k.file = "now.pasta" /\ Names[b] \in Coord => shafile'[k.coord] = b
           Beside(w) == /\ HasRegistryKey => countersig'[worker'[w].key] = worker'[w].body
                        /\ worker'[w].pc \in Registering /\ worker'[w].key.file = "now.pasta"
                             => shafile'[worker'[w].key.coord] = worker'[w].body
<1>1. ASSUME Steady,
             NEW k \in Key \ crossed', NEW b \in Body, <<k, b>> \in acked'
      PROVE  Answered(k, b)
  <2>1. CASE <<k, b>> \in acked BY <1>1, <1>i, <1>m, <2>1 DEF Steady
  <2>2. CASE \E v \in Worker :
               /\ k = worker[v].key /\ b = worker[v].body
               /\ worker[v].pc \in Signed
               /\ Names[b] \in Coord => worker[v].pc \in Registering
    BY <1>1, <1>i, <1>m, <2>2 DEF Steady
  <2> QED BY <1>1, <2>1, <2>2 DEF Steady
<1>2. ASSUME Steady, NEW w \in Worker, worker'[w].key \notin crossed', worker'[w].pc \in Signed
      PROVE  Beside(w)
  BY <1>2, <1>i, <1>m DEF Steady
<1>3. ASSUME NEW w \in Worker, Countersign(w)
      PROVE  /\ \A k \in Key \ crossed' : \A b \in Body : <<k, b>> \in acked' => Answered(k, b)
             /\ \A v \in Worker : worker'[v].key \notin crossed' /\ worker'[v].pc \in Signed => Beside(v)
  <2>1. worker[w].pc = "countersign" /\ worker[w].key \in Key BY <1>3, <1>t DEF Countersign
  <2>2. /\ countersig'[worker[w].key] = worker[w].body
        /\ \A k \in Key : k # worker[w].key => countersig'[k] = countersig[k]
    BY <1>3, <1>t, <2>1 DEF Countersign
  <2>3. UNCHANGED <<shafile, acked>> BY <1>3 DEF Countersign
  <2>4. /\ worker'[w].key = worker[w].key /\ worker'[w].body = worker[w].body
        /\ worker'[w].pc = AfterCountersign(w)
        /\ \A v \in Worker : v # w => worker'[v] = worker[v]
    BY <1>3, GotoFacts DEF Countersign
  <2>5. worker'[w].pc \in Registering => worker[w].key.file # "now.pasta"
    BY <2>4 DEF AfterCountersign, Registering
  <2>6. ASSUME NEW k \in Key \ crossed', NEW b \in Body, <<k, b>> \in acked' PROVE Answered(k, b)
    <3>1. k # worker[w].key BY <1>b, <1>m, <2>1, <2>3, <2>6
    <3> QED BY <1>i, <1>m, <2>2, <2>3, <2>6, <3>1
  <2>7. ASSUME NEW v \in Worker, worker'[v].key \notin crossed', worker'[v].pc \in Signed PROVE Beside(v)
    <3>1. CASE v = w BY <2>2, <2>4, <2>5, <3>1
    <3>2. CASE v # w
      <4>1. worker'[v] = worker[v] /\ worker[v].pc # "idle" /\ worker[v].key \notin crossed
        BY <1>m, <2>4, <2>7, <3>2 DEF Signed
      <4>2. worker[v].key # worker[w].key /\ worker[v].key \in Key BY <1>a, <1>t, <2>1, <3>2, <4>1
      <4> QED BY <1>i, <2>2, <2>3, <2>7, <4>1, <4>2
    <3> QED BY <3>1, <3>2
  <2> QED BY <2>6, <2>7
<1>4. ASSUME NEW w \in Worker, WriteShafile(w)
      PROVE  /\ \A k \in Key \ crossed' : \A b \in Body : <<k, b>> \in acked' => Answered(k, b)
             /\ \A v \in Worker : worker'[v].key \notin crossed' /\ worker'[v].pc \in Signed => Beside(v)
  <2>1. /\ worker[w].pc = "parse" /\ worker[w].key \in Key /\ worker[w].key.coord \in Coord
        /\ worker[w].key.file = "now.pasta"
    BY <1>4, <1>t DEF WriteShafile
  <2>2. /\ shafile'[worker[w].key.coord] = worker[w].body
        /\ \A c \in Coord : c # worker[w].key.coord => shafile'[c] = shafile[c]
    BY <1>4, <1>t, <2>1 DEF WriteShafile
  <2>3. UNCHANGED <<countersig, acked>> BY <1>4 DEF WriteShafile
  <2>4. /\ worker'[w].key = worker[w].key /\ worker'[w].body = worker[w].body
        /\ worker'[w].pc = "group"
        /\ \A v \in Worker : v # w => worker'[v] = worker[v]
    BY <1>4, GotoFacts DEF WriteShafile
  <2>5. ASSUME NEW k \in Key, k # worker[w].key, k.file = "now.pasta"
        PROVE  shafile'[k.coord] = shafile[k.coord]
    <3>1. k.coord \in Coord /\ k.coord # worker[w].key.coord BY <1>k, <2>1, <2>5 DEF Key
    <3> QED BY <2>2, <3>1
  <2>6. ASSUME NEW k \in Key \ crossed', NEW b \in Body, <<k, b>> \in acked' PROVE Answered(k, b)
    <3>1. k # worker[w].key BY <1>b, <1>m, <2>1, <2>3, <2>6
    <3> QED BY <1>i, <1>m, <2>3, <2>5, <2>6, <3>1
  <2>7. ASSUME NEW v \in Worker, worker'[v].key \notin crossed', worker'[v].pc \in Signed PROVE Beside(v)
    <3>1. CASE v = w
      <4>1. worker[w].key \notin crossed BY <1>m, <2>4, <2>7, <3>1
      <4> QED BY <1>i, <2>1, <2>2, <2>3, <2>4, <3>1, <4>1 DEF Signed
    <3>2. CASE v # w
      <4>1. worker'[v] = worker[v] /\ worker[v].pc # "idle" /\ worker[v].key \notin crossed
        BY <1>m, <2>4, <2>7, <3>2 DEF Signed
      <4>2. worker[v].key # worker[w].key /\ worker[v].key \in Key BY <1>a, <1>t, <2>1, <3>2, <4>1
      <4> QED BY <1>i, <2>3, <2>5, <2>7, <4>1, <4>2
    <3> QED BY <3>1, <3>2
  <2> QED BY <2>6, <2>7
<1> QED BY SteadySteps, <1>1, <1>2, <1>3, <1>4

(* A file answered 201 is what was uploaded, its countersignature signs it  *)
(* and its .sha256 hashes it, for ever and across crashes, unless a second  *)
(* upload of it was under way beside it or a failing call was passed over.  *)
THEOREM AckedStaysIntact == Spec => []AckedIsIntact
<1>1. Init => IntactInv
  BY DEF Init, IntactInv, Idle, Signed, Registering
<1>2. StoredInv /\ IntactInv => AckedIsIntact BY DEF StoredInv, IntactInv, AckedIsIntact
<1> QED BY <1>1, <1>2, IntactStep, StoredInit, StoredStep, TypeCorrect, PTL DEF Spec

-----------------------------------------------------------------------------
(* An acknowledged descriptor can be resolved. *)

(* Nothing ages, no group is administered and no call fails: what remains   *)
(* is any number of uploads, yanks and crashes.                             *)
Calm == ~Aging /\ ~GroupAdmin /\ MaxFaults = 0

(* Reconciliation and group deletion have nothing to do. *)
NothingToDrop ==
  /\ recon.todo = {} /\ recon.cur = None /\ deleting = None
  /\ \A c \in Coord : ~rows[c].stale

(* The tables only grow. *)
Growing ==
  /\ groups \subseteq groups'
  /\ \A c \in Coord :
       /\ rows[c].status # "absent" => rows'[c].status # "absent"
       /\ rows[c].status = "published" => rows'[c].status = "published"
       /\ semver'[c] >= semver[c]

(* In a calm system the tables only grow, and stay free of what the         *)
(* reconciliation thread looks for.                                         *)
LEMMA CalmStep ==
  ASSUME Calm
  PROVE  TypeOK /\ NothingToDrop /\ [Next]_vars => NothingToDrop' /\ Growing
<1> SUFFICES ASSUME TypeOK, NothingToDrop, [Next]_vars PROVE NothingToDrop' /\ Growing
  OBVIOUS
<1> USE DEF store, db, admin, used
<1>t. groups \subseteq Group /\ rows \in [Coord -> Row] /\ semver \in [Coord -> Nat]
  BY DEF TypeOK, TablesOK
<1>c. ~Aging /\ ~GroupAdmin /\ MaxFaults = 0 /\ ~(faults < MaxFaults) BY DEF Calm, TypeOK
<1>k. ASSUME UNCHANGED db, (recon' = recon /\ deleting' = deleting)
                           \/ (recon' = [todo |-> {}, cur |-> None] /\ deleting' = None)
      PROVE  NothingToDrop' /\ Growing
  BY <1>k, <1>t DEF NothingToDrop, Growing
<1>1. ASSUME NEW w \in Worker,
             \/ PutConflict(w) \/ PutAdmitted(w) \/ RejectBody(w) \/ OpenObject(w) \/ WriteObject(w)
             \/ WriteUnlinked(w) \/ Countersign(w) \/ RejectDescriptor(w) \/ AcceptFieldless(w)
             \/ WriteShafile(w) \/ CheckDescriptor(w)
      PROVE  NothingToDrop' /\ Growing
  BY <1>1, <1>k DEF PutConflict, PutAdmitted, RejectBody, OpenObject, WriteObject, WriteUnlinked,
                    Countersign, RejectDescriptor, AcceptFieldless, WriteShafile, CheckDescriptor
<1>2. ASSUME NEW w \in Worker, InsertGroup(w) PROVE NothingToDrop' /\ Growing
  BY <1>2, <1>t DEF InsertGroup, NothingToDrop, Growing
<1>3. ASSUME NEW w \in Worker, InsertRow(w) PROVE NothingToDrop' /\ Growing
  <2>1. \A c \in Coord : \/ rows'[c] = rows[c]
                         \/ /\ rows[c].status = "absent"
                            /\ rows'[c].status = "pending" /\ rows'[c].stale = FALSE
    BY <1>3, <1>t DEF InsertRow
  <2>2. UNCHANGED <<groups, semver, recon, deleting>> BY <1>3 DEF InsertRow
  <2> QED BY <1>t, <2>1, <2>2 DEF NothingToDrop, Growing
<1>4. ASSUME NEW w \in Worker, InsertSemver(w) PROVE NothingToDrop' /\ Growing
  <2>1. \A c \in Coord : semver'[c] = semver[c] \/ semver'[c] = semver[c] + 1
    BY <1>4, <1>t DEF InsertSemver
  <2>2. UNCHANGED <<groups, rows, recon, deleting>> BY <1>4 DEF InsertSemver
  <2> QED BY <1>t, <2>1, <2>2 DEF NothingToDrop, Growing
<1>5. ASSUME NEW w \in Worker, PublishRow(w) PROVE NothingToDrop' /\ Growing
  <2>1. \A c \in Coord : \/ rows'[c] = rows[c]
                         \/ rows'[c].status = "published" /\ rows'[c].stale = rows[c].stale
    BY <1>5, <1>t DEF PublishRow, Row
  <2>2. UNCHANGED <<groups, semver, recon, deleting>> BY <1>5 DEF PublishRow
  <2> QED BY <1>t, <2>1, <2>2 DEF NothingToDrop, Growing
<1>6. ASSUME NEW w \in Worker PROVE ~PutFails(w) /\ ~IgnoredFault(w)
  BY <1>c DEF PutFails, IgnoredFault
<1>7. ASSUME NEW c \in Coord, Yank(c) PROVE NothingToDrop' /\ Growing
  <2>1. \A d \in Coord : rows'[d].status = rows[d].status /\ rows'[d].stale = rows[d].stale
    BY <1>7, <1>t DEF Yank, Row
  <2>2. UNCHANGED <<groups, semver, recon, deleting>> BY <1>7 DEF Yank
  <2> QED BY <1>t, <2>1, <2>2 DEF NothingToDrop, Growing
<1>8. ASSUME NEW c \in Coord PROVE ~Age(c) /\ ~ReconFault(c) BY <1>c DEF Age, ReconFault
<1>9. ~Reconcile
  <2>1. ~ReconSelect BY DEF ReconSelect, StalePending, NothingToDrop
  <2>2. \A c \in Coord : ~ReconDeleteSemver(c) BY DEF ReconDeleteSemver, NothingToDrop
  <2>3. \A c \in Coord : ~ReconDeleteRow(c) BY DEF ReconDeleteRow, NothingToDrop
  <2> QED BY <2>1, <2>2, <2>3 DEF Reconcile
<1>10. ASSUME NEW g \in Group PROVE ~CreateGroup(g) /\ ~CountReferences(g) /\ ~DeleteGroup(g)
  BY <1>c DEF CreateGroup, CountReferences, DeleteGroup, NothingToDrop
<1>11. ASSUME Crash PROVE NothingToDrop' /\ Growing BY <1>11, <1>k DEF Crash
<1>12. ASSUME UNCHANGED vars PROVE NothingToDrop' /\ Growing BY <1>12, <1>k DEF vars
<1> QED
  BY <1>1, <1>2, <1>3, <1>4, <1>5, <1>6, <1>7, <1>8, <1>9, <1>10, <1>11, <1>12
     DEF Next, Request, Step

(* A descriptor that is uploaded where it says it belongs. *)
Honest(w) == IsDescriptor(w) /\ Names[BodyOf(w)] = KeyOf(w).coord

(* Such a descriptor stays in the store while its request goes on.          *)
HonestIsHeld ==
  \A w \in Worker : Busy(w) /\ Honest(w) =>
    ~At(w, "unlinked") /\ (~At(w, "body") => objects[KeyOf(w)] # None)

(* Only a rejected upload of the same coordinate could remove it.           *)
LEMMA HeldStep ==
  TypeOK /\ (NoRejects \/ CoordsApart) /\ HonestIsHeld /\ [Next]_vars => HonestIsHeld'
<1> SUFFICES ASSUME TypeOK, NoRejects \/ CoordsApart, HonestIsHeld, [Next]_vars,
                    NEW v \in Worker, Busy(v)', Honest(v)'
             PROVE  ~At(v, "unlinked")' /\ (~At(v, "body")' => objects'[KeyOf(v)'] # None)
  BY DEF HonestIsHeld
<1> USE DEF At, KeyOf, BodyOf, IsDescriptor, Honest, Busy, store
<1>t. /\ objects \in [Key -> Body \cup {Torn, None}]
      /\ \A w \in Worker : worker[w].pc # "idle" => worker[w].key \in Key /\ worker[w].body \in Body
  BY DEF TypeOK, StoreOK, WorkersOK, RequestOK
<1>h. /\ worker[v].pc # "idle" /\ worker'[v].key = worker[v].key /\ worker'[v].body = worker[v].body
        => /\ worker[v].pc # "unlinked"
           /\ worker[v].pc # "body" => objects[worker[v].key] # None
           /\ worker[v].key \in Key
  BY <1>t DEF HonestIsHeld
<1>1. CASE UNCHANGED <<objects, worker, acked>> BY <1>1, <1>h
<1>2. CASE Crash BY <1>2 DEF Crash, Idle
<1>3. ASSUME NEW w \in Worker, PutAdmitted(w)
      PROVE  worker'[v].pc # "unlinked" /\ (worker'[v].pc # "body" => objects'[worker'[v].key] # None)
  <2>1. PICK k \in Key, b \in Body :
          worker' = [worker EXCEPT ![w] = [pc |-> "body", key |-> k, body |-> b]]
    BY <1>3 DEF PutAdmitted
  <2>2. UNCHANGED objects BY <1>3 DEF PutAdmitted
  <2>3. (v # w => worker'[v] = worker[v]) /\ worker'[w].pc = "body"
    BY <2>1 DEF TypeOK, WorkersOK
  <2> QED BY <1>h, <2>2, <2>3
<1>4. ASSUME NEW w \in Worker, OpenObject(w) \/ WriteObject(w)
      PROVE  worker'[v].pc # "unlinked" /\ (worker'[v].pc # "body" => objects'[worker'[v].key] # None)
  <2>1. worker[w].pc # "idle" /\ worker[w].key \in Key /\ worker[w].body \in Body
    BY <1>4, <1>t DEF OpenObject, WriteObject
  <2>2. /\ objects'[worker[w].key] \in {worker[w].body, Torn}
        /\ \A k \in Key : k # worker[w].key => objects'[k] = objects[k]
    BY <1>4, <1>t, <2>1 DEF OpenObject, WriteObject
  <2>3. /\ worker'[w].key = worker[w].key /\ worker'[w].body = worker[w].body
        /\ worker'[w].pc # "unlinked"
        /\ v # w => worker'[v] = worker[v]
    BY <1>4, GotoFacts DEF OpenObject, WriteObject, AfterWrite
  <2>4. objects'[worker[w].key] # None BY <2>1, <2>2
  <2> QED BY <1>h, <2>1, <2>2, <2>3, <2>4
<1>5. ASSUME NEW w \in Worker, WriteUnlinked(w)
      PROVE  worker'[v].pc # "unlinked" /\ (worker'[v].pc # "body" => objects'[worker'[v].key] # None)
  <2>1. /\ worker'[w].key = worker[w].key /\ worker'[w].body = worker[w].body
        /\ v # w => worker'[v] = worker[v]
        /\ worker[w].pc = "unlinked" /\ UNCHANGED objects
    BY <1>5, GotoFacts DEF WriteUnlinked
  <2> QED BY <1>h, <2>1
<1>6. ASSUME NEW w \in Worker, RejectDescriptor(w)
      PROVE  worker'[v].pc # "unlinked" /\ (worker'[v].pc # "body" => objects'[worker'[v].key] # None)
  <2>1. worker[w].pc # "idle" /\ worker[w].key \in Key /\ worker[w].body \in Body
    BY <1>6, <1>t DEF RejectDescriptor
  <2>2. CoordsApart BY <1>6, <2>1 DEF RejectDescriptor, NoRejects
  <2>3. objects' = [objects EXCEPT ![worker[w].key] = None] BY <1>6 DEF RejectDescriptor, Unlink
  <2>4. /\ worker'[w].pc = "idle"
        /\ worker'[v] = worker[v] \/ (worker'[v].pc = "unlinked" /\ worker[v].pc = "write"
                                      /\ worker'[v].key = worker[v].key /\ worker'[v].body = worker[v].body
                                      /\ worker[v].key = worker[w].key)
                                  \/ v = w
    BY <1>6 DEF RejectDescriptor, Unlink, Idle, TypeOK, WorkersOK
  <2>5. v # w /\ worker[v].pc # "idle" /\ worker[v].key.file = "now.pasta"
        /\ Names[worker[v].body] = worker[v].key.coord
    BY <2>4
  <2>6. worker[v].key # worker[w].key
    BY <2>1, <2>2, <2>5 DEF CoordsApart, Target
  <2>7. worker'[v] = worker[v] BY <2>4, <2>5, <2>6
  <2>8. worker[v].key \in Key BY <1>h, <2>5, <2>7
  <2>9. objects'[worker[v].key] = objects[worker[v].key] BY <1>t, <2>3, <2>6, <2>8
  <2> QED BY <1>h, <2>5, <2>7, <2>9
<1>7. ASSUME NEW w \in Worker, UNCHANGED objects, MovesOn(w)
      PROVE  worker'[v].pc # "unlinked" /\ (worker'[v].pc # "body" => objects'[worker'[v].key] # None)
  BY <1>7, <1>h DEF MovesOn, Written
<1>8. ASSUME NEW w \in Worker, UNCHANGED objects, Acknowledges(w)
      PROVE  worker'[v].pc # "unlinked" /\ (worker'[v].pc # "body" => objects'[worker'[v].key] # None)
  BY <1>8, <1>h, CreatedFacts DEF Acknowledges
<1> QED BY UploadSteps, <1>1, <1>2, <1>3, <1>4, <1>5, <1>6, <1>7, <1>8

(* What a descriptor's request has registered so far is in the tables.      *)
RegistersInOrder ==
  \A w \in Worker :
    /\ At(w, "row") => GroupOf[Target(w)] \in groups
    /\ worker[w].pc \in {"semver", "check", "publish"} /\ IsDescriptor(w)
         => rows[Target(w)].status # "absent"
    /\ worker[w].pc \in {"check", "publish"} /\ IsDescriptor(w) => semver[Target(w)] > 0

(* A step that inserts nothing and checks no descriptor. *)
NoInsert ==
  \A v \in Worker :
    worker'[v].pc \in {"row", "semver", "check", "publish"} =>
      /\ worker'[v].key = worker[v].key /\ worker'[v].body = worker[v].body
      /\ \/ worker'[v].pc = worker[v].pc
         \/ worker[v].pc = "check" /\ worker'[v].pc = "publish"
         \/ worker'[v].pc = "check" /\ ~IsDescriptor(v)

(* Every other step of a calm system is one of the three inserts.           *)
LEMMA NoInsertSteps ==
  ASSUME Calm
  PROVE  TypeOK /\ [Next]_vars =>
           NoInsert \/ \E w \in Worker : InsertGroup(w) \/ InsertRow(w) \/ InsertSemver(w)
<1> SUFFICES ASSUME TypeOK, [Next]_vars,
                    ~ \E w \in Worker : InsertGroup(w) \/ InsertRow(w) \/ InsertSemver(w)
             PROVE  NoInsert
  OBVIOUS
<1> USE DEF At
<1>f. ~(faults < MaxFaults) BY DEF TypeOK, Calm
<1>k. ASSUME UNCHANGED worker PROVE NoInsert BY <1>k DEF NoInsert
<1>g. ASSUME NEW w \in Worker, NEW pc, Goto(w, pc),
             \/ pc \notin {"row", "semver", "check", "publish"}
             \/ worker[w].pc = "check" /\ pc = "publish"
             \/ pc = "check" /\ ~IsDescriptor(w)
      PROVE  NoInsert
  BY <1>g, GotoFacts DEF NoInsert
<1>r. ASSUME NEW w \in Worker, Refuse(w) \/ Created(w) PROVE NoInsert
  BY <1>r, RefuseFacts, CreatedFacts DEF NoInsert
<1>1. ASSUME NEW w \in Worker, PutAdmitted(w) PROVE NoInsert
  <2>1. PICK k \in Key, b \in Body :
          worker' = [worker EXCEPT ![w] = [pc |-> "body", key |-> k, body |-> b]]
    BY <1>1 DEF PutAdmitted
  <2>2. (\A v \in Worker : v # w => worker'[v] = worker[v]) /\ worker'[w].pc = "body"
    BY <2>1 DEF TypeOK, WorkersOK
  <2> QED BY <2>2 DEF NoInsert
<1>2. ASSUME NEW w \in Worker, RejectBody(w) \/ AcceptFieldless(w) \/ PublishRow(w) PROVE NoInsert
  BY <1>2, <1>r DEF RejectBody, AcceptFieldless, PublishRow
<1>3. ASSUME NEW w \in Worker, OpenObject(w) \/ WriteShafile(w) PROVE NoInsert
  BY <1>3, <1>g DEF OpenObject, WriteShafile
<1>4. ASSUME NEW w \in Worker, WriteObject(w) \/ WriteUnlinked(w) PROVE NoInsert
  <2>1. AfterWrite(w) \in {"countersign", "parse"} \/ (AfterWrite(w) = "check" /\ ~IsDescriptor(w))
    BY DEF AfterWrite
  <2> QED BY <1>4, <1>g, <2>1 DEF WriteObject, WriteUnlinked
<1>5. ASSUME NEW w \in Worker, Countersign(w) PROVE NoInsert
  <2>1. AfterCountersign(w) = "parse" \/ (AfterCountersign(w) = "check" /\ ~IsDescriptor(w))
    BY DEF AfterCountersign
  <2> QED BY <1>5, <1>g, <2>1 DEF Countersign
<1>6. ASSUME NEW w \in Worker, RejectDescriptor(w) PROVE NoInsert
  <2>1. \A v \in Worker : worker'[v] = worker[v] \/ worker'[v].pc \in {"idle", "unlinked"}
    BY <1>6 DEF RejectDescriptor, Unlink, Idle, TypeOK, WorkersOK
  <2> QED BY <2>1 DEF NoInsert
<1>7. ASSUME NEW w \in Worker, CheckDescriptor(w) PROVE NoInsert
  BY <1>7, <1>g, <1>r DEF CheckDescriptor
<1>8. ASSUME NEW w \in Worker PROVE ~PutFails(w) /\ ~IgnoredFault(w)
  BY <1>f DEF PutFails, IgnoredFault
<1>9. ASSUME NEW w \in Worker, PutConflict(w) PROVE NoInsert BY <1>9, <1>k DEF PutConflict
<1>10. ASSUME NEW c \in Coord, Yank(c) \/ Age(c) \/ ReconFault(c) PROVE NoInsert
  BY <1>10, <1>k DEF Yank, Age, ReconFault
<1>11. ASSUME Reconcile PROVE NoInsert
  BY <1>11, <1>k DEF Reconcile, ReconSelect, ReconDeleteSemver, ReconDeleteRow
<1>12. ASSUME NEW g \in Group, CreateGroup(g) \/ CountReferences(g) \/ DeleteGroup(g) PROVE NoInsert
  BY <1>12, <1>k DEF CreateGroup, CountReferences, DeleteGroup
<1>13. ASSUME Crash PROVE NoInsert BY <1>13 DEF Crash, NoInsert, Idle
<1>14. ASSUME UNCHANGED vars PROVE NoInsert BY <1>14, <1>k DEF vars
<1> QED
  BY <1>1, <1>2, <1>3, <1>4, <1>5, <1>6, <1>7, <1>8, <1>9, <1>10, <1>11, <1>12, <1>13, <1>14
     DEF Next, Request, Step

(* Each insert finds what the one before it has left: the row its group,    *)
(* the semver row its artifact.                                             *)
LEMMA RegisterStep ==
  ASSUME Calm
  PROVE  TypeOK /\ NothingToDrop /\ RegistersInOrder /\ [Next]_vars => RegistersInOrder'
<1> SUFFICES ASSUME TypeOK, NothingToDrop, RegistersInOrder, [Next]_vars,
                    NEW v \in Worker
             PROVE  /\ At(v, "row")' => GroupOf[Target(v)'] \in groups'
                    /\ worker'[v].pc \in {"semver", "check", "publish"} /\ IsDescriptor(v)'
                         => rows'[Target(v)'].status # "absent"
                    /\ worker'[v].pc \in {"check", "publish"} /\ IsDescriptor(v)'
                         => semver'[Target(v)'] > 0
  BY DEF RegistersInOrder
<1> USE DEF At, KeyOf, BodyOf, IsDescriptor, Target
<1>t. /\ groups \subseteq Group /\ rows \in [Coord -> Row] /\ semver \in [Coord -> Nat]
      /\ semver' \in [Coord -> Nat]
      /\ \A w \in Worker : worker[w].pc \in {"group", "row", "semver", "check", "publish"} => Target(w) \in Coord
  <2>1. TypeOK' BY TypeStep
  <2> QED BY <2>1 DEF TypeOK, TablesOK, WorkersOK, RequestOK
<1>g. Growing BY CalmStep
<1>v. /\ worker[v].pc = "row" => GroupOf[Target(v)] \in groups
      /\ worker[v].pc \in {"semver", "check", "publish"} /\ IsDescriptor(v)
           => rows[Target(v)].status # "absent"
      /\ worker[v].pc \in {"check", "publish"} /\ IsDescriptor(v) => semver[Target(v)] > 0
  BY DEF RegistersInOrder
(* A request that stays where it was keeps what it had: the tables grow. *)
<1>s. ASSUME worker'[v].key = worker[v].key, worker'[v].body = worker[v].body,
             worker'[v].pc = worker[v].pc \/ (worker[v].pc = "check" /\ worker'[v].pc = "publish")
      PROVE  /\ At(v, "row")' => GroupOf[Target(v)'] \in groups'
             /\ worker'[v].pc \in {"semver", "check", "publish"} /\ IsDescriptor(v)'
                  => rows'[Target(v)'].status # "absent"
             /\ worker'[v].pc \in {"check", "publish"} /\ IsDescriptor(v)'
                  => semver'[Target(v)'] > 0
  <2>1. Target(v)' = Target(v) /\ IsDescriptor(v)' = IsDescriptor(v) BY <1>s
  <2>2. worker[v].pc \in {"row", "semver", "check", "publish"} => Target(v) \in Coord BY <1>t
  <2> HIDE DEF Target, IsDescriptor
  <2> QED BY <1>g, <1>s, <1>t, <1>v, <2>1, <2>2 DEF Growing
<1>1. CASE NoInsert
  BY <1>1, <1>s DEF NoInsert
<1>2. ASSUME NEW w \in Worker, InsertGroup(w) \/ InsertRow(w) \/ InsertSemver(w)
      PROVE  /\ worker'[w].key = worker[w].key /\ worker'[w].body = worker[w].body
             /\ v # w => worker'[v] = worker[v]
             /\ Target(w) \in Coord /\ Target(w)' = Target(w) /\ IsDescriptor(w)
  <2>1. /\ worker'[w].key = worker[w].key /\ worker'[w].body = worker[w].body
        /\ v # w => worker'[v] = worker[v]
    <3>1. \E pc : Goto(w, pc) BY <1>2 DEF InsertGroup, InsertRow, InsertSemver
    <3> QED BY <3>1, GotoFacts
  <2>2. worker[w].pc \in {"group", "row", "semver"} BY <1>2 DEF InsertGroup, InsertRow, InsertSemver
  <2>3. IsDescriptor(w) BY <2>2 DEF TypeOK, WorkersOK, RequestOK
  <2> QED BY <1>t, <2>1, <2>2, <2>3
<1>3. ASSUME NEW w \in Worker, v = w, InsertGroup(w)
      PROVE  worker'[v].pc = "row" /\ GroupOf[Target(v)'] \in groups'
  BY <1>2, <1>3, GotoFacts DEF InsertGroup
<1>4. ASSUME NEW w \in Worker, v = w, InsertRow(w)
      PROVE  worker'[v].pc = "semver" /\ rows'[Target(v)'].status # "absent"
  <2>1. worker[v].pc = "row" /\ worker'[v].pc = "semver" BY <1>4, GotoFacts DEF InsertRow
  <2>2. Target(v) \in Coord /\ Target(v)' = Target(v) /\ GroupOf[Target(v)] \in groups
    BY <1>2, <1>4, <1>v, <2>1
  <2>3. rows'[Target(v)].status # "absent"
    <3> HIDE DEF Target
    <3> QED BY <1>4, <1>t, <2>2 DEF InsertRow
  <2> QED BY <2>1, <2>2, <2>3
<1>5. ASSUME NEW w \in Worker, v = w, InsertSemver(w)
      PROVE  worker'[v].pc = "check" /\ rows'[Target(v)'].status # "absent" /\ semver'[Target(v)'] > 0
  <2>1. worker[v].pc = "semver" /\ worker'[v].pc = "check" /\ UNCHANGED rows
    BY <1>5, GotoFacts DEF InsertSemver
  <2>2. Target(v) \in Coord /\ Target(v)' = Target(v) /\ rows[Target(v)].status # "absent"
    BY <1>2, <1>5, <1>v, <2>1
  <2>3. semver'[Target(v)] = semver[Target(v)] + 1
    <3> HIDE DEF Target
    <3> QED BY <1>5, <1>t, <2>2 DEF InsertSemver
  <2>4. semver[Target(v)] \in Nat BY <1>t, <2>2
  <2> HIDE DEF Target
  <2> QED BY <2>1, <2>2, <2>3, <2>4
<1>6. ASSUME NEW w \in Worker, InsertGroup(w) \/ InsertRow(w) \/ InsertSemver(w)
      PROVE  /\ At(v, "row")' => GroupOf[Target(v)'] \in groups'
             /\ worker'[v].pc \in {"semver", "check", "publish"} /\ IsDescriptor(v)'
                  => rows'[Target(v)'].status # "absent"
             /\ worker'[v].pc \in {"check", "publish"} /\ IsDescriptor(v)'
                  => semver'[Target(v)'] > 0
  <2>1. CASE v # w BY <1>2, <1>6, <1>s, <2>1
  <2>2. CASE v = w
    <3> HIDE DEF Target, IsDescriptor
    <3> QED BY <1>3, <1>4, <1>5, <1>6, <2>2
  <2> QED BY <2>1, <2>2
<1> QED BY NoInsertSteps, <1>1, <1>6

(* A 201 for a descriptor that belongs where it lies is sent only by        *)
(* PublishRow: the check before it finds the very file that was uploaded.   *)
LEMMA ResolvableStep ==
  ASSUME Calm
  PROVE  /\ TypeOK /\ NothingToDrop /\ HonestIsHeld /\ RegistersInOrder /\ AckedIsResolvable
         /\ [Next]_vars
         => AckedIsResolvable'
<1> SUFFICES ASSUME TypeOK, NothingToDrop, HonestIsHeld, RegistersInOrder, AckedIsResolvable,
                    [Next]_vars,
                    NEW k \in Key, NEW b \in Body, <<k, b>> \in acked',
                    k.file = "now.pasta", Names[b] = k.coord, k.coord \notin aged', faults' = 0
             PROVE  rows'[k.coord].status = "published" /\ semver'[k.coord] > 0
  BY DEF AckedIsResolvable
<1>p. k.coord \notin aged /\ faults = 0 BY HistoryGrows
<1> USE DEF At, KeyOf, BodyOf, IsDescriptor, store, db
<1>t. k.coord \in Coord /\ k = DescriptorKey(k.coord) /\ rows \in [Coord -> Row]
      /\ semver \in [Coord -> Nat] /\ semver' \in [Coord -> Nat] /\ k.coord \notin Flaw
  <2>1. TypeOK' BY TypeStep
  <2>2. k.coord \in Coord /\ k = DescriptorKey(k.coord) BY DEF Key, DescriptorKey
  <2> QED BY <2>1, <2>2 DEF TypeOK, TablesOK
<1>g. Growing BY CalmStep
<1>1. CASE <<k, b>> \in acked BY <1>1, <1>g, <1>p, <1>t DEF AckedIsResolvable, Growing
<1>a. ASSUME NEW w \in Worker, Created(w), <<k, b>> \notin acked
      PROVE  k = worker[w].key /\ b = worker[w].body /\ Target(w) = k.coord
  <2>1. acked' = acked \cup {<<worker[w].key, worker[w].body>>} BY <1>a DEF Created
  <2>2. k = worker[w].key /\ b = worker[w].body BY <1>a, <2>1
  <2> QED BY <2>2 DEF Target
<1>2. ASSUME NEW w \in Worker, AcceptFieldless(w), <<k, b>> \notin acked PROVE FALSE
  BY <1>2, <1>a, <1>t DEF AcceptFieldless, Flaw
<1>3. ASSUME NEW w \in Worker, CheckDescriptor(w), <<k, b>> \notin acked PROVE FALSE
  <2>1. Created(w) /\ objects[DescriptorKey(Target(w))] = None /\ worker[w].pc = "check"
    BY <1>3 DEF CheckDescriptor
  <2>2. k = worker[w].key /\ b = worker[w].body /\ Target(w) = k.coord BY <1>3, <1>a, <2>1
  <2>3. objects[worker[w].key] # None BY <2>1, <2>2 DEF HonestIsHeld, Honest, Busy
  <2>4. DescriptorKey(Target(w)) = worker[w].key BY <1>t, <2>2
  <2> QED BY <2>1, <2>3, <2>4
<1>4. ASSUME NEW w \in Worker, PublishRow(w), <<k, b>> \notin acked
      PROVE  rows'[k.coord].status = "published" /\ semver'[k.coord] > 0
  <2>1. Created(w) /\ worker[w].pc = "publish" /\ UNCHANGED semver BY <1>4 DEF PublishRow
  <2>2. k = worker[w].key /\ b = worker[w].body /\ Target(w) = k.coord BY <1>4, <1>a, <2>1
  <2>3. rows[k.coord].status # "absent" /\ semver[k.coord] > 0
    BY <2>1, <2>2 DEF RegistersInOrder
  <2>4. rows[k.coord].status \in {"pending", "published"} BY <1>t, <2>3 DEF Row
  <2>5. rows'[k.coord].status = "published" BY <1>4, <1>t, <2>2, <2>4 DEF PublishRow
  <2> QED BY <2>1, <2>3, <2>5
<1>5. ASSUME <<k, b>> \notin acked
      PROVE  \E w \in Worker : AcceptFieldless(w) \/ CheckDescriptor(w) \/ PublishRow(w)
  <2> SUFFICES ASSUME ~ \E w \in Worker : AcceptFieldless(w) \/ CheckDescriptor(w) \/ PublishRow(w)
               PROVE  UNCHANGED acked
    BY <1>5
  <2> USE DEF used, admin
  <2>1. ASSUME NEW w \in Worker, Request(w) \/ RejectBody(w) \/ PutFails(w) PROVE UNCHANGED acked
    BY <2>1 DEF Request, PutConflict, PutAdmitted, RejectBody, PutFails
  <2>2. ASSUME NEW w \in Worker, Step(w) PROVE UNCHANGED acked
    BY <2>2 DEF Step, OpenObject, WriteObject, WriteUnlinked, Countersign, RejectDescriptor,
                WriteShafile, InsertGroup, InsertRow, InsertSemver
  <2>3. ~ \E w \in Worker : IgnoredFault(w) BY DEF IgnoredFault, Calm, TypeOK
  <2>4. ASSUME NEW c \in Coord, Yank(c) \/ Age(c) \/ ReconFault(c) PROVE UNCHANGED acked
    BY <2>4 DEF Yank, Age, ReconFault
  <2>5. ASSUME Reconcile PROVE UNCHANGED acked
    BY <2>5 DEF Reconcile, ReconSelect, ReconDeleteSemver, ReconDeleteRow
  <2>6. ASSUME NEW g \in Group, CreateGroup(g) \/ CountReferences(g) \/ DeleteGroup(g)
        PROVE  UNCHANGED acked
    BY <2>6 DEF CreateGroup, CountReferences, DeleteGroup
  <2>7. ASSUME Crash \/ UNCHANGED vars PROVE UNCHANGED acked BY <2>7 DEF Crash, vars
  <2> QED BY <2>1, <2>2, <2>3, <2>4, <2>5, <2>6, <2>7 DEF Next
<1> QED BY <1>1, <1>2, <1>3, <1>4, <1>5

(* In a calm system, and as long as no rejected descriptor crosses another  *)
(* upload of its coordinate, a descriptor answered 201 where it belongs is  *)
(* published and has the semver row that /resolve looks for, however many   *)
(* workers register it at once and whenever the process dies.               *)
THEOREM AckedStaysResolvable ==
  ASSUME Calm
  PROVE  Spec /\ [](NoRejects \/ CoordsApart) => []AckedIsResolvable
<1>1. Init => NothingToDrop /\ HonestIsHeld /\ RegistersInOrder /\ AckedIsResolvable
  <2> SUFFICES ASSUME Init
               PROVE  NothingToDrop /\ HonestIsHeld /\ RegistersInOrder /\ AckedIsResolvable
    OBVIOUS
  <2>1. NothingToDrop BY DEF Init, NothingToDrop, NoRow
  <2>2. HonestIsHeld BY DEF Init, HonestIsHeld, Busy, At, Idle
  <2>3. RegistersInOrder BY DEF Init, RegistersInOrder, At, Idle
  <2>4. AckedIsResolvable BY DEF Init, AckedIsResolvable
  <2> QED BY <2>1, <2>2, <2>3, <2>4
<1>2. TypeOK /\ NothingToDrop /\ [Next]_vars => NothingToDrop' BY CalmStep
<1>3. TypeOK /\ NothingToDrop /\ RegistersInOrder /\ [Next]_vars => RegistersInOrder'
  BY RegisterStep
<1>4. /\ TypeOK /\ NothingToDrop /\ HonestIsHeld /\ RegistersInOrder /\ AckedIsResolvable
      /\ [Next]_vars
      => AckedIsResolvable'
  BY ResolvableStep
<1> QED BY <1>1, <1>2, <1>3, <1>4, HeldStep, TypeCorrect, PTL DEF Spec
==============================================================================
