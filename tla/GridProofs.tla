----------------------------- MODULE GridProofs -----------------------------
(* Proofs about module Grid, for every finite set of registries, every      *)
(* configuration and table of peers, and every number of clients.           *)
EXTENDS Grid, FiniteSetTheorems, TLAPS

JobFields == {"pc", "at", "kind", "path", "query", "token", "accept", "order", "tried", "msg",
              "had", "status", "found", "flagged"}

Bodies == {"whole", "cut", "none"}

Turns == Seq([id : Registry, mode : {"p", "r"}])

Try == [id : Registry, status : Nat, body : Bodies, signed : BOOLEAN, fresh : BOOLEAN,
        pk : Registry \cup {None}]

-----------------------------------------------------------------------------
(* The request sent for j at time t, with headers h, to the peer of this    *)
(* turn.                                                                    *)
Method(j) == IF j.kind = "artifact" /\ j.order[Turn(j)].mode = "r" THEN "HEAD" ELSE "GET"

Asked(j) == IF j.kind = "resolve" THEN j.query ELSE ""

Signed(j, t, h) ==
  [key |-> j.at, text |-> Canonical(Method(j), <<j.kind, j.path, Asked(j)>>, <<j.at>>, 1, h, t)]

Sent(j, t, h) ==
  [method |-> Method(j), kind |-> j.kind, path |-> j.path, query |-> Asked(j),
   via |-> <<j.at>>, hop |-> 1, hdrs |-> Arriving(j.order[Turn(j)].id, h), origin |-> j.at, ts |-> t,
   sig |-> IF j.at \in HasKey /\ h.whole THEN Signed(j, t, h) ELSE None]

(* The state of a handler is well formed. *)
Shape(j) ==
  /\ DOMAIN j = JobFields
  /\ j.pc \in {"miss", "fan", "wait", "done"}
  /\ j.at \in Registry /\ j.kind \in Kind /\ j.path \in Path
  /\ j.order \in Turns /\ j.tried \in Seq(Try)
  /\ j.pc = "miss" => j.tried = <<>>
  /\ j.pc = "wait" => /\ Turn(j) <= Len(j.order)
                      /\ \E t \in 0 .. now : \E h \in Headers(j) : j.msg = Sent(j, t, h)

(* What a handler knows is true, and stays so while the tables change. *)
Truth(j) ==
  /\ j.had \subseteq Registry /\ \A r \in j.had : held[r][j.path] # "absent"
  /\ j.pc # "done" => j.status = 200
  /\ j.status # 307 => j.found \subseteq Registry \X Path /\ \A x \in j.found : held[x[1]][x[2]] # "absent"
  /\ j.flagged => held[j.at][j.path] = "yanked"
  /\ (j.pc # "done" \/ j.found # {}) => MayRead(j)

JobOK(j) == j.pc # "idle" => Shape(j) /\ Truth(j) /\ Vouched(j) /\ NonePassedOver(j)

Basics ==
  /\ peers \in [Registry -> [Registry -> PeerRow \cup {None}]]
  /\ held \in [Registry -> [Path -> Holding]]
  /\ DOMAIN job = Client
  /\ now \in Nat

(* The inductive invariant. *)
GridInv == Basics /\ \A c \in Client : JobOK(job[c])

-----------------------------------------------------------------------------
LEMMA GridInvInit == Init => GridInv
<1> SUFFICES ASSUME Init PROVE GridInv
  OBVIOUS
<1>1. Basics BY GridAssumption DEF Init, Basics
<1>2. \A c \in Client : job[c].pc = "idle" BY DEF Init, Idle
<1> QED BY <1>1, <1>2 DEF GridInv, JobOK

(* The invariant is strong enough. *)
LEMMA GridInvSuffices == GridInv => HolderFound /\ AnswersAreTrue /\ PeersVouch
<1> SUFFICES ASSUME GridInv PROVE HolderFound /\ AnswersAreTrue /\ PeersVouch
  OBVIOUS
<1>1. HolderFound BY DEF GridInv, JobOK, HolderFound, NonePassedOver
<1>2. PeersVouch BY DEF GridInv, JobOK, PeersVouch, Vouched
<1>3. AnswersAreTrue BY DEF GridInv, JobOK, Truth, AnswersAreTrue
<1> QED BY <1>1, <1>2, <1>3
-----------------------------------------------------------------------------
(* What happens to the tables while a handler waits: an artifact is never   *)
(* removed, and a yank is final.                                            *)
Aging ==
  /\ now' \in Nat /\ now <= now'
  /\ held' \in [Registry -> [Path -> Holding]]
  /\ \A r \in Registry, p \in Path :
       /\ held[r][p] # "absent" => held'[r][p] # "absent"
       /\ held[r][p] = "yanked" => held'[r][p] = "yanked"

LEMMA JobsAge ==
  ASSUME Basics, Aging, NEW j, JobOK(j)
  PROVE  JobOK(j)'
<1> SUFFICES ASSUME j.pc # "idle"
             PROVE  Shape(j)' /\ Truth(j)' /\ Vouched(j)' /\ NonePassedOver(j)'
  BY DEF JobOK
<1>1. Shape(j) /\ Truth(j) /\ Vouched(j) /\ NonePassedOver(j) BY DEF JobOK
<1>2. j.at \in Registry /\ j.path \in Path /\ j.tried \in Seq(Try) BY <1>1 DEF Shape
<1>3. Shape(j)'
  <2>1. (\E t \in 0 .. now : \E h \in Headers(j) : j.msg = Sent(j, t, h))
          => \E t \in 0 .. now' : \E h \in Headers(j) : j.msg = Sent(j, t, h)
    <3>1. now \in Nat /\ now' \in Nat /\ now <= now' BY DEF Basics, Aging
    <3>2. \A t \in 0 .. now : t \in 0 .. now' BY <3>1
    <3> QED BY <3>2, Zenon
  <2> QED BY <1>1, <2>1 DEF Shape
<1>4. Truth(j)'
  <2>1. j.had \subseteq Registry /\ \A r \in j.had : held'[r][j.path] # "absent"
    <3>1. j.had \subseteq Registry /\ \A r \in j.had : held[r][j.path] # "absent"
      BY <1>1 DEF Truth
    <3> QED BY <1>2, <3>1 DEF Aging
  <2>2. ASSUME j.status # 307
        PROVE  j.found \subseteq Registry \X Path /\ \A x \in j.found : held'[x[1]][x[2]] # "absent"
    <3>1. j.found \subseteq Registry \X Path /\ \A x \in j.found : held[x[1]][x[2]] # "absent"
      BY <1>1, <2>2 DEF Truth
    <3>2. \A x \in j.found : x[1] \in Registry /\ x[2] \in Path BY <3>1
    <3> QED BY <3>1, <3>2 DEF Aging
  <2>3. j.flagged => held'[j.at][j.path] = "yanked" BY <1>1, <1>2 DEF Truth, Aging
  <2> QED BY <1>1, <2>1, <2>2, <2>3 DEF Truth, MayRead
<1>5. Vouched(j)' BY <1>1 DEF Vouched
<1>6. NonePassedOver(j)'
  <2>1. ASSUME NEW i \in DOMAIN j.tried, j.tried[i].id \in j.had,
               held[j.tried[i].id][j.path] # "published"
        PROVE  held'[j.tried[i].id][j.path] # "published"
    <3>1. j.tried[i].id \in Registry /\ held[j.tried[i].id][j.path] # "absent"
      BY <1>1, <2>1 DEF Truth
    <3>2. held[j.tried[i].id][j.path] = "yanked" BY <1>2, <2>1, <3>1 DEF Basics, Holding
    <3> QED BY <1>2, <3>1, <3>2 DEF Aging
  <2> QED BY <1>1, <2>1 DEF NonePassedOver, Expected, Carried
<1> QED BY <1>3, <1>4, <1>5, <1>6

(* A step that leaves the handlers alone. *)
LEMMA TableStep ==
  ASSUME GridInv, Aging, UNCHANGED job,
         peers' \in [Registry -> [Registry -> PeerRow \cup {None}]]
  PROVE  GridInv'
<1>1. Basics' BY DEF GridInv, Basics, Aging
<1>2. ASSUME NEW c \in Client PROVE JobOK(job[c])'
  <2>1. JobOK(job[c]) /\ Basics BY DEF GridInv
  <2>2. PICK j : j = job[c] OBVIOUS
  <2>3. JobOK(j)' BY <2>1, <2>2, JobsAge
  <2> QED BY <2>2, <2>3
<1> QED BY <1>1, <1>2 DEF GridInv

(* A step of one handler. *)
LEMMA JobStep ==
  ASSUME GridInv, NEW c \in Client, NEW x, JobOK(x), job' = [job EXCEPT ![c] = x],
         UNCHANGED <<peers, held, now>>
  PROVE  GridInv'
<1>1. Basics /\ Basics' BY DEF GridInv, Basics
<1>2. Aging BY <1>1 DEF Aging, Basics
<1>3. ASSUME NEW d \in Client PROVE JobOK(job[d])'
  <2>1. PICK j : j = job'[d] OBVIOUS
  <2>2. JobOK(j) BY <2>1 DEF GridInv, Basics
  <2>3. JobOK(j)' BY <1>1, <1>2, <2>2, JobsAge
  <2> QED BY <2>1, <2>3
<1> QED BY <1>1, <1>3 DEF GridInv
-----------------------------------------------------------------------------
(* Administration, uploads and the clock change the tables only. *)
LEMMA OutsideStep ==
  ASSUME GridInv,
         \/ \E e \in Edit : (e.row = None /\ DeletePeer(e.at, e.id)) \/ PutPeer(e.at, e.id, e.row)
         \/ \E r \in Registry, p \in Path : Publishes(r, p) \/ Yank(r, p)
         \/ Tick
  PROVE  GridInv'
<1>1. Basics BY DEF GridInv
<1>2. ASSUME NEW e \in Edit, (e.row = None /\ DeletePeer(e.at, e.id)) \/ PutPeer(e.at, e.id, e.row)
      PROVE  GridInv'
  <2>1. /\ e.at \in Registry /\ e.id \in Registry /\ e.row \in PeerRow \cup {None}
    BY GridAssumption
  <2>2. peers' = [peers EXCEPT ![e.at][e.id] = e.row] /\ UNCHANGED <<held, job, now>>
    BY <1>2 DEF DeletePeer, PutPeer
  <2>3. peers' \in [Registry -> [Registry -> PeerRow \cup {None}]]
    BY <1>1, <2>1, <2>2 DEF Basics
  <2>4. Aging BY <1>1, <2>2 DEF Basics, Aging
  <2> QED BY <2>2, <2>3, <2>4, TableStep
<1>3. ASSUME NEW r \in Registry, NEW p \in Path, Publishes(r, p) \/ Yank(r, p)
      PROVE  GridInv'
  <2>1. UNCHANGED <<peers, job, now>> BY <1>3 DEF Publishes, Yank
  <2>0. PICK h \in Holding :
          /\ h # "absent" /\ held[r][p] # "yanked"
          /\ held' = [held EXCEPT ![r] = [held[r] EXCEPT ![p] = h]]
    BY <1>3 DEF Publishes, Yank, Holding
  <2> DEFINE row == [held[r] EXCEPT ![p] = h]
  <2>2. held' \in [Registry -> [Path -> Holding]]
    <3>1. held[r] \in [Path -> Holding] BY <1>1 DEF Basics
    <3>2. row \in [Path -> Holding] BY <3>1
    <3> HIDE DEF row
    <3> QED BY <1>1, <2>0, <3>2 DEF Basics, row
  <2>3. ASSUME NEW q \in Registry, NEW y \in Path
        PROVE  /\ held[q][y] # "absent" => held'[q][y] # "absent"
               /\ held[q][y] = "yanked" => held'[q][y] = "yanked"
    <3>1. CASE q # r
      <4>1. held'[q] = held[q] BY <1>1, <2>0, <3>1 DEF Basics
      <4> QED BY <4>1
    <3>2. CASE q = r
      <4>1. held'[q] = row BY <1>1, <2>0, <3>2 DEF Basics
      <4>2. held[r] \in [Path -> Holding] BY <1>1 DEF Basics
      <4>3. row[y] = IF y = p THEN h ELSE held[r][y] BY <4>2
      <4> HIDE DEF row
      <4> QED BY <2>0, <3>2, <4>1, <4>3
    <3> QED BY <3>1, <3>2
  <2>4. Aging BY <1>1, <2>1, <2>2, <2>3 DEF Basics, Aging
  <2> QED BY <1>1, <2>1, <2>4, TableStep DEF Basics
<1>4. ASSUME Tick PROVE GridInv'
  <2>1. now' = now + 1 /\ UNCHANGED <<peers, held, job>> BY <1>4 DEF Tick
  <2>2. Aging BY <1>1, <2>1 DEF Basics, Aging
  <2> QED BY <1>1, <2>1, <2>2, TableStep DEF Basics
<1> QED BY <1>2, <1>3, <1>4

(* A handler that has not asked anybody yet. *)
LEMMA NewJob ==
  ASSUME Basics, NEW x, DOMAIN x = JobFields,
         x.pc \in {"miss", "done"}, x.at \in Registry, x.kind \in Kind, x.path \in Path,
         x.order = <<>>, x.tried = <<>>, x.had = Holders(x.path),
         x.pc # "done" => x.status = 200,
         x.found \subseteq Registry \X Path, \A y \in x.found : held[y[1]][y[2]] # "absent",
         x.flagged => held[x.at][x.path] = "yanked",
         (x.pc # "done" \/ x.found # {}) => MayRead(x)
  PROVE  JobOK(x)
<1>1. Shape(x)
  <2>1. <<>> \in Turns /\ <<>> \in Seq(Try) BY DEF Turns
  <2> QED BY <2>1 DEF Shape
<1>2. Truth(x)
  <2>1. x.had \subseteq Registry /\ \A r \in x.had : held[r][x.path] # "absent" BY DEF Holders
  <2> QED BY <2>1 DEF Truth
<1>3. DOMAIN x.tried = {} OBVIOUS
<1>4. Vouched(x) BY <1>3 DEF Vouched
<1>5. NonePassedOver(x) BY <1>3 DEF NonePassedOver
<1> QED BY <1>1, <1>2, <1>4, <1>5 DEF JobOK

(* What a registry finds by itself is there. *)
LEMMA FindsWhatIsThere ==
  ASSUME Basics, NEW r \in Registry, NEW p \in Path, NEW query, NEW claims
  PROVE  /\ Resolves(r, p, query) \subseteq Registry \X Path
         /\ \A x \in Resolves(r, p, query) : held[x[1]][x[2]] # "absent"
         /\ Stored(r, p) \subseteq Registry \X Path
         /\ \A x \in Stored(r, p) : held[x[1]][x[2]] # "absent"
         /\ Listed(r, claims, query) \subseteq Registry \X Path
         /\ \A x \in Listed(r, claims, query) : held[x[1]][x[2]] # "absent"
<1>1. /\ Resolves(r, p, query) \subseteq Registry \X Path
      /\ \A x \in Resolves(r, p, query) : held[x[1]][x[2]] # "absent"
  BY DEF Resolves
<1>2. /\ Stored(r, p) \subseteq Registry \X Path
      /\ \A x \in Stored(r, p) : held[x[1]][x[2]] # "absent"
  BY DEF Stored
<1>3. /\ Listed(r, claims, query) \subseteq Registry \X Path
      /\ \A x \in Listed(r, claims, query) : held[x[1]][x[2]] # "absent"
  BY DEF Listed
<1> QED BY <1>1, <1>2, <1>3
(* The fields of a new handler that the cases below leave alone. *)
Fresh(x, r, kind, p, t) ==
  /\ DOMAIN x = JobFields
  /\ x.at = r /\ x.kind = kind /\ x.path = p /\ x.token = t
  /\ x.order = <<>> /\ x.tried = <<>> /\ x.had = Holders(p)

LEMMA AskStep ==
  ASSUME GridInv, NEW c \in Client, NEW r \in Registry, NEW kind \in Kind, NEW p \in Path,
         NEW query, NEW via, NEW t, NEW accept, Ask(c, r, kind, p, query, via, t, accept)
  PROVE  GridInv'
<1> DEFINE j == [pc |-> "done", at |-> r, kind |-> kind, path |-> p, query |-> query,
                 token |-> t, accept |-> accept, order |-> <<>>, tried |-> <<>>, msg |-> None,
                 had |-> Holders(p), status |-> 200, found |-> {}, flagged |-> FALSE]
<1>1. Basics BY DEF GridInv
<1>2. UNCHANGED <<peers, held, now>> BY DEF Ask
<1> DEFINE x == IF ~Admitted(r, kind, p, t) THEN [j EXCEPT !.status = IF t = None THEN 401 ELSE 403]
                ELSE CASE kind = "resolve" -> HandleResolve(j, via)
                       [] kind = "artifact" -> HandleArtifact(j, via)
                       [] kind = "manifest" -> HandleManifest(j)
<1>3. job' = [job EXCEPT ![c] = x] BY DEF Ask
<1>4. /\ Fresh(j, r, kind, p, t) /\ j.pc = "done" /\ j.status = 200 /\ j.found = {} /\ j.flagged = FALSE
      /\ j.query = query /\ j.accept = accept
  BY DEF Fresh, JobFields
<1> HIDE DEF j, x
<1>5. ASSUME Fresh(x, r, kind, p, t), x.pc \in {"miss", "done"}, x.pc # "done" => x.status = 200,
             x.found \subseteq Registry \X Path, \A y \in x.found : held[y[1]][y[2]] # "absent",
             x.flagged => held[r][p] = "yanked",
             (x.pc # "done" \/ x.found # {}) => Admitted(r, kind, p, t)
      PROVE  GridInv'
  <2>1. Admitted(r, kind, p, t) => MayRead(x) BY <1>5 DEF Fresh, Admitted, MayRead
  <2>2. JobOK(x)
    BY <1>1, <1>5, <2>1, NewJob DEF Fresh
  <2> QED BY <1>2, <1>3, <2>2, JobStep
<1>6. CASE ~Admitted(r, kind, p, t)
  <2>1. x = [j EXCEPT !.status = IF t = None THEN 401 ELSE 403] BY <1>6 DEF x
  <2>2. Fresh(x, r, kind, p, t) /\ x.pc = "done" /\ x.found = {} /\ x.flagged = FALSE
    BY <1>4, <2>1 DEF Fresh, JobFields
  <2> QED BY <1>5, <2>2
<1>7. CASE Admitted(r, kind, p, t) /\ kind = "resolve"
  <2>1. x = HandleResolve(j, via) BY <1>7 DEF x
  <2> DEFINE found == Resolves(r, p, query)
  <2>2. x = [j EXCEPT !.pc = "miss"] \/ x = Versions(j, found)
    BY <1>4, <2>1 DEF HandleResolve, Fresh
  <2>3. found \subseteq Registry \X Path /\ \A y \in found : held[y[1]][y[2]] # "absent"
    BY <1>1, FindsWhatIsThere
  <2> HIDE DEF found
  <2>4. CASE x = [j EXCEPT !.pc = "miss"]
    <3>1. Fresh(x, r, kind, p, t) /\ x.pc = "miss" /\ x.status = 200 /\ x.found = {} /\ x.flagged = FALSE
      BY <1>4, <2>4 DEF Fresh, JobFields
    <3> QED BY <1>5, <1>7, <3>1
  <2>5. CASE x = Versions(j, found)
    <3>1. Fresh(x, r, kind, p, t) /\ x.pc = "done" /\ x.found = found /\ x.flagged = FALSE
      BY <1>4, <2>5 DEF Versions, Fresh, JobFields
    <3> QED BY <1>5, <1>7, <2>3, <3>1
  <2> QED BY <2>2, <2>4, <2>5
<1>8. CASE Admitted(r, kind, p, t) /\ kind = "artifact"
  <2>1. x = HandleArtifact(j, via) BY <1>8 DEF x
  <2>2. PICK yanked \in BOOLEAN : yanked = (held[r][p] = "yanked")
    <3>1. CASE held[r][p] = "yanked"
      <4>1. TRUE = (held[r][p] = "yanked") /\ TRUE \in BOOLEAN BY <3>1
      <4> QED BY <4>1
    <3>2. CASE held[r][p] # "yanked"
      <4>1. FALSE = (held[r][p] = "yanked") /\ FALSE \in BOOLEAN BY <3>2
      <4> QED BY <4>1
    <3> QED BY <3>1, <3>2
  <2> DEFINE found == Stored(r, p)
             status == IF found = {} THEN 404 ELSE IF p \in Descriptor /\ ~accept THEN 406 ELSE 200
             y == [j EXCEPT !.status = status, !.found = found, !.flagged = yanked]
  <2>3. x = [j EXCEPT !.pc = "miss"] \/ x = y
    BY <1>4, <2>1, <2>2 DEF HandleArtifact, Fresh
  <2>4. found \subseteq Registry \X Path /\ \A z \in found : held[z[1]][z[2]] # "absent"
    BY <1>1, FindsWhatIsThere
  <2> HIDE DEF found, status
  <2>5. CASE x = [j EXCEPT !.pc = "miss"]
    <3>1. Fresh(x, r, kind, p, t) /\ x.pc = "miss" /\ x.status = 200 /\ x.found = {} /\ x.flagged = FALSE
      BY <1>4, <2>5 DEF Fresh, JobFields
    <3> QED BY <1>5, <1>8, <3>1
  <2>6. CASE x = y
    <3>1. Fresh(x, r, kind, p, t) /\ x.pc = "done" /\ x.found = found /\ x.flagged = yanked
      BY <1>4, <2>6 DEF Fresh, JobFields
    <3>2. x.flagged => held[r][p] = "yanked" BY <2>2, <3>1
    <3> QED BY <1>5, <1>8, <2>4, <3>1, <3>2
  <2> QED BY <2>3, <2>5, <2>6
<1>9. CASE Admitted(r, kind, p, t) /\ kind = "manifest"
  <2>1. x = HandleManifest(j) BY <1>9 DEF x
  <2> DEFINE found == Listed(r, Claims(r, t), query)
             pc == IF query = "grid" /\ r \in GridEnabled THEN "miss" ELSE "done"
  <2>2. x = [j EXCEPT !.pc = pc, !.found = found] BY <1>4, <2>1 DEF HandleManifest, Fresh
  <2>3. found \subseteq Registry \X Path /\ \A z \in found : held[z[1]][z[2]] # "absent"
    BY <1>1, FindsWhatIsThere
  <2>4. pc \in {"miss", "done"} OBVIOUS
  <2> HIDE DEF found, pc
  <2>5. Fresh(x, r, kind, p, t) /\ x.pc = pc /\ x.status = 200 /\ x.found = found /\ x.flagged = FALSE
    BY <1>4, <2>2 DEF Fresh, JobFields
  <2> QED BY <1>5, <1>9, <2>3, <2>4, <2>5
<1> QED BY <1>6, <1>7, <1>8, <1>9 DEF Kind
-----------------------------------------------------------------------------
(* x is j as far as what was asked for is concerned. *)
SameQuestion(x, j) ==
  /\ DOMAIN x = JobFields
  /\ x.at = j.at /\ x.kind = j.kind /\ x.path = j.path /\ x.query = j.query /\ x.token = j.token
  /\ x.had = j.had /\ x.flagged = j.flagged

LEMMA SameExpected ==
  ASSUME NEW j, NEW x, SameQuestion(x, j), NEW try
  PROVE  Expected(x, try) <=> Expected(j, try)
BY DEF Expected, Carried, SameQuestion

(* A handler that goes on without having tried another peer. *)
LEMMA SameTries ==
  ASSUME NEW j, NEW x, JobOK(j), j.pc \in {"miss", "fan"},
         SameQuestion(x, j), x.tried = j.tried, x.order \in Turns,
         x.order = j.order \/ j.tried = <<>>,
         x.pc \in {"fan", "wait", "done"},
         x.pc = "wait" => /\ Turn(x) <= Len(x.order)
                          /\ \E t \in 0 .. now : \E h \in Headers(x) : x.msg = Sent(x, t, h),
         x.pc # "done" => x.status = 200, x.status # 307, x.found \subseteq j.found
  PROVE  JobOK(x)
<1>1. Shape(j) /\ Truth(j) /\ Vouched(j) /\ NonePassedOver(j) BY DEF JobOK
<1>2. Shape(x) BY <1>1 DEF Shape, SameQuestion
<1>3. Truth(x)
  <2>1. /\ j.found \subseteq Registry \X Path /\ \A y \in j.found : held[y[1]][y[2]] # "absent"
        /\ MayRead(j)
    BY <1>1 DEF Truth
  <2>2. MayRead(x) BY <2>1 DEF MayRead, SameQuestion
  <2> QED BY <1>1, <2>1, <2>2 DEF Truth, SameQuestion
<1>4. Vouched(x) BY <1>1 DEF Vouched, SameQuestion
<1>5. NonePassedOver(x)
  <2>1. CASE j.tried = <<>>
    <3>1. DOMAIN x.tried = {} BY <2>1
    <3> QED BY <3>1 DEF NonePassedOver
  <2>2. CASE x.order = j.order
    <3>1. \A try : Expected(x, try) <=> Expected(j, try) BY SameExpected
    <3> QED BY <1>1, <2>2, <3>1 DEF NonePassedOver, SameQuestion
  <2> QED BY <2>1, <2>2
<1> QED BY <1>2, <1>3, <1>4, <1>5 DEF JobOK

(* grid_load_peers gives a sequence: there are finitely many peers. *)
LEMMA LoadPeersStep ==
  ASSUME GridInv, NEW c \in Client, LoadPeers(c)
  PROVE  GridInv'
<1> DEFINE j == job[c]
<1>1. Basics /\ JobOK(j) /\ j.pc = "miss" BY DEF GridInv, LoadPeers
<1>2. Shape(j) /\ Truth(j) BY <1>1 DEF JobOK
<1>3. j.at \in Registry /\ j.tried = <<>> /\ DOMAIN j = JobFields /\ j.status = 200
  BY <1>1, <1>2 DEF Shape, Truth
<1> DEFINE table == peers[j.at]
           rows == {id \in Registry : table[id] # None}
<1>4. table \in [Registry -> PeerRow \cup {None}] BY <1>1, <1>3 DEF Basics
<1>5. Cardinality(rows) \in Nat
  <2>1. IsFiniteSet(Registry) /\ rows \subseteq Registry BY GridAssumption
  <2> HIDE DEF rows
  <2> QED BY <2>1, FS_Subset, FS_CardinalityType
<1>6. PICK order \in Loaded(table) :
        job' = [job EXCEPT ![c].pc = "fan",
                  ![c].order = [i \in DOMAIN order |-> [id |-> order[i], mode |-> table[order[i]].mode]]]
  BY DEF LoadPeers
<1>7. order \in [1 .. Cardinality(rows) -> rows] BY DEF Loaded, Listings
<1> DEFINE O == [i \in DOMAIN order |-> [id |-> order[i], mode |-> table[order[i]].mode]]
<1>8. O \in Turns
  <2>1. \A i \in 1 .. Cardinality(rows) : order[i] \in Registry /\ table[order[i]] \in PeerRow
    BY <1>4, <1>7
  <2>2. \A i \in 1 .. Cardinality(rows) :
          [id |-> order[i], mode |-> table[order[i]].mode] \in [id : Registry, mode : {"p", "r"}]
    BY <2>1 DEF PeerRow
  <2>3. DOMAIN order = 1 .. Cardinality(rows) BY <1>7
  <2>4. PICK n \in Nat : n = Cardinality(rows) BY <1>5
  <2>5. DOMAIN O = 1 .. n /\ \A i \in 1 .. n : O[i] \in [id : Registry, mode : {"p", "r"}]
    BY <2>2, <2>3, <2>4
  <2>6. O = [i \in 1 .. n |-> O[i]] BY <2>3, <2>4
  <2> HIDE DEF O
  <2>7. O \in [1 .. n -> [id : Registry, mode : {"p", "r"}]] BY <2>5, <2>6
  <2> DEFINE S == [id : Registry, mode : {"p", "r"}]
  <2>8. O \in [1 .. n -> S] BY <2>7
  <2> HIDE DEF S
  <2>9. O \in Seq(S) BY <2>8
  <2> QED BY <2>9 DEF Turns, S
<1> DEFINE x == [j EXCEPT !.pc = "fan", !.order = O]
<1>9. job' = [job EXCEPT ![c] = x] BY <1>1, <1>6 DEF Basics
<1> HIDE DEF O
<1>10. /\ SameQuestion(x, j) /\ x.pc = "fan" /\ x.order = O /\ x.tried = j.tried
       /\ x.status = 200 /\ x.found = j.found
  BY <1>3 DEF SameQuestion, JobFields
<1> HIDE DEF x, j
<1>11. JobOK(x) BY <1>1, <1>3, <1>8, <1>10, SameTries
<1>12. UNCHANGED <<peers, held, now>> BY DEF LoadPeers
<1> QED BY <1>9, <1>11, <1>12, JobStep

LEMMA SendStep ==
  ASSUME GridInv, NEW c \in Client, Send(c)
  PROVE  GridInv'
<1> DEFINE j == job[c]
           M(h) == Request(j.at, j.order[Turn(j)].id, Method(j), j.kind, j.path, Asked(j), h)
<1>1. Basics /\ JobOK(j) /\ j.pc = "fan" /\ Turn(j) <= Len(j.order) BY DEF GridInv, Send
<1>2. Shape(j) /\ Truth(j) BY <1>1 DEF JobOK
<1>3. DOMAIN j = JobFields /\ j.status = 200 /\ j.order \in Turns
  BY <1>1, <1>2 DEF Shape, Truth
<1>4. PICK h \in Headers(j) :
        job' = [job EXCEPT ![c] = [j EXCEPT !.pc = "wait", !.msg = M(h)]]
  BY <1>1 DEF Send, Method, Asked, Basics
<1> DEFINE m == M(h)
           x == [j EXCEPT !.pc = "wait", !.msg = m]
<1>5. m = Sent(j, now, h) BY DEF Request, Sent, Signed
<1>6. job' = [job EXCEPT ![c] = x] /\ UNCHANGED <<peers, held, now>> BY <1>4 DEF Send
<1> HIDE DEF m
<1>7. /\ SameQuestion(x, j) /\ x.pc = "wait" /\ x.order = j.order /\ x.tried = j.tried
      /\ x.status = 200 /\ x.found = j.found /\ x.msg = m
  BY <1>3 DEF SameQuestion, JobFields
<1> HIDE DEF x
<1>8. Turn(x) = Turn(j) BY <1>7 DEF Turn
<1>9. Sent(x, now, h) = Sent(j, now, h) /\ h \in Headers(x)
  <2>1. Method(x) = Method(j) /\ Asked(x) = Asked(j) /\ Headers(x) = Headers(j)
    BY <1>7, <1>8 DEF Method, Asked, Headers, SameQuestion
  <2> QED BY <1>4, <1>7, <1>8, <2>1 DEF Sent, Signed, SameQuestion
<1>10. now \in 0 .. now BY <1>1 DEF Basics
<1> HIDE DEF j
<1>11. \E t \in 0 .. now : \E g \in Headers(x) : x.msg = Sent(x, t, g) BY <1>5, <1>7, <1>9, <1>10
<1>12. JobOK(x) BY <1>1, <1>3, <1>7, <1>8, <1>11, SameTries
<1> QED BY <1>6, <1>12, JobStep

LEMMA FinishStep ==
  ASSUME GridInv, NEW c \in Client, Finish(c)
  PROVE  GridInv'
<1> DEFINE j == job[c]
           x == CASE j.kind = "resolve" -> Versions(j, {})
                  [] j.kind = "artifact" -> [j EXCEPT !.pc = "done", !.status = 404]
                  [] j.kind = "manifest" -> [j EXCEPT !.pc = "done"]
<1>1. Basics /\ JobOK(j) /\ j.pc = "fan" BY DEF GridInv, Finish
<1>2. Shape(j) /\ Truth(j) BY <1>1 DEF JobOK
<1>3. DOMAIN j = JobFields /\ j.status = 200 /\ j.order \in Turns /\ j.kind \in Kind
  BY <1>1, <1>2 DEF Shape, Truth
<1>4. job' = [job EXCEPT ![c] = x] /\ UNCHANGED <<peers, held, now>> BY DEF Finish
<1>5. /\ SameQuestion(x, j) /\ x.pc = "done" /\ x.order = j.order /\ x.tried = j.tried
      /\ x.status # 307 /\ x.found \subseteq j.found
  <2>1. CASE j.kind = "resolve"
    <3>1. x = [j EXCEPT !.pc = "done", !.found = {}, !.status = IF j.accept THEN 200 ELSE 406]
      BY <2>1 DEF Versions
    <3> HIDE DEF x
    <3> QED BY <1>3, <3>1 DEF SameQuestion, JobFields
  <2>2. CASE j.kind = "artifact"
    <3>1. x = [j EXCEPT !.pc = "done", !.status = 404] BY <2>2
    <3> HIDE DEF x
    <3> QED BY <1>3, <3>1 DEF SameQuestion, JobFields
  <2>3. CASE j.kind = "manifest"
    <3>1. x = [j EXCEPT !.pc = "done"] BY <2>3
    <3> HIDE DEF x
    <3> QED BY <1>3, <3>1 DEF SameQuestion, JobFields
  <2> QED BY <1>3, <2>1, <2>2, <2>3 DEF Kind
<1> HIDE DEF x, j
<1>6. JobOK(x) BY <1>1, <1>3, <1>5, SameTries
<1> QED BY <1>4, <1>6, JobStep
-----------------------------------------------------------------------------
(* The request a handler waits for an answer to. *)
LEMMA Waiting ==
  ASSUME Basics, NEW j, Shape(j), j.pc = "wait"
  PROVE  /\ j.order[Turn(j)].id \in Registry
         /\ \E t \in 0 .. now : \E h \in Headers(j) : j.msg = Sent(j, t, h)
         /\ Turn(j) \in Nat /\ Turn(j) = Len(j.tried) + 1
<1>1. j.order \in Turns /\ j.tried \in Seq(Try) /\ Turn(j) <= Len(j.order) BY DEF Shape
<1>2. Len(j.tried) \in Nat BY <1>1
<1>3. Turn(j) \in Nat /\ Turn(j) = Len(j.tried) + 1 BY <1>2 DEF Turn
<1>4. Turn(j) \in 1 .. Len(j.order)
  <2>1. Len(j.order) \in Nat BY <1>1 DEF Turns
  <2> QED BY <1>1, <1>2, <1>3, <2>1
<1>5. j.order[Turn(j)] \in [id : Registry, mode : {"p", "r"}]
  <2> DEFINE S == [id : Registry, mode : {"p", "r"}]
  <2>1. j.order \in Seq(S) BY <1>1 DEF Turns
  <2> HIDE DEF S
  <2>2. j.order[Turn(j)] \in S BY <1>4, <2>1
  <2> QED BY <2>2 DEF S
<1> QED BY <1>3, <1>5 DEF Shape

(* Headers that are not too long arrive as they were signed, and whole.     *)
LEMMA HeadersArrive ==
  ASSUME NEW j, NEW q, NEW h \in Headers(j), Carried(j, q)
  PROVE  Arriving(q, h) = h
<1> DEFINE cl == Claims(j.at, j.token)
           gs == cl.grants
           ex == cl.exclude
<1>1. Entries(None) = 0 /\ 0 <= TlsRoom BY GridAssumption DEF Entries
<1>2. \A list : Entries(list) <= TlsRoom => Entries(Header(list)) <= TlsRoom
  BY <1>1 DEF Header
<1>3. ASSUME NEW g, NEW e, NEW w, h = [grants |-> g, exclude |-> e, whole |-> w],
             q \in Https => Entries(g) <= TlsRoom /\ Entries(e) <= TlsRoom
      PROVE  Arriving(q, h) = h
  <2>1. CASE q \notin Https BY <2>1 DEF Arriving
  <2>2. CASE q \in Https
    <3>1. Shortened(h.grants) = g /\ Shortened(h.exclude) = e BY <1>3, <2>2 DEF Shortened
    <3>2. Arriving(q, h) = [h EXCEPT !.grants = g, !.exclude = e] BY <2>2, <3>1 DEF Arriving
    <3> QED BY ONLY <1>3, <3>2
  <2> QED BY <2>1, <2>2
<1>4. CASE j.kind = "manifest" \/ cl.version # 2 \/ gs = None
  <2>1. h = [grants |-> None, exclude |-> None, whole |-> TRUE] BY <1>4 DEF Headers, GrantHeaders
  <2> QED BY <1>1, <1>3, <2>1
<1>5. CASE ~(j.kind = "manifest" \/ cl.version # 2 \/ gs = None)
  <2>1. /\ Fits(gs, ex)
        /\ q \in Https => Entries(gs) <= TlsRoom /\ Entries(ex) <= TlsRoom
    BY <1>5 DEF Carried
  <2>2. h = [grants |-> Header(gs), exclude |-> Header(ex), whole |-> TRUE]
    BY <1>5, <2>1 DEF Headers, GrantHeaders
  <2>3. q \in Https => Entries(Header(gs)) <= TlsRoom /\ Entries(Header(ex)) <= TlsRoom
    BY <1>2, <2>1
  <2> HIDE DEF gs, ex
  <2> QED BY <1>3, <2>2, <2>3
<1> QED BY <1>4, <1>5

(* What is recorded of a peer is what verify_grid_peer_sig goes by: if it   *)
(* passes the request then the signature was right, and it does pass one    *)
(* from a registry that each side is set up for.                            *)
Record(j, s, body, try) ==
  /\ try.id = j.order[Turn(j)].id /\ try.status = s /\ try.body = body
  /\ VerifyPeerSig(try.id, j.msg) => /\ try.id \in PeerAuth => try.signed
                                     /\ try.signed => try.pk = j.at /\ try.fresh
  /\ Expected(j, try) => VerifyPeerSig(try.id, j.msg)
  /\ Tried(j, s, body) = [j EXCEPT !.pc = "fan", !.msg = None, !.tried = Append(j.tried, try)]

LEMMA NewTry ==
  ASSUME Basics, NEW j, Shape(j), j.pc = "wait", NEW s \in Nat, NEW body \in Bodies
  PROVE  \E try \in Try : Record(j, s, body, try)
<1> DEFINE q == j.order[Turn(j)].id
           row == peers[q][j.at]
           pk == IF row = None THEN None ELSE row.pk
           m == j.msg
<1>1. q \in Registry /\ j.at \in Registry /\ j.kind \in Kind BY Waiting DEF Shape
<1>2. PICK t \in 0 .. now : \E h \in Headers(j) : m = Sent(j, t, h) BY Waiting
<1>3. PICK h \in Headers(j) : m = Sent(j, t, h) BY <1>2
<1>4. /\ m.method = Method(j) /\ m.kind = j.kind /\ m.path = j.path /\ m.via = <<j.at>> /\ m.hop = 1
      /\ m.hdrs = Arriving(q, h) /\ m.origin = j.at /\ m.ts = t
      /\ m.sig = IF j.at \in HasKey /\ h.whole THEN Signed(j, t, h) ELSE None
  BY <1>3 DEF Sent
<1>5. row \in PeerRow \cup {None} BY <1>1 DEF Basics
<1>6. pk \in Registry \cup {None} BY <1>5 DEF PeerRow
<1>7. PICK signed \in BOOLEAN : signed = (m.sig # None)
  <2>1. CASE m.sig # None
    <3>1. TRUE = (m.sig # None) /\ TRUE \in BOOLEAN BY <2>1
    <3> QED BY <3>1
  <2>2. CASE m.sig = None
    <3>1. FALSE = (m.sig # None) /\ FALSE \in BOOLEAN BY <2>2
    <3> QED BY <3>1
  <2> QED BY <2>1, <2>2
<1>8. PICK fresh \in BOOLEAN : fresh = (now - m.ts <= Window)
  <2>1. CASE now - m.ts <= Window
    <3>1. TRUE = (now - m.ts <= Window) /\ TRUE \in BOOLEAN BY <2>1
    <3> QED BY <3>1
  <2>2. CASE ~(now - m.ts <= Window)
    <3>1. FALSE = (now - m.ts <= Window) /\ FALSE \in BOOLEAN BY <2>2
    <3> QED BY <3>1
  <2> QED BY <2>1, <2>2
<1> DEFINE try == [id |-> q, status |-> s, body |-> body, signed |-> signed, fresh |-> fresh, pk |-> pk]
<1>9. Tried(j, s, body) = [j EXCEPT !.pc = "fan", !.msg = None, !.tried = Append(j.tried, try)]
  BY <1>7, <1>8 DEF Tried
<1>10. try.id = q /\ try.status = s /\ try.body = body /\ try.signed = signed /\ try.fresh = fresh /\ try.pk = pk
  OBVIOUS
<1> HIDE DEF pk
<1>11. try \in Try BY <1>1, <1>6, <1>7, <1>8 DEF Try
<1> HIDE DEF try
<1>12. Distance(now, m.ts) = now - m.ts
  <2>1. now \in Nat /\ t \in Nat /\ t <= now BY DEF Basics
  <2> QED BY <1>4, <2>1 DEF Distance
<1>13. fresh <=> Distance(now, m.ts) <= Window BY <1>8, <1>12
<1>14. ASSUME VerifyPeerSig(q, m)
       PROVE  /\ q \in PeerAuth => try.signed
              /\ try.signed => try.pk = j.at /\ try.fresh
  <2>1. CASE m.sig = None
    <3>1. q \notin PeerAuth BY <1>14, <2>1 DEF VerifyPeerSig
    <3>2. ~ try.signed BY <1>7, <1>10, <2>1
    <3> QED BY <3>1, <3>2
  <2>2. CASE m.sig # None
    <3>1. /\ Distance(now, m.ts) <= Window
          /\ peers[q][m.origin] # None /\ peers[q][m.origin].pk = m.sig.key
      BY <1>14, <2>2 DEF VerifyPeerSig
    <3>2. m.sig.key = j.at BY <1>4, <2>2 DEF Signed
    <3>3. row # None /\ row.pk = j.at BY <1>4, <3>1, <3>2
    <3>4. pk = j.at BY <3>3 DEF pk
    <3>5. try.signed /\ try.fresh BY <1>7, <1>10, <1>13, <2>2, <3>1
    <3> QED BY <1>10, <3>4, <3>5
  <2> QED BY <2>1, <2>2
<1>15. ASSUME Expected(j, try) PROVE VerifyPeerSig(q, m)
  <2>1. CASE m.sig = None
    <3>1. ~ try.signed BY <1>7, <1>10, <2>1
    <3> QED BY <1>10, <1>15, <2>1, <3>1 DEF Expected, VerifyPeerSig
  <2>2. CASE m.sig # None
    <3>1. try.signed BY <1>7, <1>10, <2>2
    <3>2. pk = j.at /\ fresh /\ (j.kind = "resolve" => j.query = "")
      BY <1>10, <1>15, <3>1 DEF Expected
    <3>3. row # None /\ row.pk = j.at
      <4>1. None \notin Registry BY GridAssumption
      <4> QED BY <1>1, <3>2, <4>1 DEF pk
    <3>4. Distance(now, m.ts) <= Window BY <1>13, <3>2
    <3>5. Asked(j) = "" BY <3>2 DEF Asked
    <3>6. /\ m.sig.key = j.at
          /\ m.sig.text = Canonical(Method(j), <<j.kind, j.path, "">>, <<j.at>>, 1, h, t)
      <4> DEFINE text == Canonical(Method(j), <<j.kind, j.path, Asked(j)>>, <<j.at>>, 1, h, t)
      <4>1. text = Canonical(Method(j), <<j.kind, j.path, "">>, <<j.at>>, 1, h, t)
        BY <3>5, Zenon
      <4>2. m.sig = [key |-> j.at, text |-> text] BY <1>4, <2>2 DEF Signed
      <4> HIDE DEF text
      <4>3. m.sig.key = j.at /\ m.sig.text = text BY <4>2
      <4> QED BY <4>1, <4>3, Zenon
    <3>7. m.sig.text = Canonical(m.method, <<m.kind, m.path, "">>, m.via, m.hop, m.hdrs, m.ts)
      <4>1. m.hdrs = h BY <1>4, <1>10, <1>15, HeadersArrive DEF Expected
      <4> QED BY <1>4, <3>6, <4>1
    <3>8. peers[q][m.origin] # None /\ peers[q][m.origin].pk = m.sig.key BY <1>4, <3>3, <3>6
    <3> HIDE DEF m, q
    <3> QED BY <2>2, <3>4, <3>7, <3>8 DEF VerifyPeerSig
  <2> QED BY <2>1, <2>2
<1> HIDE DEF q, m
<1>16. q = j.order[Turn(j)].id /\ m = j.msg BY DEF q, m
<1>17. Record(j, s, body, try) BY <1>9, <1>10, <1>14, <1>15, <1>16 DEF Record
<1> QED BY <1>11, <1>17, Zenon
-----------------------------------------------------------------------------
(* A client that its registry admits passes at every peer: headers that are *)
(* not too long say what its token says.                                    *)
LEMMA GrantsSurvive ==
  ASSUME NEW j, NEW q, j.kind # "manifest", MayRead(j), Carried(j, q), NEW h \in Headers(j)
  PROVE  CheckGridAuth(h, GroupOf[j.path], "r")
<1> DEFINE cl == Claims(j.at, j.token)
<1>1. h \in GrantHeaders(cl.version, cl.grants, cl.exclude) BY DEF Headers
<1>2. CASE cl.version # 2 \/ cl.grants = None
  <2>1. h = [grants |-> None, exclude |-> None, whole |-> TRUE] BY <1>1, <1>2 DEF GrantHeaders
  <2>2. h.grants = None BY <2>1
  <2> QED BY <2>2 DEF CheckGridAuth
<1>3. CASE ~(cl.version # 2 \/ cl.grants = None)
  <2>1. cl # NoClaims
    <3>1. NoClaims.version = 0 BY DEF NoClaims
    <3> HIDE DEF cl
    <3> QED BY <1>3, <3>1
  <2>2. j.at \in HasKey /\ j.token # None /\ cl = j.token BY <2>1 DEF Claims
  <2>3. AuthCheck(cl.grants, cl.exclude, GroupOf[j.path], "r") BY <1>3, <2>2 DEF MayRead
  <2>4. h = [grants |-> Header(cl.grants), exclude |-> Header(cl.exclude), whole |-> TRUE]
    BY <1>1, <1>3 DEF GrantHeaders, Carried
  <2>5. h.grants = Header(cl.grants) /\ h.exclude = Header(cl.exclude) BY <2>4
  <2>6. CASE cl.grants = <<>>
    BY <2>5, <2>6 DEF Header, CheckGridAuth
  <2>7. CASE cl.grants # <<>>
    <3>1. h.grants = cl.grants BY <2>5, <2>7 DEF Header
    <3>2. Excluded(h.exclude, GroupOf[j.path]) => Excluded(cl.exclude, GroupOf[j.path])
      <4>1. CASE cl.exclude = <<>>
        <5>1. h.exclude = None BY <2>5, <4>1 DEF Header
        <5> QED BY <5>1 DEF Excluded
      <4>2. CASE cl.exclude # <<>>
        <5>1. h.exclude = cl.exclude BY <2>5, <4>2 DEF Header
        <5> QED BY <5>1
      <4> QED BY <4>1, <4>2
    <3>3. AuthCheck(h.grants, h.exclude, GroupOf[j.path], "r")
      BY <2>3, <3>1, <3>2, Zenon DEF AuthCheck
    <3> QED BY <3>3 DEF CheckGridAuth
  <2> QED BY <2>6, <2>7
<1> QED BY <1>2, <1>3

(* Peer q has what j asks for, and nothing is in the way. *)
Due(j, q) ==
  /\ j.kind # "manifest" /\ Method(j) = "GET" /\ q \in GridEnabled \ {j.at}
  /\ VerifyPeerSig(q, j.msg) /\ MayRead(j) /\ Carried(j, q)
  /\ held[q][j.path] = "published"

(* Peer q may have answered j. *)
Verified(j, q) == (j.kind # "manifest" => q # j.at) /\ VerifyPeerSig(q, j.msg)

(* What is found is there. *)
Found(S) == S \subseteq Registry \X Path /\ \A x \in S : held[x[1]][x[2]] # "absent"

(* An answer a handler may get from peer q: true, verified, and all that is *)
(* due unless it is cut.                                                    *)
GoodAnswer(j, q, a) ==
  /\ DOMAIN a = {"status", "found", "body"} /\ a.status \in Nat /\ a.body \in Bodies
  /\ Found(a.found)
  /\ a.status \in {200, 403} => Verified(j, q)
  /\ Due(j, q) => a.body = "cut" \/ (a.status = 200 /\ a.found # {})

(* The /grid/ handlers tell the truth, answer only what they verified, and  *)
(* answer a peer that they expect.                                          *)
LEMMA Replies ==
  ASSUME Basics, NEW j, Shape(j), j.pc = "wait"
  PROVE  GoodAnswer(j, j.order[Turn(j)].id, Reply(j.order[Turn(j)].id, j.msg))
<1> DEFINE q == j.order[Turn(j)].id
           a == Reply(q, j.msg)
<1>1. q \in Registry BY Waiting
<1> SUFFICES /\ a.status \in Nat /\ DOMAIN a = {"status", "found", "body"} /\ a.body = "whole"
             /\ a.found \subseteq Registry \X Path /\ \A x \in a.found : held[x[1]][x[2]] # "absent"
             /\ a.status \in {200, 403} => Verified(j, q)
             /\ Due(j, q) => a.status = 200 /\ a.found # {}
  BY DEF GoodAnswer, Found, Bodies
<1>2. j.at \in Registry /\ j.kind \in Kind /\ j.path \in Path BY DEF Shape
<1>3. PICK t \in 0 .. now : \E h \in Headers(j) : j.msg = Sent(j, t, h) BY Waiting
<1>4. PICK h \in Headers(j) : j.msg = Sent(j, t, h) BY <1>3
<1> DEFINE m == j.msg
<1>5. /\ m.method = Method(j) /\ m.kind = j.kind /\ m.path = j.path /\ m.query = Asked(j)
      /\ m.via = <<j.at>> /\ m.hop = 1 /\ m.hdrs = Arriving(q, h)
  BY <1>4 DEF Sent
<1> HIDE DEF m, q, a
<1>6. a = Reply(q, m) BY DEF m, a
<1>7. Looped(q, m) <=> q = j.at
  <2>1. Range(m.via) = {j.at} BY <1>5 DEF Range
  <2>2. ~(m.hop > MaxHops) BY <1>5, GridAssumption
  <2> QED BY <2>1, <2>2 DEF Looped
<1>8. \A s : /\ Status(s).status = s /\ Status(s).found = {} /\ Status(s).body = "whole"
             /\ DOMAIN Status(s) = {"status", "found", "body"}
  BY DEF Status, Given
<1>9. /\ Resolves(q, j.path, m.query) \subseteq Registry \X Path
      /\ \A x \in Resolves(q, j.path, m.query) : held[x[1]][x[2]] # "absent"
      /\ Stored(q, j.path) \subseteq Registry \X Path
      /\ \A x \in Stored(q, j.path) : held[x[1]][x[2]] # "absent"
      /\ Listed(q, NoClaims, "") \subseteq Registry \X Path
      /\ \A x \in Listed(q, NoClaims, "") : held[x[1]][x[2]] # "absent"
  BY <1>1, <1>2, FindsWhatIsThere
<1>10. held[q][j.path] = "published" => Resolves(q, j.path, m.query) # {} /\ Stored(q, j.path) # {}
  BY DEF Resolves, Stored
<1>11. j.kind # "manifest" /\ MayRead(j) /\ Carried(j, q) =>
        CheckGridAuth(m.hdrs, GroupOf[m.path], "r")
  BY <1>5, GrantsSurvive, HeadersArrive
<1>12. CASE q \notin GridEnabled
  <2>1. a = Status(404) BY <1>6, <1>12 DEF Reply
  <2> QED BY <1>8, <1>12, <2>1 DEF Due
<1>13. CASE q \in GridEnabled /\ j.kind = "resolve"
  <2>1. a = GridResolve(q, m) BY <1>5, <1>6, <1>13 DEF Reply
  <2> DEFINE f == Resolves(q, j.path, m.query)
             A == Given(200, f)
  <2>2. A.status = 200 /\ A.found = f /\ A.body = "whole" /\ DOMAIN A = {"status", "found", "body"}
    BY DEF Given
  <2>3. \/ a = Status(508) /\ q = j.at
        \/ a = Status(401) /\ ~VerifyPeerSig(q, m)
        \/ /\ a = Status(403) /\ q # j.at /\ VerifyPeerSig(q, m)
           /\ ~CheckGridAuth(m.hdrs, GroupOf[m.path], "r")
        \/ a = A /\ q # j.at /\ VerifyPeerSig(q, m)
    BY <1>5, <1>7, <2>1 DEF GridResolve
  <2> HIDE DEF A, f
  <2>4. f \subseteq Registry \X Path /\ \A x \in f : held[x[1]][x[2]] # "absent" BY <1>9 DEF f
  <2>5. held[q][j.path] = "published" => f # {} BY <1>10 DEF f
  <2>6. Due(j, q) => a = A BY <1>11, <2>3 DEF m, Due
  <2>7. a.status \in {200, 403} => Verified(j, q) BY <1>8, <2>3 DEF m, Verified
  <2>8. a = A \/ a \in {Status(508), Status(401), Status(403)} BY <2>3
  <2>9. Due(j, q) => a.status = 200 /\ a.found # {} BY <2>2, <2>5, <2>6 DEF Due
  <2> QED BY <1>8, <2>2, <2>4, <2>7, <2>8, <2>9
<1>14. CASE q \in GridEnabled /\ j.kind = "artifact"
  <2>1. a = GridArtifact(q, m) BY <1>5, <1>6, <1>14 DEF Reply
  <2> DEFINE f == Stored(q, j.path)
             n == IF f = {} THEN 404 ELSE 200
             hs == HeadStatus(q, j.path)
             A == Given(n, f)
  <2>2. A.status = n /\ A.found = f /\ A.body = "whole" /\ DOMAIN A = {"status", "found", "body"}
    BY DEF Given
  <2>3. \/ a = Status(508) /\ q = j.at
        \/ a = Status(401) /\ ~VerifyPeerSig(q, m)
        \/ /\ a = Status(403) /\ q # j.at /\ VerifyPeerSig(q, m)
           /\ ~CheckGridAuth(m.hdrs, GroupOf[m.path], "r")
        \/ a = Status(hs) /\ q # j.at /\ VerifyPeerSig(q, m) /\ Method(j) = "HEAD"
        \/ a = A /\ q # j.at /\ VerifyPeerSig(q, m)
    BY <1>5, <1>7, <2>1 DEF GridArtifact
  <2>4. hs \in {200, 404} BY DEF HeadStatus
  <2>5. n \in {200, 404} /\ (f # {} => n = 200) OBVIOUS
  <2> HIDE DEF A, f, n, hs
  <2>6. f \subseteq Registry \X Path /\ \A x \in f : held[x[1]][x[2]] # "absent" BY <1>9 DEF f
  <2>7. held[q][j.path] = "published" => f # {} BY <1>10 DEF f
  <2>8. Due(j, q) => a = A BY <1>11, <2>3 DEF m, Due
  <2>9. a.status \in {200, 403} => Verified(j, q) BY <1>8, <2>3 DEF m, Verified
  <2>10. a = A \/ a \in {Status(508), Status(401), Status(403), Status(hs)} BY <2>3
  <2>11. Due(j, q) => a.status = 200 /\ a.found # {} BY <2>2, <2>5, <2>7, <2>8 DEF Due
  <2> QED BY <1>8, <2>2, <2>4, <2>5, <2>6, <2>9, <2>10, <2>11
<1>15. CASE q \in GridEnabled /\ j.kind = "manifest"
  <2>1. a = GridManifest(q, m) BY <1>5, <1>6, <1>15 DEF Reply
  <2> DEFINE f == Listed(q, NoClaims, "")
             A == Given(200, f)
  <2>2. A.status = 200 /\ A.found = f /\ A.body = "whole" /\ DOMAIN A = {"status", "found", "body"}
    BY DEF Given
  <2>3. a = Status(401) \/ (a = A /\ VerifyPeerSig(q, m)) BY <2>1 DEF GridManifest
  <2> HIDE DEF A, f
  <2>4. f \subseteq Registry \X Path /\ \A x \in f : held[x[1]][x[2]] # "absent" BY <1>9 DEF f
  <2> QED BY <1>8, <1>15, <2>2, <2>3, <2>4 DEF m, Due, Verified
<1> QED BY <1>2, <1>12, <1>13, <1>14, <1>15 DEF Kind
-----------------------------------------------------------------------------
(* What Vouched and NonePassedOver say of the peer of this turn. *)
VouchedTry(j, try) ==
  try.status \in {200, 403} =>
    /\ j.kind # "manifest" => try.id # j.at
    /\ try.id \in PeerAuth => try.signed
    /\ try.signed => try.pk = j.at /\ try.fresh

NotPassedOver(j, x, try) ==
  j.kind # "manifest" =>
    \/ x.pc = "done" /\ x.found # {}
    \/ held[try.id][j.path] # "published"
    \/ try.status = 0 \/ try.body = "cut"
    \/ ~Expected(j, try)
    \/ j.kind = "artifact" /\ j.order[Turn(j)].mode = "r"

(* A handler that is done with the peer of this turn. *)
LEMMA AfterTry ==
  ASSUME Basics, NEW j, NEW x, NEW try \in Try, JobOK(j), j.pc = "wait",
         SameQuestion(x, j), x.order = j.order, x.tried = Append(j.tried, try),
         x.pc \in {"fan", "done"}, x.pc # "done" => x.status = 200,
         x.status # 307 => Found(x.found), VouchedTry(j, try), NotPassedOver(j, x, try)
  PROVE  JobOK(x)
<1>1. Shape(j) /\ Truth(j) /\ Vouched(j) /\ NonePassedOver(j) BY DEF JobOK
<1>2. j.tried \in Seq(Try) /\ j.order \in Turns /\ j.at \in Registry /\ j.kind \in Kind /\ j.path \in Path
  BY <1>1 DEF Shape
<1> DEFINE n == Len(j.tried)
<1>3. n \in Nat /\ Turn(j) = n + 1 BY <1>2 DEF Turn
<1>4. /\ x.tried \in Seq(Try) /\ Len(x.tried) = n + 1 /\ DOMAIN x.tried = 1 .. n + 1
      /\ DOMAIN j.tried = 1 .. n
      /\ x.tried[n + 1] = try /\ \A i \in 1 .. n : x.tried[i] = j.tried[i]
  BY <1>2
<1>5. Shape(x) BY <1>2, <1>4 DEF Shape, SameQuestion
<1>6. Truth(x)
  <2>1. MayRead(j) BY <1>1 DEF Truth
  <2>2. MayRead(x) BY <2>1 DEF MayRead, SameQuestion
  <2> QED BY <1>1, <2>2 DEF Truth, SameQuestion, Found
<1> HIDE DEF n
<1>7. \A i \in 1 .. n + 1 : i \in 1 .. n \/ i = n + 1 BY <1>3
<1>8. Vouched(x)
  <2> SUFFICES ASSUME NEW i \in DOMAIN x.tried, x.tried[i].status \in {200, 403}
               PROVE  /\ x.kind # "manifest" => x.tried[i].id # x.at
                      /\ x.tried[i].id \in PeerAuth => x.tried[i].signed
                      /\ x.tried[i].signed => x.tried[i].pk = x.at /\ x.tried[i].fresh
    BY DEF Vouched
  <2>1. CASE i \in 1 .. n
    BY <1>1, <1>4, <2>1 DEF Vouched, SameQuestion
  <2>2. CASE i = n + 1
    BY <1>4, <2>2 DEF SameQuestion, VouchedTry
  <2> QED BY <1>4, <1>7, <2>1, <2>2
<1>9. NonePassedOver(x)
  <2>1. \A y : Expected(x, y) <=> Expected(j, y) BY SameExpected
  <2> SUFFICES ASSUME x.kind # "manifest", NEW i \in DOMAIN x.tried
               PROVE  \/ x.pc = "done" /\ x.found # {} /\ i = Len(x.tried)
                      \/ x.tried[i].id \notin x.had \/ held[x.tried[i].id][x.path] # "published"
                      \/ x.tried[i].status = 0 \/ x.tried[i].body = "cut"
                      \/ ~Expected(x, x.tried[i])
                      \/ x.kind = "artifact" /\ x.order[i].mode = "r"
    BY DEF NonePassedOver
  <2>2. CASE i \in 1 .. n
    <3>1. \/ j.tried[i].id \notin j.had \/ held[j.tried[i].id][j.path] # "published"
          \/ j.tried[i].status = 0 \/ j.tried[i].body = "cut"
          \/ ~Expected(j, j.tried[i])
          \/ j.kind = "artifact" /\ j.order[i].mode = "r"
      BY <1>1, <1>4, <2>2 DEF NonePassedOver, SameQuestion
    <3> QED BY <1>4, <2>1, <2>2, <3>1 DEF SameQuestion
  <2>3. CASE i = n + 1
    BY <1>3, <1>4, <2>1, <2>3 DEF SameQuestion, NotPassedOver
  <2> QED BY <1>4, <1>7, <2>2, <2>3
<1> QED BY <1>5, <1>6, <1>8, <1>9 DEF JobOK

(* A peer done with: what is recorded, and what stays. *)
LEMMA TriedPeer ==
  ASSUME Basics, NEW j, JobOK(j), j.pc = "wait", NEW s \in Nat, NEW body \in Bodies,
         NEW k, k = Tried(j, s, body)
  PROVE  /\ SameQuestion(k, j) /\ k.order = j.order
         /\ k.pc = "fan" /\ k.status = 200 /\ k.found = j.found /\ k.accept = j.accept
         /\ \A try : Record(j, s, body, try) => k.tried = Append(j.tried, try)
<1>1. Shape(j) /\ Truth(j) BY DEF JobOK
<1>2. DOMAIN j = JobFields /\ j.status = 200 BY <1>1 DEF Shape, Truth
<1>3. /\ SameQuestion(k, j) /\ k.order = j.order
      /\ k.pc = "fan" /\ k.status = 200 /\ k.found = j.found /\ k.accept = j.accept
  BY ONLY <1>2, k = Tried(j, s, body) DEF Tried, SameQuestion, JobFields
<1>4. ASSUME NEW try, Record(j, s, body, try) PROVE k.tried = Append(j.tried, try)
  <2> DEFINE l == Append(j.tried, try)
  <2>1. k = [j EXCEPT !.pc = "fan", !.msg = None, !.tried = l] BY <1>4 DEF Record
  <2> HIDE DEF l
  <2>2. k.tried = l BY ONLY <1>2, <2>1 DEF JobFields
  <2> QED BY <2>2 DEF l
<1> QED BY <1>3, <1>4

LEMMA GiveUpStep ==
  ASSUME GridInv, NEW c \in Client, GiveUp(c)
  PROVE  GridInv'
<1> DEFINE j == job[c]
           k == Tried(j, 0, "none")
<1>1. Basics /\ JobOK(j) /\ j.pc = "wait" BY DEF GridInv, GiveUp
<1>2. job' = [job EXCEPT ![c] = k] /\ UNCHANGED <<peers, held, now>> BY DEF GiveUp
<1>3. PICK s \in Nat : s = 0 OBVIOUS
<1>4. k = Tried(j, s, "none") BY <1>3
<1> HIDE DEF j, k
<1>5. /\ SameQuestion(k, j) /\ k.order = j.order
      /\ k.pc = "fan" /\ k.status = 200 /\ k.found = j.found
  BY <1>1, <1>4, TriedPeer DEF Bodies
<1>6. Shape(j) /\ Truth(j) BY <1>1 DEF JobOK
<1>7. PICK try \in Try : Record(j, s, "none", try) BY <1>1, <1>6, NewTry DEF Bodies
<1>8. k.tried = Append(j.tried, try) BY <1>1, <1>4, <1>7, TriedPeer DEF Bodies
<1>9. Found(k.found) BY <1>1, <1>5, <1>6 DEF Truth, Found
<1>10. try.status = 0 BY <1>3, <1>7 DEF Record
<1>11. VouchedTry(j, try) /\ NotPassedOver(j, k, try) BY <1>10 DEF VouchedTry, NotPassedOver
<1>12. JobOK(k) BY <1>1, <1>5, <1>8, <1>9, <1>11, AfterTry
<1> QED BY <1>2, <1>12, JobStep

(* What the handlers do with an answer a, cut or not. *)
LEMMA TakeStep ==
  ASSUME GridInv, NEW c \in Client, job[c].pc = "wait",
         NEW a, GoodAnswer(job[c], job[c].order[Turn(job[c])].id, a),
         job' = [job EXCEPT ![c] = Take(job[c], a)], UNCHANGED <<peers, held, now>>
  PROVE  GridInv'
<1> DEFINE j == job[c]
           q == j.order[Turn(j)].id
           k == Tried(j, a.status, a.body)
           x == Take(j, a)
<1>1. /\ a.status \in Nat /\ a.body \in Bodies /\ Found(a.found)
      /\ a.status \in {200, 403} => Verified(j, q)
      /\ Due(j, q) => a.body = "cut" \/ (a.status = 200 /\ a.found # {})
      /\ j.pc = "wait"
  BY DEF GoodAnswer
<1>2. job' = [job EXCEPT ![c] = x] /\ UNCHANGED <<peers, held, now>> OBVIOUS
<1>3. q = j.order[Turn(j)].id OBVIOUS
<1>4. Basics /\ JobOK(j) BY DEF GridInv
<1> HIDE DEF j, q
<1>5. Shape(j) /\ Truth(j) BY <1>1, <1>4 DEF JobOK
<1>6. q \in Registry /\ j.kind \in Kind /\ MayRead(j) /\ Found(j.found)
  BY <1>1, <1>3, <1>4, <1>5, Waiting DEF Shape, Truth, Found
<1>7. j.msg.method = Method(j)
  <2>1. PICK t \in 0 .. now : \E h \in Headers(j) : j.msg = Sent(j, t, h) BY <1>1, <1>4, <1>5, Waiting
  <2>2. PICK h \in Headers(j) : j.msg = Sent(j, t, h) BY <2>1
  <2> QED BY <2>2 DEF Sent
<1> HIDE DEF k
<1>8. k = Tried(j, a.status, a.body) BY DEF k
<1>9. /\ SameQuestion(k, j) /\ k.order = j.order
       /\ k.pc = "fan" /\ k.status = 200 /\ k.found = j.found
  BY ONLY <1>1, <1>4, <1>8, TriedPeer
<1>10. PICK try \in Try : Record(j, a.status, a.body, try)
  BY ONLY <1>1, <1>4, <1>5, NewTry
<1>11. k.tried = Append(j.tried, try) BY ONLY <1>1, <1>4, <1>8, <1>10, TriedPeer
<1>12. try.id = q /\ try.status = a.status /\ try.body = a.body BY <1>3, <1>10 DEF Record
<1>13. VouchedTry(j, try) BY <1>1, <1>10, <1>12 DEF VouchedTry, Record, Verified
<1>14. (/\ j.kind # "manifest" /\ Expected(j, try) /\ held[try.id][j.path] = "published"
        /\ ~(j.kind = "artifact" /\ j.order[Turn(j)].mode = "r"))
       => try.body = "cut" \/ (a.status = 200 /\ a.found # {} /\ Method(j) = "GET")
  BY <1>1, <1>6, <1>10, <1>12 DEF Expected, Method, Record, Due
<1> HIDE DEF x
<1>15. ASSUME SameQuestion(x, k), x.order = k.order, x.tried = k.tried, x.pc \in {"fan", "done"},
              x.pc # "done" => x.status = 200, x.status # 307 => Found(x.found),
              NotPassedOver(j, x, try)
       PROVE  GridInv'
  <2>1. SameQuestion(x, j) /\ x.order = j.order /\ x.tried = Append(j.tried, try)
    BY <1>9, <1>11, <1>15 DEF SameQuestion
  <2>2. JobOK(x) BY ONLY <1>1, <1>4, <1>10, <1>13, <1>15, <2>1, AfterTry
  <2> QED BY ONLY GridInv, c \in Client, <1>2, <2>2, JobStep
<1>16. DOMAIN k = JobFields BY <1>9 DEF SameQuestion
<1>17. SameQuestion(k, k) BY <1>16 DEF SameQuestion
<1>18. CASE j.kind = "resolve"
  <2>1. x = IF a.status = 200 /\ a.found # {} THEN Versions(k, a.found) ELSE k
    BY <1>18 DEF x, Take, TakeVersions, k
  <2>2. CASE a.status = 200 /\ a.found # {}
    <3> DEFINE s == IF k.accept THEN 200 ELSE 406
               f == a.found
    <3>1. x = [k EXCEPT !.pc = "done", !.found = f, !.status = s] BY <2>1, <2>2 DEF Versions
    <3> HIDE DEF f, s
    <3>2. /\ SameQuestion(x, k) /\ x.order = k.order /\ x.tried = k.tried /\ x.pc = "done"
          /\ x.found = f
      BY ONLY <1>16, <3>1 DEF SameQuestion, JobFields
    <3>3. Found(x.found) /\ x.found # {} BY <1>1, <2>2, <3>2 DEF f
    <3>4. NotPassedOver(j, x, try) BY <3>2, <3>3 DEF NotPassedOver
    <3> QED BY <1>15, <3>2, <3>3, <3>4
  <2>3. CASE ~(a.status = 200 /\ a.found # {})
    <3>1. x = k BY <2>1, <2>3
    <3>2. NotPassedOver(j, x, try) BY <1>14, <1>18, <2>3 DEF NotPassedOver
    <3> QED BY <1>6, <1>9, <1>15, <1>17, <3>1, <3>2
  <2> QED BY <2>2, <2>3
<1>19. CASE j.kind = "artifact"
  <2>1. x = TakeArtifact(j, a) BY <1>19 DEF x, Take
  <2>2. CASE a.status # 200
    <3>1. x = k BY <2>1, <2>2 DEF TakeArtifact, k
    <3>2. NotPassedOver(j, x, try) BY <1>14, <1>19, <2>2 DEF NotPassedOver
    <3> QED BY <1>6, <1>9, <1>15, <1>17, <3>1, <3>2
  <2>3. CASE a.status = 200 /\ Method(j) = "HEAD"
    <3> DEFINE f == {<<q, j.path>>}
    <3>1. x = [k EXCEPT !.pc = "done", !.status = 307, !.found = f]
      BY <1>3, <1>7, <2>1, <2>3 DEF TakeArtifact, k
    <3> HIDE DEF f
    <3>2. /\ SameQuestion(x, k) /\ x.order = k.order /\ x.tried = k.tried /\ x.pc = "done"
          /\ x.status = 307
      BY ONLY <1>16, <3>1 DEF SameQuestion, JobFields
    <3>3. NotPassedOver(j, x, try) BY <2>3 DEF NotPassedOver, Method
    <3> QED BY <1>15, <3>2, <3>3
  <2>4. CASE a.status = 200 /\ Method(j) # "HEAD"
    <3> DEFINE f == a.found
    <3>1. x = [k EXCEPT !.pc = "done", !.found = f]
      BY <1>7, <2>1, <2>4 DEF TakeArtifact, k
    <3> HIDE DEF f
    <3>2. /\ SameQuestion(x, k) /\ x.order = k.order /\ x.tried = k.tried /\ x.pc = "done"
          /\ x.found = f
      BY ONLY <1>16, <3>1 DEF SameQuestion, JobFields
    <3>3. Found(x.found) BY <1>1, <3>2 DEF f
    <3>4. NotPassedOver(j, x, try) BY <1>14, <3>2 DEF NotPassedOver, f
    <3> QED BY <1>15, <3>2, <3>3, <3>4
  <2> QED BY <2>2, <2>3, <2>4
<1>20. CASE j.kind = "manifest"
  <2> DEFINE f == j.found \cup a.found
  <2>1. x = [k EXCEPT !.found = f] BY <1>9, <1>20 DEF x, Take, TakeManifest, k
  <2> HIDE DEF f
  <2>2. /\ SameQuestion(x, k) /\ x.order = k.order /\ x.tried = k.tried /\ x.pc = k.pc
        /\ x.status = k.status /\ x.found = f
    BY ONLY <1>16, <2>1 DEF SameQuestion, JobFields
  <2>3. Found(x.found) BY <1>1, <1>6, <2>2 DEF Found, f
  <2>4. NotPassedOver(j, x, try) BY <1>20 DEF NotPassedOver
  <2> QED BY <1>9, <1>15, <2>2, <2>3, <2>4
<1> QED BY <1>6, <1>18, <1>19, <1>20 DEF Kind

LEMMA AnswerStep ==
  ASSUME GridInv, NEW c \in Client, Answer(c) \/ AnswerCut(c)
  PROVE  GridInv'
<1> DEFINE j == job[c]
           q == j.order[Turn(j)].id
           a == Reply(q, j.msg)
           b == CutOff(j.kind, a)
<1>1. /\ Basics /\ JobOK(j) /\ j.pc = "wait" /\ UNCHANGED <<peers, held, now>>
      /\ \/ job' = [job EXCEPT ![c] = Take(j, a)]
         \/ job' = [job EXCEPT ![c] = Take(j, b)]
  BY DEF GridInv, Answer, AnswerCut
<1>2. Shape(j) BY <1>1 DEF JobOK
<1>3. GoodAnswer(j, q, a) BY ONLY <1>1, <1>2, Replies
<1> HIDE DEF a
<1>4. CASE job' = [job EXCEPT ![c] = Take(j, a)]
  BY ONLY GridInv, c \in Client, <1>1, <1>3, <1>4, TakeStep
<1>5. CASE job' = [job EXCEPT ![c] = Take(j, b)]
  <2> DEFINE f == IF j.kind = "artifact" THEN a.found ELSE {}
  <2>1. b = [a EXCEPT !.found = f, !.body = "cut"] BY DEF CutOff
  <2>2. Found(f) BY <1>3 DEF Found, GoodAnswer
  <2> HIDE DEF f, b
  <2>3. DOMAIN a = {"status", "found", "body"} BY <1>3 DEF GoodAnswer
  <2>4. DOMAIN b = DOMAIN a /\ b.status = a.status /\ b.body = "cut" /\ b.found = f
    BY ONLY <2>1, <2>3
  <2>5. GoodAnswer(j, q, b) BY <1>3, <2>2, <2>4 DEF GoodAnswer, Bodies
  <2> QED BY ONLY GridInv, c \in Client, <1>1, <1>5, <2>5, TakeStep
<1> QED BY <1>1, <1>4, <1>5
-----------------------------------------------------------------------------
LEMMA GridInvStep == GridInv /\ [Next]_vars => GridInv'
<1> SUFFICES ASSUME GridInv, [Next]_vars PROVE GridInv'
  OBVIOUS
<1>1. ASSUME NEW e \in Edit, (e.row = None /\ DeletePeer(e.at, e.id)) \/ PutPeer(e.at, e.id, e.row)
      PROVE  GridInv'
  BY <1>1, OutsideStep
<1>2. ASSUME NEW r \in Registry, NEW p \in Path, Publishes(r, p) \/ Yank(r, p)
      PROVE  GridInv'
  BY <1>2, OutsideStep
<1>3. ASSUME NEW q \in Question, NEW p \in Path,
             Ask(q.from, q.at, q.kind, p, q.query, q.via, q.token, q.accept)
      PROVE  GridInv'
  <2>1. q.from \in Client /\ q.at \in Registry /\ q.kind \in Kind BY GridAssumption
  <2>2. PICK c, r, kind, query, via, t, accept :
          /\ c = q.from /\ r = q.at /\ kind = q.kind /\ query = q.query /\ via = q.via
          /\ t = q.token /\ accept = q.accept
    OBVIOUS
  <2>3. Ask(c, r, kind, p, query, via, t, accept) BY <1>3, <2>2
  <2>4. c \in Client /\ r \in Registry /\ kind \in Kind BY <2>1, <2>2
  <2> QED BY <2>3, <2>4, AskStep
<1>4. ASSUME NEW c \in Client, Handler(c) PROVE GridInv'
  BY <1>4, LoadPeersStep, SendStep, FinishStep, AnswerStep, GiveUpStep DEF Handler
<1>5. CASE Tick BY <1>5, OutsideStep
<1>6. CASE UNCHANGED vars
  <2>1. Aging /\ UNCHANGED job /\ peers' \in [Registry -> [Registry -> PeerRow \cup {None}]]
    BY <1>6 DEF GridInv, Basics, Aging, vars
  <2> QED BY <2>1, TableStep
<1> QED BY <1>1, <1>2, <1>3, <1>4, <1>5, <1>6 DEF Next

LEMMA GridInvariant == Spec => []GridInv
BY GridInvInit, GridInvStep, PTL DEF Spec

(* No search goes past a peer that had the artifact and should have given   *)
(* it: whatever the peers, their order and their configuration, and         *)
(* whatever administrators, uploads and time do in the meantime.  The loops *)
(* of handle_resolve and handle_artifact against the /grid/ handlers.       *)
THEOREM HoldersAreFound == Spec => []HolderFound
BY GridInvariant, GridInvSuffices, PTL

(* An answer is true of the registry it names, and only for a client whose  *)
(* token lets it read: also when a peer that knows neither gave it.         *)
(* handle_resolve, handle_artifact, handle_mirror_manifest.                 *)
THEOREM AnswersStayTrue == Spec => []AnswersAreTrue
BY GridInvariant, GridInvSuffices, PTL

(* Only another registry, with a signature where it wants one, answers: the *)
(* loop check and verify_grid_peer_sig.                                     *)
THEOREM PeersAlwaysVouch == Spec => []PeersVouch
BY GridInvariant, GridInvSuffices, PTL
=============================================================================
