-------------------------------- MODULE Grid --------------------------------
(***************************************************************************)
(* Registries that ask each other (cookbook_grid.c and the client-facing   *)
(* and /grid/ handlers of cookbook_server.c).  A client's GET of           *)
(* /resolve/, /artifact/ or /mirror/manifest is answered from the          *)
(* registry's own tables and store; when that finds nothing the handler    *)
(* asks the enabled peers one after another, with the client's grants in   *)
(* headers and, when the registry has a key, a signature.                  *)
(*                                                                         *)
(* A handler keeps its worker thread while it waits for a peer, and the    *)
(* peer needs a worker of its own to answer.  A peer that is down, or does *)
(* not answer in time, is skipped.                                         *)
(***************************************************************************)
EXTENDS Grants, Integers

CONSTANTS Registry, Client,
          Path,        \* an artifact's path; for /resolve/ its coordinate and range
          GroupOf,     \* [Path -> group]
          Descriptor,  \* SUBSET Path: now.pasta files, which have several formats
          Question,    \* requests of clients: [from, at, kind, query, via, token, accept]
          GridEnabled, HasKey, PeerAuth, \* SUBSET Registry: their configuration
          Https,       \* SUBSET Registry: those whose peers know an https:// URL
          TlsRoom,     \* entries of a header that fit into 511 bytes
          MaxHops, Workers, Window,      \* hop limit, worker threads, 300 seconds
          Peers0, Held0,                 \* the tables at the start
          Edit,                          \* what administrators do to peers: [at, id, row or None]
          MaxTime, MaxChanges, MaxAsks   \* bounds

VARIABLES peers,   \* [Registry -> [Registry -> [mode, priority, pk] or None]]
          held,    \* [Registry -> [Path -> "absent", "published" or "yanked"]]
          job,     \* [Client -> state of its request]
          now, changes, asks

vars == <<peers, held, job, now, changes, asks>>

(* The queries each handler looks for. *)
Queries(kind) ==
  CASE kind = "resolve" -> {"", "yanked"}
    [] kind = "artifact" -> {""}
    [] kind = "manifest" -> {"", "coords", "grid"}

Kind == {"resolve", "artifact", "manifest"}

PeerRow == [mode : {"p", "r"}, priority : Int, pk : Registry \cup {None}]

Holding == {"absent", "published", "yanked"}

ASSUME GridAssumption ==
  /\ IsFiniteSet(Registry) /\ GridEnabled \cup HasKey \cup PeerAuth \subseteq Registry
  /\ Https \subseteq Registry
  /\ {TlsRoom, MaxHops, Workers, Window, MaxTime, MaxChanges, MaxAsks} \subseteq Nat
  /\ MaxHops > 0   \* cookbook_server_start replaces anything else by 3
  /\ None \notin Registry /\ Descriptor \subseteq Path
  /\ \A q \in Question :
       q.from \in Client /\ q.at \in Registry /\ q.kind \in Kind /\ q.query \in Queries(q.kind)
  /\ Peers0 \in [Registry -> [Registry -> PeerRow \cup {None}]]
  /\ Held0 \in [Registry -> [Path -> Holding]]
  /\ \A e \in Edit : {e.at, e.id} \subseteq Registry /\ e.row \in PeerRow \cup {None}

Idle == [pc |-> "idle"]

Busy(r) == {c \in Client : job[c].pc \in {"miss", "fan", "wait"} /\ job[c].at = r}

Free(r) == Cardinality(Busy(r)) < Workers

Init ==
  /\ peers = Peers0
  /\ held = Held0
  /\ job = [c \in Client |-> Idle]
  /\ now = 0 /\ changes = 0 /\ asks = 0

-----------------------------------------------------------------------------
(* The tables *)

Change == changes < MaxChanges /\ changes' = changes + 1

(* INSERT OR REPLACE, enabled = 1.  The key is missing when the body has    *)
(* none, also when the row had one.                                         *)
PutPeer(r, id, row) ==
  /\ r \in GridEnabled
  /\ Change
  /\ peers' = [peers EXCEPT ![r][id] = row]
  /\ UNCHANGED <<held, job, now, asks>>

DeletePeer(r, id) ==
  /\ r \in GridEnabled
  /\ Change
  /\ peers' = [peers EXCEPT ![r][id] = None]
  /\ UNCHANGED <<held, job, now, asks>>

(* The outcome of an upload: see Publish. *)
Publishes(r, p) ==
  /\ held[r][p] = "absent"
  /\ Change
  /\ held' = [held EXCEPT ![r][p] = "published"]
  /\ UNCHANGED <<peers, job, now, asks>>

Yank(r, p) ==
  /\ held[r][p] = "published"
  /\ Change
  /\ held' = [held EXCEPT ![r][p] = "yanked"]
  /\ UNCHANGED <<peers, job, now, asks>>

(* SELECT ... WHERE enabled = 1 ORDER BY priority ASC; ties in any order. *)
Loaded(table) ==
  LET rows == {id \in Registry : table[id] # None} IN
  {order \in Listings(rows) :
     \A i, j \in DOMAIN order : i < j => table[order[i]].priority <= table[order[j]].priority}

-----------------------------------------------------------------------------
(* What a registry finds by itself: pairs of a registry and a path. *)

(* Query "yanked" is include_yanked=true. *)
Resolves(r, p, query) ==
  IF held[r][p] = "published" \/ (held[r][p] = "yanked" /\ query = "yanked") THEN {<<r, p>>} ELSE {}

Stored(r, p) == IF held[r][p] = "absent" THEN {} ELSE {<<r, p>>}

(* All published versions the grants let see; with coords=, yanked ones     *)
(* too.  No grants, no filter.                                              *)
Listed(r, claims, query) ==
  {<<r, p>> : p \in {x \in Path :
     /\ held[r][x] = "published" \/ (held[r][x] = "yanked" /\ query = "coords")
     /\ claims.grants = None \/ AuthCheck(claims.grants, claims.exclude, GroupOf[x], "r")}}

NoClaims == [version |-> 0, grants |-> None, exclude |-> None]

(* The claims a handler works with: those of the token, unless the registry *)
(* has no key and looks at none.                                            *)
Claims(r, t) == IF r \in HasKey /\ t # None THEN t ELSE NoClaims

(* Mutant: the grants of a valid token are not looked at. *)
AdmittedIfKnown(r, kind, p, t) == r \notin HasKey \/ t # None

(* require_auth_v2 for reading; the manifest only needs a valid token. *)
Admitted(r, kind, p, t) ==
  \/ r \notin HasKey
  \/ /\ t # None
     /\ kind = "manifest" \/ t.version # 2 \/ AuthCheck(t.grants, t.exclude, GroupOf[p], "r")

-----------------------------------------------------------------------------
(* A request to a peer *)

(* What is signed.  The sender signs the path with its query. *)
Canonical(method, path, via, hop, hdrs, ts) ==
  [method |-> method, path |-> path, via |-> via, hop |-> hop, hdrs |-> hdrs, ts |-> ts]

(* What arrives of a header: grid_request_ex gives the TLS client at most   *)
(* 511 bytes of each.  (The entry where a list is cut counts as lost.)      *)
Shortened(list) == IF Entries(list) <= TlsRoom THEN list ELSE SubSeq(list, 1, TlsRoom)

Arriving(q, h) ==
  IF q \in Https
  THEN [h EXCEPT !.grants = Shortened(h.grants), !.exclude = Shortened(h.exclude)]
  ELSE h

(* cookbook_grid_get_signed and cookbook_grid_head_signed to q, with no via *)
(* chain and hop count 0.  The signature is over the headers h as they were *)
(* built; when they are not whole, the line with the origin is not one of   *)
(* its own, and without an origin the peer takes the request for unsigned.  *)
Request(from, q, method, kind, p, query, h) ==
  [method |-> method, kind |-> kind, path |-> p, query |-> query,
   via |-> <<from>>, hop |-> 1, hdrs |-> Arriving(q, h),
   origin |-> from, ts |-> now,
   sig |-> IF from \in HasKey /\ h.whole
           THEN [key |-> from,
                 text |-> Canonical(method, <<kind, p, query>>, <<from>>, 1, h, now)]
           ELSE None]

Distance(a, b) == IF a < b THEN b - a ELSE a - b

(* Mutant: the time of the signature is not looked at. *)
VerifyAnyAge(q, m) ==
  IF m.sig = None THEN q \notin PeerAuth
  ELSE /\ peers[q][m.origin] # None
       /\ peers[q][m.origin].pk = m.sig.key
       /\ m.sig.text = Canonical(m.method, <<m.kind, m.path, "">>, m.via, m.hop, m.hdrs, m.ts)

(* verify_grid_peer_sig.  An unsigned request passes unless signatures are  *)
(* asked for.  The text is rebuilt from the path without its query.         *)
VerifyPeerSig(q, m) ==
  IF m.sig = None THEN q \notin PeerAuth
  ELSE /\ Distance(now, m.ts) <= Window
       /\ peers[q][m.origin] # None
       /\ peers[q][m.origin].pk = m.sig.key
       /\ m.sig.text = Canonical(m.method, <<m.kind, m.path, "">>, m.via, m.hop, m.hdrs, m.ts)

(* An answer, with its whole body. *)
Given(s, found) == [status |-> s, found |-> found, body |-> "whole"]

Status(s) == Given(s, {})

(* HEAD: store->exists returns 0 (COOKBOOK_STORE_OK) when the object is     *)
(* there, and the handler takes that for "no".                              *)
HeadStatus(q, p) == IF Stored(q, p) # {} THEN 404 ELSE 200

(* The checks all requests from peers go through; a circle ends here. *)
Looped(q, m) == m.hop > MaxHops \/ q \in Range(m.via)

(* The /grid/ handlers of registry q.  They ask nobody else. *)
GridResolve(q, m) ==
  IF Looped(q, m) THEN Status(508)
  ELSE IF ~VerifyPeerSig(q, m) THEN Status(401)
  ELSE IF ~CheckGridAuth(m.hdrs, GroupOf[m.path], "r") THEN Status(403)
  ELSE Given(200, Resolves(q, m.path, m.query))

GridArtifact(q, m) ==
  IF Looped(q, m) THEN Status(508)
  ELSE IF ~VerifyPeerSig(q, m) THEN Status(401)
  ELSE IF ~CheckGridAuth(m.hdrs, GroupOf[m.path], "r") THEN Status(403)
  ELSE IF m.method = "HEAD" THEN Status(HeadStatus(q, m.path))
  ELSE Given(IF Stored(q, m.path) = {} THEN 404 ELSE 200, Stored(q, m.path))

(* The client's manifest handler does the rest: it wants a token when the   *)
(* registry has a key, and a peer sends none.                               *)
GridManifest(q, m) ==
  IF ~VerifyPeerSig(q, m) \/ q \in HasKey THEN Status(401)
  ELSE Given(200, Listed(q, NoClaims, ""))

(* The routes exist only where the grid is enabled. *)
Reply(q, m) ==
  IF q \notin GridEnabled THEN Status(404)
  ELSE CASE m.kind = "resolve" -> GridResolve(q, m)
         [] m.kind = "artifact" -> GridArtifact(q, m)
         [] m.kind = "manifest" -> GridManifest(q, m)

-----------------------------------------------------------------------------
(* The client-facing handlers.  tried records what became of each peer      *)
(* asked; had, who had the path when the request came in.                   *)

Holders(p) == {r \in Registry : held[r][p] = "published"}

(* The end of a search for versions: an Accept header that names no format  *)
(* of the server is noticed only now.                                       *)
Versions(j, found) ==
  [j EXCEPT !.pc = "done", !.found = found, !.status = IF j.accept THEN 200 ELSE 406]

HandleResolve(j, via) ==
  LET found == Resolves(j.at, j.path, j.query) IN
  IF found = {} /\ j.at \in GridEnabled /\ ~via THEN [j EXCEPT !.pc = "miss"]
  ELSE Versions(j, found)

(* GET.  The registry's own copy comes with a header when it is yanked. *)
HandleArtifact(j, via) ==
  LET found == Stored(j.at, j.path) IN
  IF found = {} /\ j.at \in GridEnabled /\ ~via THEN [j EXCEPT !.pc = "miss"]
  ELSE [j EXCEPT !.status = IF found = {} THEN 404
                            ELSE IF j.path \in Descriptor /\ ~j.accept THEN 406 ELSE 200,
                 !.found = found,
                 !.flagged = held[j.at][j.path] = "yanked"]

(* With grid=true the peers are asked whatever is found here. *)
HandleManifest(j) ==
  [j EXCEPT !.pc = IF j.query = "grid" /\ j.at \in GridEnabled THEN "miss" ELSE "done",
            !.found = Listed(j.at, Claims(j.at, j.token), j.query)]

Ask(c, r, kind, p, query, via, t, accept) ==
  /\ job[c].pc \in {"idle", "done"}
  /\ Free(r)
  /\ asks < MaxAsks
  /\ asks' = asks + 1
  /\ LET j == [pc |-> "done", at |-> r, kind |-> kind, path |-> p, query |-> query,
               token |-> t, accept |-> accept, order |-> <<>>, tried |-> <<>>, msg |-> None,
               had |-> Holders(p), status |-> 200, found |-> {}, flagged |-> FALSE]
     IN job' = [job EXCEPT ![c] =
          IF ~Admitted(r, kind, p, t) THEN [j EXCEPT !.status = IF t = None THEN 401 ELSE 403]
          ELSE CASE kind = "resolve" -> HandleResolve(j, via)
                 [] kind = "artifact" -> HandleArtifact(j, via)
                 [] kind = "manifest" -> HandleManifest(j)]
  /\ UNCHANGED <<peers, held, now, changes>>

(* build_grid_grant_headers: the manifest sends none. *)
Headers(j) ==
  LET cl == Claims(j.at, j.token) IN
  IF j.kind = "manifest" THEN GrantHeaders(0, None, None)
  ELSE GrantHeaders(cl.version, cl.grants, cl.exclude)

LoadPeers(c) ==
  /\ job[c].pc = "miss"
  /\ \E order \in Loaded(peers[job[c].at]) :
       job' = [job EXCEPT ![c].pc = "fan",
                 ![c].order = [i \in DOMAIN order |->
                                 [id |-> order[i], mode |-> peers[job[c].at][order[i]].mode]]]
  /\ UNCHANGED <<peers, held, now, changes, asks>>

Turn(j) == Len(j.tried) + 1

Send(c) ==
  LET j == job[c] IN
  /\ j.pc = "fan"
  /\ Turn(j) <= Len(j.order)
  /\ LET peer == j.order[Turn(j)]
         method == IF j.kind = "artifact" /\ peer.mode = "r" THEN "HEAD" ELSE "GET"
     IN \E h \in Headers(j) :
          job' = [job EXCEPT ![c].pc = "wait",
            ![c].msg = Request(j.at, peer.id, method, j.kind, j.path,
                               IF j.kind = "resolve" THEN j.query ELSE "", h)]
  /\ UNCHANGED <<peers, held, now, changes, asks>>

(* The peer of this turn is done with, with this outcome: the status of its *)
(* answer, or 0 when there was none, and how much of its body came.         *)
Tried(j, status, body) ==
  [j EXCEPT !.pc = "fan", !.msg = None,
            !.tried = Append(@, [id |-> j.order[Turn(j)].id, status |-> status, body |-> body,
                                 signed |-> j.msg.sig # None, fresh |-> now - j.msg.ts <= Window,
                                 pk |-> LET row == peers[j.order[Turn(j)].id][j.at]
                                        IN IF row = None THEN None ELSE row.pk])]

(* What the handlers do with an answer.  A list of versions that is not     *)
(* empty, a redirect or a relayed file ends the search; a manifest is       *)
(* merged into the list.                                                    *)
TakeVersions(j, answer) ==
  LET k == Tried(j, answer.status, answer.body) IN
  IF answer.status = 200 /\ answer.found # {} THEN Versions(k, answer.found) ELSE k

TakeArtifact(j, answer) ==
  LET k == Tried(j, answer.status, answer.body) IN
  IF answer.status # 200 THEN k
  ELSE IF j.msg.method = "HEAD"
  THEN [k EXCEPT !.pc = "done", !.status = 307, !.found = {<<j.order[Turn(j)].id, j.path>>}]
  ELSE [k EXCEPT !.pc = "done", !.found = answer.found]

TakeManifest(j, answer) ==
  [Tried(j, answer.status, answer.body) EXCEPT !.found = @ \cup answer.found]

Take(j, answer) ==
  CASE j.kind = "resolve" -> TakeVersions(j, answer)
    [] j.kind = "artifact" -> TakeArtifact(j, answer)
    [] j.kind = "manifest" -> TakeManifest(j, answer)

Answer(c) ==
  LET j == job[c] IN
  /\ j.pc = "wait"
  /\ Free(j.order[Turn(j)].id)
  /\ job' = [job EXCEPT ![c] = Take(j, Reply(j.order[Turn(j)].id, j.msg))]
  /\ UNCHANGED <<peers, held, now, changes, asks>>

(* grid_recv_response stops after 4 MB, or when the peer is silent for five *)
(* seconds in the middle of the body, and gives what came as the answer.    *)
(* The list of versions or of a manifest has lost its end and is not read;  *)
(* a file is relayed as it is.                                              *)
CutOff(kind, answer) ==
  [answer EXCEPT !.found = IF kind = "artifact" THEN @ ELSE {}, !.body = "cut"]

AnswerCut(c) ==
  LET j == job[c] IN
  /\ j.pc = "wait"
  /\ Free(j.order[Turn(j)].id)
  /\ j.msg.method = "GET" /\ j.order[Turn(j)].id \notin Https
  /\ LET answer == Reply(j.order[Turn(j)].id, j.msg) IN
       /\ answer.status = 200 /\ answer.found # {}
       /\ job' = [job EXCEPT ![c] = Take(j, CutOff(j.kind, answer))]
  /\ UNCHANGED <<peers, held, now, changes, asks>>

(* Mutant: a peer that does not answer is asked again. *)
GiveUpRetries(c) ==
  /\ job[c].pc = "wait"
  /\ job' = [job EXCEPT ![c].pc = "fan", ![c].msg = None]
  /\ UNCHANGED <<peers, held, now, changes, asks>>

(* No connection, or no answer in time. *)
GiveUp(c) ==
  /\ job[c].pc = "wait"
  /\ job' = [job EXCEPT ![c] = Tried(job[c], 0, "none")]
  /\ UNCHANGED <<peers, held, now, changes, asks>>

(* All peers asked. *)
Finish(c) ==
  LET j == job[c] IN
  /\ j.pc = "fan"
  /\ Turn(j) > Len(j.order)
  /\ job' = [job EXCEPT ![c] =
       CASE j.kind = "resolve" -> Versions(j, {})
         [] j.kind = "artifact" -> [j EXCEPT !.pc = "done", !.status = 404]
         [] j.kind = "manifest" -> [j EXCEPT !.pc = "done"]]
  /\ UNCHANGED <<peers, held, now, changes, asks>>

Tick ==
  /\ now < MaxTime
  /\ now' = now + 1
  /\ UNCHANGED <<peers, held, job, changes, asks>>

-----------------------------------------------------------------------------
Handler(c) ==
  \/ LoadPeers(c)
  \/ Send(c) \/ Finish(c) \/ Answer(c) \/ AnswerCut(c) \/ GiveUp(c)

Next ==
  \/ \E e \in Edit : e.row = None /\ DeletePeer(e.at, e.id)
  \/ \E e \in Edit : e.row # None /\ PutPeer(e.at, e.id, e.row)
  \/ \E r \in Registry, p \in Path : Publishes(r, p) \/ Yank(r, p)
  \/ \E q \in Question, p \in Path : Ask(q.from, q.at, q.kind, p, q.query, q.via, q.token, q.accept)
  \/ \E c \in Client : job[c].pc \in {"miss", "fan", "wait"} /\ Handler(c)
  \/ Tick

Spec == Init /\ [][Next]_vars

(* A worker goes on with its own request, and a call to a peer ends: with   *)
(* an answer, an error or a timeout (the system's for connecting, five      *)
(* seconds of the socket after that).                                       *)
FairSpec ==
  Spec /\ \A c \in Client : WF_vars(job[c].pc \in {"miss", "fan", "wait"} /\ Handler(c))

-----------------------------------------------------------------------------
(* Properties *)

(* The claims reach peer q as they are: both headers fit into the buffer,   *)
(* and over TLS each of them.                                               *)
Carried(j, q) ==
  LET cl == Claims(j.at, j.token) IN
  cl.version = 2 =>
    /\ Fits(cl.grants, cl.exclude)
    /\ q \in Https => Entries(cl.grants) <= TlsRoom /\ Entries(cl.exclude) <= TlsRoom

(* A peer that should have answered: not the registry itself, in the grid,  *)
(* either side of the signature is set up for the other, and the grants are *)
(* not too long for the way there.                                          *)
Expected(j, try) ==
  /\ try.id \in GridEnabled \ {j.at}
  /\ Carried(j, try.id)
  /\ IF try.signed THEN try.pk = j.at /\ try.fresh /\ (j.kind = "resolve" => j.query = "")
     ELSE try.id \notin PeerAuth

(* No peer tried for j had what was asked for and should have answered. *)
NonePassedOver(j) ==
  j.pc # "idle" /\ j.kind # "manifest" =>
    \A i \in DOMAIN j.tried :
      LET try == j.tried[i]
          last == j.pc = "done" /\ j.found # {} /\ i = Len(j.tried)
      IN \/ last
         \/ try.id \notin j.had \/ held[try.id][j.path] # "published"
         \/ try.status = 0 \/ try.body = "cut"
         \/ ~Expected(j, try)
         \/ j.kind = "artifact" /\ j.order[i].mode = "r"

(* No holder is passed over: when a search went past a peer that had the    *)
(* artifact before the search began and had not yanked it since, that peer  *)
(* gave no whole answer, was not set up to accept it, or the client has     *)
(* more grants and exclusions than the headers hold.  A client that the     *)
(* first registry admits is otherwise admitted by every peer: its grants    *)
(* survive the headers.  (Peers in redirect mode are left out for           *)
(* artifacts: see RedirectTargetHasIt.)  handle_resolve:1549-1595 and       *)
(* handle_artifact:1891-1955 against handle_grid_resolve and                *)
(* handle_grid_artifact.                                                    *)
HolderFound == \A c \in Client : NonePassedOver(job[c])

(* The token, where one is needed, lets its bearer read what j asks for. *)
MayRead(j) ==
  j.kind # "manifest" /\ j.at \in HasKey =>
    /\ j.token # None
    /\ j.token.version = 2 => AuthCheck(j.token.grants, j.token.exclude, GroupOf[j.path], "r")

(* What a client is told is true of the registry named in the answer, and   *)
(* an artifact or a list of versions is of a group that the client's token  *)
(* lets it read.  The relayed answers of handle_resolve and handle_artifact *)
(* come from a peer that knows neither the token nor its signer.            *)
AnswersAreTrue ==
  \A c \in Client :
    LET j == job[c] IN
    j.pc = "done" /\ j.status = 200 /\ j.found # {} =>
      /\ \A x \in j.found : held[x[1]][x[2]] # "absent"
      /\ j.flagged => held[j.at][j.path] = "yanked"
      /\ MayRead(j)

(* Every peer that answered j was another registry, and the signature right. *)
Vouched(j) ==
  j.pc # "idle" =>
    \A i \in DOMAIN j.tried :
      LET try == j.tried[i] IN
      try.status \in {200, 403} =>
        /\ j.kind # "manifest" => try.id # j.at
        /\ try.id \in PeerAuth => try.signed
        /\ try.signed => try.pk = j.at /\ try.fresh

(* Nothing is taken from a peer that should not have answered: the answer   *)
(* came from another registry, and a registry that asks for signatures      *)
(* answered one that was fresh and made with the key it has on record for   *)
(* the sender.  verify_grid_peer_sig and the loop detection of              *)
(* handle_grid_resolve and handle_grid_artifact.                            *)
PeersVouch == \A c \in Client : Vouched(job[c])

(* A redirect names a registry that has the artifact: HEAD /grid/artifact   *)
(* is an "existence check" (docs/capabilities.md:181).                      *)
RedirectTargetHasIt ==
  \A c \in Client :
    job[c].pc = "done" /\ job[c].status = 307 =>
      \A x \in job[c].found : held[x[1]][x[2]] # "absent"

(* Every request is answered, also when peers are down, and when the        *)
(* workers of two registries, or of one that has itself for a peer, all     *)
(* wait for each other.  The loops of handle_resolve, handle_artifact and   *)
(* handle_mirror_manifest, and the timeout of cookbook_sock_connect.        *)
EveryRequestAnswered ==
  \A c \in Client : job[c].pc = "miss" ~> job[c].pc = "done"
=============================================================================
