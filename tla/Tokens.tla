------------------------------- MODULE Tokens -------------------------------
(***************************************************************************)
(* Issuing tokens and using them: POST /auth/token looks up a credential,  *)
(* asks LDAP or an OIDC provider, loads the subject's policy and one after *)
(* another those of its teams, and signs what it found; administrators     *)
(* change credentials and policies in between.  Every SQL statement and    *)
(* every call to another server is one step.  POST /keys stands for the    *)
(* operations a token authorises.                                          *)
(***************************************************************************)
EXTENDS Grants

CONSTANTS Request,     \* concurrent requests for a token
          Subject, Team, Password, KeyId,
          GroupId,     \* groups (sequences of segments)
          GroupRow,    \* SUBSET GroupId: rows of table groups
          PolicyText,  \* policies an administrator may write
          LdapUser,    \* [Subject -> [pw, groups] or None]: the directory
          OidcSubject, \* subjects the OIDC provider knows
          MaxPayload,  \* entries of the claims a verifier can read (4095 bytes)
          TeamMax,     \* teams whose texts are searched for keys (64)
          KeyMax,      \* keys of a recipe: so many grants, so many exclusions (256)
          MaxAdmin, MaxTokens \* bounds: administrator's changes, tokens issued

Name == Subject \cup Team

ASSUME TokensAssumption ==
  /\ None \notin Password \cup Subject \cup PolicyText
  /\ \A p \in PolicyText : p.teams \in Seq(Name)
  /\ LdapUser \in [Subject -> [pw : Password, groups : SUBSET GroupId] \cup {None}]
  /\ GroupRow \subseteq GroupId /\ OidcSubject \subseteq Subject
  /\ {MaxPayload, TeamMax, KeyMax, MaxAdmin, MaxTokens} \subseteq Nat

(* A policy lists its grants and its exclusions. *)
ASSUME ListAssumption ==
  \A p \in PolicyText : p.grants \in Seq(Range(p.grants)) /\ p.exclude \in Seq(Range(p.exclude))

-----------------------------------------------------------------------------
(* cookbook_policy_resolve.  A policy is [teams, grants, exclude, sections]:*)
(* teams a sequence of subjects, grants and exclude lists as in Grants,     *)
(* sections says whether the text is made of @sections: a bare map is       *)
(* parsed, but refused as input of the merge, and nobody looks.  The merge  *)
(* itself (the vendored alforno) collects the permissions of each key, and  *)
(* the keys of the exclusions, as far as the recipe built here names them.  *)
Inputs(policies) == {p \in policies : p.sections}

MergeOps(policies, key) ==
  UNION {UNION {gr.ops : gr \in {x \in Range(p.grants) : x.key = key}} : p \in policies}

Keys(policies) == UNION {{gr.key : gr \in Range(p.grants)} : p \in policies}

ExcludeKeys(policies) == UNION {Range(p.exclude) : p \in policies}

(* The recipe: texts are searched in the order in which they were loaded,   *)
(* those the merge refuses too, and a key is taken unless KeyMax others     *)
(* have been.  Before(lists, i, j): the keys seen before lists[i][j].       *)
Before(lists, i, j) ==
  (UNION {Range(lists[a]) : a \in 1 .. i - 1}) \cup {lists[i][b] : b \in 1 .. j - 1}

Recipe(lists) ==
  UNION {{lists[i][j] : j \in {x \in DOMAIN lists[i] : Cardinality(Before(lists, i, x)) < KeyMax}} :
           i \in DOMAIN lists}

Searched(found) == {i \in DOMAIN found : i <= TeamMax + 1}

RecipeGrants(found) ==
  Recipe([i \in Searched(found) |->
            [j \in DOMAIN found[i].grants |-> found[i].grants[j].key]])

RecipeExclude(found) == Recipe([i \in Searched(found) |-> found[i].exclude])

(* The claims made of these keys. *)
Claims(inputs, granted, excluded) ==
  {[grants |-> [i \in DOMAIN ks |-> [key |-> ks[i], ops |-> MergeOps(inputs, ks[i])]],
    exclude |-> es] : ks \in Listings(granted), es \in Listings(excluded)}

(* The claims that the texts found give, the subject's own first. *)
Merged(found) ==
  LET inputs == Inputs(Range(found)) IN
  Claims(inputs, Keys(inputs) \cap RecipeGrants(found), ExcludeKeys(inputs) \cap RecipeExclude(found))

(* None when there is no input, and when a step fails: the recipe or the    *)
(* merge lacks memory, or alf_process meets a variable or a link that it    *)
(* cannot resolve.                                                          *)
Resolved(found) == {None} \cup IF Inputs(Range(found)) = {} THEN {} ELSE Merged(found)

(* A list of exclusions is not None. *)
ASSUME ClaimsAssumption ==
  \A S \in SUBSET ExcludeKeys(PolicyText) : None \notin Listings(S)

-----------------------------------------------------------------------------
VARIABLES cred,    \* [Subject -> [pw, groups, revoked] or None]: table credentials
          policy,  \* [Subject \cup Team -> policy or None]: table policies
          keys,    \* [KeyId -> [group, revoked, by] or None]: table publisher_keys
          req,     \* [Request -> state of the handler]
          tokens,  \* tokens issued
          changes  \* changes made by administrators

vars == <<cred, policy, keys, req, tokens, changes>>

Idle == [pc |-> "idle", via |-> "none", sub |-> None, pw |-> None, groups |-> {},
         found |-> <<>>, todo |-> <<>>, trouble |-> "none", lives |-> {}, texts |-> {}]

-----------------------------------------------------------------------------
(* What a request could have read: the live credentials of its subject and  *)
(* the policies, by name, that were in force at some time during it.        *)
LiveIn(table, s) == IF table[s] = None \/ table[s].revoked THEN {} ELSE {table[s]}

TextsIn(table) == {<<n, table[n]>> : n \in Name}

Set(r, s) == req' = [req EXCEPT ![r] = s]

(* An administrator's change of the tables, noted in the requests under way. *)
Change(newCred, newPolicy) ==
  /\ changes < MaxAdmin
  /\ changes' = changes + 1
  /\ cred' = newCred
  /\ policy' = newPolicy
  /\ req' = [r \in Request |->
               IF req[r].pc = "idle" THEN req[r]
               ELSE [req[r] EXCEPT !.lives = @ \cup LiveIn(newCred, req[r].sub),
                                   !.texts = @ \cup TextsIn(newPolicy)]]
  /\ UNCHANGED <<keys, tokens>>

Init ==
  /\ cred = [s \in Subject |-> None]
  /\ policy = [n \in Name |-> None]
  /\ keys = [k \in KeyId |-> None]
  /\ req = [r \in Request |-> Idle]
  /\ tokens = {}
  /\ changes = 0

-----------------------------------------------------------------------------
(* Administration *)

(* INSERT OR REPLACE: also brings a revoked credential back. *)
PutCredential(s, pw, groups) ==
  Change([cred EXCEPT ![s] = [pw |-> pw, groups |-> groups, revoked |-> FALSE]], policy)

RevokeCredential(s) == \* answers 200 also when there is nothing to revoke
  Change([cred EXCEPT ![s] = IF @ = None THEN @ ELSE [@ EXCEPT !.revoked = TRUE]], policy)

DeleteCredential(s) == Change([cred EXCEPT ![s] = None], policy)

(* The text has been parsed; kind (user or team) is stored and never read. *)
PutPolicy(n, p) == Change(cred, [policy EXCEPT ![n] = p])

DeletePolicy(n) == Change(cred, [policy EXCEPT ![n] = None])

-----------------------------------------------------------------------------
(* POST /auth/token.  The 400, 405 and 503 answers change nothing. *)

Start(r, pc, via, s, pw, groups) ==
  /\ req[r].pc = "idle"
  /\ Cardinality(tokens) < MaxTokens
  /\ Set(r, [Idle EXCEPT !.pc = pc, !.via = via, !.sub = s, !.pw = pw, !.groups = groups,
                         !.lives = LiveIn(cred, s), !.texts = TextsIn(policy)])
  /\ UNCHANGED <<cred, policy, keys, tokens, changes>>

BasicRequest(r, s, pw) == Start(r, "lookup", "basic", s, pw, {})

(* A JSON body with a password: method "ldap" asks the directory first. *)
BodyRequest(r, s, pw, groups, method) ==
  IF method = "ldap" THEN Start(r, "ldap", "ldap", s, pw, groups)
  ELSE Start(r, "lookup", "local", s, pw, groups)

(* A body with a subject and no password is taken at its word. *)
OpenRequest(r, s, groups) == Start(r, "policy", "open", s, None, groups)

(* grant_type client_credentials: the provider's subject replaces the one   *)
(* in the body, the groups of the body stay.  A refusal is 401.             *)
OidcRequest(r, s, groups) == s \in OidcSubject /\ Start(r, "policy", "oidc", s, None, groups)

Refuse(r) == Set(r, Idle)   \* 401

Verified(r, groups) == Set(r, [req[r] EXCEPT !.pc = "policy", !.groups = groups])

(* Mutant: revoked rows are selected too. *)
LookupRevoked(s) == IF cred[s] = None THEN {} ELSE {cred[s]}

(* SELECT ... WHERE subject = ?1 AND revoked_at IS NULL *)
LookupCredential(s) == LiveIn(cred, s)

(* A wrong password is 401 for Basic; for a body the directory may still    *)
(* know it, unless it has been asked already.  Without a row Basic goes on  *)
(* with no groups; the status of the query is not looked at, so one that    *)
(* fails is one without a row.                                              *)
Lookup(r) ==
  LET q == req[r] IN
  /\ q.pc = "lookup"
  /\ \E rows \in {LookupCredential(q.sub), {}} :
       \/ \E row \in rows : row.pw = q.pw /\ Verified(r, row.groups)
       \/ rows = {} /\ q.via = "basic" /\ Verified(r, {})
       \/ /\ ~\E row \in rows : row.pw = q.pw
          /\ rows # {} \/ q.via # "basic"
          /\ IF q.via = "local" THEN Set(r, [q EXCEPT !.pc = "ldap"]) ELSE Refuse(r)
  /\ UNCHANGED <<cred, policy, keys, tokens, changes>>

(* cookbook_ldap_bind: -1 on any failure; on success the groups of the      *)
(* entry, or nothing when the search for them fails.                        *)
LdapBind(s, pw) ==
  IF LdapUser[s] # None /\ LdapUser[s].pw = pw
  THEN {None, LdapUser[s].groups, {}} ELSE {None}

(* Groups from the directory replace those of the body only if there are    *)
(* any.  After the last method the answer is 401.                           *)
Ldap(r) ==
  LET q == req[r] IN
  /\ q.pc = "ldap"
  /\ \E found \in LdapBind(q.sub, q.pw) :
       IF found # None THEN Verified(r, IF found = {} THEN q.groups ELSE found)
       ELSE IF q.via = "ldap" THEN Set(r, [q EXCEPT !.pc = "lookup"])
       ELSE Refuse(r)
  /\ UNCHANGED <<cred, policy, keys, tokens, changes>>

(* cookbook_policy_get: the text; or NULL, also when the query fails or     *)
(* memory is short.                                                         *)
PolicyGet(n) == {policy[n], None}

(* cookbook_policy_resolve: the subject's own policy names the teams.       *)
(* trouble keeps that there was one and it was not read.                    *)
LoadPolicy(r) ==
  LET q == req[r] IN
  /\ q.pc = "policy"
  /\ \E p \in PolicyGet(q.sub) :
       Set(r, IF p = None
              THEN [q EXCEPT !.pc = "issue",
                             !.trouble = IF policy[q.sub] = None THEN "none" ELSE "read"]
              ELSE [q EXCEPT !.pc = IF p.teams = <<>> THEN "issue" ELSE "team",
                             !.found = <<p>>, !.todo = p.teams])
  /\ UNCHANGED <<cred, policy, keys, tokens, changes>>

(* Mutant: without the policy of a team there are no claims. *)
LoadTeamStops(r) ==
  LET q == req[r]
      p == policy[Head(q.todo)]
  IN
  /\ q.pc = "team"
  /\ Set(r, [q EXCEPT !.pc = IF p = None \/ Len(q.todo) = 1 THEN "issue" ELSE "team",
                      !.found = IF p = None THEN <<>> ELSE Append(@, p),
                      !.todo = Tail(@)])
  /\ UNCHANGED <<cred, policy, keys, tokens, changes>>

LoadTeam(r) == \* a team without a policy is skipped
  LET q == req[r] IN
  /\ q.pc = "team"
  /\ \E p \in PolicyGet(Head(q.todo)) :
       Set(r, [q EXCEPT !.pc = IF Len(q.todo) = 1 THEN "issue" ELSE "team",
                        !.found = IF p = None THEN @ ELSE Append(@, p),
                        !.todo = Tail(@)])
  /\ UNCHANGED <<cred, policy, keys, tokens, changes>>

(* A token of version 1 has the groups, one of version 2 the merged claims  *)
(* as well; sub to texts are what the request knew, and what failed in it.  *)
JwtCreate(q, trouble) ==
  [version |-> 1, groups |-> q.groups, grants |-> None, exclude |-> None, via |-> q.via,
   sub |-> q.sub, pw |-> q.pw, trouble |-> trouble, lives |-> q.lives, texts |-> q.texts]

JwtCreateV2(q, claims) ==
  [JwtCreate(q, q.trouble) EXCEPT
     !.version = 2, !.grants = claims.grants, !.exclude = claims.exclude]

(* No claims although there was an input: the merge failed. *)
Unmerged(q) == IF Inputs(Range(q.found)) = {} THEN q.trouble ELSE "merge"

Issue(r) ==
  LET q == req[r] IN
  /\ q.pc = "issue"
  /\ \E claims \in Resolved(q.found) :
       tokens' = tokens \cup {IF claims = None THEN JwtCreate(q, Unmerged(q))
                              ELSE JwtCreateV2(q, claims)}
  /\ Set(r, Idle)
  /\ UNCHANGED <<cred, policy, keys, changes>>

IssueFails(r) == \* 500
  /\ req[r].pc = "issue"
  /\ Set(r, Idle)
  /\ UNCHANGED <<cred, policy, keys, tokens, changes>>

-----------------------------------------------------------------------------
(* Using a token *)

(* cookbook_jwt_verify reads so much of the payload as fits its buffer, in  *)
(* the order grants, exclude: grants cut short match nothing, exclusions    *)
(* cut short are not there.                                                 *)
Readable(tok) ==
  LET n == IF tok.version = 1 THEN 0 ELSE Len(tok.grants)
      x == IF tok.version = 1 THEN 0 ELSE Len(tok.exclude)
  IN  [grants  |-> IF n > MaxPayload THEN None ELSE tok.grants,
       exclude |-> IF n + x > MaxPayload THEN None ELSE tok.exclude]

(* Mutant: the exclusions are not looked at. *)
AuthorisesNoExclude(tok, g, op) ==
  IF tok.version = 2 THEN AuthCheck(Readable(tok).grants, None, g, op)
  ELSE op = "r" \/ g \in tok.groups

(* require_auth_v2, after the signature, revocation and rate limit. *)
Authorises(tok, g, op) ==
  IF tok.version = 2 THEN AuthCheck(Readable(tok).grants, Readable(tok).exclude, g, op)
  ELSE op = "r" \/ g \in tok.groups

(* Mutant: INSERT OR REPLACE. *)
RegisterKeyReplaces(tok, k, g) ==
  /\ Authorises(tok, g, "c")
  /\ g \in GroupRow
  /\ keys' = [keys EXCEPT ![k] = [group |-> g, revoked |-> FALSE, by |-> tok]]
  /\ UNCHANGED <<cred, policy, req, tokens, changes>>

(* POST /keys: 403, 409 when the key exists or its group does not. *)
RegisterKey(tok, k, g) ==
  /\ Authorises(tok, g, "c")
  /\ keys[k] = None /\ g \in GroupRow
  /\ keys' = [keys EXCEPT ![k] = [group |-> g, revoked |-> FALSE, by |-> tok]]
  /\ UNCHANGED <<cred, policy, req, tokens, changes>>

RevokeKey(k) == \* POST /keys/{id}/revoke, from anybody
  /\ keys[k] # None
  /\ keys' = [keys EXCEPT ![k].revoked = TRUE]
  /\ UNCHANGED <<cred, policy, req, tokens, changes>>

Next ==
  \/ \E s \in Subject, pw \in Password, gs \in SUBSET GroupId :
       gs # {} /\ PutCredential(s, pw, gs)
  \/ \E s \in Subject : RevokeCredential(s) \/ DeleteCredential(s)
  \/ \E n \in Name, p \in PolicyText : PutPolicy(n, p)
  \/ \E n \in Name : DeletePolicy(n)
  \/ \E r \in Request, s \in Subject, pw \in Password : BasicRequest(r, s, pw)
  \/ \E r \in Request, s \in Subject, gs \in SUBSET GroupId :
       \/ OpenRequest(r, s, gs) \/ OidcRequest(r, s, gs)
       \/ \E pw \in Password, m \in {"token", "ldap"} : BodyRequest(r, s, pw, gs, m)
  \/ \E r \in Request :
       Lookup(r) \/ Ldap(r) \/ LoadPolicy(r) \/ LoadTeam(r) \/ Issue(r) \/ IssueFails(r)
  \/ \E tok \in tokens, k \in KeyId, g \in GroupId : RegisterKey(tok, k, g)
  \/ \E k \in KeyId : RevokeKey(k)

Spec == Init /\ [][Next]_vars

-----------------------------------------------------------------------------
(* Types of the tables and of the requests under way. *)
TypeOK ==
  /\ cred \in [Subject -> [pw : Password, groups : SUBSET GroupId, revoked : BOOLEAN] \cup {None}]
  /\ policy \in [Name -> PolicyText \cup {None}]
  /\ \A k \in KeyId : keys[k] = None \/ (keys[k].group \in GroupRow /\ keys[k].by \in tokens)
  /\ \A r \in Request :
       /\ req[r].pc \in {"idle", "lookup", "ldap", "policy", "team", "issue"}
       /\ req[r].pc = "team" => req[r].todo # <<>> /\ Range(req[r].todo) \subseteq Name
       /\ req[r].found \in Seq(PolicyText)
       /\ req[r].trouble \in {"none", "read"}
  /\ changes \in 0 .. MaxAdmin

(* The policies that were in force under a name during the issue of tok. *)
During(tok, n) == {t[2] : t \in {u \in tok.texts : u[1] = n}}

(* docs/capabilities.md: a token carries the groups of the credential.      *)
(* When a password was given, the groups in the token belong to a row of    *)
(* its subject that had that password and was not revoked at some time      *)
(* during the request, or to the directory's entry with that password; a    *)
(* revoked or replaced credential gives its groups to no later request.     *)
(* The exception: when the directory accepts the password and returns no    *)
(* groups, those the client wrote into the body stay.                       *)
GroupsAreEarned ==
  \A tok \in tokens :
    tok.via \in {"basic", "local", "ldap"} =>
      \/ tok.groups = {}
      \/ \E row \in tok.lives : row.pw = tok.pw /\ row.groups = tok.groups
      \/ tok.via # "basic" /\ LdapUser[tok.sub] # None /\ LdapUser[tok.sub].pw = tok.pw

(* Every permission in tok was given by a policy of its subject or one of   *)
(* the teams.  While the subject's policy is not touched, the token has all *)
(* of its exclusions, as many as a recipe can name; without them, as a      *)
(* token of version 1, only when it was not read or the merge has failed.   *)
Follows(tok) ==
  LET own == During(tok, tok.sub)
      teams == UNION {Range(p.teams) : p \in own \ {None}}
      read == {p \in (own \cup UNION {During(tok, n) : n \in teams}) \ {None} : p.sections}
  IN  /\ tok.version = 2 =>
           \A gr \in Range(tok.grants) : gr.ops \subseteq MergeOps(read, gr.key)
      /\ \A p \in PolicyText :
           own = {p} /\ p.sections =>
             IF tok.version = 1 THEN tok.trouble # "none"
             ELSE Len(p.exclude) <= KeyMax => Range(p.exclude) \subseteq Range(tok.exclude)

(* A token is made from policies of its subject and its teams, read one by  *)
(* one by cookbook_policy_resolve while administrators change them: it      *)
(* follows the policies that were in force at some time during the request. *)
ClaimsFollowPolicies == \A tok \in tokens : Follows(tok)

(* The whole way from a policy or credential to a publisher's key.  With a  *)
(* token of version 2 a key is registered only for a group that a policy in *)
(* force during its issue lets somebody create in and that the subject's    *)
(* policy, if it stayed and the token fits the verifier's buffer, does not  *)
(* exclude; with version 1 only for one of the token's groups.              *)
KeysFollowGrants ==
  \A k \in {x \in KeyId : keys[x] # None} :
    LET tok == keys[k].by
        g == keys[k].group
    IN  IF tok.version = 1 THEN g \in tok.groups
        ELSE /\ \E t \in tok.texts :
                  /\ t[2] # None
                  /\ \E gr \in Range(t[2].grants) :
                       "c" \in gr.ops /\ (gr.key = Star \/ IsPrefix(gr.key, g))
             /\ \A p \in PolicyText :
                  During(tok, tok.sub) = {p} /\ p.sections /\ Len(p.exclude) <= KeyMax /\
                  Len(tok.grants) + Len(tok.exclude) <= MaxPayload =>
                    ~\E e \in Range(p.exclude) : e # Star /\ IsPrefix(e, g)

(* A publisher's key that was revoked is never registered or valid again:   *)
(* its row stays, so its identifier cannot be taken a second time.          *)
KeyStaysRevoked ==
  [][\A k \in KeyId : keys[k] # None /\ keys[k].revoked => keys'[k] = keys[k]]_vars
==============================================================================
