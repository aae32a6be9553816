------------------------------- MODULE Grants -------------------------------
(***************************************************************************)
(* Permissions of a version 2 token (cookbook_policy.c) and their way to a *)
(* peer in the headers of a grid request.                                  *)
(*                                                                         *)
(* A group is a sequence of segments (com.acme.lib).  A grant is [key,     *)
(* ops]: key is a group, or Star; ops a subset of the operations c, r, w   *)
(* and d.  Grants and exclusions are sequences, in the order in which the  *)
(* JSON text lists them; None where the claim is missing.                  *)
(***************************************************************************)
EXTENDS Naturals, Sequences, SequencesExt, FiniteSets

CONSTANTS Star,       \* the key "*"
          None,       \* a missing claim, header or policy
          HeaderRoom  \* entries of both headers that fit into 2048 bytes

ASSUME HeaderAssumption == HeaderRoom \in Nat \ {0}

Ops == {"c", "r", "w", "d"}

(* The orders in which a query or a merge may list a set. *)
Listings(S) == {s \in [1 .. Cardinality(S) -> S] : Range(s) = S}

NoMatch == [found |-> FALSE, ops |-> {}, len |-> 0]

(* The key is a group, and that of g or of one above it. *)
Covers(key, g) == key # Star /\ IsPrefix(key, g)

(* Mutant: the last grant that covers the group wins. *)
LastMatch(g, best, grant) ==
  IF Covers(grant.key, g) THEN [found |-> TRUE, ops |-> grant.ops, len |-> Len(grant.key)]
  ELSE best

(* The best grant after one more: the longest key; Star only as long as no  *)
(* other key has matched.                                                   *)
BetterMatch(g, best, grant) ==
  IF grant.key = Star /\ best.len = 0 THEN [found |-> TRUE, ops |-> grant.ops, len |-> 0]
  ELSE IF Covers(grant.key, g) /\ Len(grant.key) > best.len
  THEN [found |-> TRUE, ops |-> grant.ops, len |-> Len(grant.key)]
  ELSE best

(* The walk over the grants: the best after the first n. *)
Walk(grants, g) ==
  LET best[n \in 0 .. Len(grants)] ==
        IF n = 0 THEN NoMatch ELSE BetterMatch(g, best[n - 1], grants[n])
  IN  best

BestMatch(grants, g) == Walk(grants, g)[Len(grants)]

(* "*" is not special among the exclusions. *)
Excluded(exclude, g) == exclude # None /\ \E key \in Range(exclude) : Covers(key, g)

(* cookbook_auth_check. *)
AuthCheck(grants, exclude, g, op) ==
  /\ grants # None
  /\ op \in BestMatch(grants, g).ops
  /\ ~Excluded(exclude, g)

-----------------------------------------------------------------------------
(* Headers to a peer: [grants, exclude, whole], each of the two an absent  *)
(* or empty header (None) or a list.  build_grid_grant_headers writes both  *)
(* lines into one buffer.  Past its end the text stops without the end of   *)
(* the line, and the header that grid_request_signed puts behind it,        *)
(* X-Cookbook-Grid-Origin, becomes part of that line: whole is FALSE.       *)
Header(list) == IF list = <<>> THEN None ELSE list

Entries(list) == IF list = None THEN 0 ELSE Len(list)

Fits(grants, exclude) == Entries(grants) + Entries(exclude) <= HeaderRoom

(* The line that is not finished.  Its last entry is lost, or was complete  *)
(* up to its operations and has those of the text behind it, r and d among  *)
(* them; an exclusion is lost, or the line breaks off before the next.      *)
SpiltGrants(list) ==
  {Front(list)} \cup {Append(Front(list), [key |-> Last(list).key, ops |-> o]) :
                       o \in {x \in SUBSET Ops : {"r", "d"} \subseteq x}}

SpiltExclude(list) == IF list = <<>> THEN {None} ELSE {Front(list), list}

Spilt(grants, exclude) ==
  IF Len(grants) > HeaderRoom
  THEN {[grants |-> gs, exclude |-> None, whole |-> FALSE] :
          gs \in SpiltGrants(SubSeq(grants, 1, HeaderRoom))}
  ELSE {[grants |-> Header(grants), exclude |-> ex, whole |-> FALSE] :
          ex \in SpiltExclude(SubSeq(exclude, 1, HeaderRoom - Len(grants)))}

(* Mutant: the list ends after its first entry. *)
GrantHeadersFirst(version, grants, exclude) ==
  IF version # 2 \/ grants = None THEN {[grants |-> None, exclude |-> None, whole |-> TRUE]}
  ELSE {[grants |-> Header(SubSeq(grants, 1, 1)), exclude |-> Header(exclude), whole |-> TRUE]}

(* The headers a registry may make of these claims: one, as long as they    *)
(* fit.                                                                     *)
GrantHeaders(version, grants, exclude) ==
  IF version # 2 \/ grants = None THEN {[grants |-> None, exclude |-> None, whole |-> TRUE]}
  ELSE IF Fits(grants, exclude)
  THEN {[grants |-> Header(grants), exclude |-> Header(exclude), whole |-> TRUE]}
  ELSE Spilt(grants, exclude)

(* The peer's decision: no grants is open access. *)
CheckGridAuth(headers, g, op) ==
  headers.grants = None \/ AuthCheck(headers.grants, headers.exclude, g, op)

==============================================================================
