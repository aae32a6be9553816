------------------------------- MODULE Catalog -------------------------------
(***************************************************************************)
(* What the registry promises about one artifact row, whatever the upload  *)
(* handlers, the reconciliation thread and crashes do: a coordinate is     *)
(* registered once, by a descriptor that names it; a registered row is     *)
(* either promoted to published or dropped while still pending; a          *)
(* published row is final except for its yank flag, which only goes up.    *)
(***************************************************************************)
EXTENDS Naturals

CONSTANTS Coord, \* coordinates group:artifact:version:noarch
          Body,  \* uploaded byte strings, standing also for their SHA-256
          Names, \* [Body -> Coord or a descriptor flaw]
          None   \* the null value

VARIABLE catalog \* [Coord -> Entry]

Entry == [status : {"absent", "pending", "published"},
          sha : Body \cup {None}, yanked : {0, 1}]

NoEntry == [status |-> "absent", sha |-> None, yanked |-> 0]

Init == catalog = [c \in Coord |-> NoEntry]

Register(c, b) ==
  /\ catalog[c] = NoEntry
  /\ Names[b] = c
  /\ catalog' = [catalog EXCEPT ![c] = [status |-> "pending", sha |-> b, yanked |-> 0]]

Promote(c) ==
  /\ catalog[c].status = "pending"
  /\ catalog' = [catalog EXCEPT ![c].status = "published"]

Drop(c) ==
  /\ catalog[c].status = "pending"
  /\ catalog' = [catalog EXCEPT ![c] = NoEntry]

Yank(c) ==
  /\ catalog[c].status # "absent"
  /\ catalog' = [catalog EXCEPT ![c].yanked = 1]

Next == \E c \in Coord :
          \/ \E b \in Body : Register(c, b)
          \/ Promote(c)
          \/ Drop(c)
          \/ Yank(c)

Spec == Init /\ [][Next]_catalog
==============================================================================
