------------------------------- MODULE SemVer -------------------------------
(***************************************************************************)
(* Versions, their order, and version ranges (cookbook_semver.c).          *)
(*                                                                         *)
(* The text of a version is a record: nums, the numbers before the first   *)
(* other character (Junk where a digit is missing); pre, its pre-release   *)
(* identifiers; clean, whether nothing is left over and every part fits    *)
(* its buffer.  An identifier is a number, a word, or empty (two dots in a *)
(* row); a word stands for its rank in the order of strings.               *)
(***************************************************************************)
EXTENDS Integers, Sequences, SequencesExt

CONSTANTS IntBits,   \* bits of an int
          Junk       \* text where a number is expected

(* The first number that is too large for an int. *)
IntLimit == 2 ^ (IntBits - 1)

(* That a power of two is a positive number is a fact of arithmetic; it is   *)
(* here because no prover of TLAPS knows about powers.                       *)
ASSUME SemVerAssumption == IntBits \in Nat \ {0} /\ IntLimit \in Nat \ {0} /\ Junk \notin Nat

Num(n) == [kind |-> "num", val |-> n]
Word(r) == [kind |-> "word", val |-> r]
Empty == [kind |-> "empty", val |-> 0]

Malformed == [major |-> -1, minor |-> -1, patch |-> -1, pre |-> <<Empty>>]

(* Conversion of a long, and the difference of two ints, to an int. *)
ToInt(n) ==
  LET m == n % (2 * IntLimit) IN IF m < IntLimit THEN m ELSE m - 2 * IntLimit

Parse(text) ==
  IF Len(text.nums) = 3 /\ text.clean /\ \A i \in 1 .. 3 : text.nums[i] # Junk
  THEN [major |-> ToInt(text.nums[1]), minor |-> ToInt(text.nums[2]),
        patch |-> ToInt(text.nums[3]), pre |-> text.pre]
  ELSE Malformed

-----------------------------------------------------------------------------
(* An empty identifier has no character that is not a digit, and its value  *)
(* is 0.                                                                    *)
IsNumeric(id) == id.kind # "word"

(* Sign of the comparison of two identifiers. *)
CompareId(a, b) ==
  IF IsNumeric(a) # IsNumeric(b) THEN IF IsNumeric(a) THEN -1 ELSE 1
  ELSE IF a.val = b.val THEN 0 ELSE IF a.val < b.val THEN -1 ELSE 1

(* A trailing dot is skipped: an empty last identifier is not looked at. *)
Compared(pre) == IF pre # <<>> /\ Last(pre) = Empty THEN Front(pre) ELSE pre

(* Positions at which two lists differ, of those that both have. *)
Differences(a, b) ==
  {i \in 1 .. Len(a) : i <= Len(b) /\ CompareId(a[i], b[i]) # 0}

(* Mutant: a shorter list of identifiers is the higher one. *)
CompareListsShorterHigher(a, b) ==
  LET d == Differences(a, b) IN
  IF d # {} THEN CompareId(a[Min(d)], b[Min(d)])
  ELSE IF Len(a) > Len(b) THEN -1 ELSE IF Len(a) < Len(b) THEN 1 ELSE 0

(* The loop over both lists: the first difference decides, after that the   *)
(* longer list is the higher one.                                           *)
CompareLists(a, b) ==
  LET d == Differences(a, b) IN
  IF d # {} THEN CompareId(a[Min(d)], b[Min(d)])
  ELSE IF Len(a) > Len(b) THEN 1 ELSE IF Len(a) < Len(b) THEN -1 ELSE 0

(* A version without pre-release identifiers is the highest. *)
ComparePre(x, y) ==
  IF x = <<>> \/ y = <<>>
  THEN IF x = y THEN 0 ELSE IF x = <<>> THEN 1 ELSE -1
  ELSE CompareLists(Compared(x), Compared(y))

(* The difference of two ints wraps around. *)
Compare(v, w) ==
  CASE v.major # w.major -> ToInt(v.major - w.major)
    [] v.major = w.major /\ v.minor # w.minor -> ToInt(v.minor - w.minor)
    [] v.major = w.major /\ v.minor = w.minor /\ v.patch # w.patch -> ToInt(v.patch - w.patch)
    [] OTHER -> ComparePre(v.pre, w.pre)

-----------------------------------------------------------------------------
(* Ranges.  The text of a range is [form, from, to, open, close]: form is   *)
(* its first character or "star" when a * follows a partial version.        *)
BadRange == [type |-> "bad", lower |-> Malformed, upper |-> Malformed,
             lowerIn |-> FALSE, upperIn |-> FALSE]

Range1(type, lower) == [BadRange EXCEPT !.type = IF lower = Malformed THEN "bad" ELSE type,
                                        !.lower = lower]

(* The i-th number before a star, -1 for "any": nothing counts before a      *)
(* leading star, and strtol of a text without digits is 0.                   *)
Partial(text, i) ==
  IF text.form = "*" \/ i > Len(text.from.nums) THEN -1
  ELSE IF text.from.nums[i] = Junk THEN 0 ELSE ToInt(text.from.nums[i])

RangeParse(text) ==
  CASE text.form = "^" -> Range1("caret", Parse(text.from))
    [] text.form = "~" -> Range1("tilde", Parse(text.from))
    [] text.form \in {"*", "star"} ->
         [BadRange EXCEPT !.type = "wildcard",
            !.lower = [major |-> Partial(text, 1),
                       minor |-> Partial(text, 2), patch |-> 0, pre |-> <<>>]]
    [] text.form = "bounded" ->
         LET lower == Parse(text.from)
             upper == Parse(text.to)
         IN  IF Malformed \in {lower, upper} THEN BadRange
             ELSE [type |-> "bounded", lower |-> lower, upper |-> upper,
                   lowerIn |-> text.open = "[", upperIn |-> text.close = "]"]
    [] text.form = "exact" -> Range1("exact", Parse(text.from))

Triple(v) == <<v.major, v.minor, v.patch>>

IsPre(v) == v.pre # <<>>

(* Mutant: the minor number is not looked at below 1.0.0. *)
CaretSameMajor(l, v) == v.major = l.major

(* What ^ keeps fixed: the leftmost number that is not 0. *)
CaretSame(l, v) ==
  IF l.major # 0 THEN v.major = l.major
  ELSE IF l.minor # 0 THEN v.major = 0 /\ v.minor = l.minor
  ELSE v.major = 0 /\ v.minor = 0 /\ v.patch = l.patch

TildeSame(l, v) == v.major = l.major /\ v.minor = l.minor

FromLower(l, v) == Compare(v, l) >= 0 /\ (IsPre(v) => Triple(v) = Triple(l))

Within(r, v) ==
  LET lo == Compare(v, r.lower)
      hi == Compare(v, r.upper)
  IN  /\ IF r.lowerIn THEN lo >= 0 ELSE lo > 0
      /\ IF r.upperIn THEN hi <= 0 ELSE hi < 0

Satisfies(r, v) ==
  CASE r.type = "exact"    -> Compare(r.lower, v) = 0
    [] r.type = "caret"    -> FromLower(r.lower, v) /\ CaretSame(r.lower, v)
    [] r.type = "tilde"    -> FromLower(r.lower, v) /\ TildeSame(r.lower, v)
    [] r.type = "wildcard" -> /\ ~IsPre(v)
                              /\ \/ r.lower.major = -1
                                 \/ /\ v.major = r.lower.major
                                    /\ r.lower.minor \in {-1, v.minor}
    [] r.type = "bounded"  -> Within(r, v)
    [] OTHER               -> FALSE
==============================================================================
