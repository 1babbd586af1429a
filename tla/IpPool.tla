-------------------------------- MODULE IpPool --------------------------------
(***************************************************************************)
(* How ip_pool of the ConfigMap ip-pool-config becomes a list of           *)
(* addresses: LoadIPPool of utils/ipam.go, which the reconciler runs in    *)
(* every AllocateIP, and parseIPPool of pkg/ipam, which runs once.  Both   *)
(* walk a range with the same nextIP, which wraps around at the last       *)
(* address; they differ in how they stop.                                  *)
(*                                                                         *)
(* A line is given by what strings.TrimSpace, strings.Split and            *)
(* net.ParseIP make of it.  Spelling is left out: pkg/ipam keeps a single  *)
(* address as it is written.                                               *)
(***************************************************************************)
EXTENDS Integers, Sequences

CONSTANTS
  Base,     \* values of a byte: 256
  V6,       \* addresses that have no four-byte form
  Texts,    \* contents of ip_pool
  Parsers,  \* who parses: "utils", "pkg"
  MaxLen    \* bound: entries of the list up to which it is followed

ByteValues == 0 .. Base - 1
V4 == [1 .. 4 -> ByteValues]
Addresses == V4 \cup V6
Lines == [kind : {"skip", "single", "range", "bad"}, from : Addresses, to : Addresses]

(* The nil slice, which prints as <nil>.                                   *)
Nil == <<>>

ASSUME BaseAssumption == Base \in Nat \ {0} /\ MaxLen \in Nat
ASSUME TextAssumption == Texts \subseteq Seq(Lines) /\ Parsers \subseteq {"utils", "pkg"}
ASSUME V6Assumption == V6 \cap (V4 \cup {Nil}) = {}

VARIABLES
  parser,   \* which of the two runs
  text,     \* what it parses
  line,     \* the line it is at
  walking,  \* it is in the loop of a range
  at,       \* the loop's address
  pool,     \* the addresses listed so far
  status    \* "parsing", "done" or "error"

poolVars == <<parser, text, line, walking, at, pool, status>>

(* Type invariant.                                                         *)
PoolTypeOK ==
  /\ parser \in Parsers
  /\ text \in Texts
  /\ line \in 1 .. Len(text) + 1
  /\ walking \in BOOLEAN
  /\ at \in Addresses \cup {Nil}
  /\ pool \in Seq(Addresses \cup {Nil})
  /\ status \in {"parsing", "done", "error"}
  /\ walking => line \in DOMAIN text /\ text[line].kind = "range" /\ status = "parsing"

Init ==
  /\ parser \in Parsers
  /\ text \in Texts
  /\ line = 1
  /\ walking = FALSE /\ at = Nil
  /\ pool = <<>>
  /\ status = "parsing"

-----------------------------------------------------------------------------
(* Addresses.                                                              *)

To4(ip) == IF ip \in V4 THEN ip ELSE Nil

(* Variant: the last difference decides.                                   *)
LastDifference(a, b, i) ==
  /\ i \in DOMAIN a \cap DOMAIN b /\ a[i] # b[i]
  /\ \A j \in DOMAIN a \cap DOMAIN b : j > i => a[j] = b[j]

FirstDifference(a, b, i) ==
  /\ i \in DOMAIN a \cap DOMAIN b /\ a[i] # b[i]
  /\ \A j \in DOMAIN a \cap DOMAIN b : j < i => a[j] = b[j]

(* bytesCompare(a, b) > 0.                                                 *)
BytesGreater(a, b) ==
  \/ \E i \in 1 .. 4 : FirstDifference(a, b, i) /\ a[i] > b[i]
  \/ (\A i \in DOMAIN a \cap DOMAIN b : a[i] = b[i]) /\ Len(a) > Len(b)

IpAfter(ip1, ip2) == BytesGreater(To4(ip1), To4(ip2))

(* Variant: the byte does not wrap.                                        *)
Unwrapped(v) == v + 1

Incremented(v) == IF v = Base - 1 THEN 0 ELSE v + 1

(* Variant: there is no carry.                                             *)
NoCarry(ip, j) == j = 4

(* Byte j is incremented when all bytes after it have wrapped.             *)
Carried(ip, j) == \A m \in 1 .. 4 : m > j => ip[m] = Base - 1

NextIP(ip) ==
  IF ip \in V4
  THEN [j \in 1 .. 4 |-> IF Carried(ip, j) THEN Incremented(ip[j]) ELSE ip[j]]
  ELSE Nil

-----------------------------------------------------------------------------
(* The loop over the lines.                                                *)

At(kind) ==
  /\ status = "parsing" /\ ~walking
  /\ line \in DOMAIN text /\ text[line].kind = kind
  /\ UNCHANGED <<parser, text>>

(* An empty line or a comment.                                             *)
SkipLine ==
  /\ At("skip")
  /\ line' = line + 1
  /\ UNCHANGED <<walking, at, pool, status>>

ListSingle ==
  /\ At("single")
  /\ pool' = Append(pool, text[line].from)
  /\ line' = line + 1
  /\ UNCHANGED <<walking, at, status>>

(* No address, or a range without two: nothing of the pool is returned.    *)
RefuseLine ==
  /\ At("bad")
  /\ pool' = <<>>
  /\ status' = "error"
  /\ UNCHANGED <<line, walking, at>>

StartRange ==
  /\ At("range")
  /\ walking' = TRUE
  /\ at' = text[line].from
  /\ UNCHANGED <<line, pool, status>>

(* parseIPRange stops after the end address, generateIPRange at it.        *)
RangeOver(p, ip, end) == IF p = "utils" THEN IpAfter(ip, end) ELSE ip = end

Walking == walking /\ UNCHANGED <<parser, text, status>>

WalkRange ==
  /\ Walking
  /\ ~RangeOver(parser, at, text[line].to)
  /\ Len(pool) < MaxLen
  /\ pool' = Append(pool, at)
  /\ at' = NextIP(at)
  /\ UNCHANGED <<line, walking>>

EndRange ==
  /\ Walking
  /\ RangeOver(parser, at, text[line].to)
  /\ pool' = IF parser = "pkg" THEN Append(pool, text[line].to) ELSE pool
  /\ walking' = FALSE /\ at' = Nil
  /\ line' = line + 1

Finish ==
  /\ status = "parsing" /\ line = Len(text) + 1
  /\ status' = "done"
  /\ UNCHANGED <<parser, text, line, walking, at, pool>>

Next ==
  \/ SkipLine \/ ListSingle \/ RefuseLine
  \/ StartRange \/ WalkRange \/ EndRange
  \/ Finish

(* Nothing stops the loop from the outside.                                *)
Spec == Init /\ [][Next]_poolVars /\ WF_poolVars(Next)

-----------------------------------------------------------------------------
(* What a line stands for, by the number an address is.                    *)

WithByte(high, low) == high * Base + low

Number(b1, b2, b3, b4) == WithByte(WithByte(WithByte(b1, b2), b3), b4)

Value(ip) == Number(ip[1], ip[2], ip[3], ip[4])

IsLast(ip) == \A j \in 1 .. 4 : ip[j] = Base - 1

(* Ranges whose loop never stops.  utils: from an address without a        *)
(* four-byte form, or up to the last one, whose successor is the first.    *)
(* pkg: when one of two different addresses has no four-byte form.         *)
EndlessRange(p, from, to) ==
  IF p = "utils"
  THEN from \in V6 \/ (to \in V4 /\ IsLast(to))
  ELSE from # to /\ (from \in V6 \/ to \in V6)

Endless(p, l) == l.kind = "range" /\ EndlessRange(p, l.from, l.to)

(* utils lists nothing for a range that ends before it starts, or in an    *)
(* address without a four-byte form; pkg goes all the way round.           *)
Between(from, to) ==
  IF from \in V4 /\ to \in V4
  THEN {a \in V4 : Value(from) <= Value(a) /\ Value(a) <= Value(to)}
  ELSE {}

RangeStandsFor(p, from, to) ==
  IF p = "utils" THEN Between(from, to)
  ELSE IF from = to THEN {from}
  ELSE IF Value(from) < Value(to) THEN Between(from, to)
  ELSE {a \in V4 : Value(from) <= Value(a) \/ Value(a) <= Value(to)}

StandsFor(p, l) ==
  CASE l.kind = "single" -> {l.from}
    [] l.kind = "range" -> RangeStandsFor(p, l.from, l.to)
    [] OTHER -> {}

Entries(list) == {list[k] : k \in DOMAIN list}

Passed(k) == text[k].kind # "bad" /\ ~Endless(parser, text[k])

(* The list a parser returns holds exactly the addresses its lines stand   *)
(* for, and no line that it could not get past; it refuses a text only for *)
(* a line it came to.                                                      *)
PoolIsLines ==
  /\ status = "done" =>
       /\ \A k \in DOMAIN text : Passed(k)
       /\ Entries(pool) = UNION {StandsFor(parser, text[k]) : k \in DOMAIN text}
  /\ status = "error" =>
       \E k \in DOMAIN text : text[k].kind = "bad" /\ \A j \in 1 .. k - 1 : Passed(j)

(* Addresses the loop of a range has still to pass, those round the end    *)
(* of the address space included.                                          *)
ToGo(p, ip, to) ==
  IF RangeOver(p, ip, to) THEN 0
  ELSE IF Value(ip) <= Value(to) THEN Value(to) + 1 - Value(ip)
  ELSE Value(to) + 1 + Number(Base, 0, 0, 0) - Value(ip)

(* Each pass of nextIP through the loop of a range that is none of the     *)
(* endless ones brings it nearer its end: it skips no carry, wraps past no *)
(* end and comes to no address twice, whatever the width of a byte.        *)
RangesShrink ==
  [][walking /\ walking' /\ ~Endless(parser, text[line]) =>
       LET to == text[line].to
       IN  0 <= ToGo(parser, at', to) /\ ToGo(parser, at', to) < ToGo(parser, at, to)]_poolVars

(* A text without an endless range is parsed to its end: no other text     *)
(* keeps AllocateIP from returning.                                        *)
ParsingEnds ==
  (\A k \in DOMAIN text : ~Endless(parser, text[k])) ~> status # "parsing"
=============================================================================
