------------------------------ MODULE MCIpPool ------------------------------
(***************************************************************************)
(* IpPool with bytes of two values: sixteen v4 addresses and one v6.       *)
(***************************************************************************)
EXTENDS IpPool

CONSTANT six

Range(a, b) == [kind |-> "range", from |-> a, to |-> b]
First == <<0, 0, 0, 0>>
Last == <<1, 1, 1, 1>>
Middle == <<0, 1, 1, 1>>
Other(kind) == [kind |-> kind, from |-> Middle, to |-> Middle]

(* What an administrator may mix: comments, mistakes, overlaps, ranges     *)
(* across a carry, up to the last address, turned round.                   *)
Mixed ==
  {Other("skip"), Other("single"), Other("bad"), Range(First, Middle), Range(Middle, Last),
   Range(Last, First), Range(<<1, 0, 0, 0>>, Middle), Range(six, six)}

AllRanges == {<<Range(a, b)>> : a, b \in Addresses}
ManyTexts == {<<>>} \cup AllRanges \cup (Mixed \X Mixed)
BothParsers == {"utils", "pkg"}
=============================================================================
