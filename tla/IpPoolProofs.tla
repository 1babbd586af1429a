----------------------------- MODULE IpPoolProofs -----------------------------
(***************************************************************************)
(* Proof that both parsers list exactly the addresses their lines stand    *)
(* for, whatever a byte holds, whatever the text, and that the loop of a   *)
(* range gets on.                                                          *)
(***************************************************************************)
EXTENDS IpPool, TLAPS

-----------------------------------------------------------------------------
(* Addresses as numbers.                                                   *)

LEMMA ByteOrder ==
  ASSUME NEW h \in Nat, NEW k \in Nat, NEW x \in ByteValues, NEW y \in ByteValues
  PROVE  /\ WithByte(h, x) \in Nat
         /\ WithByte(h, x) < WithByte(k, y) <=> h < k \/ (h = k /\ x < y)
         /\ WithByte(h, x) = WithByte(k, y) <=> h = k /\ x = y
<1> USE BaseAssumption DEF ByteValues, WithByte
<1>1. h * Base \in Nat /\ k * Base \in Nat
  OBVIOUS
<1>2. ASSUME NEW m \in Nat, NEW n \in Nat, m < n
      PROVE  m * Base + Base <= n * Base
  <2>1. PICK d \in Nat : n = m + 1 + d
    <3>1. n - m - 1 \in Nat /\ n = m + 1 + (n - m - 1)
      BY <1>2
    <3> QED
      BY <3>1
  <2>2. n * Base = m * Base + Base + d * Base
    BY <2>1
  <2> QED
    BY <2>2
<1>3. CASE h < k
  BY <1>1, <1>2, <1>3
<1>4. CASE k < h
  BY <1>1, <1>2, <1>4
<1>5. CASE h = k
  BY <1>1, <1>5
<1> QED
  BY <1>3, <1>4, <1>5

LEMMA BytesOf ==
  ASSUME NEW a \in V4
  PROVE  /\ \A i \in 1 .. 4 : a[i] \in ByteValues
         /\ \A v \in ByteValues : v \in Nat
  BY BaseAssumption DEF V4, ByteValues

(* The order of numbers is the lexicographic order of their bytes.         *)
LEMMA ValueOrder ==
  ASSUME NEW a \in V4, NEW b \in V4
  PROVE  /\ Value(a) \in Nat
         /\ Value(a) < Value(b) <=>
              \/ a[1] < b[1]
              \/ a[1] = b[1] /\ a[2] < b[2]
              \/ a[1] = b[1] /\ a[2] = b[2] /\ a[3] < b[3]
              \/ a[1] = b[1] /\ a[2] = b[2] /\ a[3] = b[3] /\ a[4] < b[4]
         /\ Value(a) = Value(b) => a = b
<1>1. PICK a1 \in ByteValues, a2 \in ByteValues, a3 \in ByteValues, a4 \in ByteValues :
        a1 = a[1] /\ a2 = a[2] /\ a3 = a[3] /\ a4 = a[4]
  BY BytesOf
<1>2. PICK b1 \in ByteValues, b2 \in ByteValues, b3 \in ByteValues, b4 \in ByteValues :
        b1 = b[1] /\ b2 = b[2] /\ b3 = b[3] /\ b4 = b[4]
  BY BytesOf
<1>3. a1 \in Nat /\ b1 \in Nat
  BY BaseAssumption DEF ByteValues
<1>4. PICK x \in Nat, y \in Nat :
        /\ x = WithByte(a1, a2) /\ y = WithByte(b1, b2)
        /\ x < y <=> a1 < b1 \/ (a1 = b1 /\ a2 < b2)
        /\ x = y <=> a1 = b1 /\ a2 = b2
  <2>1. /\ WithByte(a1, a2) \in Nat /\ WithByte(b1, b2) \in Nat
        /\ WithByte(a1, a2) < WithByte(b1, b2) <=> a1 < b1 \/ (a1 = b1 /\ a2 < b2)
        /\ WithByte(a1, a2) = WithByte(b1, b2) <=> a1 = b1 /\ a2 = b2
    BY <1>3, ByteOrder
  <2> QED
    BY <2>1
<1>5. PICK v \in Nat, w \in Nat :
        /\ v = WithByte(x, a3) /\ w = WithByte(y, b3)
        /\ v < w <=> x < y \/ (x = y /\ a3 < b3)
        /\ v = w <=> x = y /\ a3 = b3
  <2>1. /\ WithByte(x, a3) \in Nat /\ WithByte(y, b3) \in Nat
        /\ WithByte(x, a3) < WithByte(y, b3) <=> x < y \/ (x = y /\ a3 < b3)
        /\ WithByte(x, a3) = WithByte(y, b3) <=> x = y /\ a3 = b3
    BY ByteOrder
  <2> QED
    BY <2>1
<1>6. /\ WithByte(v, a4) \in Nat /\ WithByte(w, b4) \in Nat
      /\ WithByte(v, a4) < WithByte(w, b4) <=> v < w \/ (v = w /\ a4 < b4)
      /\ WithByte(v, a4) = WithByte(w, b4) <=> v = w /\ a4 = b4
  BY ByteOrder
<1>7. Value(a) = WithByte(v, a4) /\ Value(b) = WithByte(w, b4)
  BY <1>1, <1>2, <1>4, <1>5 DEF Value, Number
<1>8. (\A i \in 1 .. 4 : a[i] = b[i]) => a = b
  BY DEF V4
<1> QED
  BY <1>1, <1>2, <1>4, <1>5, <1>6, <1>7, <1>8

(* ipAfter compares the numbers.                                           *)
LEMMA AfterIsGreater ==
  ASSUME NEW a \in V4, NEW b \in V4
  PROVE  IpAfter(a, b) <=> Value(a) > Value(b)
<1>1. IpAfter(a, b) <=> \E i \in 1 .. 4 : FirstDifference(a, b, i) /\ a[i] > b[i]
  BY DEF IpAfter, To4, BytesGreater, V4
<1>2. \A i \in 1 .. 4 : FirstDifference(a, b, i) <=>
        a[i] # b[i] /\ \A j \in 1 .. 4 : j < i => a[j] = b[j]
  BY DEF FirstDifference, V4
<1>3. Value(a) \in Nat /\ Value(b) \in Nat /\ \A i \in 1 .. 4 : a[i] \in Nat /\ b[i] \in Nat
  BY ValueOrder, BytesOf
<1>4. IpAfter(a, b) <=>
        \/ b[1] < a[1]
        \/ a[1] = b[1] /\ b[2] < a[2]
        \/ a[1] = b[1] /\ a[2] = b[2] /\ b[3] < a[3]
        \/ a[1] = b[1] /\ a[2] = b[2] /\ a[3] = b[3] /\ b[4] < a[4]
  BY <1>1, <1>2, <1>3
<1> QED
  BY <1>3, <1>4, ValueOrder

(* nextIP is the successor, but for the last address, where it wraps.      *)
LEMMA NextIsSuccessor ==
  ASSUME NEW a \in V4
  PROVE  /\ NextIP(a) \in V4
         /\ Value(NextIP(a)) = IF IsLast(a) THEN 0 ELSE Value(a) + 1
<1> DEFINE n == NextIP(a)
<1>1. n = [j \in 1 .. 4 |-> IF Carried(a, j) THEN Incremented(a[j]) ELSE a[j]]
  BY DEF NextIP
<1>2. \A i \in 1 .. 4 : a[i] \in 0 .. Base - 1
  BY BytesOf DEF ByteValues
<1>3. n \in V4
  BY <1>1, <1>2, BaseAssumption DEF V4, ByteValues, Incremented
<1>4. /\ n[4] = Incremented(a[4])
      /\ n[3] = IF a[4] = Base - 1 THEN Incremented(a[3]) ELSE a[3]
      /\ n[2] = IF a[4] = Base - 1 /\ a[3] = Base - 1 THEN Incremented(a[2]) ELSE a[2]
      /\ n[1] = IF a[4] = Base - 1 /\ a[3] = Base - 1 /\ a[2] = Base - 1
                THEN Incremented(a[1]) ELSE a[1]
  BY <1>1 DEF Carried
<1> HIDE DEF n
<1>5. ASSUME NEW h \in Nat, NEW x \in ByteValues
      PROVE  /\ WithByte(h, x) \in Nat
             /\ x # Base - 1 => WithByte(h, Incremented(x)) = WithByte(h, x) + 1
             /\ x = Base - 1 => WithByte(h + 1, Incremented(x)) = WithByte(h, x) + 1
  <2>1. h * Base \in Nat /\ (h + 1) * Base = h * Base + Base
    BY BaseAssumption
  <2> QED
    BY <2>1, BaseAssumption DEF WithByte, Incremented, ByteValues
<1>6. PICK a1 \in ByteValues, a2 \in ByteValues, a3 \in ByteValues, a4 \in ByteValues :
        a1 = a[1] /\ a2 = a[2] /\ a3 = a[3] /\ a4 = a[4]
  BY BytesOf
<1>7. a1 \in Nat
  BY BaseAssumption DEF ByteValues
<1>8. PICK x \in Nat : x = WithByte(a1, a2)
  BY <1>5, <1>7
<1>9. PICK y \in Nat : y = WithByte(x, a3)
  BY <1>5
<1>10. Value(a) = WithByte(y, a4)
  BY <1>6, <1>8, <1>9 DEF Value, Number
<1>16. IsLast(a) => a1 = Base - 1 /\ a2 = Base - 1 /\ a3 = Base - 1 /\ a4 = Base - 1
  BY <1>6 DEF IsLast
<1>11. CASE a4 # Base - 1
  <2>1. Value(n) = WithByte(y, Incremented(a4))
    BY <1>4, <1>6, <1>8, <1>9, <1>11 DEF Value, Number
  <2>2. ~IsLast(a)
    BY <1>16, <1>11
  <2> QED
    BY <1>3, <1>5, <1>10, <1>11, <2>1, <2>2 DEF n
<1>12. CASE a4 = Base - 1 /\ a3 # Base - 1
  <2>1. Value(n) = WithByte(WithByte(x, Incremented(a3)), Incremented(a4))
    BY <1>4, <1>6, <1>8, <1>12 DEF Value, Number
  <2>2. WithByte(x, Incremented(a3)) = y + 1
    BY <1>5, <1>9, <1>12
  <2>3. WithByte(y + 1, Incremented(a4)) = WithByte(y, a4) + 1
    BY <1>5, <1>12
  <2>6. ~IsLast(a)
    BY <1>16, <1>12
  <2> QED
    BY <1>3, <1>10, <2>1, <2>2, <2>3, <2>6 DEF n
<1>13. CASE a4 = Base - 1 /\ a3 = Base - 1 /\ a2 # Base - 1
  <2>1. Value(n) = WithByte(WithByte(WithByte(a1, Incremented(a2)), Incremented(a3)),
                            Incremented(a4))
    BY <1>4, <1>6, <1>13 DEF Value, Number
  <2>2. WithByte(a1, Incremented(a2)) = x + 1
    BY <1>5, <1>7, <1>8, <1>13
  <2>3. WithByte(x + 1, Incremented(a3)) = y + 1
    BY <1>5, <1>9, <1>13
  <2>4. WithByte(y + 1, Incremented(a4)) = WithByte(y, a4) + 1
    BY <1>5, <1>13
  <2>6. ~IsLast(a)
    BY <1>16, <1>13
  <2> QED
    BY <1>3, <1>10, <2>1, <2>2, <2>3, <2>4, <2>6 DEF n
<1>14. CASE a4 = Base - 1 /\ a3 = Base - 1 /\ a2 = Base - 1 /\ a1 # Base - 1
  <2>1. Value(n) = WithByte(WithByte(WithByte(Incremented(a1), Incremented(a2)),
                                     Incremented(a3)), Incremented(a4))
    BY <1>4, <1>6, <1>14 DEF Value, Number
  <2>2. Incremented(a1) = a1 + 1
    BY <1>14 DEF Incremented
  <2>3. WithByte(a1 + 1, Incremented(a2)) = x + 1
    BY <1>5, <1>7, <1>8, <1>14
  <2>4. WithByte(x + 1, Incremented(a3)) = y + 1
    BY <1>5, <1>9, <1>14
  <2>5. WithByte(y + 1, Incremented(a4)) = WithByte(y, a4) + 1
    BY <1>5, <1>14
  <2>6. ~IsLast(a)
    BY <1>16, <1>14
  <2> QED
    BY <1>3, <1>10, <2>1, <2>2, <2>3, <2>4, <2>5, <2>6 DEF n
<1>15. CASE a1 = Base - 1 /\ a2 = Base - 1 /\ a3 = Base - 1 /\ a4 = Base - 1
  <2>1. a[1] = Base - 1 /\ a[2] = Base - 1 /\ a[3] = Base - 1 /\ a[4] = Base - 1
    BY <1>6, <1>15
  <2>2. n[1] = 0 /\ n[2] = 0 /\ n[3] = 0 /\ n[4] = 0
    BY <1>4, <2>1 DEF Incremented
  <2>3. Value(n) = 0
    BY <2>2, BaseAssumption DEF Value, Number, WithByte
  <2> QED
    BY <1>3, <2>1, <2>3 DEF IsLast, n
<1> QED
  BY <1>11, <1>12, <1>13, <1>14, <1>15, Zenon

(* No address is above the last one.                                       *)
LEMMA LastIsGreatest ==
  ASSUME NEW a \in V4, NEW b \in V4, IsLast(b)
  PROVE  Value(a) <= Value(b)
<1>1. /\ a[1] <= b[1] /\ a[2] <= b[2] /\ a[3] <= b[3] /\ a[4] <= b[4]
      /\ a[1] \in Nat /\ a[2] \in Nat /\ a[3] \in Nat /\ a[4] \in Nat
      /\ b[1] \in Nat /\ b[2] \in Nat /\ b[3] \in Nat /\ b[4] \in Nat
  BY BytesOf, BaseAssumption DEF IsLast, ByteValues
<1>2. ~(Value(b) < Value(a)) /\ Value(a) \in Nat /\ Value(b) \in Nat
  BY <1>1, ValueOrder
<1> QED
  BY <1>2

-----------------------------------------------------------------------------
(* The loop of a range.                                                    *)

(* The addresses listed when the loop has come from from to ip.            *)
Listed(from, ip) ==
  IF ip = from THEN {}
  ELSE IF Value(from) < Value(ip) THEN {a \in V4 : Value(from) <= Value(a) /\ Value(a) < Value(ip)}
  ELSE {a \in V4 : Value(from) <= Value(a) \/ Value(a) < Value(ip)}

(* Where the loop of a range that ends may be.                             *)
OnTheWay(p, from, to, ip) ==
  IF p = "utils"
  THEN /\ from \in V4 /\ ip \in V4
       /\ \/ ip = from
          \/ to \in V4 /\ Value(from) <= Value(ip) /\ Value(ip) <= Value(to) + 1
  ELSE \/ from = to /\ ip = from
       \/ /\ from \in V4 /\ to \in V4 /\ ip \in V4 /\ from # to
          /\ IF Value(from) < Value(to)
             THEN Value(from) <= Value(ip) /\ Value(ip) <= Value(to)
             ELSE Value(from) <= Value(ip) \/ Value(ip) <= Value(to)

(* Where the loop of an endless range may be.                              *)
Lost(p, from, to, ip) ==
  IF from \in V6 THEN ip \in {from, Nil} ELSE ip \in V4

LEMMA LostForever ==
  ASSUME NEW p \in {"utils", "pkg"}, NEW from \in Addresses, NEW to \in Addresses, NEW ip,
         EndlessRange(p, from, to), Lost(p, from, to, ip)
  PROVE  ~RangeOver(p, ip, to) /\ Lost(p, from, to, NextIP(ip))
<1>1. CASE from \in V6
  <2>1. ip \notin V4
    BY <1>1, V6Assumption DEF Lost, V4, Nil
  <2>2. ~IpAfter(ip, to)
    <3>1. To4(ip) = << >>
      BY <2>1 DEF To4, Nil
    <3>2. To4(to) = << >> \/ To4(to) \in V4
      BY DEF To4, Nil
    <3> QED
      BY <3>1, <3>2 DEF IpAfter, BytesGreater, FirstDifference, V4
  <2>3. p = "pkg" => ip # to
    BY <1>1, V6Assumption DEF EndlessRange, Lost, Addresses, V4, Nil
  <2> QED
    BY <1>1, <2>1, <2>2, <2>3 DEF RangeOver, Lost, NextIP
<1>2. CASE from \notin V6
  <2>1. ip \in V4 /\ NextIP(ip) \in V4
    BY <1>2, NextIsSuccessor DEF Lost
  <2>2. CASE p = "utils"
    <3>1. to \in V4 /\ IsLast(to)
      BY <1>2, <2>2 DEF EndlessRange
    <3>2. Value(ip) <= Value(to) /\ Value(ip) \in Nat /\ Value(to) \in Nat
      BY <2>1, <3>1, LastIsGreatest, ValueOrder
    <3>3. ~IpAfter(ip, to)
      BY <2>1, <3>1, <3>2, AfterIsGreater
    <3> QED
      BY <1>2, <2>1, <2>2, <3>3 DEF RangeOver, Lost
  <2>3. CASE p = "pkg"
    <3>1. to \in V6
      BY <1>2, <2>3 DEF EndlessRange
    <3> QED
      BY <1>2, <2>1, <2>3, <3>1, V6Assumption DEF RangeOver, Lost
  <2> QED
    BY <2>2, <2>3
<1> QED
  BY <1>1, <1>2

LEMMA FirstOnTheWay ==
  ASSUME NEW p \in {"utils", "pkg"}, NEW from \in Addresses, NEW to \in Addresses
  PROVE  /\ EndlessRange(p, from, to) => Lost(p, from, to, from)
         /\ ~EndlessRange(p, from, to) => OnTheWay(p, from, to, from)
         /\ Listed(from, from) = {}
<1>1. /\ from \in V4 => Value(from) \in Nat
      /\ to \in V4 => Value(to) \in Nat
  BY ValueOrder
<1>2. ASSUME ~EndlessRange(p, from, to)
      PROVE  OnTheWay(p, from, to, from)
  <2>1. CASE p = "utils"
    BY <1>2, <2>1 DEF EndlessRange, OnTheWay, Addresses
  <2>2. CASE p # "utils" /\ from = to
    BY <2>2 DEF OnTheWay
  <2>3. CASE p # "utils" /\ from # to
    <3>1. from \in V4 /\ to \in V4
      BY <1>2, <2>3 DEF EndlessRange, Addresses
    <3> QED
      BY <1>1, <2>3, <3>1 DEF OnTheWay
  <2> QED
    BY <2>1, <2>2, <2>3
<1> QED
  BY <1>2 DEF EndlessRange, Lost, Listed, Addresses

LEMMA OnlyV4Goes ==
  ASSUME NEW p \in {"utils", "pkg"}, NEW from \in Addresses, NEW to \in Addresses, NEW ip,
         OnTheWay(p, from, to, ip), ~RangeOver(p, ip, to)
  PROVE  from \in V4 /\ ip \in V4 /\ to \in V4
<1>1. CASE p = "utils"
  <2>1. from \in V4 /\ ip \in V4
    BY <1>1 DEF OnTheWay
  <2>2. CASE to \in V6
    <3>1. To4(ip) = ip /\ To4(to) = << >> /\ Len(ip) = 4
      BY <2>1, <2>2, V6Assumption DEF To4, Nil, V4
    <3>2. IpAfter(ip, to)
      BY <3>1 DEF IpAfter, BytesGreater
    <3> QED
      BY <1>1, <3>2 DEF RangeOver
  <2> QED
    BY <2>1, <2>2 DEF Addresses
<1>2. CASE p # "utils"
  BY <1>2 DEF OnTheWay, RangeOver
<1> QED
  BY <1>1, <1>2

LEMMA StepOnTheWay ==
  ASSUME NEW p \in {"utils", "pkg"}, NEW from \in Addresses, NEW to \in Addresses, NEW ip,
         ~EndlessRange(p, from, to), OnTheWay(p, from, to, ip), ~RangeOver(p, ip, to)
  PROVE  /\ OnTheWay(p, from, to, NextIP(ip))
         /\ Listed(from, NextIP(ip)) = Listed(from, ip) \cup {ip}
<1>1. from \in V4 /\ ip \in V4 /\ to \in V4
  BY OnlyV4Goes
<1>2. /\ Value(from) \in Nat /\ Value(ip) \in Nat /\ Value(to) \in Nat
      /\ \A a \in V4 : Value(a) \in Nat
      /\ \A a \in V4 : Value(a) = Value(ip) => a = ip
      /\ \A a \in V4 : Value(a) = Value(from) => a = from
      /\ \A a \in V4 : Value(a) = Value(to) => a = to
  BY <1>1, ValueOrder
<1> DEFINE next == NextIP(ip)
<1>3. next \in V4 /\ Value(next) = IF IsLast(ip) THEN 0 ELSE Value(ip) + 1
  BY <1>1, NextIsSuccessor
<1>4. IsLast(ip) => \A a \in V4 : Value(a) <= Value(ip)
  BY <1>1, LastIsGreatest
<1> HIDE DEF next
<1>5. ASSUME Value(from) <= Value(ip)
      PROVE  Listed(from, ip) = {a \in V4 : Value(from) <= Value(a) /\ Value(a) < Value(ip)}
  <2>1. CASE ip = from
    BY <1>2, <2>1 DEF Listed
  <2>2. CASE ip # from
    <3>1. Value(from) < Value(ip)
      BY <1>1, <1>2, <1>5, <2>2
    <3> QED
      BY <2>2, <3>1 DEF Listed
  <2> QED
    BY <2>1, <2>2
<1>8. CASE p = "utils"
  <2>1. ~(Value(ip) > Value(to))
    BY <1>1, <1>8, AfterIsGreater DEF RangeOver
  <2>2. ~IsLast(ip)
    BY <1>1, <1>2, <1>4, <1>8, <2>1 DEF EndlessRange
  <2>3. Value(from) <= Value(ip)
    BY <1>2, <1>8 DEF OnTheWay
  <2>4. Value(next) = Value(ip) + 1
    BY <1>3, <2>2
  <2>5. OnTheWay(p, from, to, next)
    BY <1>1, <1>2, <1>3, <1>8, <2>1, <2>3, <2>4 DEF OnTheWay
  <2>6. Listed(from, next) = {a \in V4 : Value(from) <= Value(a) /\ Value(a) < Value(next)}
    BY <1>2, <2>3, <2>4 DEF Listed
  <2>7. Listed(from, ip) = {a \in V4 : Value(from) <= Value(a) /\ Value(a) < Value(ip)}
    BY <1>5, <2>3
  <2>8. Listed(from, next) = Listed(from, ip) \cup {ip}
    BY <1>1, <1>2, <2>3, <2>4, <2>6, <2>7
  <2> QED
    BY <2>5, <2>8 DEF next
<1>6. CASE p # "utils" /\ Value(from) < Value(to)
  <2>1. Value(from) <= Value(ip) /\ Value(ip) < Value(to)
    BY <1>1, <1>2, <1>6 DEF OnTheWay, RangeOver
  <2>2. ~IsLast(ip) /\ Value(next) = Value(ip) + 1
    BY <1>1, <1>2, <1>3, <1>4, <2>1
  <2>3. OnTheWay(p, from, to, next)
    BY <1>1, <1>2, <1>3, <1>6, <2>1, <2>2 DEF OnTheWay
  <2>4. Listed(from, next) = {a \in V4 : Value(from) <= Value(a) /\ Value(a) < Value(next)}
    BY <1>2, <2>1, <2>2 DEF Listed
  <2>5. Listed(from, ip) = {a \in V4 : Value(from) <= Value(a) /\ Value(a) < Value(ip)}
    BY <1>5, <2>1
  <2>6. Listed(from, next) = Listed(from, ip) \cup {ip}
    BY <1>1, <1>2, <2>1, <2>2, <2>4, <2>5
  <2> QED
    BY <2>3, <2>6 DEF next
<1>7. CASE p # "utils" /\ ~(Value(from) < Value(to))
  <2>1. from # to /\ Value(to) < Value(from)
    BY <1>1, <1>2, <1>7 DEF OnTheWay, RangeOver
  <2>2. Value(from) <= Value(ip) \/ Value(ip) < Value(to)
    BY <1>1, <1>2, <1>7 DEF OnTheWay, RangeOver
  <2>3. OnTheWay(p, from, to, next)
    BY <1>1, <1>2, <1>3, <1>7, <2>1, <2>2 DEF OnTheWay
  <2>4. next # from
    BY <1>2, <1>3, <2>1, <2>2
  <2>5. CASE Value(from) <= Value(ip) /\ ~IsLast(ip)
    <3>1. Listed(from, next) = {a \in V4 : Value(from) <= Value(a) /\ Value(a) < Value(next)}
      BY <1>2, <1>3, <2>4, <2>5 DEF Listed
    <3>2. Listed(from, ip) = {a \in V4 : Value(from) <= Value(a) /\ Value(a) < Value(ip)}
      BY <1>5, <2>5
    <3> QED
      BY <1>1, <1>2, <1>3, <2>3, <2>5, <3>1, <3>2 DEF next
  <2>6. CASE Value(from) <= Value(ip) /\ IsLast(ip)
    <3>1. Listed(from, next) = {a \in V4 : Value(from) <= Value(a)}
      BY <1>2, <1>3, <2>1, <2>4, <2>6 DEF Listed
    <3>2. Listed(from, ip) = {a \in V4 : Value(from) <= Value(a) /\ Value(a) < Value(ip)}
      BY <1>5, <2>6
    <3> QED
      BY <1>1, <1>2, <1>4, <2>3, <2>6, <3>1, <3>2 DEF next
  <2>7. CASE Value(ip) < Value(to)
    <3>1. ~IsLast(ip) /\ Value(next) = Value(ip) + 1 /\ Value(next) < Value(from)
      BY <1>1, <1>2, <1>3, <1>4, <2>1, <2>7
    <3>2. Listed(from, next) = {a \in V4 : Value(from) <= Value(a) \/ Value(a) < Value(next)}
      BY <1>2, <2>4, <3>1 DEF Listed
    <3>3. Listed(from, ip) = {a \in V4 : Value(from) <= Value(a) \/ Value(a) < Value(ip)}
      BY <1>2, <2>1, <2>7 DEF Listed
    <3> QED
      BY <1>1, <1>2, <2>3, <3>1, <3>2, <3>3 DEF next
  <2> QED
    BY <2>2, <2>5, <2>6, <2>7
<1> QED
  BY <1>6, <1>7, <1>8

LEMMA ArriveOnTheWay ==
  ASSUME NEW p \in {"utils", "pkg"}, NEW from \in Addresses, NEW to \in Addresses, NEW ip,
         OnTheWay(p, from, to, ip), RangeOver(p, ip, to)
  PROVE  RangeStandsFor(p, from, to) =
           Listed(from, ip) \cup (IF p = "pkg" THEN {to} ELSE {})
<1>1. CASE p = "utils" /\ to \in V4
  <2>1. from \in V4 /\ ip \in V4
    BY <1>1 DEF OnTheWay
  <2>2. /\ Value(from) \in Nat /\ Value(ip) \in Nat /\ Value(to) \in Nat
        /\ \A a \in V4 : Value(a) \in Nat
    BY <1>1, <2>1, ValueOrder
  <2>3. Value(ip) > Value(to)
    BY <1>1, <2>1, AfterIsGreater DEF RangeOver
  <2>4. RangeStandsFor(p, from, to) =
          {a \in V4 : Value(from) <= Value(a) /\ Value(a) <= Value(to)}
    BY <1>1, <2>1 DEF RangeStandsFor, Between
  <2>5. CASE ip = from
    BY <1>1, <2>2, <2>3, <2>4, <2>5 DEF Listed
  <2>6. CASE ip # from
    <3>1. Value(from) <= Value(ip) /\ Value(ip) = Value(to) + 1
      BY <1>1, <2>2, <2>3, <2>6 DEF OnTheWay
    <3>2. Value(from) # Value(ip)
      BY <2>1, <2>6, ValueOrder
    <3>3. Listed(from, ip) = {a \in V4 : Value(from) <= Value(a) /\ Value(a) < Value(ip)}
      BY <2>2, <2>6, <3>1, <3>2 DEF Listed
    <3> QED
      BY <1>1, <2>2, <2>4, <3>1, <3>3
  <2> QED
    BY <2>5, <2>6
<1>2. CASE p = "utils" /\ to \notin V4
  <2>1. ip = from
    BY <1>2 DEF OnTheWay
  <2> QED
    BY <1>2, <2>1 DEF RangeStandsFor, Between, Listed
<1>3. CASE p = "pkg" /\ from = to
  BY <1>3 DEF OnTheWay, RangeOver, RangeStandsFor, Listed
<1>4. CASE p = "pkg" /\ from # to
  <2>1. from \in V4 /\ to \in V4 /\ ip = to
    BY <1>4 DEF OnTheWay, RangeOver
  <2>2. /\ Value(from) \in Nat /\ Value(to) \in Nat
        /\ \A a \in V4 : Value(a) \in Nat
        /\ \A a \in V4 : Value(a) = Value(to) => a = to
    BY <2>1, ValueOrder
  <2> QED
    BY <1>4, <2>1, <2>2 DEF RangeStandsFor, Between, Listed
<1> QED
  BY <1>1, <1>2, <1>3, <1>4

-----------------------------------------------------------------------------
(* The invariant.                                                          *)

(* What the lines before line k stand for.                                 *)
Before(k) == UNION {StandsFor(parser, text[j]) : j \in 1 .. k - 1}

PassedBefore(k) == \A j \in 1 .. k - 1 : Passed(j)

WalkOK ==
  LET l == text[line]
  IN  IF Endless(parser, l)
      THEN Lost(parser, l.from, l.to, at)
      ELSE /\ OnTheWay(parser, l.from, l.to, at)
           /\ Entries(pool) = Before(line) \cup Listed(l.from, at)

PoolInv ==
  /\ PoolTypeOK
  /\ PassedBefore(line)
  /\ status = "parsing" /\ ~walking => Entries(pool) = Before(line)
  /\ status = "parsing" /\ walking => WalkOK
  /\ status = "done" => line = Len(text) + 1 /\ Entries(pool) = Before(line)
  /\ status = "error" => line \in DOMAIN text /\ text[line].kind = "bad"

LEMMA EntriesAppend ==
  ASSUME NEW S, NEW list \in Seq(S), NEW e \in S
  PROVE  Append(list, e) \in Seq(S) /\ Entries(Append(list, e)) = Entries(list) \cup {e}
<1>1. /\ Append(list, e) \in Seq(S)
      /\ DOMAIN Append(list, e) = 1 .. Len(list) + 1
      /\ \A k \in 1 .. Len(list) : Append(list, e)[k] = list[k]
      /\ Append(list, e)[Len(list) + 1] = e
      /\ DOMAIN list = 1 .. Len(list) /\ Len(list) \in Nat
  OBVIOUS
<1> QED
  BY <1>1 DEF Entries

LEMMA BeforeNext ==
  ASSUME NEW k \in Nat \ {0}
  PROVE  /\ Before(k + 1) = Before(k) \cup StandsFor(parser, text[k])
         /\ PassedBefore(k) /\ Passed(k) => PassedBefore(k + 1)
<1>1. 1 .. (k + 1) - 1 = (1 .. k - 1) \cup {k}
  OBVIOUS
<1> QED
  BY <1>1 DEF Before, PassedBefore

LEMMA LineType ==
  ASSUME PoolTypeOK
  PROVE  /\ Len(text) \in Nat /\ DOMAIN text = 1 .. Len(text) /\ line \in Nat \ {0}
         /\ parser \in {"utils", "pkg"}
         /\ \A k \in DOMAIN text :
              text[k] \in Lines /\ text[k].from \in Addresses /\ text[k].to \in Addresses
         /\ line \in DOMAIN text => line + 1 \in 1 .. Len(text) + 1
<1>1. text \in Seq(Lines)
  BY TextAssumption DEF PoolTypeOK
<1>2. Len(text) \in Nat /\ DOMAIN text = 1 .. Len(text) /\ line \in 1 .. Len(text) + 1
  BY <1>1 DEF PoolTypeOK
<1>3. \A k \in DOMAIN text : text[k] \in Lines
  BY <1>1
<1>4. \A l \in Lines : l.from \in Addresses /\ l.to \in Addresses
  BY DEF Lines
<1>5. parser \in {"utils", "pkg"}
  BY TextAssumption DEF PoolTypeOK
<1> QED
  BY <1>2, <1>3, <1>4, <1>5

LEMMA PoolInit == Init => PoolInv
<1> SUFFICES ASSUME Init PROVE PoolInv
  OBVIOUS
<1>1. text \in Seq(Lines)
  BY TextAssumption DEF Init
<1>2. PoolTypeOK
  <2>1. << >> \in Seq(Addresses \cup {Nil})
    OBVIOUS
  <2>2. 1 \in 1 .. Len(text) + 1
    BY <1>1
  <2> QED
    BY <2>1, <2>2 DEF Init, PoolTypeOK
<1>3. Before(1) = {} /\ PassedBefore(1) /\ Entries(<< >>) = {}
  BY DEF Before, PassedBefore, Entries
<1> QED
  BY <1>2, <1>3 DEF Init, PoolInv

(* The addresses of a line that is no range.                               *)
LEMMA PlainLines ==
  ASSUME PoolInv, SkipLine \/ ListSingle
  PROVE  PoolInv'
<1> USE DEF PoolInv
<1>1. /\ line \in DOMAIN text /\ line \in Nat \ {0} /\ ~walking /\ status = "parsing"
      /\ line' = line + 1 /\ UNCHANGED <<parser, text, walking, at, status>>
      /\ line + 1 \in 1 .. Len(text) + 1 /\ text[line].from \in Addresses
  BY LineType DEF SkipLine, ListSingle, At
<1>2. /\ Before(line + 1) = Before(line) \cup StandsFor(parser, text[line])
      /\ PassedBefore(line) /\ Passed(line) => PassedBefore(line + 1)
  BY <1>1, BeforeNext
<1>3. Passed(line)
  BY DEF SkipLine, ListSingle, At, Passed, Endless
<1>4. pool' \in Seq(Addresses \cup {Nil}) /\ Entries(pool') = Before(line + 1)
  <2>1. CASE SkipLine
    BY <1>1, <1>2, <2>1 DEF SkipLine, At, StandsFor, PoolTypeOK
  <2>2. CASE ListSingle
    <3>1. pool' = Append(pool, text[line].from) /\ text[line].kind = "single"
      BY <2>2 DEF ListSingle, At
    <3>2. /\ pool' \in Seq(Addresses \cup {Nil})
          /\ Entries(pool') = Entries(pool) \cup {text[line].from}
      BY <1>1, <3>1, EntriesAppend DEF PoolTypeOK
    <3> QED
      BY <1>1, <1>2, <3>1, <3>2 DEF StandsFor
  <2> QED
    BY <2>1, <2>2
<1>5. PoolTypeOK'
  BY <1>1, <1>4 DEF PoolTypeOK
<1> QED
  BY <1>1, <1>2, <1>3, <1>4, <1>5 DEF Before, PassedBefore, Passed

LEMMA RangeLines ==
  ASSUME PoolInv, StartRange \/ WalkRange \/ EndRange
  PROVE  PoolInv'
<1> USE DEF PoolInv
<1> DEFINE l == text[line]
<1>1. /\ line \in DOMAIN text /\ line \in Nat \ {0} /\ l.kind = "range"
      /\ status = "parsing" /\ status' = status /\ UNCHANGED <<parser, text>>
      /\ line + 1 \in 1 .. Len(text) + 1
      /\ l.from \in Addresses /\ l.to \in Addresses /\ parser \in {"utils", "pkg"}
  BY LineType DEF StartRange, WalkRange, EndRange, At, Walking, PoolTypeOK
<1>2. Endless(parser, l) <=> EndlessRange(parser, l.from, l.to)
  BY <1>1 DEF Endless
<1>3. UNCHANGED line => Before(line)' = Before(line) /\ (PassedBefore(line) => PassedBefore(line)')
  BY <1>1 DEF Before, PassedBefore, Passed
<1> HIDE DEF l
<1>4. ASSUME NEW e \in Addresses \cup {Nil}, pool' = Append(pool, e)
      PROVE  /\ pool' \in Seq(Addresses \cup {Nil})
             /\ Entries(pool') = Entries(pool) \cup {e}
  BY <1>4, EntriesAppend DEF PoolTypeOK
<1>5. CASE StartRange
  <2>1. walking' /\ ~walking /\ at' = l.from /\ UNCHANGED <<line, pool>>
    BY <1>5 DEF StartRange, At, l
  <2>2. PoolTypeOK'
    BY <1>1, <2>1 DEF PoolTypeOK, l
  <2>3. WalkOK'
    BY <1>1, <1>2, <1>3, <2>1, FirstOnTheWay DEF WalkOK, l
  <2> QED
    BY <1>1, <1>3, <2>1, <2>2, <2>3
<1>6. CASE WalkRange
  <2>1. /\ walking /\ walking' /\ UNCHANGED line
        /\ ~RangeOver(parser, at, l.to)
        /\ pool' = Append(pool, at) /\ at' = NextIP(at)
    BY <1>6 DEF WalkRange, Walking, l
  <2>2. Entries(pool') = Entries(pool) \cup {at} /\ pool' \in Seq(Addresses \cup {Nil})
    BY <1>4, <2>1 DEF PoolTypeOK
  <2>3. at' \in Addresses \cup {Nil}
    <3>1. at \in V4 => NextIP(at) \in V4
      BY NextIsSuccessor
    <3> QED
      BY <2>1, <3>1 DEF NextIP, Addresses
  <2>4. PoolTypeOK'
    BY <1>1, <2>1, <2>2, <2>3 DEF PoolTypeOK, l
  <2>5. CASE Endless(parser, l)
    BY <1>1, <1>2, <1>3, <2>1, <2>4, <2>5, LostForever DEF WalkOK, l
  <2>6. CASE ~Endless(parser, l)
    <3>1. OnTheWay(parser, l.from, l.to, at) /\ Entries(pool) = Before(line) \cup Listed(l.from, at)
      BY <1>1, <2>1, <2>6 DEF WalkOK, l
    <3>2. /\ OnTheWay(parser, l.from, l.to, at')
          /\ Listed(l.from, at') = Listed(l.from, at) \cup {at}
      BY <1>1, <1>2, <2>1, <2>6, <3>1, StepOnTheWay
    <3>3. WalkOK'
      BY <1>1, <1>2, <1>3, <2>1, <2>2, <2>6, <3>1, <3>2 DEF WalkOK, l
    <3> QED
      BY <1>1, <1>3, <2>1, <2>4, <3>3
  <2> QED
    BY <2>5, <2>6
<1>7. CASE EndRange
  <2>1. /\ walking /\ walking' = FALSE /\ line' = line + 1 /\ at' = Nil
        /\ RangeOver(parser, at, l.to)
        /\ pool' = IF parser = "pkg" THEN Append(pool, l.to) ELSE pool
    BY <1>7 DEF EndRange, Walking, PoolTypeOK, l
  <2>2. ~Endless(parser, l)
    BY <1>1, <1>2, <2>1, LostForever DEF WalkOK, l
  <2>3. OnTheWay(parser, l.from, l.to, at) /\ Entries(pool) = Before(line) \cup Listed(l.from, at)
    BY <1>1, <2>1, <2>2 DEF WalkOK, l
  <2>4. RangeStandsFor(parser, l.from, l.to) =
          Listed(l.from, at) \cup (IF parser = "pkg" THEN {l.to} ELSE {})
    BY <1>1, <2>1, <2>3, ArriveOnTheWay
  <2>5. /\ pool' \in Seq(Addresses \cup {Nil})
        /\ Entries(pool') = Entries(pool) \cup (IF parser = "pkg" THEN {l.to} ELSE {})
    BY <1>1, <1>4, <2>1 DEF PoolTypeOK
  <2>6. PoolTypeOK'
    BY <1>1, <2>1, <2>5 DEF PoolTypeOK
  <2>7. /\ Before(line + 1) = Before(line) \cup StandsFor(parser, l)
        /\ PassedBefore(line + 1)
    BY <1>1, <2>2, BeforeNext DEF Passed, l
  <2>8. StandsFor(parser, l) = RangeStandsFor(parser, l.from, l.to)
    BY <1>1 DEF StandsFor
  <2>9. Entries(pool') = Before(line + 1)
    BY <2>3, <2>4, <2>5, <2>7, <2>8
  <2> QED
    BY <1>1, <2>1, <2>6, <2>7, <2>9 DEF Before, PassedBefore, Passed
<1> QED
  BY <1>5, <1>6, <1>7

LEMMA PoolStep == PoolInv /\ [Next]_poolVars => PoolInv'
<1> SUFFICES ASSUME PoolInv, [Next]_poolVars PROVE PoolInv'
  OBVIOUS
<1>1. CASE SkipLine \/ ListSingle
  BY <1>1, PlainLines
<1>2. CASE StartRange \/ WalkRange \/ EndRange
  BY <1>2, RangeLines
<1>3. CASE RefuseLine
  BY <1>3, LineType
     DEF PoolInv, RefuseLine, At, PoolTypeOK, PassedBefore, Passed
<1>4. CASE Finish
  <2>1. ~walking
    BY <1>4, LineType DEF PoolInv, Finish, PoolTypeOK
  <2> QED
    BY <1>4, <2>1 DEF PoolInv, Finish, PoolTypeOK, Before, PassedBefore, Passed
<1>5. CASE UNCHANGED poolVars
  BY <1>5 DEF PoolInv, poolVars, PoolTypeOK, Before, PassedBefore, Passed, WalkOK
<1> QED
  BY <1>1, <1>2, <1>3, <1>4, <1>5 DEF Next

LEMMA PoolInvInvariant == Spec => []PoolInv
  BY PoolInit, PoolStep, PTL DEF Spec

(* PoolIsLines: what LoadIPPool and parseIPPool return is exactly what the *)
(* lines stand for, and they return nothing when a line is endless.        *)
THEOREM PoolListsTheLines == Spec => []PoolIsLines
<1>1. PoolInv => PoolIsLines
  <2> SUFFICES ASSUME PoolInv PROVE PoolIsLines
    OBVIOUS
  <2>1. Len(text) \in Nat /\ DOMAIN text = 1 .. Len(text) /\ Len(text) + 1 - 1 = Len(text)
    BY LineType DEF PoolInv
  <2> QED
    BY <2>1 DEF PoolInv, PoolIsLines, Before, PassedBefore
<1> QED
  BY <1>1, PoolInvInvariant, PTL

(* No address has a number beyond the address space.                       *)
LEMMA ValueBound ==
  ASSUME NEW a \in V4
  PROVE  /\ Value(a) \in Nat /\ Number(Base, 0, 0, 0) \in Nat
         /\ Value(a) < Number(Base, 0, 0, 0)
<1>1. PICK a1 \in ByteValues, a2 \in ByteValues, a3 \in ByteValues, a4 \in ByteValues :
        a1 = a[1] /\ a2 = a[2] /\ a3 = a[3] /\ a4 = a[4]
  BY BytesOf
<1>2. a1 \in Nat /\ Base \in Nat /\ a1 < Base /\ 0 \in ByteValues
  BY BaseAssumption DEF ByteValues
<1> DEFINE a12 == WithByte(a1, a2)
           b12 == WithByte(Base, 0)
           a123 == WithByte(a12, a3)
           b123 == WithByte(b12, 0)
<1>3. a12 \in Nat /\ b12 \in Nat /\ a12 < b12
  BY <1>2, ByteOrder
<1>4. a123 \in Nat /\ b123 \in Nat /\ a123 < b123
  <2> HIDE DEF a12, b12
  <2> QED
    BY <1>2, <1>3, ByteOrder
<1>5. /\ WithByte(a123, a4) \in Nat /\ WithByte(b123, 0) \in Nat
      /\ WithByte(a123, a4) < WithByte(b123, 0)
  <2> HIDE DEF a123, b123
  <2> QED
    BY <1>2, <1>4, ByteOrder
<1> QED
  BY <1>1, <1>5 DEF Value, Number

LEMMA StepShrinks ==
  ASSUME NEW p \in {"utils", "pkg"}, NEW from \in Addresses, NEW to \in Addresses, NEW ip,
         ~EndlessRange(p, from, to), OnTheWay(p, from, to, ip), ~RangeOver(p, ip, to)
  PROVE  0 <= ToGo(p, NextIP(ip), to) /\ ToGo(p, NextIP(ip), to) < ToGo(p, ip, to)
<1> DEFINE N == Number(Base, 0, 0, 0)
           next == NextIP(ip)
<1>1. from \in V4 /\ ip \in V4 /\ to \in V4
  BY OnlyV4Goes
<1>2. next \in V4 /\ Value(next) = IF IsLast(ip) THEN 0 ELSE Value(ip) + 1
  BY <1>1, NextIsSuccessor
<1>3. /\ Value(ip) \in Nat /\ Value(to) \in Nat /\ N \in Nat
      /\ Value(ip) < N /\ Value(to) < N
  BY <1>1, ValueBound
<1>4. ToGo(p, ip, to) = IF Value(ip) <= Value(to) THEN Value(to) + 1 - Value(ip)
                        ELSE Value(to) + 1 + N - Value(ip)
  BY DEF ToGo
<1>5. ToGo(p, next, to) = IF RangeOver(p, next, to) THEN 0
                          ELSE IF Value(next) <= Value(to) THEN Value(to) + 1 - Value(next)
                          ELSE Value(to) + 1 + N - Value(next)
  BY DEF ToGo
<1>6. CASE p = "utils"
  <2>1. ~(Value(ip) > Value(to))
    BY <1>1, <1>6, AfterIsGreater DEF RangeOver
  <2>2. RangeOver(p, next, to) <=> Value(next) > Value(to)
    BY <1>1, <1>2, <1>6, AfterIsGreater DEF RangeOver
  <2>3. ~IsLast(ip)
    <3>1. ASSUME IsLast(ip) PROVE IsLast(to)
      <4>1. Value(to) <= Value(ip)
        BY <1>1, <3>1, LastIsGreatest
      <4>2. ip = to
        BY <1>1, <1>3, <2>1, <4>1, ValueOrder
      <4> QED
        BY <3>1, <4>2
    <3> QED
      BY <1>1, <1>6, <3>1 DEF EndlessRange
  <2> QED
    BY <1>2, <1>3, <1>4, <1>5, <2>1, <2>2, <2>3
<1>7. CASE p = "pkg"
  <2>1. ip # to /\ Value(ip) # Value(to)
    BY <1>1, <1>7, ValueOrder DEF RangeOver
  <2>2. IsLast(ip) => Value(to) < Value(ip)
    BY <1>1, <1>3, <2>1, LastIsGreatest
  <2> QED
    BY <1>2, <1>3, <1>4, <1>5, <2>1, <2>2
<1> QED
  BY <1>6, <1>7

(* RangesShrink: the loop of a range that is not one of the endless ones   *)
(* has fewer addresses to go after each pass, whatever a byte holds.  With *)
(* a loop that runs, this is why ParsingEnds holds for texts of any length *)
(* and not only for those a run enumerates.                                *)
THEOREM RangesComeToTheirEnd == Spec => RangesShrink
<1> DEFINE Shrinks ==
      walking /\ walking' /\ ~Endless(parser, text[line]) =>
        LET to == text[line].to
        IN  0 <= ToGo(parser, at', to) /\ ToGo(parser, at', to) < ToGo(parser, at, to)
<1>1. PoolInv /\ [Next]_poolVars => [Shrinks]_poolVars
  <2> SUFFICES ASSUME PoolInv, Next, walking, walking', ~Endless(parser, text[line])
               PROVE  LET to == text[line].to
                      IN  /\ 0 <= ToGo(parser, at', to)
                          /\ ToGo(parser, at', to) < ToGo(parser, at, to)
    OBVIOUS
  <2> DEFINE l == text[line]
  <2>1. /\ line \in DOMAIN text /\ l.kind = "range" /\ status = "parsing"
        /\ l.from \in Addresses /\ l.to \in Addresses /\ parser \in {"utils", "pkg"}
    BY LineType DEF PoolInv, PoolTypeOK
  <2>2. ~EndlessRange(parser, l.from, l.to) /\ OnTheWay(parser, l.from, l.to, at)
    BY <2>1 DEF PoolInv, WalkOK, Endless
  <2>3. WalkRange
    <3>1. SkipLine \/ ListSingle \/ RefuseLine \/ StartRange => ~walking
      BY DEF SkipLine, ListSingle, RefuseLine, StartRange, At
    <3>2. EndRange => ~walking'
      BY DEF EndRange
    <3>3. ~Finish
      BY LineType, <2>1 DEF Finish, PoolInv
    <3> QED
      BY <3>1, <3>2, <3>3 DEF Next
  <2>4. ~RangeOver(parser, at, l.to) /\ at' = NextIP(at) /\ UNCHANGED <<parser, text, line>>
    BY <2>3 DEF WalkRange, Walking
  <2> QED
    BY <2>1, <2>2, <2>4, StepShrinks
<1> QED
  BY <1>1, PoolInvInvariant, PTL DEF Spec, RangesShrink

(* The types: a parser walks a range of the text or none.                  *)
THEOREM PoolTypeCorrect == Spec => []PoolTypeOK
<1>1. PoolInv => PoolTypeOK
  BY DEF PoolInv
<1> QED
  BY <1>1, PoolInvInvariant, PTL
=============================================================================
