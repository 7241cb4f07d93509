-------------------------- MODULE MessageHeaderProofs --------------------------
(***************************************************************************)
(* Proofs about MessageHeader, for every size of size_t, all lengths of    *)
(* values and every set of attributes.                                     *)
(***************************************************************************)
EXTENDS MessageHeader, SequenceTheorems, TLAPS

AttributesInv ==
  /\ Required \subseteq Fields /\ Fields \subseteq Required \cup Optional
  /\ \A f \in Fields : attributes[f] \in Nat
  /\ \A f \in {"PLEVEL", "COMMSTATUS"} \cap Fields : attributes[f] = Int32

LEMMA Orders ==
  /\ Len(SizedOrder) = 10 /\ Len(AddedOrder) = 9
  /\ AddedOrder[1] = "ID" /\ AddedOrder[2] = "TYPE" /\ AddedOrder[3] = "PRIORITY" /\ AddedOrder[4] = "TTL"
  /\ AddedOrder[5] = "TOKEN" /\ AddedOrder[6] = "HINT" /\ AddedOrder[7] = "PLEVEL"
  /\ AddedOrder[8] = "COMMSTATUS" /\ AddedOrder[9] = "REQID"
  /\ SizedOrder[1] = "ID" /\ SizedOrder[2] = "TYPE" /\ SizedOrder[3] = "PRIORITY" /\ SizedOrder[4] = "TTL"
  /\ SizedOrder[5] = "TOKEN" /\ SizedOrder[6] = "HINT" /\ SizedOrder[7] = "SINK" /\ SizedOrder[8] = "PLEVEL"
  /\ SizedOrder[9] = "COMMSTATUS" /\ SizedOrder[10] = "REQID"
  BY DEF SizedOrder, AddedOrder

LEMMA BytesType ==
  ASSUME AttributesInv
  PROVE  \A f : Bytes(f) \in Nat
  BY WidthPositive DEF AttributesInv, Bytes

(* The bytes that nine or ten numbers make up to an index.                 *)
UpTo(b1, b2, b3, b4, b5, b6, b7, b8, b9, b10, k) ==
  (IF 1 < k THEN b1 ELSE 0) + (IF 2 < k THEN b2 ELSE 0) + (IF 3 < k THEN b3 ELSE 0) + (IF 4 < k THEN b4 ELSE 0)
  + (IF 5 < k THEN b5 ELSE 0) + (IF 6 < k THEN b6 ELSE 0) + (IF 7 < k THEN b7 ELSE 0) + (IF 8 < k THEN b8 ELSE 0)
  + (IF 9 < k THEN b9 ELSE 0) + (IF 10 < k THEN b10 ELSE 0)

(* Where the record of a field of AddedOrder begins, and what the fields   *)
(* of SizedOrder before one take.                                          *)
Begin(k) ==
  UpTo(Bytes("ID"), Bytes("TYPE"), Bytes("PRIORITY"), Bytes("TTL"), Bytes("TOKEN"), Bytes("HINT"),
       Bytes("PLEVEL"), Bytes("COMMSTATUS"), Bytes("REQID"), 0, k)
Sized(k) ==
  UpTo(Bytes("ID"), Bytes("TYPE"), Bytes("PRIORITY"), Bytes("TTL"), Bytes("TOKEN"), Bytes("HINT"),
       Bytes("SINK"), Bytes("PLEVEL"), Bytes("COMMSTATUS"), Bytes("REQID"), k)

LEMMA UpToProps ==
  ASSUME NEW b1 \in Nat, NEW b2 \in Nat, NEW b3 \in Nat, NEW b4 \in Nat, NEW b5 \in Nat,
         NEW b6 \in Nat, NEW b7 \in Nat, NEW b8 \in Nat, NEW b9 \in Nat, NEW b10 \in Nat,
         NEW j \in Int, NEW k \in Int, j <= k
  PROVE  /\ UpTo(b1, b2, b3, b4, b5, b6, b7, b8, b9, b10, k) \in Nat
         /\ UpTo(b1, b2, b3, b4, b5, b6, b7, b8, b9, b10, j) <= UpTo(b1, b2, b3, b4, b5, b6, b7, b8, b9, b10, k)
<1> DEFINE part(b, i, n) == IF i < n THEN b ELSE 0
<1>1. ASSUME NEW b \in Nat, NEW i \in Int
      PROVE  part(b, i, j) \in Nat /\ part(b, i, k) \in Nat /\ part(b, i, j) <= part(b, i, k)
  OBVIOUS
<1> HIDE DEF part
<1>2. \A n : UpTo(b1, b2, b3, b4, b5, b6, b7, b8, b9, b10, n)
        = part(b1, 1, n) + part(b2, 2, n) + part(b3, 3, n) + part(b4, 4, n) + part(b5, 5, n)
          + part(b6, 6, n) + part(b7, 7, n) + part(b8, 8, n) + part(b9, 9, n) + part(b10, 10, n)
  BY DEF UpTo, part
<1>3. part(b1, 1, j) \in Nat /\ part(b1, 1, k) \in Nat /\ part(b1, 1, j) <= part(b1, 1, k)
  BY <1>1
<1>4. part(b2, 2, j) \in Nat /\ part(b2, 2, k) \in Nat /\ part(b2, 2, j) <= part(b2, 2, k)
  BY <1>1
<1>5. part(b3, 3, j) \in Nat /\ part(b3, 3, k) \in Nat /\ part(b3, 3, j) <= part(b3, 3, k)
  BY <1>1
<1>6. part(b4, 4, j) \in Nat /\ part(b4, 4, k) \in Nat /\ part(b4, 4, j) <= part(b4, 4, k)
  BY <1>1
<1>7. part(b5, 5, j) \in Nat /\ part(b5, 5, k) \in Nat /\ part(b5, 5, j) <= part(b5, 5, k)
  BY <1>1
<1>8. part(b6, 6, j) \in Nat /\ part(b6, 6, k) \in Nat /\ part(b6, 6, j) <= part(b6, 6, k)
  BY <1>1
<1>9. part(b7, 7, j) \in Nat /\ part(b7, 7, k) \in Nat /\ part(b7, 7, j) <= part(b7, 7, k)
  BY <1>1
<1>10. part(b8, 8, j) \in Nat /\ part(b8, 8, k) \in Nat /\ part(b8, 8, j) <= part(b8, 8, k)
  BY <1>1
<1>11. part(b9, 9, j) \in Nat /\ part(b9, 9, k) \in Nat /\ part(b9, 9, j) <= part(b9, 9, k)
  BY <1>1
<1>12. part(b10, 10, j) \in Nat /\ part(b10, 10, k) \in Nat /\ part(b10, 10, j) <= part(b10, 10, k)
  BY <1>1
<1>13. QED
  BY <1>2, <1>3, <1>4, <1>5, <1>6, <1>7, <1>8, <1>9, <1>10, <1>11, <1>12

LEMMA BeginProps ==
  ASSUME AttributesInv
  PROVE  /\ Begin(1) = 0
         /\ \A k \in 1..10 : Begin(k) \in Nat
         /\ \A j, k \in 1..10 : j <= k => Begin(j) <= Begin(k)
         /\ \A k \in 1..9 : Begin(k + 1) = Begin(k) + Bytes(AddedOrder[k])
<1>0. /\ Bytes("ID") \in Nat /\ Bytes("TYPE") \in Nat /\ Bytes("PRIORITY") \in Nat /\ Bytes("TTL") \in Nat
      /\ Bytes("TOKEN") \in Nat /\ Bytes("HINT") \in Nat /\ Bytes("SINK") \in Nat /\ Bytes("PLEVEL") \in Nat
      /\ Bytes("COMMSTATUS") \in Nat /\ Bytes("REQID") \in Nat
  BY BytesType
<1>1. Begin(1) = 0
  BY DEF Begin, UpTo
<1>2. ASSUME NEW j \in 1..10, NEW k \in 1..10, j <= k PROVE Begin(k) \in Nat /\ Begin(j) <= Begin(k)
  <2>1. j \in Int /\ k \in Int /\ 0 \in Nat
    OBVIOUS
  <2>2. QED
    BY <1>0, <1>2, <2>1, UpToProps, Zenon DEF Begin
<1>3. \A k \in 1..10 : k <= k
  OBVIOUS
<1>4. ASSUME NEW k \in 1..9 PROVE Begin(k + 1) = Begin(k) + Bytes(AddedOrder[k])
  <2>1. Begin(2) = Begin(1) + Bytes("ID")
    BY <1>0 DEF Begin, UpTo
  <2>2. Begin(3) = Begin(2) + Bytes("TYPE")
    BY <1>0 DEF Begin, UpTo
  <2>3. Begin(4) = Begin(3) + Bytes("PRIORITY")
    BY <1>0 DEF Begin, UpTo
  <2>4. Begin(5) = Begin(4) + Bytes("TTL")
    BY <1>0 DEF Begin, UpTo
  <2>5. Begin(6) = Begin(5) + Bytes("TOKEN")
    BY <1>0 DEF Begin, UpTo
  <2>6. Begin(7) = Begin(6) + Bytes("HINT")
    BY <1>0 DEF Begin, UpTo
  <2>7. Begin(8) = Begin(7) + Bytes("PLEVEL")
    BY <1>0 DEF Begin, UpTo
  <2>8. Begin(9) = Begin(8) + Bytes("COMMSTATUS")
    BY <1>0 DEF Begin, UpTo
  <2>9. Begin(10) = Begin(9) + Bytes("REQID")
    BY <1>0 DEF Begin, UpTo
  <2>10. k \in {1, 2, 3, 4, 5, 6, 7, 8, 9}
    OBVIOUS
  <2>11. QED
    BY <2>10, Orders, <2>1, <2>2, <2>3, <2>4, <2>5, <2>6, <2>7, <2>8, <2>9
<1>5. QED
  BY <1>1, <1>2, <1>3, <1>4

(* Where the record of one field lies, among the others.                   *)
LEMMA Places ==
  ASSUME AttributesInv, NEW k \in 1..9
  PROVE  /\ Begin(k) \in Nat /\ Begin(k + 1) \in Nat /\ Begin(10) \in Nat /\ Bytes(AddedOrder[k]) \in Nat
         /\ Begin(k + 1) = Begin(k) + Bytes(AddedOrder[k]) /\ Begin(k + 1) <= Begin(10)
         /\ \A j \in 1..9 : j < k => Begin(j + 1) <= Begin(k)
         /\ AddedOrder[k] \in Fields => /\ attributes[AddedOrder[k]] \in Nat /\ Width \in Nat \ {0}
                                       /\ Bytes(AddedOrder[k]) = 1 + Width + attributes[AddedOrder[k]]
<1>1. k \in 1..10 /\ k + 1 \in 1..10 /\ k + 1 <= 10 /\ 10 \in 1..10
  OBVIOUS
<1>2. Begin(k) \in Nat /\ Begin(k + 1) \in Nat /\ Begin(10) \in Nat
  BY <1>1, BeginProps
<1>3. Bytes(AddedOrder[k]) \in Nat
  BY BytesType
<1>4. Begin(k + 1) = Begin(k) + Bytes(AddedOrder[k])
  BY BeginProps
<1>5. Begin(k + 1) <= Begin(10)
  BY <1>1, BeginProps
<1>6. ASSUME NEW j \in 1..9, j < k PROVE Begin(j + 1) <= Begin(k)
  <2>1. j + 1 \in 1..10 /\ j + 1 <= k
    BY <1>6
  <2>2. QED
    BY <1>1, <2>1, BeginProps
<1>7. AddedOrder[k] \in Fields => /\ attributes[AddedOrder[k]] \in Nat /\ Width \in Nat \ {0}
                                /\ Bytes(AddedOrder[k]) = 1 + Width + attributes[AddedOrder[k]]
  BY WidthPositive DEF AttributesInv, Bytes
<1>8. QED
  BY <1>2, <1>3, <1>4, <1>5, <1>6, <1>7

LEMMA SizedProps ==
  ASSUME AttributesInv
  PROVE  /\ Sized(1) = 0
         /\ \A k \in 1..11 : Sized(k) \in Nat
         /\ \A k \in 1..10 : Sized(k + 1) = Sized(k) + Bytes(SizedOrder[k])
         /\ Sized(11) = Begin(10) + Bytes("SINK")
<1>0. /\ Bytes("ID") \in Nat /\ Bytes("TYPE") \in Nat /\ Bytes("PRIORITY") \in Nat /\ Bytes("TTL") \in Nat
      /\ Bytes("TOKEN") \in Nat /\ Bytes("HINT") \in Nat /\ Bytes("SINK") \in Nat /\ Bytes("PLEVEL") \in Nat
      /\ Bytes("COMMSTATUS") \in Nat /\ Bytes("REQID") \in Nat
  BY BytesType
<1>1. Sized(1) = 0
  BY DEF Sized, UpTo
<1>2. ASSUME NEW k \in 1..11 PROVE Sized(k) \in Nat
  <2>1. k \in Int /\ k <= k
    OBVIOUS
  <2>2. QED
    BY <1>0, <2>1, UpToProps, Zenon DEF Sized
<1>3. ASSUME NEW k \in 1..10 PROVE Sized(k + 1) = Sized(k) + Bytes(SizedOrder[k])
  <2>1. Sized(2) = Sized(1) + Bytes("ID")
    BY <1>0 DEF Sized, UpTo
  <2>2. Sized(3) = Sized(2) + Bytes("TYPE")
    BY <1>0 DEF Sized, UpTo
  <2>3. Sized(4) = Sized(3) + Bytes("PRIORITY")
    BY <1>0 DEF Sized, UpTo
  <2>4. Sized(5) = Sized(4) + Bytes("TTL")
    BY <1>0 DEF Sized, UpTo
  <2>5. Sized(6) = Sized(5) + Bytes("TOKEN")
    BY <1>0 DEF Sized, UpTo
  <2>6. Sized(7) = Sized(6) + Bytes("HINT")
    BY <1>0 DEF Sized, UpTo
  <2>7. Sized(8) = Sized(7) + Bytes("SINK")
    BY <1>0 DEF Sized, UpTo
  <2>8. Sized(9) = Sized(8) + Bytes("PLEVEL")
    BY <1>0 DEF Sized, UpTo
  <2>9. Sized(10) = Sized(9) + Bytes("COMMSTATUS")
    BY <1>0 DEF Sized, UpTo
  <2>10. Sized(11) = Sized(10) + Bytes("REQID")
    BY <1>0 DEF Sized, UpTo
  <2>11. k \in {1, 2, 3, 4, 5, 6, 7, 8, 9, 10}
    OBVIOUS
  <2>12. QED
    BY <2>11, Orders, <2>1, <2>2, <2>3, <2>4, <2>5, <2>6, <2>7, <2>8, <2>9, <2>10
<1>4. Sized(11) = Begin(10) + Bytes("SINK")
  BY <1>0 DEF Sized, Begin, UpTo
<1>5. QED
  BY <1>1, <1>2, <1>3, <1>4

LEMMA Tags ==
  /\ TagOf("ID") = 1 /\ TagOf("TYPE") = 2 /\ TagOf("PRIORITY") = 3 /\ TagOf("TTL") = 4 /\ TagOf("TOKEN") = 5
  /\ TagOf("HINT") = 6 /\ TagOf("PLEVEL") = 8 /\ TagOf("COMMSTATUS") = 9 /\ TagOf("REQID") = 10
<1>1. \A n \in 0..11 : /\ TagNames[n + 1] = "ID" <=> n = 1
                       /\ TagNames[n + 1] = "TYPE" <=> n = 2
                       /\ TagNames[n + 1] = "PRIORITY" <=> n = 3
                       /\ TagNames[n + 1] = "TTL" <=> n = 4
                       /\ TagNames[n + 1] = "TOKEN" <=> n = 5
                       /\ TagNames[n + 1] = "HINT" <=> n = 6
                       /\ TagNames[n + 1] = "PLEVEL" <=> n = 8
                       /\ TagNames[n + 1] = "COMMSTATUS" <=> n = 9
                       /\ TagNames[n + 1] = "REQID" <=> n = 10
  BY DEF TagNames
<1>2. 1 \in 0..11 /\ 2 \in 0..11 /\ 3 \in 0..11 /\ 4 \in 0..11 /\ 5 \in 0..11
      /\ 6 \in 0..11 /\ 8 \in 0..11 /\ 9 \in 0..11 /\ 10 \in 0..11
  OBVIOUS
<1>3. TagOf("ID") = 1 /\ TagOf("TYPE") = 2 /\ TagOf("PRIORITY") = 3
  BY <1>1, <1>2 DEF TagOf
<1>4. TagOf("TTL") = 4 /\ TagOf("TOKEN") = 5 /\ TagOf("HINT") = 6
  BY <1>1, <1>2 DEF TagOf
<1>5. TagOf("PLEVEL") = 8 /\ TagOf("COMMSTATUS") = 9 /\ TagOf("REQID") = 10
  BY <1>1, <1>2 DEF TagOf
<1>6. QED
  BY <1>3, <1>4, <1>5

(* A field is known by its place in AddedOrder, and by its tag.            *)
LEMMA TagsApart ==
  \A j, k \in 1..9 : /\ AddedOrder[k] \in Required \cup Optional /\ AddedOrder[k] # "SINK"
                     /\ TagOf(AddedOrder[k]) \in 1..10
                     /\ TagOf(AddedOrder[j]) = TagOf(AddedOrder[k]) => j = k
<1>1. \A k \in 1..9 : k \in {1, 2, 3, 4, 5, 6, 7, 8, 9}
  OBVIOUS
<1>2. \A k \in 1..9 : TagOf(AddedOrder[k]) = IF k < 7 THEN k ELSE k + 1
  BY <1>1, Orders, Tags
<1>3. \A k \in 1..9 : AddedOrder[k] \in Required \cup Optional /\ AddedOrder[k] # "SINK"
  BY <1>1, Orders DEF Required, Optional
<1>4. QED
  BY <1>2, <1>3

Cells == Nat \cup ((Required \cup Optional) \X Nat)

LEMMA SequenceOf ==
  ASSUME NEW S, NEW n \in Nat, NEW s \in [1..n -> S]
  PROVE  s \in Seq(S) /\ Len(s) = n /\ DOMAIN s = 1..n
  OBVIOUS

(* A record is a tag, the bytes of a length and a value of that length.    *)
LEMMA RecordProps ==
  ASSUME AttributesInv, NEW k \in 1..9, NEW f, f = AddedOrder[k], f \in Fields
  PROVE  /\ Record(f) \in Seq(Cells)
         /\ Len(Record(f)) = Bytes(f) /\ DOMAIN Record(f) = 1..Bytes(f)
         /\ Record(f)[1] = TagOf(f)
         /\ Record(f)[2] = attributes[f]
         /\ \A i \in 1..attributes[f] : Record(f)[1 + Width + i] = <<f, i>>
<1> DEFINE n == attributes[f]  tag == <<TagOf(f)>>  size == SizeBytes(n)  value == ValueOf(f)
<1>1. n \in Nat /\ Width \in Nat /\ Width >= 1 /\ Bytes(f) = 1 + Width + n
  BY WidthPositive DEF AttributesInv, Bytes
<1>2. f \in Required \cup Optional /\ TagOf(f) \in Nat
  BY TagsApart
<1>3. tag \in Seq(Cells) /\ Len(tag) = 1 /\ tag[1] = TagOf(f)
  BY <1>2 DEF Cells
<1>4. size \in Seq(Cells) /\ Len(size) = Width /\ size[1] = n
  <2>1. size \in [1..Width -> Cells] /\ size[1] = n
    BY <1>1 DEF SizeBytes, Cells
  <2>2. QED
    BY <1>1, <2>1, SequenceOf
<1>5. value \in Seq(Cells) /\ Len(value) = n /\ \A i \in 1..n : value[i] = <<f, i>>
  <2>1. value \in [1..n -> Cells] /\ \A i \in 1..n : value[i] = <<f, i>>
    BY <1>1, <1>2 DEF ValueOf, Cells
  <2>2. QED
    BY <1>1, <2>1, SequenceOf
<1> DEFINE front == tag \o size  record == front \o value
<1> HIDE DEF n, tag, size, value, front, record
<1>6. /\ front \in Seq(Cells) /\ Len(front) = Len(tag) + Len(size)
      /\ \A i \in 1..(Len(tag) + Len(size)) : front[i] = IF i <= Len(tag) THEN tag[i] ELSE size[i - Len(tag)]
  BY <1>3, <1>4, ConcatProperties DEF front
<1>7. Len(front) = 1 + Width /\ \A i \in 1..(1 + Width) : front[i] = IF i <= 1 THEN tag[i] ELSE size[i - 1]
  BY <1>3, <1>4, <1>6
<1>8. /\ record \in Seq(Cells) /\ Len(record) = Len(front) + Len(value)
      /\ \A i \in 1..(Len(front) + Len(value)) :
           record[i] = IF i <= Len(front) THEN front[i] ELSE value[i - Len(front)]
  <2>1. front \in Seq(Cells)
    BY <1>6
  <2>2. value \in Seq(Cells)
    BY <1>5
  <2>3. QED
    BY <2>1, <2>2, ConcatProperties DEF record
<1>9. /\ Len(record) = 1 + Width + n
      /\ \A i \in 1..(1 + Width + n) : record[i] = IF i <= 1 + Width THEN front[i] ELSE value[i - (1 + Width)]
  BY <1>5, <1>7, <1>8
<1>10. record[1] = TagOf(f) /\ record[2] = n
  <2>1. /\ 1 \in 1..(1 + Width) /\ 2 \in 1..(1 + Width) /\ ~(2 <= 1) /\ 1 <= 1 /\ 2 - 1 = 1
        /\ 1 \in 1..(1 + Width + n) /\ 2 \in 1..(1 + Width + n) /\ 1 <= 1 + Width /\ 2 <= 1 + Width
    BY <1>1
  <2>2. front[1] = TagOf(f) /\ front[2] = n
    BY <1>3, <1>4, <1>7, <2>1
  <2>3. QED
    BY <1>9, <2>1, <2>2
<1>11. ASSUME NEW i \in 1..n PROVE record[1 + Width + i] = <<f, i>>
  <2>1. 1 + Width + i \in 1..(1 + Width + n) /\ ~(1 + Width + i <= 1 + Width) /\ 1 + Width + i - (1 + Width) = i
    BY <1>1
  <2>2. record[1 + Width + i] = value[i]
    <3>1. PICK j \in 1..(1 + Width + n) : j = 1 + Width + i /\ ~(j <= 1 + Width) /\ j - (1 + Width) = i
      BY <1>1, <2>1
    <3>2. record[j] = value[j - (1 + Width)]
      BY <1>9, <3>1
    <3>3. QED
      BY <3>1, <3>2
  <2>3. value[i] = <<f, i>>
    BY <1>5
  <2>4. QED
    BY <2>2, <2>3, Zenon
<1>12. Record(f) = record
  BY DEF Record, record, front, tag, size, value, n
<1>13. DOMAIN record = 1..Bytes(f)
  BY <1>1, <1>8, <1>9, LenProperties
<1>14. QED
  BY <1>1, <1>8, <1>9, <1>10, <1>11, <1>12, <1>13 DEF n

(* A whole divisor more leaves the same remainder.                         *)
LEMMA ModShift == ASSUME NEW a \in Nat, NEW d \in Nat \ {0} PROVE (a + d) % d = a % d
<1>1. \A n \in Nat : n = d * (n \div d) + (n % d) /\ n \div d \in Int /\ n % d \in 0..(d - 1)
  OBVIOUS
<1>2. PICK q \in Int, r \in 0..(d - 1) : a = d * q + r /\ r = a % d
  BY <1>1
<1>3. PICK p \in Int, s \in 0..(d - 1) : a + d = d * p + s /\ s = (a + d) % d
  <2>1. a + d \in Nat
    OBVIOUS
  <2>2. QED
    BY <1>1, <2>1
<1>4. PICK x \in Int : x = p - q - 1 /\ d * x = r - s
  <2>1. d * (p - q - 1) = d * p - d * q - d
    OBVIOUS
  <2>2. QED
    BY <1>2, <1>3, <2>1
<1>5. x = 0
  <2>1. x >= 1 => d * x >= d
    OBVIOUS
  <2>2. x <= -1 => d * x <= -d
    OBVIOUS
  <2>3. r - s < d /\ r - s > -d
    BY <1>2, <1>3
  <2>4. QED
    BY <1>4, <2>1, <2>2, <2>3
<1>6. d * x = 0
  BY <1>5
<1>7. r - s = 0 /\ r \in Int /\ s \in Int
  BY <1>2, <1>3, <1>4, <1>6
<1>8. r = s
  BY <1>7
<1>9. QED
  BY <1>2, <1>3, <1>8, Zenon

-----------------------------------------------------------------------------
(* The inductive invariant *)

(* The record of a field lies where the fields before it end.              *)
Written(k) ==
  AddedOrder[k] \in Fields =>
    \A i \in 1..Bytes(AddedOrder[k]) : message[Begin(k) + i] = Record(AddedOrder[k])[i]

(* What was written up to a field, and zeros behind it.                    *)
Layout(n) ==
  /\ \A k \in 1..(n - 1) : Written(k)
  /\ \A i \in 1..messageSize : i > Begin(n) => message[i] = 0

SizingInv ==
  phase = "size" =>
    /\ messageSize = Sized(next) /\ message = <<>> /\ pos = 0
    /\ next \in 1..11 /\ umap = <<>> /\ parsed = Nullopt /\ overread = FALSE

BufferInv ==
  phase # "size" =>
    /\ messageSize = Sized(11) /\ message \in [1..messageSize -> Cells]
    /\ next \in 1..10 /\ Layout(next)

AddingInv ==
  phase = "add" => pos = Begin(next) /\ umap = <<>> /\ parsed = Nullopt /\ overread = FALSE

(* The parser stands where a record begins, or in the zeros; it has the    *)
(* records behind it and, of the zeros, a record of tag 0.                 *)
ParsingInv ==
  phase \in {"parse", "done"} =>
    /\ next = 10 /\ pos \in 0..messageSize /\ overread \in BOOLEAN
    /\ overread => "SINK" \in Fields
    /\ \A k \in 1..9 : AddedOrder[k] \in Fields =>
         IF Begin(k + 1) <= pos
         THEN TagOf(AddedOrder[k]) \in DOMAIN umap /\ umap[TagOf(AddedOrder[k])] = ValueOf(AddedOrder[k])
         ELSE pos <= Begin(k)
    /\ \A n \in DOMAIN umap : \/ n = 0 /\ "SINK" \in Fields
                              \/ \E k \in 1..9 : AddedOrder[k] \in Fields /\ n = TagOf(AddedOrder[k])

(* Of the zeros, whole empty records are read until there is none left.    *)
SinkInv ==
  phase \in {"parse", "done"} /\ "SINK" \in Fields /\ Begin(10) <= pos =>
    (messageSize - pos) % (1 + Width) = attributes["SINK"] % (1 + Width)

ResultInv ==
  /\ phase = "parse" => parsed = Nullopt
  /\ phase = "done" /\ parsed = Nullopt => "SINK" \in Fields /\ messageSize - pos \in 1..Width /\ Begin(10) <= pos
  /\ phase = "done" /\ parsed # Nullopt =>
       /\ pos = messageSize
       /\ DOMAIN parsed = Required \cup ({"TTL", "PLEVEL", "COMMSTATUS"} \cap Fields)
       /\ \A f \in DOMAIN parsed \ {"TTL"} : parsed[f] = ValueOf(f)

IInv ==
  /\ AttributesInv /\ phase \in {"size", "add", "parse", "done"}
  /\ SizingInv /\ BufferInv /\ AddingInv /\ ParsingInv /\ SinkInv /\ ResultInv

-----------------------------------------------------------------------------
(* Every step keeps it *)

LEMMA SameAttributes ==
  ASSUME UNCHANGED attributes
  PROVE  /\ Fields' = Fields /\ (AttributesInv => AttributesInv')
         /\ \A f : Bytes(f)' = Bytes(f) /\ Record(f)' = Record(f) /\ ValueOf(f)' = ValueOf(f)
         /\ \A k : Begin(k)' = Begin(k) /\ Sized(k)' = Sized(k)
  BY DEF Fields, AttributesInv, Bytes, Record, ValueOf, Begin, Sized

(* Of the buffer, what the others rest on.                                 *)
LEMMA BufferEnds ==
  ASSUME AttributesInv, BufferInv, phase # "size"
  PROVE  /\ messageSize \in Nat /\ Size = messageSize
         /\ messageSize = Begin(10) + Bytes("SINK") /\ Begin(10) <= messageSize
         /\ "SINK" \notin Fields => messageSize = Begin(10)
<1>1. messageSize = Begin(10) + Bytes("SINK") /\ Begin(10) \in Nat
  BY BeginProps, SizedProps DEF BufferInv
<1>2. Bytes("SINK") \in Nat /\ ("SINK" \notin Fields => Bytes("SINK") = 0)
  BY BytesType DEF Bytes
<1>3. messageSize \in Nat /\ Begin(10) <= messageSize /\ ("SINK" \notin Fields => messageSize = Begin(10))
  BY <1>1, <1>2
<1>4. Size = messageSize
  BY <1>3 DEF BufferInv, Size
<1>5. QED
  BY <1>1, <1>3, <1>4

LEMMA Initially == Init => IInv
<1>1. SUFFICES ASSUME Init PROVE IInv
  OBVIOUS
<1>2. PICK some \in SUBSET Optional, token \in TokenBytes, sink \in SinkBytes :
        attributes = [f \in Required \cup some |->
                        IF f = "TOKEN" THEN token ELSE IF f = "SINK" THEN sink ELSE ValueBytes[f]]
  BY <1>1 DEF Init
<1>3. AttributesInv
  <2>1. Fields = Required \cup some
    BY <1>2 DEF Fields
  <2>2. ASSUME NEW f \in Fields PROVE attributes[f] \in Nat
    <3>1. token \in Nat /\ sink \in Nat
      BY LengthsSized
    <3>2. f \notin {"TOKEN", "SINK"} => ValueBytes[f] \in Nat
      BY <2>1, ValuesSized
    <3>3. QED
      BY <1>2, <2>1, <3>1, <3>2
  <2>3. ASSUME NEW f \in {"PLEVEL", "COMMSTATUS"} \cap Fields PROVE attributes[f] = Int32
    BY <1>2, <2>1, Int32Fields
  <2>4. QED
    BY <2>1, <2>2, <2>3 DEF AttributesInv
<1>4. Sized(1) = 0
  BY <1>3, SizedProps
<1>5. QED
  BY <1>1, <1>3, <1>4 DEF Init, IInv, SizingInv, BufferInv, AddingInv, ParsingInv, SinkInv, ResultInv

LEMMA UpdateSizeStep == IInv /\ UpdateSize => IInv'
<1>1. SUFFICES ASSUME IInv, UpdateSize PROVE IInv'
  OBVIOUS
<1>2. next \in 1..10 /\ messageSize' = Sized(next) + Bytes(SizedOrder[next]) /\ next' = next + 1
  BY <1>1, Orders DEF IInv, SizingInv, UpdateSize
<1>3. messageSize' = Sized(next + 1) /\ next' \in 1..11
  BY <1>1, <1>2, SizedProps DEF IInv
<1>4. (messageSize = Sized(next))'
  BY <1>1, <1>2, <1>3 DEF UpdateSize, Sized, Bytes, Fields
<1>5. QED
  BY <1>1, <1>3, <1>4, SameAttributes
     DEF UpdateSize, IInv, SizingInv, BufferInv, AddingInv, ParsingInv, SinkInv, ResultInv

LEMMA CreateBufferStep == IInv /\ CreateBuffer => IInv'
<1>1. SUFFICES ASSUME IInv, CreateBuffer PROVE IInv'
  OBVIOUS
<1>2. AttributesInv /\ AttributesInv' /\ next = 11 /\ messageSize = Sized(11) /\ phase' = "add" /\ next' = 1 /\ pos' = 0
  BY <1>1, Orders, SameAttributes DEF IInv, SizingInv, CreateBuffer
<1>3. message' \in [1..messageSize -> Cells] /\ \A i \in 1..messageSize : message'[i] = 0
  BY <1>1 DEF CreateBuffer, BufferSize, Cells
<1>4. BufferInv'
  <2>1. (messageSize = Sized(11))'
    BY <1>1, <1>2 DEF CreateBuffer, Sized, Bytes, Fields
  <2>2. messageSize' = messageSize /\ 1..(1 - 1) = {}
    BY <1>1 DEF CreateBuffer
  <2>3. Layout(next)'
    BY <1>2, <1>3, <2>2 DEF Layout
  <2>4. QED
    BY <1>1, <1>2, <1>3, <2>1, <2>3 DEF CreateBuffer, BufferInv
<1>5. AddingInv'
  <2>1. (Begin(next) = 0)'
    BY <1>2 DEF Begin, UpTo
  <2>2. QED
    BY <1>1, <1>2, <2>1 DEF IInv, SizingInv, CreateBuffer, AddingInv
<1>6. QED
  BY <1>1, <1>2, <1>4, <1>5 DEF IInv, SizingInv, ParsingInv, SinkInv, ResultInv

LEMMA AddTagStep == IInv /\ AddTag => IInv'
<1>1. SUFFICES ASSUME IInv, AddTag PROVE IInv'
  OBVIOUS
<1> DEFINE f == AddedOrder[next]
<1>2. /\ AttributesInv /\ phase = "add" /\ BufferInv /\ pos = Begin(next) /\ next \in 1..9
      /\ umap = <<>> /\ parsed = Nullopt /\ overread = FALSE
  BY <1>1, Orders DEF IInv, BufferInv, AddingInv, AddTag
<1>3. /\ UNCHANGED <<attributes, phase, messageSize, umap, parsed, overread>> /\ next' = next + 1
      /\ f \in Fields => /\ pos' = pos + Len(Record(f))
                         /\ message' = [i \in DOMAIN message |->
                              IF i - pos \in DOMAIN Record(f) THEN Record(f)[i - pos] ELSE message[i]]
      /\ f \notin Fields => /\ pos' = pos + Len(<<>>)
                            /\ message' = [i \in DOMAIN message |->
                                 IF i - pos \in DOMAIN <<>> THEN <<>>[i - pos] ELSE message[i]]
  BY <1>1 DEF AddTag
<1>4. /\ messageSize \in Nat /\ DOMAIN message = 1..messageSize /\ message \in [1..messageSize -> Cells]
      /\ Begin(10) <= messageSize /\ messageSize = Sized(11)
  BY <1>2, BufferEnds DEF BufferInv
<1>5. /\ Begin(next) \in Nat /\ Begin(next + 1) \in Nat /\ Begin(next + 1) = Begin(next) + Bytes(f) /\ Bytes(f) \in Nat
      /\ \A j \in 1..9 : j < next => Begin(j + 1) <= Begin(next)
  BY <1>2, Places
<1>6. f \in Fields => /\ DOMAIN Record(f) = 1..Bytes(f) /\ Len(Record(f)) = Bytes(f)
                      /\ \A i \in 1..Bytes(f) : Record(f)[i] \in Cells
  <2>1. ASSUME f \in Fields
        PROVE  DOMAIN Record(f) = 1..Bytes(f) /\ Len(Record(f)) = Bytes(f) /\ Record(f) \in Seq(Cells)
    BY <1>2, <2>1, RecordProps
  <2>2. ASSUME f \in Fields, NEW i \in 1..Bytes(f) PROVE Record(f)[i] \in Cells
    <3>1. Record(f) \in Seq(Cells) /\ i \in 1..Len(Record(f))
      BY <2>1, <2>2
    <3>2. QED
      BY <3>1, ElementOfSeq, Zenon
  <2>3. QED
    BY <2>1, <2>2
<1>7. f \notin Fields => Bytes(f) = 0
  BY DEF Bytes
<1> HIDE DEF f
<1>8. /\ DOMAIN message' = 1..messageSize
      /\ \A i \in 1..messageSize :
           message'[i] = IF f \in Fields /\ i - pos \in 1..Bytes(f) THEN Record(f)[i - pos] ELSE message[i]
  <2>1. CASE f \in Fields
    BY <1>3, <1>4, <1>6, <2>1
  <2>2. CASE f \notin Fields
    <3>1. DOMAIN <<>> = {}
      OBVIOUS
    <3>2. QED
      BY <1>3, <1>4, <2>2, <3>1
  <2>3. QED
    BY <2>1, <2>2
<1>9. pos' = Begin(next + 1)
  <2>1. CASE f \in Fields
    BY <1>2, <1>3, <1>5, <1>6, <2>1
  <2>2. CASE f \notin Fields
    <3>1. Len(<<>>) = 0
      OBVIOUS
    <3>2. QED
      BY <1>2, <1>3, <1>5, <1>7, <2>2, <3>1
  <2>3. QED
    BY <2>1, <2>2
<1>10. message' \in [1..messageSize -> Cells]
  <2>1. ASSUME NEW i \in 1..messageSize PROVE message'[i] \in Cells
    BY <1>4, <1>6, <1>8
  <2>2. message' = [i \in 1..messageSize |-> message'[i]]
    BY <1>3, <1>4, <1>8, Zenon
  <2>3. QED
    BY <2>1, <2>2

<1>11. ASSUME NEW k \in 1..next PROVE Written(k)'
  <2> DEFINE g == AddedOrder[k]
  <2>1. g \in Fields => \A i \in 1..Bytes(g) : message'[Begin(k) + i] = Record(g)[i]
    <3>1. SUFFICES ASSUME g \in Fields, NEW i \in 1..Bytes(g) PROVE message'[Begin(k) + i] = Record(g)[i]
      OBVIOUS
    <3>2. k \in 1..9 /\ k <= next
      BY <1>2
    <3>3. PICK b \in Nat, e \in Nat, m \in Nat : b = Begin(k) /\ e = Begin(k + 1) /\ m = Bytes(g) /\ e = b + m /\ e <= Begin(10)
      BY <1>2, <3>2, Places
    <3>4. i \in 1..m
      BY <3>1, <3>3
    <3>5. Begin(10) \in Nat
      BY <1>2, Places
    <3>6. PICK x \in 1..messageSize : x = b + i /\ x <= e
      <4>1. i \in Nat /\ 1 <= i /\ b + i <= e
        BY <3>3, <3>4
      <4>2. e <= messageSize /\ messageSize \in Nat
        BY <1>4, <3>3, <3>5
      <4>3. b + i \in 1..messageSize
        BY <4>1, <4>2
      <4>4. QED
        BY <4>1, <4>3
    <3>7. CASE k = next
      <4>1. x - pos = i
        BY <1>2, <3>3, <3>4, <3>6, <3>7
      <4>2. g = f
        BY <3>7 DEF f
      <4>3. message'[x] = Record(f)[x - pos]
        BY <1>8, <3>1, <4>1, <4>2
      <4>4. QED
        BY <3>3, <3>6, <4>1, <4>2, <4>3
    <3>8. CASE k < next
      <4>1. e <= pos /\ pos \in Nat
        BY <1>2, <1>5, <3>2, <3>3, <3>8
      <4>2. x - pos \notin 1..Bytes(f)
        BY <1>5, <3>3, <3>4, <3>6, <4>1
      <4>3. message'[x] = message[x]
        BY <1>8, <4>2
      <4>4. k \in 1..(next - 1)
        BY <1>2, <3>8
      <4>5. Written(k)
        BY <1>2, <4>4 DEF BufferInv, Layout
      <4>6. message[x] = Record(g)[i]
        BY <3>1, <3>3, <3>6, <4>5 DEF Written
      <4>7. QED
        BY <3>3, <3>6, <4>3, <4>6
    <3>9. k = next \/ k < next
      BY <1>2
    <3>10. QED
      BY <3>7, <3>8, <3>9
  <2>2. Fields' = Fields /\ Bytes(g)' = Bytes(g) /\ Begin(k)' = Begin(k) /\ Record(g)' = Record(g)
    BY <1>3, SameAttributes
  <2>3. QED
    BY <2>1, <2>2 DEF Written
<1>12. ASSUME NEW i \in 1..messageSize, i > Begin(next + 1) PROVE message'[i] = 0
  <2>1. i - pos \notin 1..Bytes(f) /\ i > Begin(next)
    BY <1>2, <1>5, <1>12
  <2>2. message[i] = 0
    BY <1>2, <2>1 DEF BufferInv, Layout
  <2>3. QED
    BY <1>8, <2>1, <2>2
<1>13. /\ AttributesInv' /\ messageSize' = messageSize /\ phase' = "add" /\ (Begin(next))' = Begin(next')
       /\ (Sized(11))' = Sized(11)
  <2>1. AttributesInv'
    BY <1>2, <1>3, SameAttributes
  <2>2. (Begin(next))' = Begin(next')
    BY <1>3 DEF Begin, UpTo, Bytes, Fields
  <2>3. QED
    BY <1>2, <1>3, <2>1, <2>2, SameAttributes
<1>14. BufferInv'
  <2>1. next' \in 1..10 /\ next' - 1 = next
    BY <1>2, <1>3
  <2>2. Layout(next)'
    BY <1>3, <1>11, <1>12, <1>13, <2>1 DEF Layout
  <2>3. QED
    BY <1>4, <1>10, <1>13, <2>1, <2>2 DEF BufferInv
<1>15. AddingInv'
  BY <1>2, <1>3, <1>9, <1>13 DEF AddingInv
<1>16. QED
  BY <1>2, <1>13, <1>14, <1>15 DEF IInv, SizingInv, ParsingInv, SinkInv, ResultInv

LEMMA ReceiveStep == IInv /\ Receive => IInv'
<1>1. SUFFICES ASSUME IInv, Receive PROVE IInv'
  OBVIOUS
<1>2. /\ AttributesInv /\ phase = "add" /\ BufferInv /\ next = 10 /\ umap = <<>> /\ parsed = Nullopt /\ overread = FALSE
      /\ messageSize \in Nat
  BY <1>1, Orders, BufferEnds DEF IInv, BufferInv, AddingInv, Receive
<1>3. /\ UNCHANGED <<attributes, next, messageSize, message, umap, parsed, overread>> /\ phase' = "parse" /\ pos' = 0
  BY <1>1 DEF Receive
<1>4. AttributesInv' /\ Fields' = Fields /\ \A k : Begin(k)' = Begin(k)
  BY <1>2, <1>3, SameAttributes
<1>5. BufferInv'
  <2>1. Sized(11)' = Sized(11) /\ \A k : Written(k) => Written(k)'
    BY <1>3, SameAttributes DEF Written
  <2>2. Layout(next)'
    BY <1>2, <1>3, <1>4, <2>1 DEF BufferInv, Layout
  <2>3. QED
    BY <1>2, <1>3, <2>1, <2>2 DEF BufferInv
<1>6. \A k \in 1..9 : AddedOrder[k] \in Fields => Begin(k + 1) > 0 /\ Begin(k) \in Nat /\ Begin(k + 1) \in Nat
  <2>1. ASSUME NEW k \in 1..9, AddedOrder[k] \in Fields PROVE Begin(k + 1) > 0 /\ Begin(k) \in Nat /\ Begin(k + 1) \in Nat
    <3>1. PICK b \in Nat, e \in Nat, n \in Nat : b = Begin(k) /\ e = Begin(k + 1) /\ e = b + (1 + Width + n)
      BY <1>2, <2>1, Places
    <3>2. e > 0
      BY <3>1, WidthPositive
    <3>3. QED
      BY <3>1, <3>2
  <2>2. QED
    BY <2>1
<1>7. Begin(10) > 0 /\ Begin(10) \in Nat
  <2>1. AddedOrder[1] \in Fields /\ 1 \in 1..9 /\ 2 \in 1..10 /\ 10 \in 1..10 /\ 1 + 1 = 2 /\ 2 <= 10
    BY <1>2, Orders DEF AttributesInv, Required
  <2>2. Begin(2) > 0 /\ Begin(2) \in Nat
    BY <1>6, <2>1
  <2>3. Begin(2) <= Begin(10) /\ Begin(10) \in Nat
    BY <1>2, <2>1, BeginProps
  <2>4. QED
    BY <2>2, <2>3
<1>8. ParsingInv'
  <2>1. \A k \in 1..9 : AddedOrder[k] \in Fields => ~(Begin(k + 1) <= 0) /\ 0 <= Begin(k)
    BY <1>6
  <2>2. DOMAIN <<>> = {} /\ 0 \in 0..messageSize
    BY <1>2
  <2>3. QED
    BY <1>2, <1>3, <1>4, <2>1, <2>2 DEF ParsingInv
<1>9. SinkInv'
  BY <1>3, <1>4, <1>7 DEF SinkInv
<1>10. QED
  BY <1>2, <1>3, <1>4, <1>5, <1>8, <1>9 DEF IInv, SizingInv, AddingInv, ResultInv

(* What the parser finds where the record of a field begins.               *)
LEMMA RecordFound ==
  ASSUME AttributesInv, BufferInv, phase # "size", next = 10, NEW k \in 1..9, NEW f, f = AddedOrder[k], f \in Fields
  PROVE  /\ message[Begin(k) + 1] = TagOf(f) /\ message[Begin(k) + 2] = attributes[f]
         /\ \A i \in 1..attributes[f] : message[Begin(k) + 1 + Width + i] = <<f, i>>
<1>1. PICK b \in Nat, n \in Nat, m \in Nat : b = Begin(k) /\ n = attributes[f] /\ m = Bytes(f) /\ m = 1 + Width + n
  BY Places
<1>2. \A i \in 1..m : message[b + i] = Record(f)[i]
  <2>1. k \in 1..(next - 1)
    OBVIOUS
  <2>2. Written(k)
    BY <2>1 DEF BufferInv, Layout
  <2>3. QED
    BY <1>1, <2>2 DEF Written
<1>3. Record(f)[1] = TagOf(f) /\ Record(f)[2] = n /\ \A i \in 1..n : Record(f)[1 + Width + i] = <<f, i>>
  BY <1>1, RecordProps
<1>4. 1 \in 1..m /\ 2 \in 1..m
  BY <1>1, WidthPositive
<1>5. message[b + 1] = TagOf(f) /\ message[b + 2] = n
  BY <1>2, <1>3, <1>4
<1>6. ASSUME NEW i \in 1..n PROVE message[b + 1 + Width + i] = <<f, i>>
  <2>1. PICK j \in 1..m : j = 1 + Width + i /\ b + j = b + 1 + Width + i
    BY <1>1, WidthPositive
  <2>2. message[b + j] = Record(f)[j]
    BY <1>2
  <2>3. Record(f)[j] = <<f, i>>
    BY <1>3, <2>1
  <2>4. QED
    BY <2>1, <2>2, <2>3
<1>7. /\ message[Begin(k) + 1] = TagOf(f) /\ message[Begin(k) + 2] = attributes[f]
      /\ \A i \in 1..attributes[f] : message[Begin(k) + 1 + Width + i] = <<f, i>>
  BY <1>1, <1>5, <1>6, Zenon
<1>8. QED
  BY <1>7

(* Before the zeros the parser always stands at the record of a field.     *)
LEMMA AtRecord ==
  ASSUME AttributesInv, ParsingInv, phase = "parse", messageSize \in Nat, pos < Begin(10)
  PROVE  \E k \in 1..9 : AddedOrder[k] \in Fields /\ pos = Begin(k)
<1>1. pos \in Nat /\ Begin(1) <= pos
  BY BeginProps DEF ParsingInv
<1>2. \E k \in 1..9 : Begin(k) <= pos /\ pos < Begin(k + 1)
  <2> DEFINE behind(k) == Begin(k) <= pos
  <2>1. \A k \in 1..9 : Begin(k) \in Nat /\ Begin(k + 1) \in Nat
    BY Places
  <2>2. SUFFICES ASSUME \A k \in 1..9 : behind(k) => behind(k + 1) PROVE behind(10)
    <3>1. \A k \in 1..9 : Begin(k + 1) \in Nat
      BY <2>1
    <3>2. ~behind(10)
      BY <1>1, BeginProps
    <3>3. \A k \in 1..9 : ~behind(k + 1) => pos < Begin(k + 1)
      BY <1>1, <2>1
    <3>4. QED
      BY <3>2, <3>3
  <2> HIDE DEF behind
  <2>3. behind(1)
    BY <1>1 DEF behind
  <2>4. behind(2) /\ behind(3) /\ behind(4)
    BY <2>2, <2>3
  <2>5. behind(5) /\ behind(6) /\ behind(7)
    BY <2>2, <2>4
  <2>6. behind(8) /\ behind(9) /\ behind(10)
    BY <2>2, <2>5
  <2>7. QED
    BY <2>6
<1>3. PICK k \in 1..9 : Begin(k) <= pos /\ pos < Begin(k + 1)
  BY <1>2
<1>4. Begin(k) \in Nat /\ Begin(k + 1) \in Nat /\ Begin(k + 1) = Begin(k) + Bytes(AddedOrder[k])
  BY Places
<1>5. AddedOrder[k] \in Fields
  <2>1. Bytes(AddedOrder[k]) # 0
    BY <1>1, <1>3, <1>4
  <2>2. QED
    BY <2>1 DEF Bytes
<1>6. pos <= Begin(k)
  BY <1>1, <1>3, <1>4, <1>5 DEF ParsingInv
<1>7. pos = Begin(k)
  BY <1>1, <1>3, <1>4, <1>6
<1>8. QED
  BY <1>5, <1>7

(* A record is read whole, and its value is the field's.                   *)
LEMMA ReadField ==
  ASSUME IInv, ReadRecord, pos < Begin(10)
  PROVE  \E k \in 1..9 :
           /\ AddedOrder[k] \in Fields /\ pos = Begin(k) /\ pos' = Begin(k + 1)
           /\ overread' = overread /\ phase' = "parse"
           /\ umap' = [t \in DOMAIN umap \cup {TagOf(AddedOrder[k])} |->
                         IF t = TagOf(AddedOrder[k]) THEN ValueOf(AddedOrder[k]) ELSE umap[t]]
<1>1. /\ AttributesInv /\ phase = "parse" /\ BufferInv /\ ParsingInv /\ next = 10
      /\ messageSize \in Nat /\ Size = messageSize /\ Begin(10) <= messageSize /\ overread \in BOOLEAN
  BY BufferEnds DEF IInv, ParsingInv, ReadRecord
<1>2. PICK k \in 1..9 : AddedOrder[k] \in Fields /\ pos = Begin(k)
  BY <1>1, AtRecord
<1> DEFINE f == AddedOrder[k]
<1>3. PICK n \in Nat, w \in Nat \ {0}, e \in Nat, p \in Nat :
         n = attributes[f] /\ w = Width /\ e = Begin(k + 1) /\ p = pos /\ e = p + 1 + w + n /\ e <= messageSize
  <2>1. /\ Begin(k) \in Nat /\ Begin(k + 1) \in Nat /\ Begin(10) \in Nat /\ attributes[f] \in Nat /\ Width \in Nat \ {0}
        /\ Begin(k + 1) = Begin(k) + (1 + Width + attributes[f]) /\ Begin(k + 1) <= Begin(10)
    BY <1>1, <1>2, Places
  <2>2. Begin(k + 1) <= messageSize
    BY <1>1, <2>1
  <2>3. Begin(k + 1) = pos + 1 + Width + attributes[f]
    BY <1>2, <2>1
  <2>4. QED
    BY <1>2, <2>1, <2>2, <2>3
<1>4. /\ message[p + 1] = TagOf(f) /\ message[p + 2] = n /\ TagOf(f) \in 1..10
      /\ \A i \in 1..n : message[p + 1 + w + i] = <<f, i>>
  <2>1. message[Begin(k) + 1] = TagOf(f) /\ message[Begin(k) + 2] = attributes[f]
    BY <1>1, <1>2, RecordFound
  <2>2. \A i \in 1..attributes[f] : message[Begin(k) + 1 + Width + i] = <<f, i>>
    BY <1>1, <1>2, RecordFound
  <2>3. QED
    BY <1>2, <1>3, <2>1, <2>2, TagsApart
<1> DEFINE tag == TagOf(f)
<1> HIDE DEF f
<1>5. IsValidTag(message[pos + 1]) /\ message[pos + 1] = tag
  BY <1>3, <1>4 DEF IsValidTag
<1>6. Size >= pos + 1 + Width
  BY <1>1, <1>3
<1>7. /\ pos' = pos + 1 + Width + LengthAt(pos + 1) /\ overread' = (overread \/ Size < pos') /\ phase' = "parse"
      /\ umap' = [t \in DOMAIN umap \cup {tag} |->
                    IF t = tag THEN [i \in 1..(pos' - (pos + 1 + Width)) |-> Cell(pos + 1 + Width + i - 1)] ELSE umap[t]]
  <2>1. ReadRecord
    OBVIOUS
  <2>2. IsValidTag(message[pos + 1]) /\ ~(Size < pos + 1 + Width)
    BY <1>1, <1>3, <1>5, <1>6
  <2>3. QED
    BY <1>1, <1>5, <2>1, <2>2 DEF ReadRecord
<1>8. LengthAt(pos + 1) = n
  <2>1. p + 1 + 1 = p + 2
    OBVIOUS
  <2>2. QED
    BY <1>3, <1>4, <2>1 DEF LengthAt
<1>9. pos' = e /\ pos' - (pos + 1 + Width) = n
  BY <1>3, <1>7, <1>8
<1>10. overread' = overread
  BY <1>1, <1>3, <1>7, <1>9
<1>11. [i \in 1..n |-> Cell(pos + 1 + Width + i - 1)] = ValueOf(f)
  <2>1. ASSUME NEW i \in 1..n PROVE Cell(pos + 1 + Width + i - 1) = <<f, i>>
    <3>1. PICK j \in Nat : j = p + w + i /\ j < messageSize /\ pos + 1 + Width + i - 1 = j /\ j + 1 = p + 1 + w + i
      <4>1. p + w + i \in Nat /\ p + w + i < messageSize
        BY <1>1, <1>3
      <4>2. p + 1 + w + i - 1 = p + w + i /\ p + w + i + 1 = p + 1 + w + i
        OBVIOUS
      <4>3. QED
        BY <1>3, <4>1, <4>2
    <3>2. message[j + 1] = <<f, i>>
      BY <1>4, <3>1
    <3>3. QED
      BY <1>1, <3>1, <3>2 DEF Cell
  <2>2. QED
    BY <1>3, <2>1 DEF ValueOf
<1>12. umap' = [t \in DOMAIN umap \cup {tag} |-> IF t = tag THEN ValueOf(f) ELSE umap[t]]
  BY <1>7, <1>9, <1>11, Zenon
<1>13. QED
  BY <1>2, <1>3, <1>7, <1>9, <1>10, <1>12 DEF f

LEMMA ReadFieldStep ==
  ASSUME IInv, ReadRecord, pos < Begin(10)
  PROVE  IInv'
<1>1. /\ AttributesInv /\ phase = "parse" /\ BufferInv /\ ParsingInv /\ next = 10 /\ parsed = Nullopt
      /\ messageSize \in Nat /\ Begin(10) <= messageSize /\ messageSize = Begin(10) + Bytes("SINK")
  BY BufferEnds DEF IInv, ParsingInv, ResultInv, ReadRecord
<1>2. UNCHANGED <<attributes, next, messageSize, message, parsed>>
  BY DEF ReadRecord
<1>3. PICK k \in 1..9 :
           /\ AddedOrder[k] \in Fields /\ pos = Begin(k) /\ pos' = Begin(k + 1)
           /\ overread' = overread /\ phase' = "parse"
           /\ umap' = [t \in DOMAIN umap \cup {TagOf(AddedOrder[k])} |->
                         IF t = TagOf(AddedOrder[k]) THEN ValueOf(AddedOrder[k]) ELSE umap[t]]
  BY ReadField
<1>4. /\ AttributesInv' /\ Fields' = Fields /\ \A j : Begin(j)' = Begin(j) /\ \A g : ValueOf(g)' = ValueOf(g)
  BY <1>1, <1>2, SameAttributes
<1>5. BufferInv'
  <2>1. Sized(11)' = Sized(11) /\ \A j : Written(j) => Written(j)'
    BY <1>2, SameAttributes DEF Written
  <2>2. Layout(next)'
    BY <1>1, <1>2, <1>4, <2>1 DEF BufferInv, Layout
  <2>3. QED
    BY <1>1, <1>2, <1>3, <2>1, <2>2 DEF BufferInv
<1>6. Begin(k) \in Nat /\ Begin(k + 1) \in Nat /\ Begin(10) \in Nat /\ Begin(k + 1) <= Begin(10) /\ Begin(k) <= Begin(k + 1)
  <2>1. /\ Begin(k) \in Nat /\ Begin(k + 1) \in Nat /\ Begin(10) \in Nat /\ Begin(k + 1) <= Begin(10)
        /\ Begin(k + 1) = Begin(k) + Bytes(AddedOrder[k]) /\ Bytes(AddedOrder[k]) \in Nat
    BY <1>1, Places
  <2>2. QED
    BY <2>1
<1>7. ASSUME NEW j \in 1..9, AddedOrder[j] \in Fields
      PROVE  IF Begin(j + 1) <= pos'
             THEN /\ TagOf(AddedOrder[j]) \in DOMAIN umap'
                  /\ umap'[TagOf(AddedOrder[j])] = ValueOf(AddedOrder[j])
             ELSE pos' <= Begin(j)
  <2>1. CASE j = k
    BY <1>3, <1>6, <2>1
  <2>2. CASE j < k
    <3>1. Begin(j + 1) <= pos
      BY <1>1, <1>3, <2>2, Places
    <3>2. Begin(j + 1) \in Nat
      BY <1>1, Places
    <3>3. Begin(j + 1) <= pos'
      BY <1>3, <1>6, <3>1, <3>2
    <3>4. TagOf(AddedOrder[j]) \in DOMAIN umap /\ umap[TagOf(AddedOrder[j])] = ValueOf(AddedOrder[j])
      BY <1>1, <1>7, <3>1 DEF ParsingInv
    <3>5. TagOf(AddedOrder[j]) # TagOf(AddedOrder[k])
      BY <2>2, TagsApart
    <3>6. QED
      BY <1>3, <3>3, <3>4, <3>5
  <2>3. CASE j > k
    <3>1. Begin(k + 1) <= Begin(j)
      BY <1>1, <2>3, Places
    <3>2. PICK b \in Nat, e \in Nat, n \in Nat : b = Begin(j) /\ e = Begin(j + 1) /\ e = b + (1 + Width + n)
      BY <1>1, <1>7, Places
    <3>3. e > b
      BY <3>2, WidthPositive
    <3>4. ~(Begin(j + 1) <= pos') /\ pos' <= Begin(j)
      BY <1>3, <1>6, <3>1, <3>2, <3>3
    <3>5. QED
      BY <3>4
  <2>4. j = k \/ j < k \/ j > k
    OBVIOUS
  <2>5. QED
    BY <2>1, <2>2, <2>3, <2>4
<1>8. ParsingInv'
  <2>1. pos' \in 0..messageSize
    BY <1>1, <1>3, <1>6
  <2>2. \A t \in DOMAIN umap' : t \in DOMAIN umap \/ t = TagOf(AddedOrder[k])
    BY <1>3
  <2>3. \A t \in DOMAIN umap' : \/ t = 0 /\ "SINK" \in Fields
                                \/ \E j \in 1..9 : AddedOrder[j] \in Fields /\ t = TagOf(AddedOrder[j])
    BY <1>1, <1>3, <2>2 DEF ParsingInv
  <2>4. overread' \in BOOLEAN /\ (overread' => "SINK" \in Fields)
    BY <1>1, <1>3 DEF ParsingInv
  <2>5. (\A j \in 1..9 : AddedOrder[j] \in Fields =>
           IF Begin(j + 1) <= pos
           THEN TagOf(AddedOrder[j]) \in DOMAIN umap /\ umap[TagOf(AddedOrder[j])] = ValueOf(AddedOrder[j])
           ELSE pos <= Begin(j))'
    BY <1>4, <1>7
  <2>6. QED
    BY <1>1, <1>2, <1>3, <1>4, <2>1, <2>3, <2>4, <2>5 DEF ParsingInv
<1>9. SinkInv'
  <2>1. SUFFICES ASSUME "SINK" \in Fields, Begin(10) <= pos'
                 PROVE  (messageSize - pos') % (1 + Width) = attributes["SINK"] % (1 + Width)
    BY <1>2, <1>3, <1>4 DEF SinkInv
  <2>2. PICK n \in Nat, d \in Nat \ {0} : n = attributes["SINK"] /\ d = 1 + Width
    BY <1>1, <2>1, WidthPositive DEF AttributesInv
  <2>3. Bytes("SINK") = n + d
    BY <2>1, <2>2, WidthPositive DEF Bytes
  <2>4. pos' = Begin(10)
    BY <1>3, <1>6, <2>1
  <2>5. messageSize - pos' = n + d
    BY <1>1, <1>6, <2>2, <2>3, <2>4
  <2>6. QED
    BY <2>2, <2>5, ModShift
<1>10. QED
  BY <1>1, <1>2, <1>3, <1>4, <1>5, <1>8, <1>9 DEF IInv, SizingInv, AddingInv, ResultInv

(* In the zeros left for the sink each record is empty, and of tag 0.      *)
LEMMA ReadZerosStep ==
  ASSUME IInv, ReadRecord, ~(pos < Begin(10))
  PROVE  IInv'
<1>1. /\ AttributesInv /\ phase = "parse" /\ BufferInv /\ ParsingInv /\ SinkInv /\ next = 10 /\ parsed = Nullopt
      /\ messageSize \in Nat /\ Size = messageSize
  BY BufferEnds DEF IInv, ParsingInv, ResultInv, ReadRecord
<1>2. UNCHANGED <<attributes, next, messageSize, message, parsed>> /\ Size > pos
  BY DEF ReadRecord
<1>3. Begin(10) \in Nat /\ pos \in Nat /\ pos < messageSize /\ Begin(10) <= pos /\ "SINK" \in Fields
  <2>1. Begin(10) \in Nat
    BY <1>1, BeginProps
  <2>2. pos \in Nat
    BY <1>1 DEF ParsingInv
  <2>3. QED
    BY <1>1, <1>2, <2>1, <2>2, BufferEnds
<1>4. /\ AttributesInv' /\ Fields' = Fields /\ \A j : Begin(j)' = Begin(j) /\ \A g : ValueOf(g)' = ValueOf(g)
  BY <1>1, <1>2, SameAttributes
<1>5. Sized(11)' = Sized(11) /\ Layout(next)'
  <2>1. Sized(11)' = Sized(11) /\ \A j : Written(j) => Written(j)'
    BY <1>2, SameAttributes DEF Written
  <2>2. Layout(next)'
    BY <1>1, <1>2, <1>4, <2>1 DEF BufferInv, Layout
  <2>3. QED
    BY <2>1, <2>2
<1>6. \A i \in 1..messageSize : i > Begin(10) => message[i] = 0
  BY <1>1 DEF BufferInv, Layout
<1>7. message[pos + 1] = 0
  <2>1. pos + 1 \in 1..messageSize /\ pos + 1 > Begin(10)
    BY <1>1, <1>3
  <2>2. QED
    BY <1>6, <2>1
<1>8. IsValidTag(0)
  BY DEF IsValidTag
<1>9. CASE Size < pos + 1 + Width
  <2>1. overread' = TRUE /\ phase' = "done" /\ pos' = pos /\ umap' = umap
    <3>1. ~(Size >= pos + 1 + Width)
      BY <1>1, <1>3, <1>9, WidthPositive
    <3>2. ReadRecord
      OBVIOUS
    <3>3. QED
      BY <1>7, <1>8, <3>1, <3>2 DEF ReadRecord
  <2>2. messageSize - pos \in 1..Width
    BY <1>1, <1>3, <1>9, WidthPositive
  <2>3. BufferInv'
    BY <1>1, <1>2, <1>5, <2>1 DEF BufferInv
  <2>4. ParsingInv'
    BY <1>1, <1>2, <1>3, <1>4, <2>1 DEF ParsingInv
  <2>5. SinkInv'
    BY <1>1, <1>2, <1>4, <2>1 DEF SinkInv
  <2>6. ResultInv'
    BY <1>1, <1>2, <1>3, <1>4, <2>1, <2>2 DEF ResultInv
  <2>7. QED
    BY <1>4, <2>1, <2>3, <2>4, <2>5, <2>6 DEF IInv, SizingInv, AddingInv
<1>10. CASE ~(Size < pos + 1 + Width)
  <2>1. /\ pos' = pos + 1 + Width + LengthAt(pos + 1) /\ overread' = (overread \/ Size < pos') /\ phase' = "parse"
        /\ DOMAIN umap' = DOMAIN umap \cup {0}
        /\ \A t \in DOMAIN umap : t # 0 => umap'[t] = umap[t]
    <3>1. ReadRecord
      OBVIOUS
    <3>2. QED
      BY <1>1, <1>7, <1>8, <1>10, <3>1 DEF ReadRecord
  <2>2. LengthAt(pos + 1) = 0
    <3>1. pos + 2 \in 1..messageSize /\ pos + 2 > Begin(10) /\ pos + 1 + 1 = pos + 2
      BY <1>1, <1>3, <1>10, WidthPositive
    <3>2. message[pos + 2] = 0
      BY <1>6, <3>1
    <3>3. QED
      BY <3>1, <3>2 DEF LengthAt
  <2>3. pos' = pos + (1 + Width) /\ pos' \in 0..messageSize /\ pos' >= pos /\ pos' \in Nat
    BY <1>1, <1>3, <1>10, <2>1, <2>2, WidthPositive
  <2>4. overread' = overread
    BY <1>1, <2>1, <2>3 DEF ParsingInv
  <2>5. BufferInv'
    BY <1>1, <1>2, <1>5, <2>1 DEF BufferInv
  <2>6. ASSUME NEW k \in 1..9, AddedOrder[k] \in Fields
        PROVE  /\ Begin(k + 1) <= pos' /\ TagOf(AddedOrder[k]) \in DOMAIN umap'
               /\ umap'[TagOf(AddedOrder[k])] = ValueOf(AddedOrder[k])
    <3>1. Begin(k + 1) <= pos /\ Begin(k + 1) <= pos'
      <4>1. Begin(k + 1) \in Nat /\ Begin(k + 1) <= Begin(10)
        BY <1>1, Places
      <4>2. QED
        BY <1>3, <2>3, <4>1
    <3>2. TagOf(AddedOrder[k]) \in DOMAIN umap /\ umap[TagOf(AddedOrder[k])] = ValueOf(AddedOrder[k])
      BY <1>1, <2>6, <3>1 DEF ParsingInv
    <3>3. TagOf(AddedOrder[k]) # 0
      BY TagsApart
    <3>4. QED
      BY <2>1, <3>1, <3>2, <3>3
  <2>7. ParsingInv'
    <3>1. (\A k \in 1..9 : AddedOrder[k] \in Fields =>
             IF Begin(k + 1) <= pos
             THEN TagOf(AddedOrder[k]) \in DOMAIN umap /\ umap[TagOf(AddedOrder[k])] = ValueOf(AddedOrder[k])
             ELSE pos <= Begin(k))'
      BY <1>4, <2>6
    <3>2. \A t \in DOMAIN umap' : \/ t = 0 /\ "SINK" \in Fields
                                  \/ \E k \in 1..9 : AddedOrder[k] \in Fields /\ t = TagOf(AddedOrder[k])
      BY <1>1, <1>3, <2>1 DEF ParsingInv
    <3>3. QED
      BY <1>1, <1>2, <1>3, <1>4, <2>1, <2>3, <2>4, <3>1, <3>2 DEF ParsingInv
  <2>8. SinkInv'
    <3>1. PICK d \in Nat \ {0} : d = 1 + Width
      BY WidthPositive
    <3>2. PICK a \in Nat : a = messageSize - pos'
      BY <1>1, <2>3
    <3>3. messageSize - pos = a + d
      BY <1>1, <1>3, <2>3, <3>1, <3>2
    <3>4. (messageSize - pos) % d = attributes["SINK"] % d
      BY <1>1, <1>3, <3>1 DEF SinkInv
    <3>5. (messageSize - pos') % d = attributes["SINK"] % d
      BY <3>2, <3>3, <3>4, ModShift
    <3>6. QED
      BY <1>2, <3>1, <3>5 DEF SinkInv
  <2>9. QED
    BY <1>1, <1>2, <1>4, <2>1, <2>5, <2>7, <2>8 DEF IInv, SizingInv, AddingInv, ResultInv
<1>11. QED
  BY <1>9, <1>10

LEMMA GetAttributesStep == IInv /\ GetAttributes => IInv'
<1>1. SUFFICES ASSUME IInv, GetAttributes PROVE IInv'
  OBVIOUS
<1>2. /\ AttributesInv /\ phase = "parse" /\ BufferInv /\ ParsingInv /\ SinkInv /\ next = 10
      /\ messageSize \in Nat /\ Size = messageSize /\ Begin(10) <= messageSize /\ Begin(10) \in Nat
  BY <1>1, BufferEnds, BeginProps DEF IInv, ParsingInv, GetAttributes
<1>3. UNCHANGED <<attributes, next, messageSize, message, pos, umap, overread>> /\ phase' = "done" /\ pos = messageSize
  BY <1>1, <1>2 DEF GetAttributes, ParsingInv
<1>4. /\ AttributesInv' /\ Fields' = Fields /\ \A j : Begin(j)' = Begin(j) /\ \A g : ValueOf(g)' = ValueOf(g)
  BY <1>2, <1>3, SameAttributes
<1>5. ASSUME NEW k \in 1..9
      PROVE  /\ AddedOrder[k] \in Fields => Tlv(AddedOrder[k]) = ValueOf(AddedOrder[k])
             /\ Has(AddedOrder[k]) <=> AddedOrder[k] \in Fields
  <2>1. ASSUME AddedOrder[k] \in Fields
        PROVE  Has(AddedOrder[k]) /\ Tlv(AddedOrder[k]) = ValueOf(AddedOrder[k])
    <3>1. Begin(k + 1) \in Nat /\ Begin(k + 1) <= Begin(10)
      BY <1>2, Places
    <3>2. Begin(k + 1) <= pos
      BY <1>2, <1>3, <3>1
    <3>3. QED
      BY <1>2, <2>1, <3>2 DEF ParsingInv, Has, Tlv
  <2>2. ASSUME Has(AddedOrder[k])
        PROVE  AddedOrder[k] \in Fields
    <3>1. TagOf(AddedOrder[k]) # 0
      BY TagsApart
    <3>2. PICK j \in 1..9 : AddedOrder[j] \in Fields /\ TagOf(AddedOrder[k]) = TagOf(AddedOrder[j])
      BY <1>2, <2>2, <3>1 DEF ParsingInv, Has
    <3>3. j = k
      BY <3>2, TagsApart
    <3>4. QED
      BY <3>2, <3>3
  <2>3. QED
    BY <2>1, <2>2
<1>6. /\ \A f \in Required : f \in Fields /\ Has(f) /\ Tlv(f) = ValueOf(f)
      /\ \A f \in {"TTL", "PLEVEL", "COMMSTATUS"} : /\ Has(f) <=> f \in Fields
                                                    /\ f \in Fields => Tlv(f) = ValueOf(f)
  <2>1. Required \subseteq Fields
    BY <1>2 DEF AttributesInv
  <2>2. \A f \in Required \cup {"TTL", "PLEVEL", "COMMSTATUS"} : \E k \in 1..9 : f = AddedOrder[k]
    <3>1. 1 \in 1..9 /\ 2 \in 1..9 /\ 3 \in 1..9 /\ 4 \in 1..9 /\ 7 \in 1..9 /\ 8 \in 1..9
      OBVIOUS
    <3>2. QED
      BY <3>1, Orders DEF Required
  <2>3. ASSUME NEW f \in Required \cup {"TTL", "PLEVEL", "COMMSTATUS"}
        PROVE  (Has(f) <=> f \in Fields) /\ (f \in Fields => Tlv(f) = ValueOf(f))
    <3>1. PICK k \in 1..9 : f = AddedOrder[k]
      BY <2>2
    <3>2. QED
      BY <1>5, <3>1
  <2>4. QED
    BY <2>1, <2>3
<1>7. Rebuilt = {"TTL", "PLEVEL", "COMMSTATUS"} \cap Fields
  BY <1>6 DEF Rebuilt
<1>8. parsed' = [f \in Required \cup Rebuilt |->
                   IF f = "TTL" THEN AsInt32(Tlv("ID"))
                   ELSE IF f \in Required THEN Tlv(f) ELSE AsInt32(Tlv(f))]
  BY <1>1, <1>6 DEF GetAttributes
<1>9. DOMAIN parsed' = Required \cup ({"TTL", "PLEVEL", "COMMSTATUS"} \cap Fields)
  BY <1>7, <1>8
<1>10. ASSUME NEW f \in DOMAIN parsed' \ {"TTL"} PROVE parsed'[f] = ValueOf(f)
  <2>1. f \in Required \cup Rebuilt /\ f # "TTL"
    BY <1>8
  <2>2. CASE f \in Required
    BY <1>6, <1>8, <2>1, <2>2
  <2>3. CASE f \notin Required
    <3>1. f \in {"PLEVEL", "COMMSTATUS"} \cap Fields
      BY <1>7, <2>1, <2>3
    <3>2. attributes[f] = 4
      BY <1>2, <3>1 DEF AttributesInv, Int32
    <3>3. ValueOf(f) = [i \in 1..4 |-> <<f, i>>]
      BY <3>2 DEF ValueOf
    <3>4. AsInt32(ValueOf(f)) = ValueOf(f)
      BY <3>3 DEF AsInt32, Int32
    <3>5. parsed'[f] = AsInt32(Tlv(f))
      BY <1>8, <2>1, <2>3
    <3>6. QED
      BY <1>6, <3>1, <3>4, <3>5
  <2>4. QED
    BY <2>2, <2>3
<1>11. parsed' # Nullopt
  <2>1. "ID" \in DOMAIN parsed'
    BY <1>9 DEF Required
  <2>2. DOMAIN Nullopt = {"nullopt"}
    BY DEF Nullopt
  <2>3. QED
    BY <2>1, <2>2
<1>12. BufferInv'
  <2>1. Sized(11)' = Sized(11) /\ \A j : Written(j) => Written(j)'
    BY <1>3, SameAttributes DEF Written
  <2>2. Layout(next)'
    BY <1>2, <1>3, <1>4, <2>1 DEF BufferInv, Layout
  <2>3. QED
    BY <1>2, <1>3, <2>1, <2>2 DEF BufferInv
<1>13. ParsingInv'
  BY <1>2, <1>3, <1>4 DEF ParsingInv
<1>14. SinkInv'
  BY <1>2, <1>3, <1>4 DEF SinkInv
<1>15. ResultInv'
  <2>1. (\A f \in DOMAIN parsed \ {"TTL"} : parsed[f] = ValueOf(f))'
    BY <1>4, <1>10
  <2>2. QED
    BY <1>3, <1>4, <1>9, <1>11, <2>1 DEF ResultInv
<1>16. QED
  BY <1>3, <1>4, <1>12, <1>13, <1>14, <1>15 DEF IInv, SizingInv, AddingInv

LEMMA UnchangedStep == IInv /\ UNCHANGED vars => IInv'
<1>1. SUFFICES ASSUME IInv, UNCHANGED vars PROVE IInv'
  OBVIOUS
<1>2. UNCHANGED <<attributes, phase, next, messageSize, message, pos, umap, parsed, overread>>
  BY <1>1 DEF vars
<1>3. /\ AttributesInv' /\ Fields' = Fields /\ \A j : Begin(j)' = Begin(j) /\ \A g : ValueOf(g)' = ValueOf(g)
      /\ \A j : Sized(j)' = Sized(j) /\ (Written(j) => Written(j)')
  BY <1>1, <1>2, SameAttributes DEF IInv, Written
<1>4. SizingInv' /\ BufferInv' /\ AddingInv'
  <2>1. (messageSize = Sized(next) => (messageSize = Sized(next))') /\ (pos = Begin(next) => (pos = Begin(next))')
    BY <1>2 DEF Sized, Begin, Bytes, Fields
  <2>2. Layout(next) => Layout(next)'
    <3>1. Begin(next)' = Begin(next)
      BY <1>2 DEF Begin, Bytes, Fields
    <3>2. QED
      BY <1>2, <1>3, <3>1 DEF Layout
  <2>3. SizingInv' /\ AddingInv'
    BY <1>1, <1>2, <2>1 DEF IInv, SizingInv, AddingInv
  <2>4. BufferInv'
    BY <1>1, <1>2, <1>3, <2>2 DEF IInv, BufferInv
  <2>5. QED
    BY <2>3, <2>4
<1>5. ParsingInv' /\ SinkInv' /\ ResultInv'
  <2>1. ParsingInv'
    BY <1>1, <1>2, <1>3 DEF IInv, ParsingInv
  <2>2. SinkInv' /\ ResultInv'
    BY <1>1, <1>2, <1>3 DEF IInv, SinkInv, ResultInv
  <2>3. QED
    BY <2>1, <2>2
<1>6. QED
  BY <1>1, <1>2, <1>3, <1>4, <1>5 DEF IInv

LEMMA Invariant == Spec => []IInv
<1>1. ASSUME IInv, [Next]_vars PROVE IInv'
  <2>1. CASE ReadRecord
    BY <1>1, <2>1, ReadFieldStep, ReadZerosStep
  <2>2. CASE UpdateSize \/ CreateBuffer \/ AddTag
    BY <1>1, <2>2, UpdateSizeStep, CreateBufferStep, AddTagStep
  <2>3. CASE Receive \/ GetAttributes
    BY <1>1, <2>3, ReceiveStep, GetAttributesStep
  <2>4. CASE UNCHANGED vars
    BY <1>1, <2>4, UnchangedStep
  <2>5. QED
    BY <1>1, <2>1, <2>2, <2>3, <2>4 DEF Next, Done
<1>2. QED
  BY Initially, <1>1, PTL DEF Spec

-----------------------------------------------------------------------------
(* The theorems *)

(* The header, the positions in it and what was parsed always have their   *)
(* types (TypeOK), whichever attributes are set.                           *)
THEOREM TypeCorrect == Spec => []TypeOK
<1>1. IInv => TypeOK
  <2>1. SUFFICES ASSUME IInv PROVE TypeOK
    OBVIOUS
  <2>2. /\ Required \subseteq Fields /\ Fields \subseteq Required \cup Optional
        /\ phase \in {"size", "add", "parse", "done"} /\ next \in 1..(Len(SizedOrder) + 1)
    BY <2>1, Orders DEF IInv, AttributesInv, SizingInv, BufferInv
  <2>3. messageSize \in Nat /\ Size \in {0, messageSize}
    <3>1. CASE phase = "size"
      <4>1. Len(<<>>) = 0
        OBVIOUS
      <4>2. QED
        BY <2>1, <3>1, <4>1, SizedProps DEF IInv, SizingInv, Size
    <3>2. CASE phase # "size"
      BY <2>1, <3>2, BufferEnds DEF IInv
    <3>3. QED
      BY <3>1, <3>2
  <2>4. pos \in Nat
    <3>1. CASE phase = "size"
      BY <2>1, <3>1 DEF IInv, SizingInv
    <3>2. CASE phase = "add"
      BY <2>1, <3>2, BeginProps DEF IInv, AddingInv, BufferInv
    <3>3. CASE phase \in {"parse", "done"}
      BY <2>1, <2>3, <3>3 DEF IInv, ParsingInv
    <3>4. QED
      BY <2>2, <3>1, <3>2, <3>3
  <2>5. DOMAIN umap \subseteq 0..11
    <3>1. DOMAIN <<>> = {}
      OBVIOUS
    <3>2. CASE phase \in {"size", "add"}
      BY <2>1, <3>1, <3>2 DEF IInv, SizingInv, AddingInv
    <3>3. CASE phase \in {"parse", "done"}
      <4>1. ASSUME NEW n \in DOMAIN umap PROVE n = 0 \/ n \in 1..10
        <5>1. n = 0 \/ \E k \in 1..9 : n = TagOf(AddedOrder[k])
          BY <2>1, <3>3 DEF IInv, ParsingInv
        <5>2. QED
          BY <5>1, TagsApart
      <4>2. QED
        BY <4>1
    <3>4. QED
      BY <2>2, <3>2, <3>3
  <2>6. /\ parsed = Nullopt \/ Required \subseteq DOMAIN parsed
        /\ overread \in BOOLEAN
    BY <2>1, <2>2 DEF IInv, SizingInv, AddingInv, ParsingInv, ResultInv
  <2>7. QED
    BY <2>2, <2>3, <2>4, <2>5, <2>6 DEF TypeOK
<1>2. QED
  BY Invariant, <1>1, PTL

(* No addTag() writes past the end of the buffer (WritesInBounds).         *)
THEOREM BuilderInBounds == Spec => []WritesInBounds
<1>1. IInv => WritesInBounds
  <2>1. SUFFICES ASSUME IInv, phase = "add" PROVE pos <= Size
    BY DEF WritesInBounds
  <2>2. pos = Begin(next) /\ next \in 1..10 /\ 10 \in 1..10 /\ next <= 10
    BY <2>1 DEF IInv, AddingInv, BufferInv
  <2>3. pos <= Begin(10) /\ pos \in Nat /\ Begin(10) \in Nat
    BY <2>1, <2>2, BeginProps DEF IInv
  <2>4. Begin(10) <= Size /\ Size \in Nat
    BY <2>1, BufferEnds DEF IInv
  <2>5. QED
    BY <2>3, <2>4
<1>2. QED
  BY Invariant, <1>1, PTL

(* Without a sink the builder fills the buffer (HeaderFilled).             *)
THEOREM BufferFilled == Spec => []HeaderFilled
<1>1. IInv => HeaderFilled
  <2>1. SUFFICES ASSUME IInv, phase = "add", next > Len(AddedOrder), "SINK" \notin Fields PROVE pos = Size
    BY DEF HeaderFilled
  <2>2. next = 10
    BY <2>1, Orders DEF IInv, BufferInv
  <2>3. pos = Begin(10)
    BY <2>1, <2>2 DEF IInv, AddingInv
  <2>4. QED
    BY <2>1, <2>3, BufferEnds DEF IInv
<1>2. QED
  BY Invariant, <1>1, PTL

(* Without a sink the parser never reads past the end (ReadsInBounds).     *)
THEOREM ParserInBounds == Spec => []ReadsInBounds
<1>1. IInv => ReadsInBounds
  BY DEF IInv, SizingInv, AddingInv, ParsingInv, ReadsInBounds
<1>2. QED
  BY Invariant, <1>1, PTL

(* Without a sink getAttributes() rebuilds what build() was given, of the  *)
(* fields it knows, all but the value of TTL (RoundTrip).                  *)
THEOREM RoundTrips == Spec => []RoundTrip
<1>1. IInv => RoundTrip
  BY DEF IInv, ResultInv, RoundTrip
<1>2. QED
  BY Invariant, <1>1, PTL

(* The parser refuses a header exactly if there is a sink and the zeros    *)
(* left in its place are no whole number of empty records (SinkDecides).   *)
THEOREM SinkRefused == Spec => []SinkDecides
<1>1. IInv => SinkDecides
  <2>1. SUFFICES ASSUME IInv, phase = "done"
                 PROVE  parsed = Nullopt <=> "SINK" \in Fields /\ attributes["SINK"] % (1 + Width) # 0
    BY DEF SinkDecides
  <2>2. PICK d \in Nat \ {0} : d = 1 + Width
    BY WidthPositive
  <2>3. AttributesInv /\ messageSize \in Nat /\ Begin(10) <= messageSize /\ pos \in Nat
    <3>1. AttributesInv /\ messageSize \in Nat /\ Begin(10) <= messageSize
      BY <2>1, BufferEnds DEF IInv
    <3>2. QED
      BY <2>1, <3>1 DEF IInv, ParsingInv
  <2>4. "SINK" \in Fields /\ Begin(10) <= pos => (messageSize - pos) % d = attributes["SINK"] % d
    BY <2>1, <2>2 DEF IInv, SinkInv
  <2>5. CASE parsed = Nullopt
    <3>1. "SINK" \in Fields /\ messageSize - pos \in 1..Width /\ Begin(10) <= pos
      BY <2>1, <2>5 DEF IInv, ResultInv
    <3>2. PICK a \in 1..Width : a = messageSize - pos
      BY <3>1
    <3>3. a \in Nat /\ a < d /\ a # 0
      BY <2>2, WidthPositive
    <3>4. a % d = a
      BY <3>3
    <3>5. attributes["SINK"] % d # 0
      BY <2>4, <3>1, <3>2, <3>3, <3>4
    <3>6. QED
      BY <2>2, <2>5, <3>1, <3>5
  <2>6. CASE parsed # Nullopt /\ "SINK" \in Fields
    <3>1. pos = messageSize
      BY <2>1, <2>6 DEF IInv, ResultInv
    <3>2. messageSize - pos = 0 /\ 0 % d = 0
      BY <2>3, <3>1
    <3>3. attributes["SINK"] % d = 0
      BY <2>3, <2>4, <2>6, <3>1, <3>2
    <3>4. QED
      BY <2>2, <2>6, <3>3
  <2>7. CASE parsed # Nullopt /\ "SINK" \notin Fields
    BY <2>7
  <2>8. QED
    BY <2>5, <2>6, <2>7
<1>2. QED
  BY Invariant, <1>1, PTL
==============================================================================
