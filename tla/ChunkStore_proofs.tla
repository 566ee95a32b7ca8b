--------------------------- MODULE ChunkStore_proofs ---------------------------
(***************************************************************************)
(* Proofs about ChunkStore.                                                *)
(*                                                                         *)
(* Every step writes at most one object, in one of four ways: it opens,    *)
(* extends, seals or discards it.  The first lemmas say what each way does *)
(* to the row; the invariant and the refinement are then followed way by   *)
(* way.  The decisive fact is that a complete upload has no room for       *)
(* another chunk, so what a request has hashed stays what is stored.       *)
(***************************************************************************)
EXTENDS ChunkStore, SequenceTheorems, FiniteSetTheorems, TLAPS

Others(o) == \A p \in Objects : p # o => object'[p] = object[p]

Opened(o, kind, expected) ==
  /\ object[o].status = "NONE"
  /\ Reserved + expected <= OrgBytes
  /\ object'[o] = [NoObject EXCEPT !.kind = kind, !.status = "OPEN", !.expected = expected]

Extended(o, c) ==
  /\ object[o].status = "OPEN" /\ object'[o].status = "OPEN"
  /\ object'[o].kind = object[o].kind
  /\ object'[o].expected = object[o].expected
  /\ object'[o].hash = object[o].hash
  /\ object'[o].received = object[o].received + c.bytes
  /\ object'[o].chunks = Append(object[o].chunks, c)
  /\ object[o].kind = "UPLOAD" => object[o].received + c.bytes <= object[o].expected
  /\ Reserved + Larger(object[o].received + c.bytes, object[o].expected) - Footprint(o)
       <= OrgBytes

Sealed(o, hash) ==
  /\ object[o].status = "OPEN" /\ object'[o].status = "SEALED"
  /\ object'[o].kind = object[o].kind
  /\ object'[o].expected = object[o].expected
  /\ object'[o].received = object[o].received
  /\ object'[o].chunks = object[o].chunks
  /\ object'[o].hash = hash

Discarded(o) ==
  /\ object[o].status = "OPEN" /\ object'[o].status = "CANCELLED"
  /\ object'[o].kind = object[o].kind
  /\ object'[o].expected = object[o].expected
  /\ object'[o].received = 0
  /\ object'[o].chunks = <<>>

(* The size limits in the form the proofs use them.                        *)
LEMMA Limits ==
  /\ ChunkBytes \in Nat \ {0} /\ MaxUploadBytes \in Nat \ {0}
  /\ MaxObjectBytes \in Nat \ {0}
  /\ Larger(MaxUploadBytes, MaxObjectBytes) \in Nat
  /\ MaxUploadBytes <= Larger(MaxUploadBytes, MaxObjectBytes)
  /\ MaxObjectBytes <= Larger(MaxUploadBytes, MaxObjectBytes)
BY LimitsAssumption DEF Larger

-------------------------------------------------------------------------------
(* Sizes.  A size is the number of bytes, so it is reasoned about with     *)
(* finite sets and no sum is taken apart.                                  *)

Bytes(chunks) == UNION {{i} \X (1..chunks[i].bytes) : i \in 1..Len(chunks)}

(* Counting from one.                                                      *)
LEMMA Interval ==
  ASSUME NEW n \in Nat PROVE IsFiniteSet(1..n) /\ Cardinality(1..n) = n
<1>1. 1 \in Int /\ n \in Int
  OBVIOUS
<1>2. IsFiniteSet(1..n) /\ Cardinality(1..n) = IF 1 > n THEN 0 ELSE n - 1 + 1
  BY <1>1, FS_Interval
<1> QED BY <1>2

(* Every chunk holds at least one byte and no more than a chunk may.       *)
LEMMA ChunkType ==
  ASSUME NEW s \in Seq(Content), NEW i \in 1..Len(s)
  PROVE  s[i] \in Content /\ s[i].bytes \in Nat /\ 1 <= s[i].bytes /\ s[i].bytes <= ChunkBytes
<1>1. s[i] \in Content
  BY ElementOfSeq
<1> QED BY <1>1, Limits DEF Content

(* The bytes of a sequence of chunks can be counted.                       *)
LEMMA BytesFinite ==
  ASSUME NEW s \in Seq(Content)
  PROVE  /\ IsFiniteSet(Bytes(s)) /\ Size(s) = Cardinality(Bytes(s)) /\ Size(s) \in Nat
         /\ \A x : x \in Bytes(s) <=> \E i \in 1..Len(s), b \in 1..ChunkBytes :
                                      b <= s[i].bytes /\ x = <<i, b>>
<1>1. Len(s) \in Nat /\ \A i \in 1..Len(s) : s[i].bytes \in 1..ChunkBytes
  BY ChunkType, Limits
<1>2. \A x : x \in Bytes(s) <=> \E i \in 1..Len(s), b \in 1..ChunkBytes :
                               b <= s[i].bytes /\ x = <<i, b>>
  BY <1>1, Limits DEF Bytes
<1>3. Bytes(s) \in SUBSET ((1..Len(s)) \X (1..ChunkBytes))
  BY <1>1, <1>2, Limits
<1>4. IsFiniteSet((1..Len(s)) \X (1..ChunkBytes))
  BY <1>1, Limits, Interval, FS_Product
<1>5. IsFiniteSet(Bytes(s))
  BY <1>3, <1>4, FS_Subset
<1> QED BY <1>2, <1>5, FS_CardinalityType DEF Size, Bytes

(* Nothing stored has no size.                                             *)
LEMMA EmptySize == Size(<<>>) = 0
<1>1. Bytes(<<>>) = {}
  BY DEF Bytes
<1> QED BY <1>1, FS_EmptySet DEF Bytes, Size

(* A chunk adds its own bytes.                                             *)
LEMMA SizeGrows ==
  ASSUME NEW s \in Seq(Content), NEW c \in Content
  PROVE  Size(Append(s, c)) = Size(s) + c.bytes
<1> DEFINE t == Append(s, c)
           n == Len(s) + 1
           last == {n} \X (1..c.bytes)
<1>1. /\ t \in Seq(Content) /\ Len(t) = n /\ n \in Nat /\ t[n] = c
      /\ \A i \in 1..Len(s) : t[i] = s[i]
      /\ Len(s) \in Nat
  OBVIOUS
<1>2. c.bytes \in Nat /\ c.bytes <= ChunkBytes
  BY Limits DEF Content
<1>3. IsFiniteSet(last) /\ Cardinality(last) = c.bytes
  <2>1. IsFiniteSet({n}) /\ Cardinality({n}) = 1
    BY FS_Singleton
  <2>2. IsFiniteSet(1..c.bytes) /\ Cardinality(1..c.bytes) = c.bytes
    BY <1>2, Interval
  <2>3. IsFiniteSet(last) /\ Cardinality(last) = 1 * c.bytes
    <3> HIDE DEF n
    <3> QED BY <2>1, <2>2, FS_Product
  <2> QED BY <1>2, <2>3
<1> HIDE DEF t
<1>4. Bytes(t) = Bytes(s) \cup last
  <2>1. ASSUME NEW x \in Bytes(t) PROVE x \in Bytes(s) \cup last
    <3>1. PICK i \in 1..Len(t), b \in 1..ChunkBytes : b <= t[i].bytes /\ x = <<i, b>>
      BY <1>1, <2>1, BytesFinite
    <3>2. CASE i = n
      BY <1>1, <3>1, <3>2
    <3>3. CASE i # n
      <4>1. i \in 1..Len(s) /\ t[i] = s[i]
        BY <1>1, <3>1, <3>3
      <4> QED BY <3>1, <4>1, BytesFinite
    <3> QED BY <3>2, <3>3
  <2>2. ASSUME NEW x \in Bytes(s) PROVE x \in Bytes(t)
    <3>1. PICK i \in 1..Len(s), b \in 1..ChunkBytes : b <= s[i].bytes /\ x = <<i, b>>
      BY <2>2, BytesFinite
    <3>2. i \in 1..Len(t) /\ t[i] = s[i]
      BY <1>1, <3>1
    <3> QED BY <1>1, <3>1, <3>2, BytesFinite
  <2>3. ASSUME NEW x \in last PROVE x \in Bytes(t)
    <3>1. PICK b \in 1..c.bytes : x = <<n, b>>
      BY <2>3
    <3>2. n \in 1..Len(t) /\ t[n] = c
      BY <1>1
    <3>3. b \in 1..ChunkBytes /\ b <= c.bytes
      BY <1>2, <3>1, Limits
    <3> QED BY <1>1, <3>1, <3>2, <3>3, BytesFinite
  <2> QED BY <2>1, <2>2, <2>3
<1>5. Bytes(s) \cap last = {}
  <2>1. ASSUME NEW x \in Bytes(s), x \in last PROVE FALSE
    <3>1. PICK i \in 1..Len(s), b \in 1..ChunkBytes : b <= s[i].bytes /\ x = <<i, b>>
      BY <2>1, BytesFinite
    <3>2. x[1] = n /\ x[1] = i
      BY <2>1, <3>1
    <3> QED BY <1>1, <3>1, <3>2
  <2> QED BY <2>1
<1>6. Cardinality(Bytes(t)) = Cardinality(Bytes(s)) + Cardinality(last)
  <2> HIDE DEF last, n
  <2>1. IsFiniteSet(Bytes(s)) /\ Cardinality(Bytes(s)) \in Nat
    BY BytesFinite
  <2>2. Cardinality(Bytes(s) \cup last)
          = Cardinality(Bytes(s)) + Cardinality(last) - Cardinality({})
    BY <1>3, <1>5, <2>1, FS_Union
  <2> QED BY <1>2, <1>3, <1>4, <2>1, <2>2, FS_EmptySet
<1> QED BY <1>1, <1>3, <1>6, BytesFinite DEF t

(* A prefix of a file is smaller than the file, unless it is the file: no  *)
(* chunk is empty.                                                         *)
LEMMA PrefixSize ==
  ASSUME NEW s \in Seq(Content), NEW t \in Seq(Content),
         Len(s) <= Len(t), \A i \in 1..Len(s) : s[i] = t[i]
  PROVE  Size(s) <= Size(t) /\ (Size(s) = Size(t) => s = t)
<1>1. Bytes(s) \in SUBSET Bytes(t)
  <2>1. ASSUME NEW x \in Bytes(s) PROVE x \in Bytes(t)
    <3>1. PICK i \in 1..Len(s), b \in 1..ChunkBytes : b <= s[i].bytes /\ x = <<i, b>>
      BY <2>1, BytesFinite
    <3>2. i \in 1..Len(t) /\ t[i] = s[i]
      BY <3>1
    <3> QED BY <3>1, <3>2, BytesFinite
  <2> QED BY <2>1
<1>2. Size(s) <= Size(t) /\ (Size(s) = Size(t) => Bytes(s) = Bytes(t))
  BY <1>1, BytesFinite, FS_Subset
<1>3. ASSUME Bytes(s) = Bytes(t), Len(s) < Len(t) PROVE FALSE
  <2> DEFINE n == Len(s) + 1
  <2>1. n \in 1..Len(t) /\ n \notin 1..Len(s)
    BY <1>3
  <2>2. 1 \in 1..t[n].bytes
    BY <2>1, ChunkType
  <2> HIDE DEF n
  <2>3. <<n, 1>> \in Bytes(s)
    BY <1>3, <2>1, <2>2, Limits, BytesFinite
  <2>4. PICK i \in 1..Len(s), b \in 1..ChunkBytes : b <= s[i].bytes /\ <<n, 1>> = <<i, b>>
    BY <2>3, BytesFinite
  <2>5. n = i
    BY <2>4
  <2> QED BY <2>1, <2>4, <2>5
<1>4. ASSUME Size(s) = Size(t) PROVE s = t
  <2>1. Len(s) = Len(t)
    BY <1>2, <1>3, <1>4
  <2> QED BY <2>1, SeqEqual
<1> QED BY <1>2, <1>4

FootprintOf(row) == Larger(row.received, row.expected)

\* what a row counts against the organisation
Charge(row) == IF row.status = "CANCELLED" THEN 0 ELSE FootprintOf(row)

\* the bytes the rows of some objects count
Charged(table, S) ==
  UNION {{o} \X (1..FootprintOf(table[o])) : o \in {p \in S : table[p].status # "CANCELLED"}}

(* A row counts a natural number of bytes.                                 *)
LEMMA ChargeType ==
  ASSUME NEW row \in ObjectRow
  PROVE  /\ FootprintOf(row) \in 0..Larger(MaxUploadBytes, MaxObjectBytes)
         /\ Charge(row) \in Nat
<1>1. FootprintOf(row) \in 0..Larger(MaxUploadBytes, MaxObjectBytes)
  BY Limits DEF FootprintOf, ObjectRow, Larger
<1> QED BY <1>1, Limits DEF Charge

(* What the other rows count and what one row counts add up.               *)
LEMMA ChargedSplit ==
  ASSUME NEW table \in [Objects -> ObjectRow], NEW o \in Objects
  PROVE  /\ IsFiniteSet(Charged(table, Objects \ {o}))
         /\ Cardinality(Charged(table, Objects))
              = Cardinality(Charged(table, Objects \ {o})) + Charge(table[o])
<1> DEFINE all == Charged(table, Objects)
           rest == Charged(table, Objects \ {o})
           own == Charged(table, {o})
           top == Larger(MaxUploadBytes, MaxObjectBytes)
<1>1. \A p \in Objects : FootprintOf(table[p]) \in 0..top
  BY ChargeType
<1>2. IsFiniteSet(Objects \X (1..top))
  BY Limits, LimitsAssumption, Interval, FS_Product
<1>3. \A S \in SUBSET Objects : Charged(table, S) \in SUBSET (Objects \X (1..top))
  <2> HIDE DEF top
  <2>1. \A p \in Objects : 1..FootprintOf(table[p]) \subseteq 1..top
    <3>1. top \in Nat
      BY Limits DEF top
    <3> QED BY <1>1, <3>1
  <2> QED BY <2>1 DEF Charged
<1>4. /\ IsFiniteSet(all) /\ Cardinality(all) \in Nat
      /\ IsFiniteSet(rest) /\ Cardinality(rest) \in Nat
      /\ IsFiniteSet(own) /\ Cardinality(own) \in Nat
  <2> HIDE DEF top
  <2>1. \A S \in SUBSET Objects : IsFiniteSet(Charged(table, S))
    BY <1>2, <1>3, FS_Subset
  <2> QED BY <2>1, FS_CardinalityType
<1>5. all = rest \cup own /\ rest \cap own = {}
  BY DEF Charged
<1>6. Cardinality(own) = Charge(table[o])
  <2>1. CASE table[o].status = "CANCELLED"
    <3>1. own = {}
      BY <2>1 DEF Charged
    <3> QED BY <2>1, <3>1, FS_EmptySet DEF Charge
  <2>2. CASE table[o].status # "CANCELLED"
    <3>1. own = {o} \X (1..FootprintOf(table[o]))
      BY <2>2 DEF Charged
    <3>2. FootprintOf(table[o]) \in Nat
      BY <1>1, Limits
    <3>3. IsFiniteSet({o}) /\ Cardinality({o}) = 1
      BY FS_Singleton
    <3>4. IsFiniteSet(1..FootprintOf(table[o]))
          /\ Cardinality(1..FootprintOf(table[o])) = FootprintOf(table[o])
      BY <3>2, Interval
    <3>5. Cardinality(own) = 1 * FootprintOf(table[o])
      <4> HIDE DEF own
      <4> QED BY <3>1, <3>3, <3>4, FS_Product, ZenonT(60)
    <3> QED BY <2>2, <3>2, <3>5 DEF Charge
  <2> QED BY <2>1, <2>2
<1>7. Cardinality(all) = Cardinality(rest) + Cardinality(own) - Cardinality({})
  <2> HIDE DEF all, rest, own
  <2> QED BY <1>4, <1>5, FS_Union
<1> QED BY <1>4, <1>6, <1>7, FS_EmptySet

(* The bytes of all rows can be counted.                                   *)
LEMMA ReservedNat ==
  ASSUME NEW table \in [Objects -> ObjectRow]
  PROVE  Cardinality(Charged(table, Objects)) \in Nat
<1>1. PICK o \in Objects : TRUE
  BY LimitsAssumption
<1>2. Cardinality(Charged(table, Objects \ {o})) \in Nat
  BY ChargedSplit, FS_CardinalityType
<1>3. Charge(table[o]) \in Nat
  BY ChargeType
<1> QED BY <1>2, <1>3, ChargedSplit

(* Writing one row changes what is reserved by what that row counts.       *)
LEMMA ReservedChange ==
  ASSUME TypeOK, NEW o \in Objects, object' \in [Objects -> ObjectRow],
         \A p \in Objects : p # o => object'[p] = object[p]
  PROVE  /\ Reserved \in Nat
         /\ Reserved' = Reserved + Charge(object'[o]) - Charge(object[o])
<1> DEFINE rest == Charged(object, Objects \ {o})
<1>1. object \in [Objects -> ObjectRow]
  BY DEF TypeOK
<1>2. Reserved = Cardinality(Charged(object, Objects))
      /\ Reserved' = Cardinality(Charged(object', Objects))
  BY DEF Reserved, Live, Footprint, Charged, FootprintOf
<1>3. Charged(object', Objects \ {o}) = rest
  BY DEF Charged
<1>4. Cardinality(rest) \in Nat
  <2> HIDE DEF rest
  <2>1. IsFiniteSet(rest)
    BY <1>1, ChargedSplit DEF rest
  <2> QED BY <2>1, FS_CardinalityType
<1>5. Charge(object[o]) \in Nat /\ Charge(object'[o]) \in Nat
  BY <1>1, ChargeType
<1>6. Reserved = Cardinality(rest) + Charge(object[o])
  BY <1>1, <1>2, ChargedSplit
<1>7. Reserved' = Cardinality(rest) + Charge(object'[o])
  BY <1>2, <1>3, ChargedSplit
<1> QED BY <1>4, <1>5, <1>6, <1>7
-------------------------------------------------------------------------------
(* A new object (new_object) gets one well-typed row of its own.           *)
LEMMA NewEffect ==
  ASSUME TypeOK, NEW o \in Objects, NEW kind \in {"UPLOAD", "DERIVED"},
         NEW expected \in 0..MaxUploadBytes, New(o, kind, expected)
  PROVE  Opened(o, kind, expected) /\ Others(o) /\ object' \in [Objects -> ObjectRow]
<1> DEFINE row == [NoObject EXCEPT !.kind = kind, !.status = "OPEN", !.expected = expected]
<1>1. row \in ObjectRow
  <2>1. 0 \in 0..Larger(MaxUploadBytes, MaxObjectBytes)
    BY Limits
  <2> QED BY <2>1, EmptySeq DEF NoObject, ObjectRow
<1> HIDE DEF row
<1>2. object' = [object EXCEPT ![o] = row]
  BY DEF New, row
<1>3. object'[o] = row /\ Others(o) /\ object' \in [Objects -> ObjectRow]
  BY <1>1, <1>2 DEF TypeOK, Others
<1> QED
  BY <1>3 DEF New, Opened, row

(* append_chunk adds one chunk to one open object, within its limits.      *)
LEMMA AppendEffect ==
  ASSUME TypeOK, NEW o \in Objects, NEW n, NEW c \in Content, AppendChunk(o, n, c)
  PROVE  Extended(o, c) /\ Others(o) /\ object' \in [Objects -> ObjectRow]
<1>1. object[o] \in ObjectRow /\ c.bytes \in Nat \ {0}
  BY Limits DEF TypeOK, Content
<1> DEFINE row == [object[o] EXCEPT !.chunks = Append(@, c), !.received = @ + c.bytes]
<1>2. /\ object[o].status = "OPEN"
      /\ object[o].received + c.bytes <=
           IF object[o].kind = "UPLOAD" THEN object[o].expected ELSE MaxObjectBytes
      /\ Reserved + Larger(object[o].received + c.bytes, object[o].expected) - Footprint(o)
           <= OrgBytes
      /\ object' = [object EXCEPT ![o] = row]
  BY DEF AppendChunk, Accepts, Fits, TypeOK
<1>3. object[o].received + c.bytes \in 0..Larger(MaxUploadBytes, MaxObjectBytes)
  BY <1>1, <1>2, Limits, SMTT(30) DEF ObjectRow
<1>4. Append(object[o].chunks, c) \in Seq(Content)
  BY <1>1 DEF ObjectRow
<1>5. row \in ObjectRow
  BY <1>1, <1>3, <1>4 DEF ObjectRow
<1>6. object'[o] = row /\ Others(o) /\ object' \in [Objects -> ObjectRow]
  <2> HIDE DEF row
  <2> QED BY <1>2, <1>5 DEF TypeOK, Others
<1> QED
  BY <1>1, <1>2, <1>6 DEF Extended, ObjectRow

(* seal_blob closes one open object and writes its hash.                   *)
LEMMA SealEffect ==
  ASSUME TypeOK, NEW o \in Objects, NEW hash \in Seq(Content), Seal(o, hash)
  PROVE  Sealed(o, hash) /\ Others(o) /\ object' \in [Objects -> ObjectRow]
<1>1. object[o] \in ObjectRow
  BY DEF TypeOK
<1> DEFINE row == [object[o] EXCEPT !.status = "SEALED", !.hash = hash]
<1>2. object[o].status = "OPEN" /\ object' = [object EXCEPT ![o] = row]
  BY DEF Seal, Sealable, TypeOK
<1>3. row \in ObjectRow
  BY <1>1 DEF ObjectRow
<1>4. object'[o] = row /\ Others(o) /\ object' \in [Objects -> ObjectRow]
  <2> HIDE DEF row
  <2> QED BY <1>2, <1>3 DEF TypeOK, Others
<1> QED
  BY <1>1, <1>2, <1>4 DEF Sealed, ObjectRow

(* cancel_object closes one open object and removes its chunks.            *)
LEMMA DiscardEffect ==
  ASSUME TypeOK, NEW o \in Objects, Discard(o)
  PROVE  Discarded(o) /\ Others(o) /\ object' \in [Objects -> ObjectRow]
<1>1. object[o] \in ObjectRow
  BY DEF TypeOK
<1> DEFINE row == [object[o] EXCEPT !.status = "CANCELLED", !.received = 0, !.chunks = <<>>]
<1>2. object[o].status = "OPEN" /\ object' = [object EXCEPT ![o] = row]
  BY DEF Discard, Discardable, TypeOK
<1>3. row \in ObjectRow
  <2>1. 0 \in 0..Larger(MaxUploadBytes, MaxObjectBytes)
    BY Limits
  <2> QED BY <1>1, <2>1, EmptySeq DEF ObjectRow
<1>4. object'[o] = row /\ Others(o) /\ object' \in [Objects -> ObjectRow]
  <2> HIDE DEF row
  <2> QED BY <1>2, <1>3 DEF TypeOK, Others
<1> QED
  BY <1>1, <1>2, <1>4 DEF Discarded, ObjectRow
-------------------------------------------------------------------------------
(* What a whole step does, in five forms.                                  *)

Written(o) == o \in Objects /\ Others(o) /\ object' \in [Objects -> ObjectRow]

OpenStep(o) ==
  /\ Written(o)
  /\ \E kind \in {"UPLOAD", "DERIVED"}, n \in 0..MaxUploadBytes :
       /\ Opened(o, kind, n)
       /\ kind = "UPLOAD" => n = Size(file'[o])
  /\ UNCHANGED <<datasets, writing, request>>
  /\ file' \in [Objects -> Seq(Content)]
  /\ \A p \in Objects : p # o => file'[p] = file[p]

ExtendStep(o) ==
  /\ Written(o)
  /\ \E c \in Content :
       /\ Extended(o, c)
       /\ IF object[o].kind = "UPLOAD"
          THEN /\ Len(object[o].chunks) < Len(file[o])
               /\ c = file[o][Len(object[o].chunks) + 1]
               /\ UNCHANGED writing
          ELSE writing' = [writing EXCEPT ![o] = Append(@, c)]
  /\ UNCHANGED <<datasets, file, request>>

SealStep(o) ==
  /\ Written(o)
  /\ Sealed(o, object[o].chunks)
  /\ object[o].kind = "UPLOAD" => object[o].received = object[o].expected
  /\ \/ datasets' = Append(datasets, [object |-> o, hash |-> object[o].chunks,
                                      bytes |-> object[o].received])
     \/ object[o].kind = "DERIVED" /\ UNCHANGED datasets
  /\ request' \in [Requests -> RequestRow]
  /\ \A r \in Requests : request'[r] = request[r] \/ ~request'[r].busy
  /\ UNCHANGED <<file, writing>>

DiscardStep(o) ==
  /\ Written(o)
  /\ Discarded(o)
  /\ UNCHANGED <<datasets, file, writing, request>>

QuietStep ==
  /\ UNCHANGED <<object, datasets, file, writing>>
  /\ request' \in [Requests -> RequestRow]
  /\ RequestsInv'

(* The forgotten request of an idle handler is well typed.                 *)
LEMMA NoRequestType == NoRequest \in RequestRow /\ ~NoRequest.busy
BY LimitsAssumption, EmptySeq DEF NoRequest, RequestRow

(* Requests only read: BeginComplete and HashChunk record what is stored.  *)
LEMMA RequestsRead ==
  ASSUME IInv, NEW r \in Requests, NEW o \in Objects,
         BeginComplete(r, o) \/ HashChunk(r) \/ EndRequest(r)
  PROVE  QuietStep
<1> USE DEF QuietStep
<1>1. CASE BeginComplete(r, o)
  <2> DEFINE q == [busy |-> TRUE, of |-> o, received |-> object[o].received,
                   count |-> Len(object[o].chunks), read |-> <<>>]
  <2>1. object[o] \in ObjectRow
    BY DEF IInv, TypeOK
  <2>2. q \in RequestRow
    BY <2>1, EmptySeq DEF RequestRow, ObjectRow
  <2>3. /\ q.busy /\ q.of = o /\ q.count = Len(object[o].chunks)
        /\ q.received = object[o].received /\ q.read = <<>>
    OBVIOUS
  <2> HIDE DEF q
  <2>4. request' = [request EXCEPT ![r] = q] /\ UNCHANGED object
    BY <1>1 DEF BeginComplete, q
  <2>5. /\ object[o].kind = "UPLOAD" /\ object[o].status = "OPEN"
        /\ object[o].received = object[o].expected
    BY <1>1 DEF BeginComplete, Complete, OpenUpload
  <2>6. RequestsInv'
    <3>1. SUFFICES ASSUME NEW s \in Requests
                   PROVE  (LET q1 == request[s]
                               row == object[q1.of]
                           IN  /\ q1.busy => row.kind = "UPLOAD" /\ row.status # "NONE"
                               /\ q1.busy /\ row.status # "CANCELLED"
                                  => /\ q1.count = Len(row.chunks)
                                     /\ q1.received = row.received
                                     /\ row.received = row.expected
                                     /\ Len(q1.read) <= Len(row.chunks)
                                     /\ \A i \in 1..Len(q1.read) : q1.read[i] = row.chunks[i])'
      BY DEF RequestsInv
    <3>2. CASE s = r
      <4>1. request'[r] = q
        BY <2>4 DEF IInv, TypeOK
      <4>2. Len(object[o].chunks) \in Nat /\ Len(<<>>) = 0
        BY <2>1 DEF ObjectRow
      <4> QED BY <2>3, <2>4, <2>5, <3>2, <4>1, <4>2
    <3>3. CASE s # r
      <4>1. request'[s] = request[s]
        BY <2>4, <3>3 DEF IInv, TypeOK
      <4> QED BY <2>4, <4>1 DEF IInv, RequestsInv
    <3> QED BY <3>2, <3>3
  <2> QED
    BY <1>1, <2>2, <2>4, <2>6 DEF BeginComplete, IInv, TypeOK
<1>2. CASE HashChunk(r)
  <2> DEFINE p == request[r].of
             n == Len(request[r].read) + 1
  <2>1. request[r] \in RequestRow /\ p \in Objects /\ object[p] \in ObjectRow
    BY DEF IInv, TypeOK, RequestRow
  <2>2. /\ request[r].busy /\ n <= Len(object[p].chunks) /\ UNCHANGED object
        /\ request' = [request EXCEPT ![r].read = Append(@, object[p].chunks[n])]
    BY <1>2 DEF HashChunk
  <2>3. n \in 1..Len(object[p].chunks) /\ object[p].chunks[n] \in Content
    BY <2>1, <2>2 DEF RequestRow, ObjectRow
  <2>4. Append(request[r].read, object[p].chunks[n]) \in Seq(Content)
    BY <2>1, <2>3 DEF RequestRow
  <2>5. request' \in [Requests -> RequestRow]
    BY <2>1, <2>2, <2>4 DEF IInv, TypeOK, RequestRow
  <2>6. \A s \in Requests : s # r => request'[s] = request[s]
    BY <2>2 DEF IInv, TypeOK
  <2>7. /\ request'[r].busy /\ request'[r].of = p
        /\ request'[r].count = request[r].count
        /\ request'[r].received = request[r].received
        /\ request'[r].read = Append(request[r].read, object[p].chunks[n])
    BY <2>1, <2>2 DEF IInv, TypeOK, RequestRow
  <2>8. object[p].status # "CANCELLED"
        => \A i \in 1..Len(request'[r].read) : request'[r].read[i] = object[p].chunks[i]
    BY <2>1, <2>2, <2>3, <2>7, SMTT(30) DEF IInv, RequestsInv, RequestRow
  <2>9. Len(request'[r].read) = n
    BY <2>1, <2>7 DEF RequestRow
  <2>10. RequestsInv'
    BY <2>2, <2>6, <2>7, <2>8, <2>9 DEF IInv, RequestsInv
  <2> QED
    BY <1>2, <2>5, <2>10 DEF HashChunk
<1>3. CASE EndRequest(r)
  <2>1. request' = [request EXCEPT ![r] = NoRequest] /\ UNCHANGED <<object, datasets, file, writing>>
    BY <1>3 DEF EndRequest
  <2>2. request' \in [Requests -> RequestRow] /\ ~request'[r].busy
        /\ \A s \in Requests : s # r => request'[s] = request[s]
    BY <2>1, NoRequestType DEF IInv, TypeOK
  <2> QED
    BY <2>1, <2>2 DEF IInv, RequestsInv
<1> QED
  BY <1>1, <1>2, <1>3

(* Every step has one of the five forms; in particular a sealing request   *)
(* has hashed exactly the chunks that are stored (complete).               *)
LEMMA FormOfStep ==
  ASSUME IInv, [Next]_vars
  PROVE  \/ \E o \in Objects : OpenStep(o) \/ ExtendStep(o) \/ SealStep(o) \/ DiscardStep(o)
         \/ QuietStep
<1> USE DEF IInv
<1>1. ASSUME NEW o \in Objects, NEW f \in Files, Start(o, f) PROVE OpenStep(o)
  <2>1. Size(f) \in 0..MaxUploadBytes /\ New(o, "UPLOAD", Size(f))
    BY <1>1, Limits DEF Start
  <2>2. Written(o) /\ Opened(o, "UPLOAD", Size(f))
    BY <2>1, NewEffect DEF Written
  <2>3. f \in Seq(Content) /\ file' = [file EXCEPT ![o] = f]
    BY <1>1, LimitsAssumption DEF Start
  <2>4. file'[o] = f
    BY <2>3 DEF TypeOK
  <2> QED
    BY <1>1, <2>1, <2>2, <2>3, <2>4 DEF OpenStep, Start, TypeOK
<1>2. ASSUME NEW o \in Objects, NEW n \in 0..UploadChunks, SendChunk(o, n)
      PROVE  ExtendStep(o)
  <2>1. object[o] \in ObjectRow /\ file[o] \in Seq(Content)
    BY DEF TypeOK
  <2>2. n = Len(object[o].chunks) /\ n < Len(file[o]) /\ object[o].kind = "UPLOAD"
    BY <1>2 DEF SendChunk, AppendChunk, Accepts, IsNext
  <2>3. file[o][n + 1] \in Content
    BY <2>1, <2>2 DEF ObjectRow
  <2>4. Extended(o, file[o][n + 1]) /\ Written(o)
    BY <1>2, <2>3, AppendEffect DEF SendChunk, Written
  <2> QED
    BY <1>2, <2>2, <2>3, <2>4 DEF ExtendStep, SendChunk
<1>3. ASSUME NEW o \in Objects, CancelUpload(o) \/ DiscardStaged(o) PROVE DiscardStep(o)
  BY <1>3, DiscardEffect DEF CancelUpload, DiscardStaged, DiscardStep, Written
<1>4. ASSUME NEW o \in Objects, Stage(o) PROVE OpenStep(o)
  <2>1. New(o, "DERIVED", 0) /\ 0 \in 0..MaxUploadBytes
    BY <1>4, Limits DEF Stage
  <2>2. Written(o) /\ Opened(o, "DERIVED", 0)
    BY <2>1, NewEffect DEF Written
  <2> QED
    BY <1>4, <2>1, <2>2 DEF OpenStep, Stage, TypeOK
<1>5. ASSUME NEW o \in Objects, NEW c \in Content, WriteChunk(o, c) PROVE ExtendStep(o)
  <2>1. Extended(o, c) /\ Written(o)
    BY <1>5, AppendEffect DEF WriteChunk, Written
  <2> QED
    BY <1>5, <2>1 DEF ExtendStep, WriteChunk
<1>6. ASSUME NEW o \in Objects, SealResult(o) \/ PublishSnapshot(o) PROVE SealStep(o)
  <2>1. object[o].kind = "DERIVED" /\ object[o].status = "OPEN" /\ Seal(o, writing[o])
    BY <1>6 DEF SealResult, PublishSnapshot, Seal, Sealable
  <2>2. writing[o] = object[o].chunks /\ writing[o] \in Seq(Content)
    BY <2>1 DEF WritersInv, TypeOK
  <2>3. Sealed(o, object[o].chunks) /\ Written(o)
    BY <2>1, <2>2, SealEffect DEF Written
  <2> QED
    BY <1>6, <2>1, <2>2, <2>3 DEF SealStep, SealResult, PublishSnapshot, AddDataset, TypeOK
<1>7. ASSUME NEW r \in Requests, FinishComplete(r) PROVE \E o \in Objects : SealStep(o)
  <2> DEFINE o == request[r].of
  <2>1. request[r] \in RequestRow /\ o \in Objects /\ object[o] \in ObjectRow
    BY DEF TypeOK, RequestRow
  <2>2. request[r].busy /\ object[o].status = "OPEN" /\ Seal(o, request[r].read)
    BY <1>7 DEF FinishComplete, Seal, Sealable
  <2>3. /\ object[o].kind = "UPLOAD"
        /\ request[r].count = Len(object[o].chunks)
        /\ request[r].received = object[o].received
        /\ object[o].received = object[o].expected
        /\ \A i \in 1..Len(request[r].read) : request[r].read[i] = object[o].chunks[i]
    BY <2>2 DEF RequestsInv
  <2>4. Len(request[r].read) = Len(object[o].chunks)
    BY <1>7, <2>3 DEF FinishComplete
  <2>5. request[r].read = object[o].chunks
    BY <2>1, <2>3, <2>4, SeqEqual DEF RequestRow, ObjectRow
  <2>6. Sealed(o, object[o].chunks) /\ Written(o)
    BY <2>1, <2>2, <2>5, SealEffect DEF Written, RequestRow
  <2>7. datasets' = Append(datasets, [object |-> o, hash |-> object[o].chunks,
                                      bytes |-> object[o].received])
    BY <1>7, <2>3, <2>5 DEF FinishComplete, AddDataset
  <2>8. request' \in [Requests -> RequestRow]
        /\ \A s \in Requests : request'[s] = request[s] \/ ~request'[s].busy
    BY <1>7, NoRequestType DEF FinishComplete, TypeOK
  <2> QED
    BY <1>7, <2>1, <2>3, <2>6, <2>7, <2>8 DEF SealStep, FinishComplete
<1>8. ASSUME NEW r \in Requests, NEW o \in Objects,
             BeginComplete(r, o) \/ HashChunk(r) \/ EndRequest(r)
      PROVE  QuietStep
  BY <1>8, RequestsRead
<1>9. ASSUME UNCHANGED vars PROVE QuietStep
  BY <1>9 DEF vars, QuietStep, TypeOK, RequestsInv
<1>10. \E o \in Objects : TRUE
  BY LimitsAssumption
<1> QED
  BY <1>1, <1>2, <1>3, <1>4, <1>5, <1>6, <1>7, <1>8, <1>9, <1>10
  DEF Next, ObjectStep, RequestStep
-------------------------------------------------------------------------------
(* Every original is a sealed object.                                      *)
LEMMA OriginalsSealed ==
  ASSUME IInv, NEW i \in 1..Len(datasets)
  PROVE  /\ datasets[i] \in DatasetRow
         /\ datasets[i].object \in Objects
         /\ object[datasets[i].object].status = "SEALED"
<1>1. datasets[i] \in DatasetRow
  BY ElementOfSeq DEF IInv, TypeOK
<1> QED BY <1>1 DEF DatasetRow, IInv, OneDataset

(* The originals stay what they are while no sealed object is written.     *)
LEMMA OriginalsStill ==
  ASSUME IInv, NEW o \in Objects, Others(o), UNCHANGED datasets,
         object[o].status # "SEALED", object'[o].status # "SEALED"
  PROVE  OneDataset'
<1>1. ASSUME NEW i \in 1..Len(datasets)
      PROVE  object'[datasets[i].object] = object[datasets[i].object]
  BY <1>1, OriginalsSealed DEF Others
<1>2. ASSUME NEW p \in Objects, object'[p].status = "SEALED"
      PROVE  object'[p] = object[p]
  BY <1>2 DEF Others
<1>3. OneDataset
  BY DEF IInv
<1> QED BY <1>1, <1>2, <1>3 DEF OneDataset

(* What a request carries stays true of its object while only other        *)
(* objects, or nothing it carries, are written.                            *)
LEMMA RequestsStill ==
  ASSUME IInv, NEW o \in Objects, Others(o),
         \A r \in Requests : request'[r] = request[r] \/ ~request'[r].busy,
         \A r \in Requests : request[r].busy /\ request[r].of = o
           => /\ object'[o].kind = object[o].kind /\ object'[o].status # "NONE"
              /\ object'[o].status # "CANCELLED"
                 => /\ object[o].status # "CANCELLED"
                    /\ object'[o].chunks = object[o].chunks
                    /\ object'[o].received = object[o].received
                    /\ object'[o].expected = object[o].expected
  PROVE  RequestsInv'
<1>1. SUFFICES ASSUME NEW r \in Requests, request'[r].busy
               PROVE  (LET q == request[r]
                           row == object[q.of]
                       IN  /\ q.busy => row.kind = "UPLOAD" /\ row.status # "NONE"
                           /\ q.busy /\ row.status # "CANCELLED"
                              => /\ q.count = Len(row.chunks)
                                 /\ q.received = row.received
                                 /\ row.received = row.expected
                                 /\ Len(q.read) <= Len(row.chunks)
                                 /\ \A i \in 1..Len(q.read) : q.read[i] = row.chunks[i])'
  BY DEF RequestsInv
<1>2. request'[r] = request[r] /\ request[r].busy /\ request[r].of \in Objects
  BY <1>1 DEF IInv, TypeOK, RequestRow
<1>3. CASE request[r].of = o
  BY <1>2, <1>3 DEF IInv, RequestsInv
<1>4. CASE request[r].of # o
  <2>1. object'[request[r].of] = object[request[r].of]
    BY <1>2, <1>4 DEF Others
  <2> QED BY <1>2, <2>1 DEF IInv, RequestsInv
<1> QED BY <1>3, <1>4

(* Opening an object (start, save) disturbs nothing that is known of the   *)
(* others.                                                                 *)
LEMMA OpenKeeps ==
  ASSUME IInv, NEW o \in Objects, OpenStep(o) PROVE IInv'
<1> USE DEF IInv
<1>1. PICK kind \in {"UPLOAD", "DERIVED"}, n \in 0..MaxUploadBytes :
        Opened(o, kind, n) /\ (kind = "UPLOAD" => n = Size(file'[o]))
  BY DEF OpenStep
<1>2. /\ object[o] = NoObject /\ writing[o] = <<>> /\ object[o].status = "NONE"
      /\ object'[o].status = "OPEN" /\ object'[o].chunks = <<>>
      /\ object'[o].received = 0 /\ object'[o].expected = n /\ object'[o].kind = kind
      /\ Others(o)
  BY <1>1 DEF FreshInv, Opened, NoObject, OpenStep, Written
<1>3. TypeOK'
  BY DEF OpenStep, Written, TypeOK
<1>4. FreshInv' /\ WritersInv' /\ SealedWhole'
  BY <1>2 DEF FreshInv, WritersInv, SealedWhole, Others, OpenStep
<1>5. FilesInv'
  <2>1. file'[o] \in Seq(Content) /\ Len(<<>>) = 0
    BY <1>3 DEF TypeOK
  <2> QED BY <1>2, <2>1 DEF FilesInv, Others, OpenStep
<1>6. RequestsInv'
  <2>1. \A r \in Requests : ~(request[r].busy /\ request[r].of = o)
    BY <1>2 DEF RequestsInv
  <2> QED BY <1>2, <2>1, RequestsStill DEF OpenStep
<1>7. OneDataset'
  BY <1>2, OriginalsStill DEF OpenStep
<1>8. SizesInv'
  BY <1>1, <1>2, EmptySize DEF SizesInv, Others, OpenStep
<1>9. WithinStorage'
  <2>1. Charge(object[o]) = 0 /\ Charge(object'[o]) = n
    BY <1>2 DEF Charge, FootprintOf, Larger, NoObject
  <2>2. Reserved \in Nat /\ Reserved' = Reserved + Charge(object'[o]) - Charge(object[o])
    BY ReservedChange DEF OpenStep, Written, Others
  <2>3. Reserved + n <= OrgBytes
    BY <1>1 DEF Opened
  <2> QED BY <2>1, <2>2, <2>3 DEF WithinStorage
<1> QED BY <1>3, <1>4, <1>5, <1>6, <1>7, <1>8, <1>9

(* A stored chunk (append_chunk) is the next one of its file or digest,    *)
(* and never lands in an object a request is hashing.                      *)
LEMMA ExtendKeeps ==
  ASSUME IInv, NEW o \in Objects, ExtendStep(o) PROVE IInv'
<1> USE DEF IInv
<1>1. PICK c \in Content : /\ Extended(o, c)
                           /\ IF object[o].kind = "UPLOAD"
                              THEN /\ Len(object[o].chunks) < Len(file[o])
                                   /\ c = file[o][Len(object[o].chunks) + 1]
                                   /\ UNCHANGED writing
                              ELSE writing' = [writing EXCEPT ![o] = Append(@, c)]
  BY DEF ExtendStep
<1>2. object[o] \in ObjectRow /\ file[o] \in Seq(Content) /\ writing[o] \in Seq(Content)
      /\ c.bytes \in Nat \ {0} /\ Others(o)
  <2>1. c.bytes \in Nat \ {0}
    BY Limits DEF Content
  <2> QED BY <2>1 DEF TypeOK, ExtendStep, Written
<1>3. TypeOK'
  <2>1. Append(writing[o], c) \in Seq(Content)
    BY <1>2
  <2>2. writing' \in [Objects -> Seq(Content)]
    BY <1>1, <2>1 DEF TypeOK
  <2> QED BY <2>2 DEF ExtendStep, Written, TypeOK
<1>4. FreshInv' /\ SealedWhole'
  BY <1>1, <1>2, ZenonT(60) DEF FreshInv, SealedWhole, Others, Extended, TypeOK
<1>5. WritersInv'
  BY <1>1, <1>2, ZenonT(60) DEF WritersInv, Others, Extended, TypeOK
<1>6. FilesInv'
  <2>1. object'[o].kind = "UPLOAD"
        => /\ Len(object'[o].chunks) <= Len(file[o])
           /\ \A i \in 1..Len(object'[o].chunks) : object'[o].chunks[i] = file[o][i]
    <3>1. SUFFICES ASSUME object[o].kind = "UPLOAD"
                   PROVE  LET stored == Append(object[o].chunks, c)
                          IN  /\ Len(stored) <= Len(file[o])
                              /\ \A i \in 1..Len(stored) : stored[i] = file[o][i]
      BY <1>1 DEF Extended
    <3>2. /\ object[o].chunks \in Seq(Content)
          /\ Len(object[o].chunks) < Len(file[o])
          /\ c = file[o][Len(object[o].chunks) + 1]
          /\ \A i \in 1..Len(object[o].chunks) : object[o].chunks[i] = file[o][i]
      BY <1>1, <1>2, <3>1 DEF FilesInv, ObjectRow
    <3> QED BY <1>2, <3>2
  <2> QED BY <1>2, <2>1 DEF FilesInv, Others, ExtendStep
<1>7. RequestsInv'
  <2>1. ASSUME NEW r \in Requests, request[r].busy PROVE request[r].of # o
    <3>1. SUFFICES ASSUME request[r].of = o PROVE FALSE
      OBVIOUS
    <3>2. object[o].kind = "UPLOAD" /\ object[o].received = object[o].expected
      BY <1>1, <2>1, <3>1 DEF RequestsInv, Extended
    <3> QED BY <1>1, <1>2, <3>2 DEF Extended, ObjectRow
  <2>2. UNCHANGED request
    BY DEF ExtendStep
  <2> QED BY <1>2, <2>1, <2>2, RequestsStill
<1>8. OneDataset'
  BY <1>1, <1>2, OriginalsStill DEF ExtendStep, Extended
<1>9. SizesInv'
  <2>1. Size(Append(object[o].chunks, c)) = Size(object[o].chunks) + c.bytes
    BY <1>2, SizeGrows DEF ObjectRow
  <2>2. object'[o].received = Size(object'[o].chunks)
    BY <1>1, <2>1 DEF SizesInv, Extended
  <2> QED BY <1>1, <1>2, <2>2 DEF SizesInv, Others, Extended, ExtendStep
<1>10. WithinStorage'
  <2>1. /\ Charge(object[o]) = Footprint(o)
        /\ Charge(object'[o]) = Larger(object[o].received + c.bytes, object[o].expected)
    BY <1>1 DEF Charge, FootprintOf, Footprint, Extended
  <2>2. Reserved' = Reserved + Charge(object'[o]) - Charge(object[o])
    BY ReservedChange DEF ExtendStep, Written, Others
  <2>3. Reserved \in Nat /\ Charge(object[o]) \in Nat /\ Charge(object'[o]) \in Nat
    BY <1>2, <1>3, ReservedChange, ChargeType DEF ExtendStep, Written, Others, TypeOK
  <2> QED BY <1>1, <2>1, <2>2, <2>3 DEF WithinStorage, Extended
<1> QED BY <1>3, <1>4, <1>5, <1>6, <1>7, <1>8, <1>9, <1>10

(* A sealed object (seal_blob) becomes the original of one new dataset, or *)
(* of none if it is a part of a job's result.                              *)
LEMMA SealKeeps ==
  ASSUME IInv, NEW o \in Objects, SealStep(o) PROVE IInv'
<1> USE DEF IInv
<1>1. /\ object[o] \in ObjectRow /\ Others(o) /\ Sealed(o, object[o].chunks)
      /\ object[o].status = "OPEN"
  BY DEF TypeOK, SealStep, Written, Sealed
<1> DEFINE row == [object |-> o, hash |-> object[o].chunks, bytes |-> object[o].received]
<1>2. row \in DatasetRow /\ row.object = o /\ row.hash = object[o].chunks
      /\ row.bytes = object[o].received
  BY <1>1 DEF DatasetRow, ObjectRow
<1> HIDE DEF row
<1>3. \/ datasets' = Append(datasets, row)
      \/ object[o].kind = "DERIVED" /\ UNCHANGED datasets
  BY DEF SealStep, row
<1>4. datasets \in Seq(DatasetRow) /\ datasets' \in Seq(DatasetRow)
  <2>1. datasets \in Seq(DatasetRow)
    BY DEF TypeOK
  <2>2. Append(datasets, row) \in Seq(DatasetRow)
    BY <1>2, <2>1
  <2> QED BY <1>3, <2>1, <2>2
<1>5. TypeOK'
  BY <1>4 DEF SealStep, Written, TypeOK
<1>6. FreshInv' /\ WritersInv' /\ SealedWhole'
  BY <1>1, ZenonT(60) DEF FreshInv, WritersInv, SealedWhole, Others, Sealed, SealStep, TypeOK
<1>7. FilesInv'
  BY <1>1 DEF FilesInv, Others, Sealed, SealStep
<1>8. RequestsInv'
  BY <1>1, RequestsStill DEF Sealed, SealStep
<1>9. OneDataset'
  <2>1. \A i \in 1..Len(datasets) : datasets[i].object \in Objects /\ datasets[i].object # o
    BY <1>1, OriginalsSealed DEF Extended, Discarded
  <2>2. CASE UNCHANGED datasets /\ object[o].kind = "DERIVED"
    BY <1>1, <2>1, <2>2 DEF OneDataset, Others, Sealed
  <2>3. CASE datasets' = Append(datasets, row)
    <3>1. /\ Len(datasets') = Len(datasets) + 1 /\ Len(datasets) \in Nat
          /\ datasets'[Len(datasets) + 1] = row
          /\ \A i \in 1..Len(datasets) : datasets'[i] = datasets[i]
      BY <1>2, <1>4, <2>3
    <3>2. ASSUME NEW i \in 1..Len(datasets')
          PROVE  LET r == object'[datasets'[i].object]
                 IN  /\ r.status = "SEALED"
                     /\ datasets'[i].hash = r.hash
                     /\ datasets'[i].bytes = r.received
      <4>1. CASE i = Len(datasets) + 1
        BY <1>1, <1>2, <3>1, <4>1 DEF Sealed
      <4>2. CASE i \in 1..Len(datasets)
        BY <1>1, <2>1, <3>1, <4>2 DEF OneDataset, Others
      <4> QED BY <3>1, <4>1, <4>2
    <3>3. ASSUME NEW i \in 1..Len(datasets'), NEW k \in 1..Len(datasets'),
                 datasets'[i].object = datasets'[k].object
          PROVE  i = k
      BY <1>2, <2>1, <3>1, <3>3 DEF OneDataset
    <3>4. ASSUME NEW p \in Objects, object'[p].kind = "UPLOAD", object'[p].status = "SEALED"
          PROVE  \E i \in 1..Len(datasets') : datasets'[i].object = p
      <4>1. CASE p = o
        <5>1. Len(datasets) + 1 \in 1..Len(datasets')
          BY <3>1
        <5> QED BY <1>2, <3>1, <4>1, <5>1
      <4>2. CASE p # o
        <5>1. PICK i \in 1..Len(datasets) : datasets[i].object = p
          BY <1>1, <3>4, <4>2 DEF OneDataset, Others
        <5>2. i \in 1..Len(datasets') /\ datasets'[i].object = p
          BY <3>1, <5>1
        <5> QED BY <5>2
      <4> QED BY <4>1, <4>2
    <3> QED BY <3>2, <3>3, <3>4 DEF OneDataset
  <2> QED BY <1>3, <2>2, <2>3
<1>10. SizesInv'
  BY <1>1 DEF SizesInv, Others, Sealed, SealStep
<1>11. WithinStorage'
  <2>1. Charge(object'[o]) = Charge(object[o])
    BY <1>1 DEF Charge, FootprintOf, Sealed
  <2>2. Reserved \in Nat /\ Reserved' = Reserved + Charge(object'[o]) - Charge(object[o])
    BY ReservedChange DEF SealStep, Written, Others
  <2>3. Charge(object[o]) \in Nat
    BY <1>1, ChargeType
  <2> QED BY <2>1, <2>2, <2>3 DEF WithinStorage
<1> QED BY <1>5, <1>6, <1>7, <1>8, <1>9, <1>10, <1>11

(* A discarded object (cancel_object) was nobody's original.               *)
LEMMA DiscardKeeps ==
  ASSUME IInv, NEW o \in Objects, DiscardStep(o) PROVE IInv'
<1> USE DEF IInv
<1>1. Others(o) /\ Discarded(o) /\ file[o] \in Seq(Content) /\ Len(<<>>) = 0
  BY DEF DiscardStep, Written, TypeOK
<1>2. TypeOK'
  BY DEF DiscardStep, Written, TypeOK
<1>3. FreshInv' /\ WritersInv' /\ SealedWhole'
  BY <1>1 DEF FreshInv, WritersInv, SealedWhole, Others, Discarded, DiscardStep
<1>4. FilesInv'
  <2>1. 0 <= Len(file[o])
    BY <1>1
  <2> QED BY <1>1, <2>1 DEF FilesInv, Others, Discarded, DiscardStep
<1>5. RequestsInv'
  BY <1>1, RequestsStill DEF Discarded, DiscardStep
<1>6. OneDataset'
  BY <1>1, OriginalsStill DEF DiscardStep, Discarded
<1>7. SizesInv'
  BY <1>1, EmptySize DEF SizesInv, Others, Discarded, DiscardStep
<1>8. WithinStorage'
  <2>1. Charge(object'[o]) = 0
    BY <1>1 DEF Charge, Discarded
  <2>2. Reserved \in Nat /\ Reserved' = Reserved + Charge(object'[o]) - Charge(object[o])
    BY ReservedChange DEF DiscardStep, Written, Others
  <2>3. Charge(object[o]) \in Nat /\ OrgBytes \in Nat
    BY ChargeType, LimitsAssumption DEF TypeOK
  <2> QED BY <2>1, <2>2, <2>3 DEF WithinStorage
<1> QED BY <1>2, <1>3, <1>4, <1>5, <1>6, <1>7, <1>8

(* The reading transactions of a complete request change no row.           *)
LEMMA QuietKeeps ==
  ASSUME IInv, QuietStep PROVE IInv'
BY DEF IInv, QuietStep, TypeOK, FreshInv, WritersInv, FilesInv, SizesInv, WithinStorage,
       Reserved, Live, Footprint, SealedWhole, OneDataset

(* The inductive invariant holds of an empty store.                        *)
LEMMA InitInv == Init => IInv
<1> SUFFICES ASSUME Init PROVE IInv
  OBVIOUS
<1>1. NoObject \in ObjectRow /\ <<>> \in Seq(Content) /\ Len(<<>>) = 0
  <2>1. 0 \in 0..Larger(MaxUploadBytes, MaxObjectBytes) /\ 0 \in 0..MaxUploadBytes
    BY Limits
  <2> QED BY <2>1, EmptySeq DEF NoObject, ObjectRow
<1>2. TypeOK
  BY <1>1, NoRequestType, EmptySeq DEF Init, TypeOK
<1>3. OneDataset
  BY <1>1 DEF Init, OneDataset, NoObject
<1>4. RequestsInv
  BY NoRequestType DEF Init, RequestsInv
<1>5. FilesInv
  BY <1>1 DEF Init, FilesInv, NoObject
<1>6. SizesInv
  BY EmptySize DEF Init, SizesInv, NoObject
<1>7. WithinStorage
  <2>1. \A o \in Objects : Footprint(o) = 0
    BY DEF Init, Footprint, Larger, NoObject
  <2>2. UNION {{o} \X (1..Footprint(o)) : o \in Live} = {}
    BY <2>1 DEF Live
  <2>3. Reserved = 0
    BY <2>2, FS_EmptySet DEF Reserved
  <2> QED BY <2>3, LimitsAssumption DEF WithinStorage
<1> QED
  BY <1>2, <1>3, <1>4, <1>5, <1>6, <1>7 DEF Init, IInv, FreshInv, WritersInv, SealedWhole, NoObject

(* Every step of clients, requests and workers keeps the invariant.        *)
LEMMA StepInv == IInv /\ [Next]_vars => IInv'
BY FormOfStep, OpenKeeps, ExtendKeeps, SealKeeps, DiscardKeeps, QuietKeeps

(* The inductive invariant of objects, datasets, digests and requests      *)
(* holds in every reachable state.                                         *)
THEOREM Invariance == Spec => []IInv
BY InitInv, StepInv, PTL DEF Spec

(* Every variable keeps its type and every object its size limit.          *)
THEOREM TypeCorrect == Spec => []TypeOK
<1>1. IInv => TypeOK
  BY DEF IInv
<1> QED BY <1>1, Invariance, PTL

(* The hash of a sealed object covers exactly its stored chunks, although  *)
(* complete computed it without a lock.                                    *)
THEOREM SealedIsWhole == Spec => []SealedWhole
<1>1. IInv => SealedWhole
  BY DEF IInv
<1> QED BY <1>1, Invariance, PTL

(* Concurrent complete requests make exactly one dataset of an upload.     *)
THEOREM OneDatasetPerUpload == Spec => []OneDataset
<1>1. IInv => OneDataset
  BY DEF IInv
<1> QED BY <1>1, Invariance, PTL

(* What is sealed of an upload is its file: the stored prefix is as long   *)
(* as the declared size, and no shorter prefix is (complete).              *)
THEOREM WholeFileArrives == Spec => []FileArrives
<1>1. ASSUME IInv, NEW o \in Objects, object[o].kind = "UPLOAD", object[o].status = "SEALED"
      PROVE  object[o].hash = file[o]
  <2>1. object[o].chunks \in Seq(Content) /\ file[o] \in Seq(Content)
    BY <1>1 DEF IInv, TypeOK, ObjectRow
  <2>2. object[o].hash = object[o].chunks /\ Size(object[o].chunks) = Size(file[o])
    BY <1>1 DEF IInv, SealedWhole, SizesInv
  <2> QED BY <1>1, <2>1, <2>2, PrefixSize DEF IInv, FilesInv
<1>2. IInv => FileArrives
  BY <1>1 DEF FileArrives
<1> QED BY <1>2, Invariance, PTL

(* The storage is never overbooked, and the next chunk of a started upload *)
(* is accepted as long as the upload may have another chunk: its declared  *)
(* size is counted from the start (new_object, append_chunk).              *)
THEOREM DeclaredSizeIsReserved == Spec => []StorageReserved
<1>1. ASSUME IInv, NEW o \in Objects, OpenUpload(o), Len(object[o].chunks) < Len(file[o])
      PROVE  Fits(o, file[o][Len(object[o].chunks) + 1])
  <2> DEFINE row == object[o]
             c == file[o][Len(row.chunks) + 1]
             more == Append(row.chunks, c)
  <2>1. row \in ObjectRow /\ row.chunks \in Seq(Content) /\ file[o] \in Seq(Content)
    BY <1>1 DEF IInv, TypeOK, ObjectRow
  <2>2. row.kind = "UPLOAD"
    BY <1>1 DEF OpenUpload
  <2>3. c \in Content /\ c.bytes \in Nat
    <3>1. Len(row.chunks) + 1 \in 1..Len(file[o])
      BY <1>1, <2>1
    <3> QED BY <2>1, <3>1, ChunkType
  <2>4. Size(more) <= Size(file[o])
    <3> HIDE DEF c
    <3>1. more \in Seq(Content) /\ Len(more) = Len(row.chunks) + 1
          /\ Len(row.chunks) \in Nat /\ more[Len(row.chunks) + 1] = c
          /\ \A i \in 1..Len(row.chunks) : more[i] = row.chunks[i]
      BY <2>1, <2>3
    <3>2. \A i \in 1..Len(row.chunks) : row.chunks[i] = file[o][i]
      BY <1>1, <2>2 DEF IInv, FilesInv
    <3>3. c = file[o][Len(row.chunks) + 1] /\ Len(row.chunks) < Len(file[o])
      BY <1>1 DEF c
    <3> HIDE DEF more
    <3>4. \A i \in 1..Len(more) : more[i] = file[o][i]
      BY <3>1, <3>2, <3>3
    <3>5. Len(more) <= Len(file[o])
      BY <2>1, <3>1, <3>3
    <3> QED BY <2>1, <3>1, <3>4, <3>5, PrefixSize
  <2>5. Size(more) = Size(row.chunks) + c.bytes
    BY <2>1, <2>3, SizeGrows
  <2>6. row.received = Size(row.chunks) /\ row.expected = Size(file[o])
    BY <1>1, <2>2 DEF IInv, SizesInv
  <2>7. row.received \in Nat /\ row.expected \in Nat
    BY <2>1, Limits DEF ObjectRow
  <2>8. row.received + c.bytes <= row.expected
    BY <2>4, <2>5, <2>6
  <2>9. Larger(row.received + c.bytes, row.expected) = row.expected
        /\ Footprint(o) = row.expected
    <3> HIDE DEF c
    <3> QED BY <2>3, <2>7, <2>8 DEF Larger, Footprint
  <2>10. Reserved \in Nat /\ Reserved <= OrgBytes
    <3>1. Reserved = Cardinality(Charged(object, Objects))
      BY DEF Reserved, Live, Footprint, Charged, FootprintOf
    <3>2. Reserved \in Nat
      BY <1>1, <3>1, ReservedNat DEF IInv, TypeOK
    <3> QED BY <1>1, <3>2 DEF IInv, WithinStorage
  <2>11. Reserved + Larger(row.received + c.bytes, row.expected) - Footprint(o) <= OrgBytes
    <3> HIDE DEF c
    <3> QED BY <2>7, <2>9, <2>10
  <2> QED BY <2>2, <2>8, <2>11 DEF Fits
<1>2. ASSUME IInv, NEW o \in Objects, OpenUpload(o), Len(object[o].chunks) < Len(file[o])
      PROVE  LET n == Len(object[o].chunks)
             IN  Accepts(o, n, file[o][n + 1]) <=> n < UploadChunks
  <2>1. object[o].status = "OPEN" /\ object[o].kind = "UPLOAD"
    BY <1>2 DEF OpenUpload
  <2> QED BY <1>1, <1>2, <2>1 DEF Accepts, IsNext, RoomForChunk
<1>3. IInv => StorageReserved
  BY <1>2 DEF StorageReserved, IInv, WithinStorage
<1> QED BY <1>3, Invariance, PTL

(* A sealed or cancelled object is never touched again.                    *)
THEOREM ClosedObjectsStay == Spec => ClosedStays
<1>1. ASSUME IInv, [Next]_vars
      PROVE  \A o \in Objects : object[o].status \in {"SEALED", "CANCELLED"}
               => object'[o] = object[o]
  BY <1>1, FormOfStep
  DEF OpenStep, ExtendStep, SealStep, DiscardStep, QuietStep, Written, Others,
      Opened, Extended, Sealed, Discarded
<1> QED BY <1>1, Invariance, PTL DEF Spec, ClosedStays
-------------------------------------------------------------------------------
(* The refinement: opening an object and the reading transactions of       *)
(* complete stutter, a stored chunk extends, a discarded object discards,  *)
(* and sealing an upload publishes it.                                     *)

OriginalType == [object : Objects, hash : Seq(Content)]

(* The originals in the abstract view are a sequence as long as datasets.  *)
LEMMA OriginalsSeq ==
  ASSUME NEW rows \in Seq(DatasetRow)
  PROVE  /\ OriginalsOf(rows) \in Seq(OriginalType)
         /\ Len(OriginalsOf(rows)) = Len(rows)
         /\ \A i \in 1..Len(rows) :
              OriginalsOf(rows)[i] = [object |-> rows[i].object, hash |-> rows[i].hash]
<1>1. Len(rows) \in Nat /\ \A i \in 1..Len(rows) : rows[i] \in DatasetRow
  BY ElementOfSeq, LenProperties
<1>2. OriginalsOf(rows) \in [1..Len(rows) -> OriginalType]
  BY <1>1 DEF OriginalsOf, DatasetRow, OriginalType
<1>3. OriginalsOf(rows) \in Seq(OriginalType)
  BY <1>1, <1>2, SeqDef
<1>4. DOMAIN OriginalsOf(rows) = 1..Len(rows)
  BY DEF OriginalsOf
<1>5. Len(OriginalsOf(rows)) = Len(rows)
  BY <1>1, <1>3, <1>4, LenProperties
<1> QED
  BY <1>3, <1>5 DEF OriginalsOf

(* A new dataset row adds one original at the end.                         *)
LEMMA OriginalsAppend ==
  ASSUME NEW rows \in Seq(DatasetRow), NEW row \in DatasetRow
  PROVE  OriginalsOf(Append(rows, row))
           = Append(OriginalsOf(rows), [object |-> row.object, hash |-> row.hash])
<1> DEFINE e == [object |-> row.object, hash |-> row.hash]
           s == OriginalsOf(Append(rows, row))
           t == Append(OriginalsOf(rows), e)
<1>1. e \in OriginalType
  BY DEF DatasetRow, OriginalType
<1>2. /\ Append(rows, row) \in Seq(DatasetRow) /\ Len(rows) \in Nat
      /\ Len(Append(rows, row)) = Len(rows) + 1
      /\ Append(rows, row)[Len(rows) + 1] = row
      /\ \A i \in 1..Len(rows) : Append(rows, row)[i] = rows[i]
  OBVIOUS
<1>3. /\ OriginalsOf(rows) \in Seq(OriginalType) /\ Len(OriginalsOf(rows)) = Len(rows)
      /\ \A i \in 1..Len(rows) :
           OriginalsOf(rows)[i] = [object |-> rows[i].object, hash |-> rows[i].hash]
  BY OriginalsSeq
<1>4. /\ s \in Seq(OriginalType) /\ Len(s) = Len(rows) + 1
      /\ s[Len(rows) + 1] = e
      /\ \A i \in 1..Len(rows) : s[i] = [object |-> rows[i].object, hash |-> rows[i].hash]
  <2> DEFINE more == Append(rows, row)
  <2> HIDE DEF more
  <2>1. /\ more \in Seq(DatasetRow) /\ Len(more) = Len(rows) + 1
        /\ more[Len(rows) + 1] = row
        /\ \A i \in 1..Len(rows) : more[i] = rows[i]
    BY <1>2 DEF more
  <2>2. /\ OriginalsOf(more) \in Seq(OriginalType) /\ Len(OriginalsOf(more)) = Len(rows) + 1
        /\ \A i \in 1..(Len(rows) + 1) :
             OriginalsOf(more)[i] = [object |-> more[i].object, hash |-> more[i].hash]
    BY <2>1, OriginalsSeq
  <2> QED BY <1>2, <2>1, <2>2 DEF more
<1>5. /\ t \in Seq(OriginalType) /\ Len(t) = Len(rows) + 1
      /\ t[Len(rows) + 1] = e
      /\ \A i \in 1..Len(rows) : t[i] = [object |-> rows[i].object, hash |-> rows[i].hash]
  <2> HIDE DEF e
  <2> QED BY <1>1, <1>3
<1> HIDE DEF s, t, e
<1>6. \A i \in 1..(Len(rows) + 1) : s[i] = t[i]
  <2>1. TAKE i \in 1..(Len(rows) + 1)
  <2>2. CASE i = Len(rows) + 1
    BY <2>2, <1>4, <1>5
  <2>3. CASE i # Len(rows) + 1
    <3>1. i \in 1..Len(rows)
      BY <2>1, <2>3, <1>2
    <3>2. /\ s[i] = [object |-> rows[i].object, hash |-> rows[i].hash]
          /\ t[i] = [object |-> rows[i].object, hash |-> rows[i].hash]
      BY <3>1, <1>4, <1>5
    <3> QED BY <3>2
  <2> QED BY <2>2, <2>3
<1>7. s = t
  BY <1>4, <1>5, <1>6, SeqEqual
<1> QED BY <1>7 DEF s, t, e

(* An object that is still open was not published.                         *)
LEMMA OpenUnpublished ==
  ASSUME IInv, NEW o \in Objects, object[o].status # "SEALED"
  PROVE  ~Upload!Published(o)
<1>1. SUFFICES ASSUME NEW i \in 1..Len(Originals), Originals[i].object = o PROVE FALSE
  BY DEF Upload!Published
<1>2. datasets \in Seq(DatasetRow)
  BY DEF IInv, TypeOK
<1>3. /\ Len(Originals) = Len(datasets)
      /\ \A k \in 1..Len(datasets) :
           Originals[k] = [object |-> datasets[k].object, hash |-> datasets[k].hash]
  BY <1>2, OriginalsSeq DEF Originals
<1>4. i \in 1..Len(datasets)
  BY <1>1, <1>3
<1>5. Originals[i] = [object |-> datasets[i].object, hash |-> datasets[i].hash]
  BY <1>3, <1>4
<1>6. datasets[i].object = o
  BY <1>1, <1>5
<1> QED BY <1>4, <1>6, OriginalsSealed

(* Writing one row changes the stored chunks of that object only.          *)
LEMMA StoredEffect ==
  ASSUME IInv, NEW o \in Objects, Written(o)
  PROVE  Stored' = [Stored EXCEPT ![o] = object'[o].chunks]
BY DEF Written, Others, Stored

(* Every step of the detailed system is a step of AtomicUpload or none.    *)
LEMMA StepRefines ==
  ASSUME IInv, [Next]_vars PROVE [Upload!Next]_Upload!vars
<1> USE DEF Upload!vars
<1>1. datasets \in Seq(DatasetRow)
  BY DEF IInv, TypeOK
<1>2. ASSUME NEW o \in Objects, OpenStep(o) PROVE UNCHANGED Upload!vars
  <2>1. object[o].chunks = <<>> /\ object'[o].chunks = <<>>
    BY <1>2 DEF OpenStep, Opened, IInv, FreshInv, NoObject
  <2>2. Stored' = Stored
    BY <1>2, <2>1, StoredEffect DEF OpenStep, Stored
  <2> QED BY <1>2, <2>2 DEF OpenStep, Originals
<1>3. ASSUME NEW o \in Objects, ExtendStep(o) PROVE Upload!Next
  <2>1. PICK c \in Content : Extended(o, c)
    BY <1>3 DEF ExtendStep
  <2>2. ~Upload!Published(o)
    BY <2>1, OpenUnpublished DEF Extended
  <2>3. Stored' = [Stored EXCEPT ![o] = Append(@, c)]
    BY <1>3, <2>1, StoredEffect DEF ExtendStep, Extended, Stored
  <2>4. UNCHANGED Originals
    BY <1>3 DEF ExtendStep, Originals
  <2> QED BY <2>2, <2>3, <2>4 DEF Upload!Next, Upload!Extend
<1>4. ASSUME NEW o \in Objects, DiscardStep(o) PROVE Upload!Next
  <2>1. ~Upload!Published(o)
    BY <1>4, OpenUnpublished DEF DiscardStep, Discarded
  <2>2. Stored' = [Stored EXCEPT ![o] = <<>>]
    BY <1>4, StoredEffect DEF DiscardStep, Discarded
  <2>3. UNCHANGED Originals
    BY <1>4 DEF DiscardStep, Originals
  <2> QED BY <2>1, <2>2, <2>3 DEF Upload!Next, Upload!Discard
<1>5. ASSUME NEW o \in Objects, SealStep(o) PROVE [Upload!Next]_Upload!vars
  <2> DEFINE row == [object |-> o, hash |-> object[o].chunks, bytes |-> object[o].received]
  <2>1. object[o] \in ObjectRow /\ object[o].status = "OPEN"
        /\ object'[o].chunks = object[o].chunks
    BY <1>5 DEF SealStep, Sealed, IInv, TypeOK
  <2>2. row \in DatasetRow
    BY <2>1 DEF DatasetRow, ObjectRow
  <2>3. Stored' = Stored
    BY <1>5, <2>1, StoredEffect DEF SealStep, Stored
  <2>4. CASE UNCHANGED datasets
    BY <2>3, <2>4 DEF Originals
  <2>5. CASE datasets' = Append(datasets, row)
    <3>1. Originals' = Append(Originals, [object |-> row.object, hash |-> row.hash])
      <4> HIDE DEF row
      <4> QED BY <1>1, <2>2, <2>5, OriginalsAppend DEF Originals
    <3>2. Originals' = Append(Originals, [object |-> o, hash |-> Stored[o]])
      BY <3>1 DEF Stored
    <3>3. ~Upload!Published(o)
      BY <2>1, OpenUnpublished
    <3> QED BY <2>3, <3>2, <3>3 DEF Upload!Next, Upload!Publish
  <2> QED BY <1>5, <2>4, <2>5 DEF SealStep
<1>6. ASSUME QuietStep PROVE UNCHANGED Upload!vars
  BY <1>6 DEF QuietStep, Stored, Originals
<1> QED
  BY <1>2, <1>3, <1>4, <1>5, <1>6, FormOfStep

(* The transactions of complete, staging and cancellation implement the    *)
(* one-step publication of AtomicUpload.                                   *)
THEOREM CompleteIsAtomic == Spec => ImplementsAtomicUpload
<1>1. Init => Upload!Init
  BY DEF Init, Upload!Init, Stored, Originals, OriginalsOf, NoObject
<1> QED
  BY <1>1, StepRefines, Invariance, PTL DEF Spec, ImplementsAtomicUpload, Upload!Spec
===============================================================================
