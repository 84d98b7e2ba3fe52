------------------------------ MODULE CodecProofs ------------------------------
(***************************************************************************)
(* Proofs about Sha256 and PayloadText.  For every size of block and of    *)
(* length field: however a message is cut into updates, what is compressed *)
(* in the end is the padded message, so that the digest depends on the     *)
(* bytes alone.  For every name: what is escaped into FILE_INFO or a       *)
(* resume record is read back as it was.                                   *)
(*                                                                         *)
(* The recursive functions of PayloadText are reasoned about by induction  *)
(* over a set of numbers: first that each has a solution, then its values. *)
(***************************************************************************)
EXTENDS Sha256, PayloadText, SequenceTheorems, FiniteSetTheorems, WellFoundedInduction,
        TLAPS

\* What a hash object holds after the bytes of message: whole blocks are
\* compressed, less than a block waits in the buffer.
Holds(hash, message) ==
  /\ hash.compressed \in Seq(Byte) /\ hash.buffer \in Seq(Byte)
  /\ message = hash.compressed \o hash.buffer
  /\ Len(hash.buffer) < BlockSize
  /\ \E count \in Nat : Len(hash.compressed) = count * BlockSize
  /\ hash.total = Len(message)

-----------------------------------------------------------------------------
(* Arithmetic. *)

\* The quotient takes as many whole blocks as there are.
LEMMA WholeBlocks ==
  ASSUME NEW n \in Nat, NEW b \in Nat, b > 0
  PROVE  /\ n \div b \in Nat
         /\ (n \div b) * b <= n /\ n < (n \div b) * b + b
OBVIOUS

\* A multiple of b nearer to 0 than b is 0.
LEMMA SmallMultiple ==
  ASSUME NEW d \in Int, NEW b \in Nat, b > 0, 0 - b < d * b, d * b < b
  PROVE  d = 0
<1>1. CASE d >= 1
  <2>1. d * b >= b
    BY <1>1
  <2> QED
    BY <2>1
<1>2. CASE d <= 0 - 1
  <2>1. d * b <= 0 - b
    BY <1>2
  <2> QED
    BY <2>1
<1> QED
  BY <1>1, <1>2

\* A sum of multiples is one.
LEMMA MultiplesAdd ==
  ASSUME NEW i \in Nat, NEW j \in Nat, NEW b \in Nat
  PROVE  i * b + j * b = (i + j) * b /\ i + j \in Nat
OBVIOUS

\* A multiple counted by a natural number is one by the definition, which
\* counts to the number itself.
LEMMA MultipleIs ==
  ASSUME NEW n \in Nat, NEW count \in Nat, n = count * BlockSize
  PROVE  IsMultiple(n)
<1>1. BlockSize \in Nat /\ BlockSize >= 1
  BY HashAssumption
<1>2. count <= count * BlockSize
  BY <1>1
<1> QED
  BY <1>2 DEF IsMultiple

\* Only one number of zeros below the size of a block fills up a message.
LEMMA OnePadding ==
  ASSUME NEW length \in Nat, NEW m \in 0..(BlockSize - 1),
         NEW n \in 0..(BlockSize - 1),
         IsMultiple(length + m), IsMultiple(length + n)
  PROVE  m = n
<1>1. BlockSize \in Nat /\ BlockSize > 0
  BY HashAssumption
<1>2. PICK i \in 0..(length + m) : length + m = i * BlockSize
  BY DEF IsMultiple
<1>3. PICK j \in 0..(length + n) : length + n = j * BlockSize
  BY DEF IsMultiple
<1>4. (i - j) * BlockSize = m - n /\ i - j \in Int
  <2>1. (i - j) * BlockSize = i * BlockSize - j * BlockSize
    BY <1>1
  <2> QED
    BY <2>1, <1>1, <1>2, <1>3
<1>5. i - j = 0
  <2>1. 0 - BlockSize < m - n /\ m - n < BlockSize
    BY <1>1
  <2> QED
    BY <2>1, <1>1, <1>4, SmallMultiple
<1> QED
  BY <1>1, <1>4, <1>5

-----------------------------------------------------------------------------
(* update() and final_hex(). *)

\* The constructor: nothing was hashed yet.
THEOREM NewHashHolds ==
  Holds(NewHash, <<>>)
<1>1. BlockSize > 0 /\ BlockSize \in Nat /\ 0 = 0 * BlockSize
  BY HashAssumption
<1> QED
  BY <1>1 DEF NewHash, Holds

\* A sequence is its beginning, a middle part and the rest.
LEMMA CutInThree ==
  \A s \in Seq(Byte) : \A m \in 0..Len(s) : \A n \in m..Len(s) :
         /\ SubSeq(s, 1, m) \in Seq(Byte) /\ Len(SubSeq(s, 1, m)) = m
         /\ SubSeq(s, m + 1, n) \in Seq(Byte) /\ Len(SubSeq(s, m + 1, n)) = n - m
         /\ SubSeq(s, n + 1, Len(s)) \in Seq(Byte)
         /\ Len(SubSeq(s, n + 1, Len(s))) = Len(s) - n
         /\ s = (SubSeq(s, 1, m) \o SubSeq(s, m + 1, n)) \o SubSeq(s, n + 1, Len(s))
<1> TAKE s \in Seq(Byte)
<1> TAKE m \in 0..Len(s)
<1> TAKE n \in m..Len(s)
<1>1. Len(s) \in Nat /\ \A i \in 1..Len(s) : s[i] \in Byte
  BY LenProperties, ElementOfSeq
<1>2. SubSeq(s, 1, m) \in Seq(Byte) /\ Len(SubSeq(s, 1, m)) = m
  <2>1. \A i \in 1..m : s[i] \in Byte
    BY <1>1
  <2> QED
    BY <1>1, <2>1, SubSeqProperties
<1>3. SubSeq(s, m + 1, n) \in Seq(Byte) /\ Len(SubSeq(s, m + 1, n)) = n - m
  <2>1. \A i \in (m + 1)..n : s[i] \in Byte
    BY <1>1
  <2> QED
    BY <1>1, <2>1, SubSeqProperties
<1>4. /\ SubSeq(s, n + 1, Len(s)) \in Seq(Byte)
      /\ Len(SubSeq(s, n + 1, Len(s))) = Len(s) - n
  <2>1. \A i \in (n + 1)..Len(s) : s[i] \in Byte
    BY <1>1
  <2> QED
    BY <1>1, <2>1, SubSeqProperties
<1>5. SubSeq(s, 1, m) \o SubSeq(s, m + 1, n) = SubSeq(s, 1, n)
  <2>1. 1 \in 1..(Len(s) + 1) /\ m \in (1 - 1)..Len(s)
    BY <1>1
  <2> QED
    BY <2>1, ConcatAdjacentSubSeq
<1>6. SubSeq(s, 1, n) \o SubSeq(s, n + 1, Len(s)) = SubSeq(s, 1, Len(s))
  <2>1. 1 \in 1..(Len(s) + 1) /\ n \in (1 - 1)..Len(s) /\ Len(s) \in n..Len(s)
    BY <1>1
  <2> QED
    BY <2>1, ConcatAdjacentSubSeq
<1>7. SubSeq(s, 1, Len(s)) = s
  BY SubSeqFull
<1> QED
  BY <1>2, <1>3, <1>4, <1>5, <1>6, <1>7

\* Joined sequences of bytes are a sequence of bytes.
LEMMA Joined ==
  ASSUME NEW s \in Seq(Byte), NEW t \in Seq(Byte)
  PROVE  s \o t \in Seq(Byte) /\ Len(s \o t) = Len(s) + Len(t)
OBVIOUS

\* Joining is associative.
LEMMA Associative ==
  ASSUME NEW s \in Seq(Byte), NEW t \in Seq(Byte), NEW u \in Seq(Byte)
  PROVE  s \o (t \o u) = (s \o t) \o u
OBVIOUS

\* The same, for any three at once.
LEMMA AllAssociative == \A s, t, u \in Seq(Byte) : s \o (t \o u) = (s \o t) \o u
BY Associative

Regrouped(a, b, c, d, e) ==
  (a \o b) \o ((c \o d) \o e) = ((a \o (b \o c)) \o d) \o e

\* Concatenations can be regrouped.
LEMMA Regroup ==
  \A a, b, c, d, e :
    ({a, b, c, d, e} \subseteq Seq(Byte)) => Regrouped(a, b, c, d, e)
<1> TAKE a, b, c, d, e
<1>0. HAVE {a, b, c, d, e} \subseteq Seq(Byte)
<1>1. a \in Seq(Byte) /\ b \in Seq(Byte)
  BY <1>0
<1>2. c \in Seq(Byte)
  BY <1>0
<1>3. d \in Seq(Byte) /\ e \in Seq(Byte)
  BY <1>0
<1>4. a \o b \in Seq(Byte)
  BY <1>1, Joined
<1>5. d \o e \in Seq(Byte)
  BY <1>3, Joined
<1>6. (a \o b) \o c \in Seq(Byte)
  BY <1>2, <1>4, Joined
<1>7. a \o (b \o c) = (a \o b) \o c
  BY <1>1, <1>2, AllAssociative, Zenon
<1>8. (c \o d) \o e = c \o (d \o e)
  BY <1>2, <1>3, AllAssociative, Zenon
<1>9. (a \o b) \o (c \o (d \o e)) = ((a \o b) \o c) \o (d \o e)
  BY <1>2, <1>4, <1>5, AllAssociative, Zenon
<1>10. ((a \o b) \o c) \o (d \o e) = (((a \o b) \o c) \o d) \o e
  BY <1>3, <1>6, AllAssociative, Zenon
<1> QED
  BY <1>7, <1>8, <1>9, <1>10, Zenon DEF Regrouped

\* update() adds the bytes to the message, however long they are and whatever
\* waits in the buffer.
THEOREM UpdateHolds ==
  ASSUME NEW message \in Seq(Byte), NEW bytes \in Seq(Byte), NEW hash,
         Holds(hash, message)
  PROVE  Holds(Update(hash, bytes), message \o bytes)
<1> DEFINE done   == hash.compressed
           buffer == hash.buffer
           room   == BlockSize - Len(buffer)
           copied == IF buffer = <<>> THEN 0
                     ELSE IF room < Len(bytes) THEN room ELSE Len(bytes)
           blocks == (Len(bytes) - copied) \div BlockSize
           last   == copied + blocks * BlockSize
           head   == SubSeq(bytes, 1, copied)
           middle == SubSeq(bytes, copied + 1, last)
           rest   == SubSeq(bytes, last + 1, Len(bytes))
           filled == buffer \o head
           full   == Len(filled) = BlockSize
           compressed == (done \o (IF full THEN filled ELSE <<>>)) \o middle
           waiting    == IF rest # <<>> THEN rest ELSE IF full THEN <<>> ELSE filled
<1>1. Update(hash, bytes) = [compressed |-> compressed, buffer |-> waiting,
                             total |-> hash.total + Len(bytes)]
  BY DEF Update
<1>2. /\ BlockSize \in Nat /\ BlockSize > 0
      /\ done \in Seq(Byte) /\ buffer \in Seq(Byte)
      /\ message = done \o buffer /\ Len(buffer) < BlockSize
      /\ hash.total = Len(message)
      /\ Len(bytes) \in Nat /\ Len(buffer) \in Nat /\ Len(done) \in Nat
  BY HashAssumption, LenProperties DEF Holds
<1>3. PICK count \in Nat : Len(done) = count * BlockSize
  BY DEF Holds
<1>4. copied \in 0..Len(bytes)
  BY <1>2
<1>5. /\ blocks \in Nat /\ last \in copied..Len(bytes)
      /\ Len(bytes) - last < BlockSize /\ last - copied = blocks * BlockSize
  <2> HIDE DEF copied
  <2>1. Len(bytes) - copied \in Nat
    BY <1>2, <1>4
  <2>2. /\ blocks \in Nat /\ blocks * BlockSize <= Len(bytes) - copied
        /\ Len(bytes) - copied < blocks * BlockSize + BlockSize
    BY <2>1, <1>2, WholeBlocks
  <2>3. blocks * BlockSize \in Nat
    BY <2>2, <1>2
  <2> HIDE DEF blocks
  <2> QED
    BY <2>1, <2>2, <2>3, <1>2, <1>4
<1>6. /\ head \in Seq(Byte) /\ Len(head) = copied
      /\ middle \in Seq(Byte) /\ Len(middle) = last - copied
      /\ rest \in Seq(Byte) /\ Len(rest) = Len(bytes) - last
      /\ bytes = (head \o middle) \o rest
  <2> HIDE DEF copied, last
  <2>1. copied \in 0..Len(bytes) /\ last \in copied..Len(bytes)
    BY <1>4, <1>5
  <2> QED
    BY <2>1, CutInThree, Zenon
<1>7. /\ copied = 0 \/ buffer # <<>>
      /\ buffer # <<>> => \/ copied + Len(buffer) = BlockSize
                          \/ copied = Len(bytes) /\ Len(bytes) + Len(buffer) < BlockSize
      /\ buffer = <<>> => Len(buffer) = 0
  <2>1. buffer = <<>> => Len(buffer) = 0
    BY EmptySeq
  <2> HIDE DEF buffer
  <2> DEFINE waits == Len(buffer)
             more  == Len(bytes)
  <2>2. waits \in Nat /\ more \in Nat /\ BlockSize \in Nat /\ waits < BlockSize
    BY <1>2
  <2> HIDE DEF waits, more
  <2>3. copied = 0 \/ buffer # <<>>
    OBVIOUS
  <2>4. buffer # <<>> =>
          copied = IF BlockSize - waits < more THEN BlockSize - waits ELSE more
    BY DEF waits, more
  <2> HIDE DEF copied
  <2>5. buffer # <<>> => \/ copied + waits = BlockSize
                         \/ copied = more /\ more + waits < BlockSize
    BY <2>2, <2>4
  <2> QED
    BY <2>1, <2>3, <2>5 DEF waits, more
<1> HIDE DEF done, buffer, copied, head, middle, rest, last, blocks
<1>8. filled \in Seq(Byte) /\ Len(filled) = Len(buffer) + Len(head)
  BY <1>2, <1>6, ConcatProperties
<1>9. hash.total + Len(bytes) = Len(message \o bytes)
  BY <1>2, ConcatProperties
<1>10. message \o bytes = ((done \o filled) \o middle) \o rest
  <2>1. /\ done \in Seq(Byte) /\ buffer \in Seq(Byte) /\ head \in Seq(Byte)
        /\ middle \in Seq(Byte) /\ rest \in Seq(Byte)
    BY <1>2, <1>6
  <2>2. (done \o buffer) \o ((head \o middle) \o rest)
          = ((done \o (buffer \o head)) \o middle) \o rest
    <3>1. {done, buffer, head, middle, rest} \subseteq Seq(Byte)
      BY <2>1
    <3>2. Regrouped(done, buffer, head, middle, rest)
      BY <3>1, Regroup
    <3> QED
      BY <3>2, Zenon DEF Regrouped
  <2> QED
    BY <2>2, <1>2, <1>6, Zenon
<1>11. /\ compressed \in Seq(Byte) /\ waiting \in Seq(Byte)
       /\ message \o bytes = compressed \o waiting
       /\ Len(waiting) < BlockSize
       /\ \E n \in Nat : Len(compressed) = n * BlockSize
  <2>1. CASE full
    <3>1. compressed = (done \o filled) \o middle
      BY <2>1
    <3>2. waiting = rest
      BY <2>1, <1>6, EmptySeq
    <3>3. /\ compressed \in Seq(Byte)
          /\ Len(compressed) = Len(done) + Len(filled) + Len(middle)
      <4>1. /\ done \o filled \in Seq(Byte)
            /\ Len(done \o filled) = Len(done) + Len(filled)
        BY <1>2, <1>8, Joined
      <4> DEFINE start == done \o filled
      <4> HIDE DEF start
      <4>2. /\ start \o middle \in Seq(Byte)
            /\ Len(start \o middle) = Len(start) + Len(middle)
        BY <4>1, <1>6, Joined DEF start
      <4> QED
        BY <3>1, <4>1, <4>2 DEF start
    <3>4. Len(compressed) = (count + 1 + blocks) * BlockSize
      <4>1. Len(compressed) = count * BlockSize + BlockSize + blocks * BlockSize
        BY <3>3, <2>1, <1>3, <1>5, <1>6
      <4>2. BlockSize \in Nat /\ blocks \in Nat
        BY <1>2, <1>5
      <4> HIDE DEF compressed
      <4> QED
        BY ONLY <4>1, <4>2, count \in Nat
    <3>5. count + 1 + blocks \in Nat
      BY <1>5
    <3> HIDE DEF compressed, waiting
    <3> QED
      BY <3>1, <3>2, <3>3, <3>4, <3>5, <1>5, <1>6, <1>10
  <2>2. CASE ~full /\ buffer = <<>>
    <3>1. head = <<>> /\ filled = <<>>
      <4>1. Len(head) = 0 /\ Len(filled) = 0
        BY <2>2, <1>6, <1>7, <1>8
      <4> HIDE DEF filled
      <4> QED
        BY <4>1, <1>6, <1>8, EmptySeq
    <3>2. compressed = done \o middle /\ waiting = rest
      <4>1. compressed = (done \o <<>>) \o middle
        BY <2>2
      <4>2. done \o <<>> = done
        BY <1>2, ConcatEmptySeq
      <4> QED
        BY <2>2, <3>1, <4>1, <4>2
    <3>3. compressed \in Seq(Byte) /\ Len(compressed) = Len(done) + Len(middle)
      <4>1. done \o middle \in Seq(Byte)
            /\ Len(done \o middle) = Len(done) + Len(middle)
        BY <1>2, <1>6, Joined
      <4> HIDE DEF compressed
      <4> QED
        BY <3>2, <4>1
    <3>4. message \o bytes = compressed \o waiting
      <4>1. done \o <<>> = done
        BY <1>2, ConcatEmptySeq
      <4> HIDE DEF compressed, waiting
      <4> QED
        BY <3>1, <3>2, <4>1, <1>10, Zenon
    <3>5. Len(compressed) = (count + blocks) * BlockSize /\ count + blocks \in Nat
      <4>1. Len(compressed) = count * BlockSize + blocks * BlockSize
        BY <3>3, <1>3, <1>5, <1>6
      <4> HIDE DEF compressed
      <4> QED
        BY <4>1, <1>2, <1>5, MultiplesAdd
    <3> HIDE DEF compressed, waiting
    <3> QED
      BY <3>2, <3>3, <3>4, <3>5, <1>5, <1>6
  <2>3. CASE ~full /\ buffer # <<>>
    <3>1. copied = Len(bytes) /\ Len(filled) < BlockSize
      BY <2>3, <1>6, <1>7, <1>8
    <3>2. middle = <<>> /\ rest = <<>>
      <4>1. Len(middle) = 0 /\ Len(rest) = 0
        BY <3>1, <1>2, <1>5, <1>6
      <4> QED
        BY <4>1, <1>6, EmptySeq
    <3>3. compressed = done /\ waiting = filled
      <4>1. compressed = (done \o <<>>) \o <<>>
        BY <2>3, <3>2
      <4>2. done \o <<>> = done
        BY <1>2, ConcatEmptySeq
      <4> QED
        BY <2>3, <3>2, <4>1, <4>2
    <3>4. message \o bytes = compressed \o waiting
      <4>1. done \o filled \in Seq(Byte)
        BY <1>2, <1>8, Joined
      <4>2. ((done \o filled) \o <<>>) \o <<>> = done \o filled
        BY <4>1, ConcatEmptySeq
      <4> HIDE DEF compressed, waiting, filled
      <4> QED
        BY <3>2, <3>3, <4>2, <1>10, Zenon
    <3> HIDE DEF compressed, waiting, filled
    <3> QED
      BY <3>1, <3>3, <3>4, <1>2, <1>3, <1>8
  <2> QED
    BY <2>1, <2>2, <2>3
<1> QED
  <2> HIDE DEF compressed, waiting
  <2> DEFINE updated == Update(hash, bytes)
  <2>1. /\ updated.compressed = compressed /\ updated.buffer = waiting
        /\ updated.total = hash.total + Len(bytes)
    BY <1>1
  <2> HIDE DEF updated
  <2>2. Holds(updated, message \o bytes)
    BY <2>1, <1>9, <1>11 DEF Holds
  <2> QED
    BY <2>2 DEF updated

\* final_hex() pads as the reference does: one block more, or two when the mark
\* and the length do not fit behind what waits in the buffer.
THEOREM FinalHexIsPadded ==
  ASSUME NEW message \in Seq(Byte), NEW hash, Holds(hash, message)
  PROVE  FinalHex(hash) = Padded(message)
<1> DEFINE used  == Len(hash.buffer) + 1
           size  == IF used <= BlockSize - LengthSize THEN BlockSize ELSE 2 * BlockSize
           fill  == size - LengthSize - used
           zeros == CHOOSE n \in 0..(BlockSize - 1) :
                      IsMultiple(Len(message) + 1 + n + LengthSize)
<1>1. /\ BlockSize \in Nat /\ LengthSize \in Nat
      /\ 0 < LengthSize /\ LengthSize < BlockSize
      /\ Len(hash.buffer) \in Nat /\ Len(hash.buffer) < BlockSize
      /\ Len(message) \in Nat
  BY HashAssumption, LenProperties DEF Holds
<1>2. PICK count \in Nat : Len(hash.compressed) = count * BlockSize
  BY DEF Holds
<1>3. Len(message) = count * BlockSize + Len(hash.buffer)
  <2>1. Len(hash.compressed \o hash.buffer) = Len(hash.compressed) + Len(hash.buffer)
    BY Joined DEF Holds
  <2> QED
    BY <1>2, <2>1 DEF Holds
<1>4. fill \in 0..(BlockSize - 1)
  BY <1>1
<1>5. IsMultiple(Len(message) + 1 + fill + LengthSize)
  <2>1. \E blocks \in 1..2 : size = blocks * BlockSize
    BY <1>1
  <2>2. PICK blocks \in 1..2 : size = blocks * BlockSize
    BY <2>1
  <2>3. Len(message) + 1 + fill + LengthSize = count * BlockSize + size
    <3> DEFINE product == count * BlockSize
    <3>1. product \in Nat /\ size \in Nat
      BY <1>1
    <3>2. Len(message) = product + Len(hash.buffer)
      BY <1>3
    <3> HIDE DEF product, size
    <3> DEFINE length == Len(message)
               waits  == Len(hash.buffer)
    <3>3. length \in Int /\ waits \in Int /\ length = product + waits
      BY <3>2, <1>1
    <3> HIDE DEF length, waits
    <3>4. length + 1 + (size - LengthSize - (waits + 1)) + LengthSize = product + size
      BY <3>1, <3>3, <1>1
    <3> QED
      BY <3>4 DEF product, length, waits
  <2>4. /\ count * BlockSize + size = (count + blocks) * BlockSize
        /\ count + blocks \in Nat
    BY <1>1, <2>2, MultiplesAdd
  <2>5. Len(message) + 1 + fill + LengthSize \in Nat
    BY <1>1, <1>4
  <2> HIDE DEF fill, size
  <2> QED
    BY <2>3, <2>4, <2>5, MultipleIs
<1>6. zeros \in 0..(BlockSize - 1)
      /\ IsMultiple(Len(message) + 1 + zeros + LengthSize)
  <2> HIDE DEF fill
  <2> QED
    BY <1>4, <1>5
<1>7. zeros = fill
  <2> DEFINE length == Len(message) + 1 + LengthSize
  <2>1. length \in Nat /\ fill \in Int /\ zeros \in Int
    BY <1>1, <1>4, <1>6
  <2> HIDE DEF fill, zeros
  <2>2. /\ Len(message) + 1 + fill + LengthSize = length + fill
        /\ Len(message) + 1 + zeros + LengthSize = length + zeros
    BY <1>1, <2>1
  <2> HIDE DEF length
  <2> QED
    BY <1>4, <1>5, <1>6, <2>1, <2>2, OnePadding
<1>8. /\ message = hash.compressed \o hash.buffer
      /\ hash.total = Len(message)
  BY DEF Holds
<1> HIDE DEF zeros
<1> QED
  BY <1>7, <1>8 DEF FinalHex, Padded, zeros

-----------------------------------------------------------------------------
(* Induction, and sequences put together. *)

\* Induction over the natural numbers, for a set.
LEMMA NaturalInduction ==
  ASSUME NEW S, 0 \in S, \A n \in Nat : n \in S => n + 1 \in S
  PROVE  Nat \subseteq S
<1> DEFINE R == OpToRel(<, Nat)
           T == {n \in Nat : n \notin S}
<1>1. IsWellFoundedOn(R, Nat)
  BY NatLessThanWellFounded
<1> SUFFICES ASSUME T # {} PROVE FALSE
  OBVIOUS
<1>2. PICK x \in T : \A y \in T : ~ (<<y, x>> \in R)
  <2>1. T \subseteq Nat
    BY DEF T
  <2> HIDE DEF R, T
  <2> QED
    BY <1>1, <2>1, WFMin
<1>3. x # 0 /\ x \in Nat
  OBVIOUS
<1>4. x - 1 \in T
  BY <1>3
<1>5. <<x - 1, x>> \in R
  BY <1>3 DEF OpToRel
<1> QED
  BY <1>2, <1>4, <1>5

\* Two sequences joined.
LEMMA Appended ==
  ASSUME NEW S, NEW a \in Seq(S), NEW b \in Seq(S)
  PROVE  /\ a \o b \in Seq(S) /\ Len(a) \in Nat /\ Len(b) \in Nat
         /\ Len(a \o b) = Len(a) + Len(b)
         /\ \A i \in 1..Len(a) : (a \o b)[i] = a[i]
         /\ \A i \in 1..Len(b) : (a \o b)[Len(a) + i] = b[i]
OBVIOUS

-----------------------------------------------------------------------------
(* The padded message. *)

\* What a padded message is made of.
HashCell    == Byte \cup {Mark, <<"zero", 0>>} \cup ({"length"} \X Nat)

\* There is always a number of zeros that fills up a message.
LEMMA ZerosExist ==
  ASSUME NEW length \in Nat
  PROVE  \E n \in 0..(BlockSize - 1) : IsMultiple(length + n)
<1>1. BlockSize \in Nat /\ BlockSize > 0
  BY HashAssumption
<1>2. PICK above : above = length + BlockSize - 1
  OBVIOUS
<1>3. above \in Nat
  BY <1>1, <1>2
<1>4. PICK q : q = above \div BlockSize
  OBVIOUS
<1>5. q \in Nat /\ q * BlockSize <= above /\ above < q * BlockSize + BlockSize
  BY <1>1, <1>3, <1>4, WholeBlocks
<1>6. PICK p : p = q * BlockSize
  OBVIOUS
<1>7. p \in Nat
  BY <1>1, <1>5, <1>6
<1>8. p - length \in 0..(BlockSize - 1) /\ length + (p - length) = p
  BY <1>1, <1>2, <1>5, <1>6, <1>7
<1>9. IsMultiple(p)
  BY <1>5, <1>6, <1>7, MultipleIs
<1> QED
  BY <1>8, <1>9

\* A padded message begins with the message and ends with its length.
LEMMA PaddedIs ==
  ASSUME NEW message \in Seq(Byte)
  PROVE  /\ Padded(message) \in Seq(HashCell)
         /\ Len(Padded(message)) \in Nat /\ Len(message) \in Nat
         /\ Len(message) < Len(Padded(message))
         /\ \A i \in 1..Len(message) : Padded(message)[i] = message[i]
         /\ Padded(message)[Len(Padded(message))] = <<"length", Len(message)>>
<1> DEFINE zeros == CHOOSE n \in 0..(BlockSize - 1) :
                      IsMultiple(Len(message) + 1 + n + LengthSize)
<1>1. BlockSize \in Nat /\ LengthSize \in Nat /\ LengthSize > 0 /\ Len(message) \in Nat
  BY HashAssumption, LenProperties
<1>2. zeros \in Nat
  <2>1. PICK l : l = Len(message) + 1 + LengthSize
    OBVIOUS
  <2>2. l \in Nat
    BY <1>1, <2>1
  <2>3. PICK n \in 0..(BlockSize - 1) : IsMultiple(l + n)
    BY <2>2, ZerosExist
  <2>4. l + n = Len(message) + 1 + n + LengthSize
    BY <1>1, <2>1, <2>3
  <2>5. zeros \in 0..(BlockSize - 1)
    BY <2>3, <2>4
  <2> HIDE DEF zeros
  <2> QED
    BY <1>1, <2>5
<1>3. PICK m, l, z, f : /\ m = message /\ l = Len(message)
                        /\ z = Zeros(zeros) /\ f = Length(l)
  OBVIOUS
<1>4. Padded(message) = ((m \o <<Mark>>) \o z) \o f
  BY <1>3 DEF Padded
<1>5. PICK k : k = zeros
  OBVIOUS
<1>6. /\ m \in Seq(HashCell) /\ Len(m) = l /\ l \in Nat
      /\ z \in Seq(HashCell) /\ Len(z) = k /\ k \in Nat
      /\ f \in Seq(HashCell) /\ Len(f) = LengthSize /\ f[LengthSize] = <<"length", l>>
  <2>1. m \in Seq(HashCell)
    BY <1>3 DEF HashCell
  <2>2. z \in Seq(HashCell) /\ Len(z) = k /\ k \in Nat
    <3> HIDE DEF zeros
    <3>1. z = [i \in 1..k |-> <<"zero", 0>>] /\ k \in Nat
      BY <1>2, <1>3, <1>5 DEF Zeros
    <3>2. <<"zero", 0>> \in HashCell
      BY DEF HashCell
    <3> QED
      BY ONLY <3>1, <3>2
  <2>3. f \in Seq(HashCell) /\ Len(f) = LengthSize /\ f[LengthSize] = <<"length", l>>
    <3>1. f = [i \in 1..LengthSize |-> <<"length", l>>]
      BY <1>3 DEF Length
    <3>2. <<"length", l>> \in HashCell
      BY <1>1, <1>3 DEF HashCell
    <3> QED
      BY <1>1, <3>1, <3>2
  <2> QED
    BY <1>1, <1>3, <2>1, <2>2, <2>3
<1>7. PICK a : a = m \o <<Mark>>
  OBVIOUS
<1>8. /\ a \in Seq(HashCell) /\ Len(a) = l + 1 /\ \A i \in 1..l : a[i] = m[i]
  <2>1. Mark \in HashCell
    BY DEF HashCell
  <2> HIDE DEF Mark
  <2> QED
    BY <1>6, <1>7, <2>1
<1>9. PICK b : b = a \o z
  OBVIOUS
<1>10. b \in Seq(HashCell) /\ Len(b) = l + 1 + k /\ \A i \in 1..l : b[i] = m[i]
  <2>1. /\ a \in Seq(HashCell) /\ z \in Seq(HashCell)
    BY <1>6, <1>8
  <2>2. /\ b \in Seq(HashCell) /\ Len(b) = Len(a) + Len(z)
        /\ \A i \in 1..Len(a) : b[i] = a[i]
    BY ONLY <1>9, <2>1, Appended
  <2> QED
    BY <1>6, <1>8, <2>2
<1>11. PICK c : c = b \o f
  OBVIOUS
<1>12. /\ c \in Seq(HashCell) /\ Len(c) = l + 1 + k + LengthSize
       /\ \A i \in 1..l : c[i] = m[i]
       /\ c[Len(c)] = <<"length", l>>
  <2>1. /\ b \in Seq(HashCell) /\ f \in Seq(HashCell)
    BY <1>6, <1>10
  <2>2. /\ c \in Seq(HashCell) /\ Len(c) = Len(b) + Len(f)
        /\ \A i \in 1..Len(b) : c[i] = b[i]
        /\ \A i \in 1..Len(f) : c[Len(b) + i] = f[i]
    BY ONLY <1>11, <2>1, Appended
  <2>3. LengthSize \in 1..Len(f)
    BY <1>1, <1>6
  <2> QED
    BY <1>1, <1>6, <1>10, <2>2, <2>3
<1>13. Padded(message) = c
  BY <1>4, <1>7, <1>9, <1>11
<1>14. Len(c) \in Nat /\ l < Len(c)
  BY <1>1, <1>6, <1>12
<1>15. l = Len(message) /\ \A i \in 1..Len(message) : c[i] = message[i]
  BY <1>3, <1>12
<1> QED
  BY ONLY <1>1, <1>12, <1>13, <1>14, <1>15

\* Messages that are padded to the same are the same: the length field tells how
\* much of it is the message.
THEOREM PaddedIsInjective ==
  ASSUME NEW a \in Seq(Byte), NEW b \in Seq(Byte), Padded(a) = Padded(b)
  PROVE  a = b
<1>1. Len(a) = Len(b)
  <2>1. Padded(a)[Len(Padded(a))] = <<"length", Len(a)>>
    BY PaddedIs
  <2>2. Padded(b)[Len(Padded(b))] = <<"length", Len(b)>>
    BY PaddedIs
  <2> QED
    BY <2>1, <2>2
<1>2. \A i \in 1..Len(a) : a[i] = b[i]
  <2>1. \A i \in 1..Len(a) : Padded(a)[i] = a[i]
    BY PaddedIs
  <2>2. \A i \in 1..Len(b) : Padded(b)[i] = b[i]
    BY PaddedIs
  <2> QED
    BY <1>1, <2>1, <2>2
<1> QED
  BY <1>1, <1>2, SeqEqual

-----------------------------------------------------------------------------
(* Flattened sequences. *)

\* The recursion of FlattenSeq has a solution.
LEMMA FlattenExists ==
  ASSUME NEW seqs, NEW n \in Nat
  PROVE  \E f : f = [i \in 1..n |-> IF i = 1 THEN seqs[i] ELSE f[i - 1] \o seqs[i]]
<1> DEFINE Solves(f, m) == f = [i \in 1..m |-> IF i = 1 THEN seqs[i] ELSE f[i - 1] \o seqs[i]]
           S == {m \in Nat : \E f : Solves(f, m)}
<1>1. 0 \in S
  <2>1. Solves(<<>>, 0)
    OBVIOUS
  <2> QED
    BY <2>1
<1>2. ASSUME NEW m \in Nat, m \in S PROVE m + 1 \in S
  <2>1. PICK f : Solves(f, m)
    BY <1>2
  <2> DEFINE g == [i \in 1..(m + 1) |-> IF i = 1 THEN seqs[i] ELSE f[i - 1] \o seqs[i]]
  <2>2. \A i \in 1..m : f[i] = IF i = 1 THEN seqs[i] ELSE f[i - 1] \o seqs[i]
    BY <2>1
  <2>3. \A i \in 1..m : g[i] = f[i]
    BY <2>2
  <2>4. \A i \in 1..(m + 1) : i # 1 => i - 1 \in 1..m
    OBVIOUS
  <2>5. \A i \in 1..(m + 1) : g[i] = IF i = 1 THEN seqs[i] ELSE g[i - 1] \o seqs[i]
    BY <2>3, <2>4
  <2>6. Solves(g, m + 1)
    <3> HIDE DEF g
    <3>1. g = [i \in 1..(m + 1) |-> g[i]]
      BY DEF g
    <3> QED
      BY <2>5, <3>1
  <2> HIDE DEF g, Solves
  <2> QED
    BY <2>6
<1>3. Nat \subseteq S
  <2> HIDE DEF S
  <2> QED
    BY <1>1, <1>2, NaturalInduction
<1> QED
  BY <1>3

\* Prefixes, the first of them empty, that end in what FlattenSeq returns.
LEMMA FlattenPrefixes ==
  ASSUME NEW S, NEW seqs \in Seq(Seq(S))
  PROVE  \E h \in [0..Len(seqs) -> Seq(S)] :
           /\ h[0] = <<>> /\ FlattenSeq(seqs) = h[Len(seqs)]
           /\ \A k \in 1..Len(seqs) : h[k] = h[k - 1] \o seqs[k]
<1>0. PICK n \in Nat : n = Len(seqs)
  BY LenProperties
<1>s. \A k \in 1..n : seqs[k] \in Seq(S)
  BY <1>0, ElementOfSeq
<1>1. CASE n = 0
  <2>1. FlattenSeq(seqs) = seqs /\ seqs = <<>>
    BY <1>0, <1>1, EmptySeq DEF FlattenSeq
  <2> DEFINE h == [k \in 0..n |-> <<>>]
  <2>2. h \in [0..n -> Seq(S)] /\ h[0] = <<>> /\ h[n] = <<>> /\ \A k \in 1..n : FALSE
    BY <1>1
  <2> HIDE DEF h
  <2> QED
    BY <1>0, <2>1, <2>2
<1>2. CASE n # 0
  <2> DEFINE f == CHOOSE g : g = [i \in 1..n |-> IF i = 1 THEN seqs[i] ELSE g[i - 1] \o seqs[i]]
  <2>1. f = [i \in 1..n |-> IF i = 1 THEN seqs[i] ELSE f[i - 1] \o seqs[i]]
    BY FlattenExists
  <2>2. FlattenSeq(seqs) = f[n]
    BY <1>0, <1>2 DEF FlattenSeq
  <2>3. \A i \in 1..n : f[i] = IF i = 1 THEN seqs[i] ELSE f[i - 1] \o seqs[i]
    BY <2>1
  <2> HIDE DEF f
  <2> DEFINE h == [k \in 0..n |-> IF k = 0 THEN <<>> ELSE f[k]]
  <2>4. h[0] = <<>> /\ h[n] = f[n]
    BY <1>2
  <2>5. \A k \in 1..n : h[k] = h[k - 1] \o seqs[k]
    <3> SUFFICES ASSUME NEW k \in 1..n PROVE h[k] = h[k - 1] \o seqs[k]
      OBVIOUS
    <3>1. h[k] = f[k] /\ k - 1 \in 0..n
      OBVIOUS
    <3>2. CASE k = 1
      <4>1. h[k] = seqs[k] /\ h[k - 1] = <<>>
        BY <2>3, <3>1, <3>2
      <4>2. <<>> \o seqs[k] = seqs[k]
        BY <1>s, ConcatEmptySeq
      <4> QED
        BY <4>1, <4>2
    <3>3. CASE k # 1
      <4>1. h[k - 1] = f[k - 1]
        BY <3>3
      <4> QED
        BY <2>3, <3>1, <3>3, <4>1
    <3> QED
      BY <3>2, <3>3
  <2>6. h \in [0..n -> Seq(S)]
    <3> DEFINE T == {k \in Nat : k <= n => h[k] \in Seq(S)}
    <3>1. 0 \in T
      BY <2>4
    <3>2. ASSUME NEW k \in Nat, k \in T PROVE k + 1 \in T
      <4> SUFFICES ASSUME k + 1 <= n PROVE h[k + 1] \in Seq(S)
        OBVIOUS
      <4>1. h[k] \in Seq(S) /\ k + 1 \in 1..n /\ (k + 1) - 1 = k
        BY <1>0, <3>2
      <4>2. h[k + 1] = h[k] \o seqs[k + 1] /\ seqs[k + 1] \in Seq(S)
        BY <1>s, <2>5, <4>1
      <4> HIDE DEF h
      <4> QED
        BY <4>1, <4>2, Appended
    <3>3. Nat \subseteq T
      <4> HIDE DEF T
      <4> QED
        BY <3>1, <3>2, NaturalInduction
    <3>5. h = [k \in 0..n |-> h[k]]
      OBVIOUS
    <3> HIDE DEF h
    <3>4. \A k \in 0..n : h[k] \in Seq(S)
      BY <3>3
    <3> HIDE DEF T
    <3> QED
      BY <3>4, <3>5
  <2> HIDE DEF h
  <2> QED
    BY <1>0, <2>2, <2>4, <2>5, <2>6
<1> QED
  BY <1>1, <1>2

\* Where the parts of a flattened sequence begin and end.
Laid(S, seqs, at) ==
  /\ FlattenSeq(seqs) \in Seq(S) /\ at \in [0..Len(seqs) -> Nat]
  /\ at[0] = 0 /\ at[Len(seqs)] = Len(FlattenSeq(seqs))
  /\ \A k \in 1..Len(seqs) : at[k] = at[k - 1] + Len(seqs[k])
  /\ \A k \in 0..Len(seqs) : at[k] <= at[Len(seqs)]
  /\ \A k \in 1..Len(seqs) : \A j \in 1..Len(seqs[k]) :
       FlattenSeq(seqs)[at[k - 1] + j] = seqs[k][j]

LEMMA Flattened ==
  ASSUME NEW S, NEW seqs \in Seq(Seq(S))
  PROVE  \E at : Laid(S, seqs, at)
<1>0. PICK n \in Nat : n = Len(seqs)
  BY LenProperties
<1>s. \A k \in 1..n : seqs[k] \in Seq(S)
  BY <1>0, ElementOfSeq
<1>1. PICK h \in [0..n -> Seq(S)] :
        /\ h[0] = <<>> /\ FlattenSeq(seqs) = h[n]
        /\ \A k \in 1..n : h[k] = h[k - 1] \o seqs[k]
  BY <1>0, FlattenPrefixes
<1>2. \A k \in 1..n :
        /\ k - 1 \in 0..n
        /\ Len(h[k]) = Len(h[k - 1]) + Len(seqs[k])
        /\ \A i \in 1..Len(h[k - 1]) : h[k][i] = h[k - 1][i]
        /\ \A i \in 1..Len(seqs[k]) : h[k][Len(h[k - 1]) + i] = seqs[k][i]
  <2> SUFFICES ASSUME NEW k \in 1..n PROVE <1>2!(k)
    OBVIOUS
  <2> DEFINE a == h[k - 1]
             b == seqs[k]
  <2>0. k - 1 \in 0..n
    OBVIOUS
  <2>1. h[k] = a \o b
    BY <1>1
  <2>2. a \in Seq(S) /\ b \in Seq(S)
    BY <1>s, <2>0
  <2> HIDE DEF a, b
  <2>3. /\ Len(a \o b) = Len(a) + Len(b)
        /\ \A i \in 1..Len(a) : (a \o b)[i] = a[i]
        /\ \A i \in 1..Len(b) : (a \o b)[Len(a) + i] = b[i]
    BY ONLY <2>2, Appended
  <2> QED
    BY <2>0, <2>1, <2>3 DEF a, b
<1>3. \A k \in 0..n : Len(h[k]) \in Nat
  BY LenProperties
<1> DEFINE T == {d \in Nat : \A k \in 0..n : k + d <= n =>
                  /\ Len(h[k]) <= Len(h[k + d])
                  /\ \A i \in 1..Len(h[k]) : h[k + d][i] = h[k][i]}
<1>4. 0 \in T
  BY <1>3
<1>5. ASSUME NEW d \in Nat, d \in T PROVE d + 1 \in T
  <2> SUFFICES ASSUME NEW k \in 0..n, k + (d + 1) <= n
               PROVE  /\ Len(h[k]) <= Len(h[k + (d + 1)])
                      /\ \A i \in 1..Len(h[k]) : h[k + (d + 1)][i] = h[k][i]
    OBVIOUS
  <2>1. PICK m : m = k + (d + 1)
    OBVIOUS
  <2>2. m \in 1..n /\ m - 1 = k + d /\ k + d \in 0..n /\ k + d <= n
    BY <2>1, <1>0
  <2>3. Len(h[k]) <= Len(h[m - 1]) /\ \A i \in 1..Len(h[k]) : h[m - 1][i] = h[k][i]
    BY <1>5, <2>2
  <2>4. /\ Len(h[m]) = Len(h[m - 1]) + Len(seqs[m])
        /\ \A i \in 1..Len(h[m - 1]) : h[m][i] = h[m - 1][i]
    BY <1>2, <2>2
  <2>5. Len(h[k]) \in Nat /\ Len(h[m - 1]) \in Nat /\ Len(seqs[m]) \in Nat
    BY <1>3, <1>s, <2>2, LenProperties
  <2>6. Len(h[k]) <= Len(h[m])
    <3>1. PICK x, y, z : x = Len(h[k]) /\ y = Len(h[m - 1]) /\ z = Len(seqs[m])
      OBVIOUS
    <3>2. x \in Nat /\ y \in Nat /\ z \in Nat /\ x <= y /\ Len(h[m]) = y + z
      BY <2>3, <2>4, <2>5, <3>1
    <3>3. x <= y + z
      BY <3>2
    <3> QED
      BY <3>1, <3>2, <3>3
  <2>7. \A i \in 1..Len(h[k]) : h[m][i] = h[k][i]
    BY <2>3, <2>4, <2>5
  <2> QED
    BY <2>1, <2>6, <2>7
<1>6. Nat \subseteq T
  <2> HIDE DEF T
  <2> QED
    BY <1>4, <1>5, NaturalInduction
<1>7. \A k \in 0..n : /\ Len(h[k]) <= Len(h[n])
                       /\ \A i \in 1..Len(h[k]) : h[n][i] = h[k][i]
  <2> SUFFICES ASSUME NEW k \in 0..n PROVE <1>7!(k)
    OBVIOUS
  <2>1. n - k \in Nat /\ k + (n - k) = n /\ n <= n
    BY <1>0
  <2>2. n - k \in T
    BY <1>6, <2>1
  <2> QED
    BY <2>1, <2>2
<1> HIDE DEF T
<1> DEFINE at == [k \in 0..n |-> Len(h[k])]
<1>8. \A k \in 0..n : at[k] = Len(h[k])
  OBVIOUS
<1>9. at \in [0..n -> Nat]
  BY <1>3
<1> HIDE DEF at
<1>10. ASSUME NEW k \in 1..n, NEW j \in 1..Len(seqs[k])
       PROVE  h[n][at[k - 1] + j] = seqs[k][j]
  <2>1. at[k - 1] = Len(h[k - 1]) /\ Len(h[k - 1]) \in Nat /\ Len(seqs[k]) \in Nat
    BY <1>2, <1>3, <1>8, <1>s, LenProperties
  <2>2. at[k - 1] + j \in 1..Len(h[k])
    <3>1. PICK x, y : x = at[k - 1] /\ y = Len(seqs[k])
      OBVIOUS
    <3>2. x \in Nat /\ y \in Nat /\ Len(h[k]) = x + y /\ j \in 1..y
      BY <1>2, <2>1, <3>1
    <3>3. x + j \in 1..(x + y)
      BY <3>2
    <3> QED
      BY <3>1, <3>2, <3>3
  <2>3. h[k][at[k - 1] + j] = seqs[k][j]
    BY <1>2, <2>1
  <2> QED
    BY <1>7, <2>2, <2>3
<1>11. \A k \in 1..n : at[k] = at[k - 1] + Len(seqs[k])
  <2> SUFFICES ASSUME NEW k \in 1..n PROVE at[k] = at[k - 1] + Len(seqs[k])
    OBVIOUS
  <2>1. at[k] = Len(h[k]) /\ at[k - 1] = Len(h[k - 1])
    BY <1>2, <1>8
  <2> QED
    BY <1>2, <2>1
<1>12. 0 \in 0..n /\ n \in 0..n
  OBVIOUS
<1>13. at[0] = 0 /\ at[n] = Len(h[n]) /\ h[n] \in Seq(S)
  BY <1>1, <1>8, <1>12
<1>14. \A k \in 0..n : at[k] <= at[n]
  BY <1>7, <1>8, <1>12
<1>15. FlattenSeq(seqs) = h[n]
  BY <1>1
<1>16. Laid(S, seqs, at)
  BY <1>0, <1>9, <1>10, <1>11, <1>13, <1>14, <1>15, Zenon DEF Laid
<1> QED
  BY <1>16

-----------------------------------------------------------------------------
(* Escaped strings. *)

\* What stands in an escaped string for each cell of the string.
Escapes(value) ==
  [i \in DOMAIN value |->
    IF value[i] \in {Quote, Backslash} THEN <<Backslash, value[i]>> ELSE <<value[i]>>]

LEMMA EscapeIsTyped ==
  ASSUME NEW S, Backslash \in S, NEW value \in Seq(S)
  PROVE  /\ Escapes(value) \in Seq(Seq(S)) /\ Len(Escapes(value)) = Len(value)
         /\ EscapeJsonString(value) = FlattenSeq(Escapes(value))
         /\ EscapeJsonString(value) \in Seq(S)
<1>1. PICK n \in Nat : n = Len(value) /\ DOMAIN value = 1..n
  BY LenProperties
<1>2. \A i \in 1..n : value[i] \in S
  BY <1>1, ElementOfSeq
<1>3. \A i \in 1..n : Escapes(value)[i] \in Seq(S)
  <2> SUFFICES ASSUME NEW i \in 1..n PROVE Escapes(value)[i] \in Seq(S)
    OBVIOUS
  <2>1. value[i] \in S
    BY <1>2
  <2>2. <<Backslash, value[i]>> \in Seq(S) /\ <<value[i]>> \in Seq(S)
    BY <2>1
  <2> QED
    BY <1>1, <2>2 DEF Escapes
<1>4. Escapes(value) = [i \in 1..n |-> Escapes(value)[i]]
  BY <1>1 DEF Escapes
<1>5. Escapes(value) \in Seq(Seq(S)) /\ Len(Escapes(value)) = n
  <2> DEFINE escapes == Escapes(value)
  <2> HIDE DEF escapes
  <2>1. escapes = [i \in 1..n |-> escapes[i]] /\ \A i \in 1..n : escapes[i] \in Seq(S)
    BY <1>3, <1>4 DEF escapes
  <2>2. escapes \in Seq(Seq(S))
    BY <2>1, IsASeq
  <2>3. DOMAIN escapes = 1..n
    BY <2>1
  <2>4. Len(escapes) = n
    BY <2>2, <2>3, LenProperties
  <2> QED
    BY <2>2, <2>4 DEF escapes
<1>6. EscapeJsonString(value) = FlattenSeq(Escapes(value))
  BY DEF EscapeJsonString, Escapes
<1>7. PICK at : Laid(S, Escapes(value), at)
  BY <1>5, Flattened
<1> QED
  BY <1>1, <1>5, <1>6, <1>7 DEF Laid

\* The recursion of StringsFrom has a solution: it goes up to the end of the text.
RestAt(text, f, i) ==
  IF i > Len(text) THEN {}
  ELSE IF text[i] = Quote THEN {<<>>}
  ELSE IF text[i] # Backslash THEN {<<text[i]>> \o s : s \in f[i + 1]}
  ELSE IF i < Len(text) /\ text[i + 1] \in {Quote, Backslash}
       THEN {<<text[i + 1]>> \o s : s \in f[i + 2]}
  ELSE {}

LEMMA RestExists ==
  ASSUME NEW text, NEW n \in Nat, Len(text) = n
  PROVE  \E f : f = [i \in 1..(n + 2) |-> RestAt(text, f, i)]
<1> DEFINE Solves(f, m) == f = [i \in (n + 3 - m)..(n + 2) |-> RestAt(text, f, i)]
           S == {m \in Nat : m <= n + 2 => \E f : Solves(f, m)}
<1>1. 0 \in S
  <2>1. Solves(<<>>, 0)
    <3>1. (n + 3 - 0)..(n + 2) = {}
      OBVIOUS
    <3> QED
      BY <3>1
  <2> HIDE DEF Solves
  <2> QED
    BY <2>1
<1>2. ASSUME NEW m \in Nat, m \in S PROVE m + 1 \in S
  <2> SUFFICES ASSUME m + 1 <= n + 2 PROVE \E g : Solves(g, m + 1)
    OBVIOUS
  <2>1. PICK f : Solves(f, m)
    BY <1>2
  <2>0. PICK a \in Nat : a = n + 3 - m /\ a - 1 = n + 3 - (m + 1)
    OBVIOUS
  <2> DEFINE g == [i \in (a - 1)..(n + 2) |-> RestAt(text, f, i)]
  <2>2. \A i \in a..(n + 2) : f[i] = RestAt(text, f, i)
    BY <2>0, <2>1
  <2>3. \A i \in a..(n + 2) : g[i] = f[i]
    BY <2>0, <2>2
  <2>4. \A i \in (a - 1)..(n + 2) : i <= n => i + 1 \in a..(n + 2) /\ i + 2 \in a..(n + 2)
    BY <2>0
  <2>5. \A i \in (a - 1)..(n + 2) : g[i] = RestAt(text, g, i)
    <3> SUFFICES ASSUME NEW i \in (a - 1)..(n + 2) PROVE RestAt(text, f, i) = RestAt(text, g, i)
      OBVIOUS
    <3> HIDE DEF g
    <3>1. CASE i > n
      BY <3>1 DEF RestAt
    <3>2. CASE i <= n
      <4>1. g[i + 1] = f[i + 1] /\ g[i + 2] = f[i + 2]
        BY <2>3, <2>4, <3>2
      <4> QED
        BY <4>1 DEF RestAt
    <3> QED
      BY <2>0, <3>1, <3>2
  <2>6. Solves(g, m + 1)
    <3> HIDE DEF g
    <3>1. g = [i \in (a - 1)..(n + 2) |-> g[i]]
      BY DEF g
    <3> QED
      BY <2>0, <2>5, <3>1
  <2> HIDE DEF g, Solves
  <2> QED
    BY <2>6
<1>3. Nat \subseteq S
  <2> HIDE DEF S
  <2> QED
    BY <1>1, <1>2, NaturalInduction
<1>4. n + 2 \in S /\ n + 3 - (n + 2) = 1
  BY <1>3
<1> QED
  BY <1>4

LEMMA StringsFromIs ==
  ASSUME NEW text, NEW n \in Nat, Len(text) = n
  PROVE  \A i \in 1..(n + 2) : StringsFrom(text)[i] = RestAt(text, StringsFrom(text), i)
<1> DEFINE f == CHOOSE g : g = [i \in 1..(n + 2) |-> RestAt(text, g, i)]
<1>1. f = [i \in 1..(n + 2) |-> RestAt(text, f, i)]
  BY RestExists
<1>2. StringsFrom(text) = f
  BY DEF StringsFrom, RestAt
<1>3. \A i \in 1..(n + 2) : f[i] = RestAt(text, f, i)
  BY <1>1
<1> QED
  BY <1>2, <1>3

\* What is unescaped from a text is made of its cells.
LEMMA StringsAreTyped ==
  ASSUME NEW S, NEW text \in Seq(S)
  PROVE  \A i \in 1..(Len(text) + 2) : StringsFrom(text)[i] \subseteq Seq(S)
<1>0. PICK n \in Nat : n = Len(text)
  BY LenProperties
<1> DEFINE f == StringsFrom(text)
<1>1. \A i \in 1..(n + 2) : f[i] = RestAt(text, f, i)
  BY <1>0, StringsFromIs
<1>2. \A i \in 1..n : text[i] \in S
  BY <1>0, ElementOfSeq
<1> HIDE DEF f
<1> DEFINE T == {m \in Nat : \A i \in 1..(n + 2) : i >= n + 1 - m => f[i] \subseteq Seq(S)}
<1>3. 0 \in T
  <2> SUFFICES ASSUME NEW i \in 1..(n + 2), i > n PROVE f[i] = {}
    OBVIOUS
  <2> QED
    BY <1>0, <1>1 DEF RestAt
<1>4. ASSUME NEW m \in Nat, m \in T PROVE m + 1 \in T
  <2> SUFFICES ASSUME NEW i \in 1..(n + 2), i >= n + 1 - (m + 1) PROVE f[i] \subseteq Seq(S)
    OBVIOUS
  <2>1. CASE i > n
    BY <1>0, <1>1, <2>1 DEF RestAt
  <2>2. CASE i <= n
    <3>1. f[i + 1] \subseteq Seq(S) /\ f[i + 2] \subseteq Seq(S) /\ i \in 1..n
      <4>1. \A j \in 1..(n + 2) : j >= n + 1 - m => f[j] \subseteq Seq(S)
        BY <1>4
      <4>2. /\ i \in 1..n /\ i + 1 \in 1..(n + 2) /\ i + 2 \in 1..(n + 2)
            /\ i + 1 >= n + 1 - m /\ i + 2 >= n + 1 - m
        BY <2>2
      <4> QED
        BY <4>1, <4>2
    <3>2. /\ text[i] \in S
          /\ i < n => text[i + 1] \in S
      BY <1>2, <3>1
    <3>3. \A s \in Seq(S), c \in S : <<c>> \o s \in Seq(S)
      OBVIOUS
    <3>4. {<<text[i]>> \o s : s \in f[i + 1]} \subseteq Seq(S)
      BY <3>1, <3>2, <3>3
    <3>5. i < n => {<<text[i + 1]>> \o s : s \in f[i + 2]} \subseteq Seq(S)
      BY <3>1, <3>2, <3>3
    <3>6. {<<>>} \subseteq Seq(S)
      OBVIOUS
    <3> QED
      BY <1>0, <1>1, <3>4, <3>5, <3>6 DEF RestAt
  <2> QED
    BY <1>0, <2>1, <2>2
<1>5. Nat \subseteq T
  <2> HIDE DEF T
  <2> QED
    BY <1>3, <1>4, NaturalInduction
<1>6. n + 1 \in T
  BY <1>5
<1> QED
  BY <1>0, <1>6 DEF f

LEMMA TailOf ==
  ASSUME NEW S, NEW a \in Seq(S), NEW k \in 1..Len(a)
  PROVE  <<a[k]>> \o SubSeq(a, k + 1, Len(a)) = SubSeq(a, k, Len(a))
<1>1. PICK n \in Nat : n = Len(a)
  BY LenProperties
<1> DEFINE rest == SubSeq(a, k + 1, n)
           whole == SubSeq(a, k, n)
           joined == <<a[k]>> \o rest
<1>2. a[k] \in S
  BY ElementOfSeq
<1>3. /\ rest \in Seq(S) /\ Len(rest) = n - k
      /\ \A i \in 1..(n - k) : rest[i] = a[k + i]
  <2>1. k + 1 \in 1..(n + 1) /\ n \in k..n /\ \A i \in (k + 1)..n : a[i] \in S
    BY <1>1, ElementOfSeq
  <2> QED
    BY <1>1, <2>1, SubSeqProperties
<1>4. /\ whole \in Seq(S) /\ Len(whole) = n - k + 1
      /\ \A i \in 1..(n - k + 1) : whole[i] = a[k + i - 1]
  <2>1. k \in 1..(n + 1) /\ n \in (k - 1)..n /\ \A i \in k..n : a[i] \in S
    BY <1>1, ElementOfSeq
  <2> QED
    BY <1>1, <2>1, SubSeqProperties
<1> HIDE DEF rest, whole
<1>5. /\ joined \in Seq(S) /\ Len(joined) = 1 + (n - k)
      /\ joined[1] = a[k]
      /\ \A i \in 1..(n - k) : joined[1 + i] = rest[i]
  <2> DEFINE first == <<a[k]>>
  <2>0. Len(first) = 1 /\ first[1] = a[k]
    OBVIOUS
  <2>1. first \in Seq(S) /\ rest \in Seq(S)
    BY <1>2, <1>3
  <2> HIDE DEF first
  <2>2. /\ first \o rest \in Seq(S)
        /\ Len(first \o rest) = Len(first) + Len(rest)
        /\ \A i \in 1..Len(first) : (first \o rest)[i] = first[i]
        /\ \A i \in 1..Len(rest) : (first \o rest)[Len(first) + i] = rest[i]
    BY ONLY <2>1, Appended
  <2>3. Len(first \o rest) = 1 + (n - k) /\ (first \o rest)[1] = a[k]
    BY <1>3, <2>0, <2>2
  <2>4. \A i \in 1..(n - k) : (first \o rest)[1 + i] = rest[i]
    BY <1>3, <2>0, <2>2
  <2> QED
    BY <2>2, <2>3, <2>4 DEF first
<1> HIDE DEF joined
<1>6. \A i \in 1..(n - k + 1) : joined[i] = whole[i]
  <2> SUFFICES ASSUME NEW i \in 1..(n - k + 1) PROVE joined[i] = whole[i]
    OBVIOUS
  <2>1. CASE i = 1
    <3>1. whole[1] = a[k]
      BY <1>1, <1>4
    <3> QED
      BY <1>5, <2>1, <3>1
  <2>2. CASE i # 1
    <3>1. PICK j \in 1..(n - k) : i = 1 + j
      BY <1>1, <2>2
    <3>2. whole[i] = a[k + j]
      BY <1>1, <1>4, <3>1
    <3> QED
      BY <1>3, <1>5, <3>1, <3>2
  <2> QED
    BY <2>1, <2>2
<1>7. joined = whole
  BY <1>1, <1>4, <1>5, <1>6, SeqEqual
<1> QED
  BY <1>1, <1>7 DEF joined, rest, whole

\* Where an escaped string stands in a text, unescaping it gives it back, and only it.
LEMMA Unescapes ==
  ASSUME NEW S, NEW text \in Seq(S), NEW V, Backslash \in V, NEW value \in Seq(V),
         NEW p \in Nat,
         p + Len(EscapeJsonString(value)) + 1 <= Len(text),
         \A j \in 1..Len(EscapeJsonString(value)) : text[p + j] = EscapeJsonString(value)[j],
         text[p + Len(EscapeJsonString(value)) + 1] = Quote
  PROVE  StringsFrom(text)[p + 1] = {value}
<1>1. PICK n, escaped, size : n = Len(value) /\ escaped = EscapeJsonString(value)
                              /\ size = Len(text)
  OBVIOUS
<1>2. n \in Nat /\ size \in Nat /\ \A k \in 1..n : value[k] \in V
  BY <1>1, LenProperties, ElementOfSeq
<1>3. Escapes(value) \in Seq(Seq(V)) /\ Len(Escapes(value)) = n /\ escaped = FlattenSeq(Escapes(value))
  BY <1>1, EscapeIsTyped
<1>4. PICK at : Laid(V, Escapes(value), at)
  BY <1>3, Flattened
<1>5. /\ at \in [0..n -> Nat] /\ at[0] = 0 /\ at[n] = Len(escaped)
      /\ \A k \in 1..n : at[k] = at[k - 1] + Len(Escapes(value)[k])
      /\ \A k \in 0..n : at[k] <= at[n]
      /\ \A k \in 1..n : \A j \in 1..Len(Escapes(value)[k]) :
           escaped[at[k - 1] + j] = Escapes(value)[k][j]
  BY <1>3, <1>4 DEF Laid
<1>6. \A k \in 1..n :
        Escapes(value)[k] = IF value[k] \in {Quote, Backslash} THEN <<Backslash, value[k]>>
                            ELSE <<value[k]>>
  <2>1. DOMAIN value = 1..n
    BY <1>1, LenProperties
  <2> QED
    BY <2>1 DEF Escapes
<1> DEFINE f == StringsFrom(text)
<1>7. \A i \in 1..(size + 2) : f[i] = RestAt(text, f, i)
  BY <1>1, <1>2, StringsFromIs
<1> HIDE DEF f
<1>8. p + at[n] + 1 <= size /\ text[p + at[n] + 1] = Quote
      /\ \A j \in 1..at[n] : text[p + j] = escaped[j]
  BY <1>1, <1>5
<1>9. Backslash # Quote
  BY DEF Backslash, Quote
<1> DEFINE T == {d \in Nat : d <= n => f[p + at[n - d] + 1] = {SubSeq(value, n - d + 1, n)}}
<1>10. 0 \in T
  <2>1. n - 0 = n /\ n - 0 + 1 = n + 1 /\ at[n] \in Nat /\ n \in 0..n
    BY <1>2, <1>5
  <2>2. SubSeq(value, n + 1, n) = <<>>
    BY <1>2, SubSeqEmpty
  <2>3. f[p + at[n] + 1] = {<<>>}
    <3>1. p + at[n] + 1 \in 1..(size + 2) /\ ~ (p + at[n] + 1 > size)
      BY <1>2, <1>8, <2>1
    <3> QED
      BY <1>1, <1>7, <1>8, <3>1 DEF RestAt
  <2> QED
    BY <2>1, <2>2, <2>3
<1>11. ASSUME NEW d \in Nat, d \in T PROVE d + 1 \in T
  <2> SUFFICES ASSUME d + 1 <= n
               PROVE  f[p + at[n - (d + 1)] + 1] = {SubSeq(value, n - (d + 1) + 1, n)}
    OBVIOUS
  <2>1. PICK k \in 1..n : k = n - d /\ k - 1 = n - (d + 1) /\ n - (d + 1) + 1 = k
    BY <1>2
  <2>2. f[p + at[k] + 1] = {SubSeq(value, k + 1, n)}
    <3>1. d <= n
      BY <1>2
    <3>2. f[p + at[n - d] + 1] = {SubSeq(value, n - d + 1, n)}
      BY <1>11, <3>1
    <3> QED
      BY <2>1, <3>2
  <2>3. PICK a, i : a \in Nat /\ a = at[k - 1] /\ i = p + a + 1
    <3>1. k - 1 \in 0..n
      BY <1>2
    <3>2. at[k - 1] \in Nat
      BY <1>5, <3>1
    <3> QED
      BY <3>2
  <2>4. SubSeq(value, k, n) = <<value[k]>> \o SubSeq(value, k + 1, n)
    BY <1>1, TailOf
  <2>5. at[k] \in Nat /\ at[k] <= at[n] /\ at[n] \in Nat /\ at[k] = a + Len(Escapes(value)[k])
    BY <1>5, <1>2, <2>3
  <2>6. f[i] = {<<value[k]>> \o SubSeq(value, k + 1, n)}
    <3>1. CASE value[k] \in {Quote, Backslash}
      <4>1. Escapes(value)[k] = <<Backslash, value[k]>>
        BY <1>6, <3>1
      <4>2. Len(Escapes(value)[k]) = 2 /\ Escapes(value)[k][1] = Backslash
              /\ Escapes(value)[k][2] = value[k]
        BY <4>1
      <4>3. at[k] = a + 2
        BY <2>5, <4>2
      <4>4. escaped[a + 1] = Backslash /\ escaped[a + 2] = value[k]
        <5>1. \A j \in 1..2 : escaped[a + j] = Escapes(value)[k][j]
          BY <1>5, <2>3, <4>2
        <5> QED
          BY <4>2, <5>1
      <4>5. a + 1 \in 1..at[n] /\ a + 2 \in 1..at[n]
        <5>1. a \in Nat /\ at[n] \in Nat /\ a + 2 <= at[n]
          BY <2>3, <2>5, <4>3
        <5> QED
          BY <5>1
      <4>6. p + (a + 1) = i /\ p + (a + 2) = i + 1 /\ i + 2 = p + at[k] + 1
              /\ i \in 1..(size + 2) /\ i < size /\ ~ (i > size)
        <5>1. PICK x, y : x = at[n] /\ y = at[k]
          OBVIOUS
        <5>2. /\ a \in Nat /\ x \in Nat /\ y \in Nat /\ y <= x /\ y = a + 2 /\ p + x + 1 <= size
              /\ i = p + a + 1 /\ size \in Nat
          BY <1>2, <1>8, <2>3, <2>5, <4>3, <5>1
        <5>3. /\ p + (a + 1) = i /\ p + (a + 2) = i + 1 /\ i + 2 = p + y + 1
              /\ i \in 1..(size + 2) /\ i < size /\ ~ (i > size)
          BY ONLY <5>2, p \in Nat
        <5> QED
          BY <5>1, <5>3
      <4>7. text[i] = Backslash /\ text[i + 1] = value[k]
        BY <1>8, <4>4, <4>5, <4>6
      <4>8. f[i] = {<<text[i + 1]>> \o s : s \in f[i + 2]}
        BY <1>1, <1>7, <1>9, <3>1, <4>6, <4>7 DEF RestAt
      <4> QED
        BY <2>2, <4>6, <4>7, <4>8
    <3>2. CASE value[k] \notin {Quote, Backslash}
      <4>1. Escapes(value)[k] = <<value[k]>>
        BY <1>6, <3>2
      <4>2. Len(Escapes(value)[k]) = 1 /\ Escapes(value)[k][1] = value[k]
        BY <4>1
      <4>3. at[k] = a + 1
        BY <2>5, <4>2
      <4>4. escaped[a + 1] = value[k]
        <5>1. \A j \in 1..1 : escaped[a + j] = Escapes(value)[k][j]
          BY <1>5, <2>3, <4>2
        <5> QED
          BY <4>2, <5>1
      <4>5. a + 1 \in 1..at[n]
        BY <2>3, <2>5, <4>3
      <4>6. p + (a + 1) = i /\ i + 1 = p + at[k] + 1
              /\ i \in 1..(size + 2) /\ ~ (i > size)
        <5>1. PICK x, y : x = at[n] /\ y = at[k]
          OBVIOUS
        <5>2. /\ a \in Nat /\ x \in Nat /\ y \in Nat /\ y <= x /\ y = a + 1 /\ p + x + 1 <= size
              /\ i = p + a + 1 /\ size \in Nat
          BY <1>2, <1>8, <2>3, <2>5, <4>3, <5>1
        <5>3. /\ p + (a + 1) = i /\ i + 1 = p + y + 1
              /\ i \in 1..(size + 2) /\ ~ (i > size)
          BY ONLY <5>2, p \in Nat
        <5> QED
          BY <5>1, <5>3
      <4>7. text[i] = value[k]
        BY <1>8, <4>4, <4>5, <4>6
      <4>8. f[i] = {<<text[i]>> \o s : s \in f[i + 1]}
        BY <1>1, <1>7, <3>2, <4>6, <4>7 DEF RestAt
      <4> QED
        BY <2>2, <4>6, <4>7, <4>8
    <3> QED
      BY <3>1, <3>2
  <2> QED
    BY <2>1, <2>3, <2>4, <2>6
<1>12. Nat \subseteq T
  <2> HIDE DEF T
  <2> QED
    BY <1>10, <1>11, NaturalInduction
<1>13. n \in T /\ n - n = 0 /\ n - n + 1 = 1 /\ p + 0 + 1 = p + 1
  <2>1. n - n = 0 /\ n - n + 1 = 1 /\ p + 0 + 1 = p + 1
    BY <1>2
  <2>2. n \in T
    <3> HIDE DEF T
    <3> QED
      BY <1>2, <1>12
  <2> QED
    BY <2>1, <2>2
<1>14. f[p + 1] = {SubSeq(value, 1, n)}
  <2>1. f[p + at[n - n] + 1] = {SubSeq(value, n - n + 1, n)}
    BY <1>2, <1>13
  <2> QED
    BY <1>5, <1>13, <2>1
<1>15. SubSeq(value, 1, n) = value
  BY <1>1, SubSeqFull
<1> QED
  BY <1>14, <1>15 DEF f

-----------------------------------------------------------------------------
(* Identities: FILE_INFO, and what a resume record holds of a file. *)

\* The cells of texts.
FieldName   == {"beamdrop-manifest-v2", "file_count", "total_bytes", "directory_count",
                "relative_path", "size", "sha256", "offset", "records"}
StringCell  == Char \cup ({"digest"} \X Seq(HashCell))
TextCell    == StringCell \cup ({"key"} \X FieldName) \cup ({"number"} \X Nat)

\* A file's identity, and the object that holds it, up to its last fields.
Identity == [path : Seq(StringCell) \ {<<>>}, size : Nat, sha256 : Seq(StringCell) \ {<<>>}]
IdentityText(info, tail) ==
  <<Open, Key("relative_path"), Quote>> \o EscapeJsonString(info.path)
    \o <<Quote, Key("size"), Number(info.size), Key("sha256"), Quote>>
    \o EscapeJsonString(info.sha256) \o tail
IdentityFields == {"relative_path", "size", "sha256"}
IdentityTail(tail) ==
  /\ tail \in Seq(TextCell) /\ Len(tail) >= 1 /\ tail[1] = Quote
  /\ \A i \in 1..Len(tail) : \A field \in IdentityFields : tail[i] # Key(field)

\* The cells that no two of the kinds share.
LEMMA CellKinds ==
  /\ \A cell \in StringCell : \A field : cell # Key(field)
  /\ \A n, field : Number(n) # Key(field) /\ Number(n)[1] = "number" /\ Number(n)[2] = n
  /\ \A field : Key(field)[1] # "number" /\ Quote # Key(field) /\ Open # Key(field)
                  /\ Close # Key(field)
  /\ Quote \in StringCell /\ Backslash \in StringCell /\ Open \in StringCell
  /\ Close \in StringCell
  /\ StringCell \subseteq TextCell
  /\ \A n \in Nat : Number(n) \in TextCell
  /\ \A field \in FieldName : Key(field) \in TextCell
  /\ Open # Quote
  /\ \A cell \in TextCell : cell[1] = "number" => cell[2] \in Nat
<1>1. \A cell \in StringCell : cell[1] \in {"char", "digest"}
  <2>1. /\ Quote[1] = "char" /\ Backslash[1] = "char" /\ Open[1] = "char" /\ Close[1] = "char"
    BY DEF Quote, Backslash, Open, Close
  <2>2. \A cell \in {"char"} \X Letter : cell[1] = "char"
    OBVIOUS
  <2>3. \A cell \in {"digest"} \X Seq(HashCell) : cell[1] = "digest"
    <3>1. \A H : \A cell \in {"digest"} \X H : cell[1] = "digest"
      OBVIOUS
    <3> QED
      BY <3>1
  <2> QED
    BY <2>1, <2>2, <2>3 DEF StringCell, Char
<1>2. \A cell \in StringCell : \A field : cell # Key(field)
  BY <1>1 DEF Key
<1>3. \A n, field : Number(n) # Key(field) /\ Number(n)[1] = "number" /\ Number(n)[2] = n
  BY DEF Number, Key
<1>4. \A field : Key(field)[1] # "number" /\ Quote # Key(field) /\ Open # Key(field)
                   /\ Close # Key(field)
  BY DEF Key, Quote, Open, Close
<1>5. /\ Quote \in StringCell /\ Backslash \in StringCell /\ Open \in StringCell
      /\ Close \in StringCell /\ StringCell \subseteq TextCell
  BY DEF StringCell, Char, TextCell
<1>6. /\ \A n \in Nat : Number(n) \in TextCell
      /\ \A field \in FieldName : Key(field) \in TextCell
  BY DEF TextCell, Number, Key
<1>7. Open # Quote
  BY DEF Open, Quote
<1>8. \A cell \in TextCell : cell[1] = "number" => cell[2] \in Nat
  <2> SUFFICES ASSUME NEW cell \in TextCell, cell[1] = "number" PROVE cell[2] \in Nat
    OBVIOUS
  <2>1. cell \notin StringCell
    BY <1>1
  <2>2. cell \notin {"key"} \X FieldName
    OBVIOUS
  <2> QED
    BY <2>1, <2>2 DEF TextCell
<1> QED
  BY <1>2, <1>3, <1>4, <1>5, <1>6, <1>7, <1>8

\* Five sequences put together.
FiveJoined(S, a, b, c, d, e, whole) ==
  /\ whole \in Seq(S)
  /\ Len(whole) = Len(a) + Len(b) + Len(c) + Len(d) + Len(e)
  /\ \A i \in 1..Len(a) : whole[i] = a[i]
  /\ \A i \in 1..Len(b) : whole[Len(a) + i] = b[i]
  /\ \A i \in 1..Len(c) : whole[Len(a) + Len(b) + i] = c[i]
  /\ \A i \in 1..Len(d) : whole[Len(a) + Len(b) + Len(c) + i] = d[i]
  /\ \A i \in 1..Len(e) : whole[Len(a) + Len(b) + Len(c) + Len(d) + i] = e[i]

LEMMA FiveParts ==
  ASSUME NEW S, NEW a \in Seq(S), NEW b \in Seq(S), NEW c \in Seq(S), NEW d \in Seq(S),
         NEW e \in Seq(S)
  PROVE  FiveJoined(S, a, b, c, d, e, a \o b \o c \o d \o e)
<1> DEFINE ab == a \o b
           abc == ab \o c
           abcd == abc \o d
           whole == abcd \o e
<1>0. /\ Len(a) \in Nat /\ Len(b) \in Nat /\ Len(c) \in Nat /\ Len(d) \in Nat /\ Len(e) \in Nat
  BY LenProperties
<1>1. /\ ab \in Seq(S) /\ Len(ab) = Len(a) + Len(b)
      /\ \A i \in 1..Len(a) : ab[i] = a[i]
      /\ \A i \in 1..Len(b) : ab[Len(a) + i] = b[i]
  BY Appended
<1> HIDE DEF ab
<1>2. /\ abc \in Seq(S) /\ Len(abc) = Len(ab) + Len(c)
      /\ \A i \in 1..Len(ab) : abc[i] = ab[i]
      /\ \A i \in 1..Len(c) : abc[Len(ab) + i] = c[i]
  <2>1. ab \in Seq(S) /\ c \in Seq(S)
    BY <1>1
  <2> QED
    BY ONLY <2>1, Appended
<1> HIDE DEF abc
<1>3. /\ abcd \in Seq(S) /\ Len(abcd) = Len(abc) + Len(d)
      /\ \A i \in 1..Len(abc) : abcd[i] = abc[i]
      /\ \A i \in 1..Len(d) : abcd[Len(abc) + i] = d[i]
  <2>1. abc \in Seq(S) /\ d \in Seq(S)
    BY <1>2
  <2> QED
    BY ONLY <2>1, Appended
<1> HIDE DEF abcd
<1>4. /\ whole \in Seq(S) /\ Len(whole) = Len(abcd) + Len(e)
      /\ \A i \in 1..Len(abcd) : whole[i] = abcd[i]
      /\ \A i \in 1..Len(e) : whole[Len(abcd) + i] = e[i]
  <2>1. abcd \in Seq(S) /\ e \in Seq(S)
    BY <1>3
  <2> QED
    BY ONLY <2>1, Appended
<1> HIDE DEF whole
<1>p. PICK la, lb, lc, ld, le : /\ la = Len(a) /\ lb = Len(b) /\ lc = Len(c)
                                /\ ld = Len(d) /\ le = Len(e)
  OBVIOUS
<1>n. la \in Nat /\ lb \in Nat /\ lc \in Nat /\ ld \in Nat /\ le \in Nat
  BY <1>0, <1>p
<1>5. /\ Len(ab) = la + lb /\ Len(abc) = la + lb + lc /\ Len(abcd) = la + lb + lc + ld
      /\ Len(whole) = la + lb + lc + ld + le
  BY <1>1, <1>2, <1>3, <1>4, <1>p
<1>6. /\ \A i \in 1..(la + lb + lc) : whole[i] = abc[i]
      /\ \A i \in 1..(la + lb) : whole[i] = ab[i]
      /\ \A i \in 1..la : whole[i] = a[i]
  <2>1. \A i \in 1..(la + lb + lc) : i \in 1..(la + lb + lc + ld)
    BY <1>n
  <2>2. \A i \in 1..(la + lb) : i \in 1..(la + lb + lc)
    BY <1>n
  <2>3. \A i \in 1..la : i \in 1..(la + lb)
    BY <1>n
  <2>4. \A i \in 1..(la + lb + lc) : whole[i] = abc[i]
    BY <1>3, <1>4, <1>5, <2>1
  <2>5. \A i \in 1..(la + lb) : whole[i] = ab[i]
    BY <1>2, <1>5, <2>2, <2>4
  <2> QED
    BY <1>1, <1>p, <2>3, <2>4, <2>5
<1>7. /\ \A i \in 1..lb : whole[la + i] = b[i]
      /\ \A i \in 1..lc : whole[la + lb + i] = c[i]
      /\ \A i \in 1..ld : whole[la + lb + lc + i] = d[i]
      /\ \A i \in 1..le : whole[la + lb + lc + ld + i] = e[i]
  <2>1. \A i \in 1..lb : la + i \in 1..(la + lb)
    BY <1>n
  <2>2. \A i \in 1..lc : la + lb + i \in 1..(la + lb + lc)
    BY <1>n
  <2>3. \A i \in 1..ld : la + lb + lc + i \in 1..(la + lb + lc + ld)
    BY <1>n
  <2>4. \A i \in 1..lb : whole[la + i] = b[i]
    BY <1>1, <1>6, <1>p, <2>1
  <2>5. \A i \in 1..lc : whole[la + lb + i] = c[i]
    BY <1>2, <1>5, <1>6, <1>p, <2>2
  <2>6. \A i \in 1..ld : whole[la + lb + lc + i] = d[i]
    BY <1>3, <1>4, <1>5, <1>p, <2>3
  <2>7. \A i \in 1..le : whole[la + lb + lc + ld + i] = e[i]
    BY <1>4, <1>5, <1>p
  <2> QED
    BY <2>4, <2>5, <2>6, <2>7
<1>8. FiveJoined(S, a, b, c, d, e, whole)
  BY <1>4, <1>5, <1>6, <1>7, <1>p DEF FiveJoined
<1> QED
  BY <1>8 DEF whole, abcd, abc, ab

\* Where the parts of an identity stand in its text.
Placed(info, tail, text, m, l) ==
  /\ m \in Nat /\ m = Len(EscapeJsonString(info.path))
  /\ l \in Nat /\ l = Len(EscapeJsonString(info.sha256))
  /\ text \in Seq(TextCell) /\ Len(text) = m + l + 8 + Len(tail)
  /\ text[1] = Open /\ text[2] = Key("relative_path") /\ text[3] = Quote
  /\ \A i \in 1..m : text[3 + i] = EscapeJsonString(info.path)[i]
  /\ text[m + 4] = Quote /\ text[m + 5] = Key("size") /\ text[m + 6] = Number(info.size)
  /\ text[m + 7] = Key("sha256") /\ text[m + 8] = Quote
  /\ \A i \in 1..l : text[m + 8 + i] = EscapeJsonString(info.sha256)[i]
  /\ \A i \in 1..Len(tail) : text[m + l + 8 + i] = tail[i]

LEMMA IdentityIsPlaced ==
  ASSUME NEW info \in Identity, NEW tail \in Seq(TextCell)
  PROVE  \E m, l : Placed(info, tail, IdentityText(info, tail), m, l)
<1> DEFINE a == <<Open, Key("relative_path"), Quote>>
           b == EscapeJsonString(info.path)
           c == <<Quote, Key("size"), Number(info.size), Key("sha256"), Quote>>
           d == EscapeJsonString(info.sha256)
           text == IdentityText(info, tail)
<1>1. /\ Len(a) = 3 /\ a[1] = Open /\ a[2] = Key("relative_path") /\ a[3] = Quote
      /\ Len(c) = 5 /\ c[1] = Quote /\ c[2] = Key("size") /\ c[3] = Number(info.size)
      /\ c[4] = Key("sha256") /\ c[5] = Quote
  OBVIOUS
<1>2. b \in Seq(StringCell) /\ d \in Seq(StringCell)
  <2>1. info.path \in Seq(StringCell) /\ info.sha256 \in Seq(StringCell) /\ Backslash \in StringCell
    BY CellKinds DEF Identity
  <2> QED
    BY <2>1, EscapeIsTyped
<1>3. /\ a \in Seq(TextCell) /\ b \in Seq(TextCell) /\ c \in Seq(TextCell)
      /\ d \in Seq(TextCell) /\ tail \in Seq(TextCell)
  <2>1. StringCell \subseteq TextCell
    BY CellKinds
  <2>2. b \in Seq(TextCell) /\ d \in Seq(TextCell)
    BY <1>2, <2>1, SeqMonotonic
  <2>3. /\ Open \in TextCell /\ Quote \in TextCell /\ Number(info.size) \in TextCell
        /\ Key("relative_path") \in TextCell /\ Key("size") \in TextCell
        /\ Key("sha256") \in TextCell
    <3>1. info.size \in Nat
      BY DEF Identity
    <3> QED
      BY <2>1, <3>1, CellKinds DEF FieldName
  <2> QED
    BY <2>2, <2>3
<1>4. text = a \o b \o c \o d \o tail
  BY DEF IdentityText
<1> HIDE DEF a, b, c, d, text
<1>5. FiveJoined(TextCell, a, b, c, d, tail, text)
  <2>1. FiveJoined(TextCell, a, b, c, d, tail, a \o b \o c \o d \o tail)
    BY ONLY <1>3, FiveParts
  <2> QED
    BY <1>4, <2>1
<1>6. PICK m, l, n : m = Len(b) /\ l = Len(d) /\ n = Len(tail)
  OBVIOUS
<1>7. m \in Nat /\ l \in Nat /\ n \in Nat
  BY <1>3, <1>6, LenProperties
<1>8. /\ text \in Seq(TextCell) /\ Len(text) = 3 + m + 5 + l + n
      /\ \A i \in 1..3 : text[i] = a[i]
      /\ \A i \in 1..m : text[3 + i] = b[i]
      /\ \A i \in 1..5 : text[3 + m + i] = c[i]
      /\ \A i \in 1..l : text[3 + m + 5 + i] = d[i]
      /\ \A i \in 1..n : text[3 + m + 5 + l + i] = tail[i]
  BY <1>1, <1>5, <1>6 DEF FiveJoined
<1>9. /\ 3 + m + 1 = m + 4 /\ 3 + m + 2 = m + 5 /\ 3 + m + 3 = m + 6 /\ 3 + m + 4 = m + 7
      /\ 3 + m + 5 = m + 8 /\ 3 + m + 5 + l = m + l + 8
      /\ 3 + m + 5 + l + n = m + l + 8 + n
  BY <1>7
<1>10. /\ text[1] = Open /\ text[2] = Key("relative_path") /\ text[3] = Quote
  BY <1>1, <1>8
<1>11. /\ text[m + 4] = Quote /\ text[m + 5] = Key("size") /\ text[m + 6] = Number(info.size)
       /\ text[m + 7] = Key("sha256") /\ text[m + 8] = Quote
  BY <1>1, <1>8, <1>9
<1>12. Placed(info, tail, text, m, l)
  BY <1>6, <1>7, <1>8, <1>9, <1>10, <1>11 DEF Placed, b, d
<1> QED
  BY <1>12 DEF text

\* Each of its field names stands in one place; any other is in the tail.
LEMMA KeysOfIdentity ==
  ASSUME NEW info \in Identity, NEW tail, IdentityTail(tail), NEW text, NEW m, NEW l,
         Placed(info, tail, text, m, l)
  PROVE  \A p \in 1..Len(text) :
           /\ text[p] = Key("relative_path") => p = 2
           /\ text[p] = Key("size") => p = m + 5
           /\ text[p] = Key("sha256") => p = m + 7
           /\ \A field : field \notin IdentityFields /\ text[p] = Key(field) => p > m + l + 8
<1>1. PICK n \in Nat : n = Len(tail)
  BY LenProperties DEF IdentityTail
<1>2. m \in Nat /\ l \in Nat /\ Len(text) = m + l + 8 + n
  BY <1>1 DEF Placed
<1>3. EscapeJsonString(info.path) \in Seq(StringCell)
        /\ EscapeJsonString(info.sha256) \in Seq(StringCell)
  <2>1. info.path \in Seq(StringCell) /\ info.sha256 \in Seq(StringCell) /\ Backslash \in StringCell
    BY CellKinds DEF Identity
  <2> QED
    BY <2>1, EscapeIsTyped
<1>4. \A i \in 1..m : \A field : text[3 + i] # Key(field)
  BY <1>3, CellKinds, ElementOfSeq DEF Placed
<1>5. \A i \in 1..l : \A field : text[m + 8 + i] # Key(field)
  BY <1>3, CellKinds, ElementOfSeq DEF Placed
<1>6. \A i \in 1..n : \A field \in IdentityFields : text[m + l + 8 + i] # Key(field)
  <2>1. \A i \in 1..n : text[m + l + 8 + i] = tail[i]
    BY <1>1 DEF Placed
  <2>2. \A i \in 1..n : \A field \in IdentityFields : tail[i] # Key(field)
    BY <1>1 DEF IdentityTail
  <2> QED
    BY <2>1, <2>2
<1>7. \A field : /\ text[1] # Key(field) /\ text[3] # Key(field) /\ text[m + 4] # Key(field)
                 /\ text[m + 6] # Key(field) /\ text[m + 8] # Key(field)
  BY CellKinds DEF Placed
<1>8. /\ \A field : text[2] = Key(field) => field = "relative_path"
      /\ \A field : text[m + 5] = Key(field) => field = "size"
      /\ \A field : text[m + 7] = Key(field) => field = "sha256"
  BY DEF Placed, Key
<1> SUFFICES ASSUME NEW p \in 1..Len(text), NEW field, text[p] = Key(field)
             PROVE  \/ p = 2 /\ field = "relative_path"
                    \/ p = m + 5 /\ field = "size"
                    \/ p = m + 7 /\ field = "sha256"
                    \/ p > m + l + 8 /\ field \notin IdentityFields
  BY <1>2 DEF IdentityFields
<1>9. p \in {1, 2, 3, m + 4, m + 5, m + 6, m + 7, m + 8}
        \/ (\E i \in 1..m : p = 3 + i) \/ (\E i \in 1..l : p = m + 8 + i)
        \/ (\E i \in 1..n : p = m + l + 8 + i)
  <2>1. p \in Nat /\ p >= 1 /\ p <= m + l + 8 + n
    BY <1>1, <1>2
  <2>2. CASE p <= 3
    BY <2>1, <2>2
  <2>3. CASE p > 3 /\ p <= m + 3
    <3>1. p - 3 \in 1..m /\ p = 3 + (p - 3)
      BY <1>2, <2>1, <2>3
    <3> QED
      BY <3>1
  <2>4. CASE p > m + 3 /\ p <= m + 8
    BY <1>2, <2>1, <2>4
  <2>5. CASE p > m + 8 /\ p <= m + l + 8
    <3>1. p - (m + 8) \in 1..l /\ p = m + 8 + (p - (m + 8))
      BY <1>2, <2>1, <2>5
    <3> QED
      BY <3>1
  <2>6. CASE p > m + l + 8
    <3>1. p - (m + l + 8) \in 1..n /\ p = m + l + 8 + (p - (m + l + 8))
      BY <1>1, <1>2, <2>1, <2>6
    <3> QED
      BY <3>1
  <2> QED
    BY <1>2, <2>1, <2>2, <2>3, <2>4, <2>5, <2>6
<1>10. ASSUME NEW i \in 1..n, p = m + l + 8 + i PROVE p > m + l + 8
  BY <1>1, <1>2, <1>10
<1> QED
  BY <1>4, <1>5, <1>6, <1>7, <1>8, <1>9, <1>10

\* The identity is read back from its text, whatever follows it.
LEMMA IdentityIsRead ==
  ASSUME NEW info \in Identity, NEW tail, IdentityTail(tail), NEW text, NEW m, NEW l,
         Placed(info, tail, text, m, l)
  PROVE  Identities(text) = {info}
<1>1. PICK n \in Nat : n = Len(tail) /\ n >= 1 /\ tail[1] = Quote
  BY LenProperties DEF IdentityTail
<1>2. m \in Nat /\ l \in Nat /\ Len(text) = m + l + 8 + n /\ text \in Seq(TextCell)
  BY <1>1 DEF Placed
<1>3. info.path \in Seq(StringCell) /\ info.sha256 \in Seq(StringCell) /\ Backslash \in StringCell
      /\ info.path # <<>> /\ info.sha256 # <<>>
      /\ info = [path |-> info.path, size |-> info.size, sha256 |-> info.sha256]
  BY CellKinds DEF Identity
<1>4. /\ 2 \in 1..(Len(text) - 1) /\ m + 5 \in 1..(Len(text) - 1) /\ m + 7 \in 1..(Len(text) - 1)
      /\ \A p \in 1..(Len(text) - 1) : p \in 1..Len(text)
      /\ (m + 5) + 1 = m + 6 /\ (m + 7) + 1 = m + 8 /\ (m + 7) + 2 = (m + 8) + 1
      /\ 2 + 2 = 3 + 1
  BY <1>1, <1>2
<1>5. /\ Fields(text, "relative_path") = {2}
      /\ Fields(text, "size") = {m + 5}
      /\ Fields(text, "sha256") = {m + 7}
  <2>1. text[2] = Key("relative_path") /\ text[m + 5] = Key("size") /\ text[m + 7] = Key("sha256")
    BY DEF Placed
  <2>2. \A p \in 1..(Len(text) - 1) :
           /\ text[p] = Key("relative_path") => p = 2
           /\ text[p] = Key("size") => p = m + 5
           /\ text[p] = Key("sha256") => p = m + 7
    BY <1>4, KeysOfIdentity
  <2> QED
    BY <1>4, <2>1, <2>2 DEF Fields
<1>6. StringField(text, "relative_path") = {info.path}
  <2>1. 3 + m + 1 = m + 4 /\ m + 4 <= Len(text)
    BY <1>1, <1>2
  <2>2. StringsFrom(text)[3 + 1] = {info.path}
    <3>1. /\ 3 + Len(EscapeJsonString(info.path)) + 1 <= Len(text)
          /\ \A j \in 1..Len(EscapeJsonString(info.path)) :
               text[3 + j] = EscapeJsonString(info.path)[j]
          /\ text[3 + Len(EscapeJsonString(info.path)) + 1] = Quote
      BY <2>1 DEF Placed
    <3>2. PICK value, p : value = info.path /\ p = 3
      OBVIOUS
    <3>3. /\ text \in Seq(TextCell) /\ Backslash \in StringCell /\ value \in Seq(StringCell)
          /\ p \in Nat /\ p + Len(EscapeJsonString(value)) + 1 <= Len(text)
          /\ \A j \in 1..Len(EscapeJsonString(value)) :
               text[p + j] = EscapeJsonString(value)[j]
          /\ text[p + Len(EscapeJsonString(value)) + 1] = Quote
      BY <1>2, <1>3, <3>1, <3>2
    <3>4. StringsFrom(text)[p + 1] = {value}
      BY ONLY <3>3, Unescapes
    <3> QED
      BY <3>2, <3>4
  <2>3. text[2 + 1] = Quote
    BY DEF Placed
  <2>4. {j \in {2} : text[j + 1] = Quote} = {2}
    BY <2>3
  <2>5. StringField(text, "relative_path") = StringsFrom(text)[2 + 2]
    BY <1>5, <2>4 DEF StringField
  <2> QED
    BY <1>4, <2>2, <2>5
<1>7. NumberField(text, "size") = {info.size}
  <2>1. text[(m + 5) + 1] = Number(info.size)
    BY <1>4 DEF Placed
  <2>2. text[(m + 5) + 1][1] = "number" /\ text[(m + 5) + 1][2] = info.size
    BY <2>1, CellKinds
  <2>3. {j \in {m + 5} : text[j + 1][1] = "number"} = {m + 5}
    BY <2>2
  <2> QED
    BY <1>5, <2>2, <2>3 DEF NumberField
<1>8. StringField(text, "sha256") = {info.sha256}
  <2>1. m + 8 + l + 1 = m + l + 8 + 1 /\ m + l + 8 + 1 <= Len(text) /\ m + 8 \in Nat
    BY <1>1, <1>2
  <2>2. StringsFrom(text)[(m + 8) + 1] = {info.sha256}
    <3>1. text[m + l + 8 + 1] = Quote
      BY <1>1 DEF Placed
    <3>2. /\ (m + 8) + Len(EscapeJsonString(info.sha256)) + 1 <= Len(text)
          /\ \A j \in 1..Len(EscapeJsonString(info.sha256)) :
               text[(m + 8) + j] = EscapeJsonString(info.sha256)[j]
          /\ text[(m + 8) + Len(EscapeJsonString(info.sha256)) + 1] = Quote
      BY <2>1, <3>1 DEF Placed
    <3>3. PICK value, p : value = info.sha256 /\ p = m + 8
      OBVIOUS
    <3>4. /\ text \in Seq(TextCell) /\ Backslash \in StringCell /\ value \in Seq(StringCell)
          /\ p \in Nat /\ p + Len(EscapeJsonString(value)) + 1 <= Len(text)
          /\ \A j \in 1..Len(EscapeJsonString(value)) :
               text[p + j] = EscapeJsonString(value)[j]
          /\ text[p + Len(EscapeJsonString(value)) + 1] = Quote
      BY <1>2, <1>3, <2>1, <3>2, <3>3
    <3>5. StringsFrom(text)[p + 1] = {value}
      BY ONLY <3>4, Unescapes
    <3> QED
      BY <3>3, <3>5
  <2>3. text[(m + 7) + 1] = Quote
    BY <1>4 DEF Placed
  <2>4. {j \in {m + 7} : text[j + 1] = Quote} = {m + 7}
    BY <2>3
  <2>5. StringField(text, "sha256") = StringsFrom(text)[(m + 7) + 2]
    BY <1>5, <2>4 DEF StringField
  <2> QED
    BY <1>4, <2>2, <2>5
<1>9. Identities(text) = {i \in [path : {info.path}, size : {info.size}, sha256 : {info.sha256}] :
                            i.path # <<>> /\ i.sha256 # <<>>}
  BY <1>6, <1>7, <1>8 DEF Identities
<1> QED
  BY <1>3, <1>9

\* FILE_INFO survives its codec.
THEOREM FileInfoIsReadBack ==
  ASSUME NEW info \in Identity
  PROVE  /\ FileInfoText(info) \in Seq(TextCell)
         /\ ParseFileInfo(FileInfoText(info)) = {info}
<1> DEFINE tail == <<Quote, Close>>
<1>1. tail \in Seq(TextCell) /\ IdentityTail(tail)
  <2>1. Quote \in TextCell /\ Close \in TextCell
    BY CellKinds
  <2>2. tail \in Seq(TextCell) /\ Len(tail) = 2 /\ tail[1] = Quote /\ tail[2] = Close
    BY <2>1
  <2>3. \A i \in 1..2 : \A field \in IdentityFields : tail[i] # Key(field)
    BY <2>2, CellKinds
  <2> QED
    BY <2>2, <2>3 DEF IdentityTail
<1>2. FileInfoText(info) = IdentityText(info, tail)
  BY DEF FileInfoText, IdentityText
<1> HIDE DEF tail
<1>3. PICK m, l : Placed(info, tail, FileInfoText(info), m, l)
  BY <1>1, <1>2, IdentityIsPlaced
<1>4. Identities(FileInfoText(info)) = {info}
  BY <1>1, <1>3, IdentityIsRead
<1>5. FileInfoText(info) # <<>> /\ FileInfoText(info)[1] = Open /\ FileInfoText(info) \in Seq(TextCell)
  <2>1. PICK n \in Nat : n = Len(tail)
    BY <1>1, LenProperties
  <2>2. Len(FileInfoText(info)) = m + l + 8 + n /\ m \in Nat /\ l \in Nat
    BY <1>3, <2>1 DEF Placed
  <2>3. Len(FileInfoText(info)) # 0
    BY <2>1, <2>2
  <2> QED
    BY <1>3, <2>3, EmptySeq DEF Placed
<1> QED
  BY <1>4, <1>5 DEF ParseFileInfo

-----------------------------------------------------------------------------
(* Sets of positions. *)

\* A set of natural numbers has a smallest element.
LEMMA Smallest ==
  ASSUME NEW P, P \subseteq Nat, P # {}
  PROVE  First(P) \in P /\ \A m \in P : First(P) <= m
<1> DEFINE T == {n \in Nat : \A m \in P : n <= m}
<1>1. 0 \in T
  OBVIOUS
<1>2. ~ (Nat \subseteq T)
  <2>1. PICK p \in P : TRUE
    OBVIOUS
  <2>2. p \in Nat /\ p + 1 \in Nat /\ ~ (p + 1 <= p)
    BY <2>1
  <2> QED
    BY <2>1, <2>2
<1>3. PICK n \in Nat : n \in T /\ n + 1 \notin T
  <2> HIDE DEF T
  <2> QED
    BY <1>1, <1>2, NaturalInduction
<1>4. n \in P
  <2>1. PICK m \in P : ~ (n + 1 <= m)
    BY <1>3
  <2>2. m \in Nat /\ n <= m
    BY <1>3, <2>1
  <2>3. m = n
    BY <2>1, <2>2
  <2> QED
    BY <2>3
<1> QED
  BY <1>3, <1>4 DEF First

Before(P, i) == {j \in P : j < i}

LEMMA FiniteParts ==
  ASSUME NEW N \in Nat, NEW P, P \subseteq 1..N
  PROVE  /\ IsFiniteSet(P) /\ Cardinality(P) \in Nat
         /\ \A i : /\ Before(P, i) \in SUBSET P /\ IsFiniteSet(Before(P, i))
                   /\ Cardinality(Before(P, i)) \in Nat
<1>1. IsFiniteSet(1..N)
  BY FS_Interval
<1>2. IsFiniteSet(P)
  BY <1>1, FS_Subset
<1> QED
  BY <1>2, FS_Subset, FS_CardinalityType DEF Before

\* Every rank is taken.
LEMMA Ranks ==
  ASSUME NEW N \in Nat, NEW P, P \subseteq 1..N
  PROVE  \A n \in 1..Cardinality(P) : \E i \in P : Cardinality(Before(P, i)) = n - 1
<1> DEFINE Taken(Q) == \A n \in 1..Cardinality(Q) : \E i \in Q : Cardinality(Before(Q, i)) = n - 1
           T == {K \in Nat : \A Q : Q \subseteq 1..K => Taken(Q)}
<1>1. 0 \in T
  <2>1. Taken({})
    BY FS_EmptySet
  <2>2. \A Q : Q \subseteq 1..0 => Q = {}
    OBVIOUS
  <2> QED
    BY <2>1, <2>2
<1>2. ASSUME NEW K \in Nat, K \in T PROVE K + 1 \in T
  <2> SUFFICES ASSUME NEW Q, Q \subseteq 1..(K + 1) PROVE Taken(Q)
    OBVIOUS
  <2>1. CASE K + 1 \notin Q
    <3>1. Q \subseteq 1..K
      BY <2>1
    <3> QED
      BY <1>2, <3>1
  <2>2. CASE K + 1 \in Q
    <3> DEFINE R == Q \ {K + 1}
    <3>1. R \subseteq 1..K /\ K + 1 \in Nat
      OBVIOUS
    <3>2. Taken(R)
      BY <1>2, <3>1
    <3>3. IsFiniteSet(Q) /\ Cardinality(Q) \in Nat
      <4>1. K + 1 \in Nat
        OBVIOUS
      <4> QED
        BY ONLY <4>1, Q \subseteq 1..(K + 1), FiniteParts
    <3>4. PICK c \in Nat : c = Cardinality(R) /\ Cardinality(Q) = c + 1
      <4>1. Cardinality(R) = Cardinality(Q) - 1 /\ Cardinality(R) \in Nat /\ Cardinality(Q) \in Nat
        <5>1. Cardinality(R) = Cardinality(Q) - 1
          BY <2>2, <3>3, FS_RemoveElement
        <5>2. Cardinality(R) \in Nat
          BY <3>1, FiniteParts
        <5> QED
          BY <3>3, <5>1, <5>2
      <4> QED
        BY <4>1
    <3>5. Before(Q, K + 1) = R
      <4>1. \A j \in Q : j \in Nat /\ (j < K + 1 <=> j # K + 1)
        OBVIOUS
      <4> QED
        BY <4>1 DEF Before
    <3>6. ASSUME NEW n \in 1..(c + 1) PROVE \E i \in Q : Cardinality(Before(Q, i)) = n - 1
      <4>1. CASE n = c + 1
        <5>1. Cardinality(Before(Q, K + 1)) = c /\ n - 1 = c
          <6>1. n - 1 = c
            BY <4>1
          <6> HIDE DEF R
          <6> QED
            BY <3>4, <3>5, <6>1
        <5> QED
          BY <2>2, <5>1
      <4>2. CASE n # c + 1
        <5>1. n \in 1..c
          BY <4>2
        <5>2. PICK i \in R : Cardinality(Before(R, i)) = n - 1
          BY <3>2, <3>4, <5>1
        <5>3. i \in 1..K
          BY <3>1, <5>2
        <5>4. Before(Q, i) = Before(R, i)
          BY <5>3 DEF Before
        <5> QED
          BY <5>2, <5>4
      <4> QED
        BY <4>1, <4>2
    <3> QED
      BY <3>4, <3>6
  <2> QED
    BY <2>1, <2>2
<1>3. Nat \subseteq T
  <2> HIDE DEF T
  <2> QED
    BY <1>1, <1>2, NaturalInduction
<1> QED
  BY <1>3

\* InOrder lists a set of positions, the smallest first.
Listed(P, list, n) ==
  /\ n \in Nat /\ list = [i \in 1..n |-> list[i]]
  /\ \A i \in 1..n : list[i] \in P
  /\ \A i, j \in 1..n : i < j => list[i] < list[j]
  /\ \A p \in P : \E i \in 1..n : list[i] = p

LEMMA InOrderLists ==
  ASSUME NEW N \in Nat, NEW P, P \subseteq 1..N
  PROVE  Listed(P, InOrder(P), Cardinality(P))
<1>1. PICK n : n = Cardinality(P)
  OBVIOUS
<1>2. n \in Nat /\ \A i : Cardinality(Before(P, i)) \in Nat
  BY <1>1, FiniteParts
<1>3. InOrder(P) = [k \in 1..n |-> CHOOSE i \in P : Cardinality(Before(P, i)) = k - 1]
  BY <1>1 DEF InOrder, Before
<1>4. PICK list : list = InOrder(P)
  OBVIOUS
<1>5. \A k \in 1..n : list[k] \in P /\ Cardinality(Before(P, list[k])) = k - 1
  <2> SUFFICES ASSUME NEW k \in 1..n
               PROVE  list[k] \in P /\ Cardinality(Before(P, list[k])) = k - 1
    OBVIOUS
  <2>1. \E i \in P : Cardinality(Before(P, i)) = k - 1
    BY <1>1, Ranks
  <2>2. list[k] = CHOOSE i \in P : Cardinality(Before(P, i)) = k - 1
    BY <1>3, <1>4
  <2> QED
    BY <2>1, <2>2
<1>6. ASSUME NEW p \in P, NEW q \in P, p < q
      PROVE  Cardinality(Before(P, p)) < Cardinality(Before(P, q)) /\ Cardinality(Before(P, q)) < n + 1
  <2>1. p \in Nat /\ q \in Nat
    OBVIOUS
  <2>2. Before(P, p) \cup {p} \subseteq Before(P, q) /\ p \notin Before(P, p)
    <3>1. \A j \in P : j \in Nat /\ (j < p => j < q)
      BY <1>6, <2>1
    <3>2. ~ (p < p)
      BY <2>1
    <3>3. \A j \in P : j \in Before(P, p) => j \in Before(P, q)
      BY <3>1 DEF Before
    <3>4. p \in Before(P, q) /\ p \notin Before(P, p)
      BY <1>6, <3>2 DEF Before
    <3>5. Before(P, p) \subseteq P
      BY DEF Before
    <3> QED
      BY <3>3, <3>4, <3>5
  <2>3. IsFiniteSet(Before(P, p)) /\ IsFiniteSet(Before(P, q)) /\ IsFiniteSet(P)
    BY FiniteParts
  <2>4. Cardinality(Before(P, p) \cup {p}) = Cardinality(Before(P, p)) + 1
    BY <2>2, <2>3, FS_AddElement
  <2>5. Cardinality(Before(P, p) \cup {p}) <= Cardinality(Before(P, q))
    BY <2>2, <2>3, FS_Subset
  <2>6. Cardinality(Before(P, q)) <= n
    BY <1>1, <2>3, FiniteParts, FS_Subset
  <2> QED
    BY <1>2, <2>4, <2>5, <2>6
<1>7. \A p \in P : Cardinality(Before(P, p)) + 1 \in 1..n
  <2> SUFFICES ASSUME NEW p \in P PROVE Cardinality(Before(P, p)) + 1 \in 1..n
    OBVIOUS
  <2>1. IsFiniteSet(Before(P, p)) /\ IsFiniteSet(P)
    BY FiniteParts
  <2>2. Before(P, p) \cup {p} \in SUBSET P /\ p \notin Before(P, p)
    <3>1. p \in Nat
      OBVIOUS
    <3> QED
      BY <3>1 DEF Before
  <2>3. Cardinality(Before(P, p) \cup {p}) = Cardinality(Before(P, p)) + 1
    BY <2>1, <2>2, FS_AddElement
  <2>4. Cardinality(Before(P, p) \cup {p}) <= n
    BY <1>1, <2>1, <2>2, FS_Subset
  <2> QED
    BY <1>2, <2>3, <2>4
<1>8. \A i, j \in 1..n : i < j => list[i] < list[j]
  <2> SUFFICES ASSUME NEW i \in 1..n, NEW j \in 1..n, i < j PROVE list[i] < list[j]
    OBVIOUS
  <2>1. list[i] \in P /\ list[j] \in P /\ list[i] \in Nat /\ list[j] \in Nat
    <3>1. list[i] \in P /\ list[j] \in P /\ P \subseteq Nat
      BY <1>5
    <3> QED
      BY <3>1
  <2>2. CASE list[i] = list[j]
    BY <1>5, <2>2
  <2>3. CASE list[j] < list[i]
    <3>1. Cardinality(Before(P, list[j])) < Cardinality(Before(P, list[i]))
      BY <1>6, <2>1, <2>3
    <3>2. j - 1 < i - 1
      BY <1>5, <3>1
    <3> QED
      BY <1>2, <3>2
  <2> QED
    BY <2>1, <2>2, <2>3
<1>9. \A p \in P : \E i \in 1..n : list[i] = p
  <2> SUFFICES ASSUME NEW p \in P PROVE \E i \in 1..n : list[i] = p
    OBVIOUS
  <2>1. PICK i \in 1..n : i = Cardinality(Before(P, p)) + 1
    BY <1>7
  <2>2. list[i] \in P /\ Cardinality(Before(P, list[i])) = Cardinality(Before(P, p))
    BY <1>2, <1>5, <2>1
  <2>3. list[i] \in Nat /\ p \in Nat
    <3>1. P \subseteq Nat
      OBVIOUS
    <3> QED
      BY <2>2, <3>1
  <2>4. CASE list[i] < p
    <3>1. Cardinality(Before(P, list[i])) < Cardinality(Before(P, p))
      BY <1>6, <2>2, <2>4
    <3> QED
      BY <1>2, <2>2, <3>1
  <2>5. CASE p < list[i]
    <3>1. Cardinality(Before(P, p)) < Cardinality(Before(P, list[i]))
      BY <1>6, <2>2, <2>5
    <3> QED
      BY <1>2, <2>2, <3>1
  <2> QED
    BY <2>3, <2>4, <2>5
<1>10. list = [k \in 1..n |-> list[k]]
  BY <1>3, <1>4
<1> QED
  BY <1>1, <1>2, <1>4, <1>5, <1>8, <1>9, <1>10 DEF Listed

-----------------------------------------------------------------------------
(* The resume state file. *)

\* What can be read back from a state file.
StoredInfo   == [path : Seq(TextCell), size : Nat, sha256 : Seq(TextCell)]
StoredRecord == [info : StoredInfo, offset : Nat]

LEMMA FieldsAreTyped ==
  ASSUME NEW text \in Seq(TextCell), NEW field
  PROVE  StringField(text, field) \subseteq Seq(TextCell) /\ NumberField(text, field) \subseteq Nat
<1>1. PICK n \in Nat : n = Len(text)
  BY LenProperties
<1>2. ASSUME NEW i \in Fields(text, field)
      PROVE  i + 1 \in 1..n /\ i + 2 \in 1..(n + 2)
  BY <1>1 DEF Fields
<1>3. StringField(text, field) \subseteq Seq(TextCell)
  <2>1. ASSUME NEW i \in Fields(text, field) PROVE StringsFrom(text)[i + 2] \subseteq Seq(TextCell)
    BY <1>1, <1>2, StringsAreTyped
  <2> QED
    BY <2>1 DEF StringField
<1>4. NumberField(text, field) \subseteq Nat
  <2>1. ASSUME NEW i \in Fields(text, field), text[i + 1][1] = "number"
        PROVE  text[i + 1][2] \in Nat
    <3>1. text[i + 1] \in TextCell
      BY <1>1, <1>2, ElementOfSeq
    <3> QED
      BY <2>1, <3>1, CellKinds
  <2> QED
    BY <2>1 DEF NumberField
<1> QED
  BY <1>3, <1>4

LEMMA RecordsAreTyped ==
  ASSUME NEW text \in Seq(TextCell)
  PROVE  Identities(text) \subseteq StoredInfo /\ RecordsIn(text) \subseteq StoredRecord
<1>1. Identities(text) \subseteq StoredInfo
  BY FieldsAreTyped DEF Identities, StoredInfo
<1>2. NumberField(text, "offset") \subseteq Nat
  BY FieldsAreTyped
<1> QED
  BY <1>1, <1>2 DEF RecordsIn, StoredRecord

\* A selection from a sequence is one of its elements, in their order.
LEMMA SelectionIsTyped ==
  ASSUME NEW S, NEW items \in Seq(S), NEW P, P \subseteq DOMAIN items
  PROVE  /\ Selected(items, P) \in Seq(S)
         /\ DOMAIN Selected(items, P) = 1..Cardinality(P) /\ Cardinality(P) \in Nat
         /\ Listed(P, InOrder(P), Cardinality(P))
         /\ \A k \in 1..Cardinality(P) : Selected(items, P)[k] = items[InOrder(P)[k]]
<1>1. PICK N \in Nat : N = Len(items) /\ DOMAIN items = 1..N
  BY LenProperties
<1>2. PICK n, list : n = Cardinality(P) /\ list = InOrder(P)
  OBVIOUS
<1>3. Listed(P, list, n)
  BY <1>1, <1>2, InOrderLists
<1>4. n \in Nat /\ DOMAIN list = 1..n /\ \A k \in 1..n : list[k] \in P
  BY <1>3 DEF Listed
<1>5. \A k \in 1..n : items[list[k]] \in S
  BY <1>1, <1>4, ElementOfSeq
<1>6. Selected(items, P) = [k \in 1..n |-> items[list[k]]]
  BY <1>2, <1>4 DEF Selected
<1>7. Selected(items, P) \in Seq(S)
  BY <1>4, <1>5, <1>6, IsASeq
<1> QED
  BY <1>2, <1>3, <1>4, <1>6, <1>7

\* The objects of a text are cut from it.
ObjectStarts(text) ==
  {i \in Braces(text) : text[i] = Open /\ \E j \in NextBrace(text, i) : text[j] = Close}
ObjectAt(text, i) == SubSeq(text, i, CHOOSE j \in NextBrace(text, i) : TRUE)

LEMMA ObjectsAre ==
  ASSUME NEW S, NEW text \in Seq(S)
  PROVE  /\ ObjectStarts(text) \subseteq 1..Len(text)
         /\ Len(text) \in Nat
         /\ Listed(ObjectStarts(text), InOrder(ObjectStarts(text)), Cardinality(ObjectStarts(text)))
         /\ Objects(text) = [n \in 1..Cardinality(ObjectStarts(text)) |->
                               ObjectAt(text, InOrder(ObjectStarts(text))[n])]
         /\ Objects(text) \in Seq(Seq(S))
<1>1. PICK N \in Nat : N = Len(text) /\ DOMAIN text = 1..N
  BY LenProperties
<1>2. PICK starts, n, list : starts = ObjectStarts(text) /\ n = Cardinality(starts)
                             /\ list = InOrder(starts)
  OBVIOUS
<1>3. starts \subseteq 1..N
  BY <1>1, <1>2 DEF ObjectStarts, Braces
<1>4. Listed(starts, list, n)
  BY <1>2, <1>3, InOrderLists
<1>5. n \in Nat /\ DOMAIN list = 1..n /\ \A k \in 1..n : list[k] \in starts
  BY <1>4 DEF Listed
<1>6. Objects(text) = [k \in 1..n |-> ObjectAt(text, list[k])]
  BY <1>2, <1>5 DEF Objects, ObjectStarts, ObjectAt
<1>7. ASSUME NEW i \in starts PROVE ObjectAt(text, i) \in Seq(S)
  <2>1. NextBrace(text, i) # {} /\ \A j \in NextBrace(text, i) : j \in 1..N /\ j > i
    BY <1>1, <1>2 DEF ObjectStarts, NextBrace, Braces
  <2>2. PICK j : j = CHOOSE k \in NextBrace(text, i) : TRUE
    OBVIOUS
  <2>3. j \in 1..N /\ j > i /\ i \in 1..N
    BY <1>3, <2>1, <2>2
  <2>4. SubSeq(text, i, j) \in Seq(S)
    <3>1. i \in 1..(N + 1) /\ j \in (i - 1)..N /\ \A k \in i..j : text[k] \in S
      BY <1>1, <2>3, ElementOfSeq
    <3> QED
      BY <1>1, <3>1, SubSeqProperties
  <2> QED
    BY <2>2, <2>4 DEF ObjectAt
<1>8. Objects(text) \in Seq(Seq(S))
  BY <1>5, <1>6, <1>7, IsASeq
<1> QED
  BY <1>1, <1>2, <1>3, <1>4, <1>6, <1>8

LEMMA LoadIsTyped ==
  ASSUME NEW text \in Seq(TextCell)
  PROVE  Load(text) \subseteq Seq(StoredRecord)
<1> DEFINE objects == Objects(text)
           P == {n \in DOMAIN objects : Contains(objects[n], Key("relative_path"))}
           records == Selected(objects, P)
           loaded == [n \in DOMAIN records |-> CHOOSE record \in RecordsIn(records[n]) : TRUE]
<1>1. objects \in Seq(Seq(TextCell))
  BY ObjectsAre
<1>2. Load(text) = IF \E n \in DOMAIN records : RecordsIn(records[n]) = {} THEN {} ELSE {loaded}
  BY DEF Load
<1>3. P \subseteq DOMAIN objects
  OBVIOUS
<1> HIDE DEF objects, P
<1>4. records \in Seq(Seq(TextCell))
  BY <1>1, <1>3, SelectionIsTyped
<1> HIDE DEF records
<1>5. PICK n \in Nat : DOMAIN records = 1..n /\ n = Len(records)
  BY <1>4, LenProperties
<1>6. ASSUME \A k \in DOMAIN records : RecordsIn(records[k]) # {} PROVE loaded \in Seq(StoredRecord)
  <2>1. \A k \in 1..n : records[k] \in Seq(TextCell)
    BY <1>4, <1>5, ElementOfSeq
  <2>2. \A k \in 1..n : loaded[k] \in StoredRecord
    <3> SUFFICES ASSUME NEW k \in 1..n PROVE loaded[k] \in StoredRecord
      OBVIOUS
    <3>1. RecordsIn(records[k]) # {} /\ RecordsIn(records[k]) \subseteq StoredRecord
      BY <1>5, <1>6, <2>1, RecordsAreTyped
    <3>2. loaded[k] = CHOOSE record \in RecordsIn(records[k]) : TRUE
      BY <1>5
    <3> QED
      BY <3>1, <3>2
  <2>3. loaded = [k \in 1..n |-> loaded[k]]
    BY <1>5
  <2> HIDE DEF loaded
  <2> QED
    BY <2>2, <2>3, IsASeq
<1> QED
  BY <1>2, <1>6

LEMMA IdentityTextIsTyped ==
  ASSUME NEW info \in StoredInfo, NEW tail \in Seq(TextCell)
  PROVE  IdentityText(info, tail) \in Seq(TextCell)
<1> DEFINE a == <<Open, Key("relative_path"), Quote>>
           b == EscapeJsonString(info.path)
           c == <<Quote, Key("size"), Number(info.size), Key("sha256"), Quote>>
           d == EscapeJsonString(info.sha256)
<1>1. /\ a \in Seq(TextCell) /\ b \in Seq(TextCell) /\ c \in Seq(TextCell)
      /\ d \in Seq(TextCell) /\ tail \in Seq(TextCell)
  <2>1. b \in Seq(TextCell) /\ d \in Seq(TextCell)
    <3>1. info.path \in Seq(TextCell) /\ info.sha256 \in Seq(TextCell) /\ Backslash \in TextCell
      BY CellKinds DEF StoredInfo
    <3> QED
      BY <3>1, EscapeIsTyped
  <2>2. /\ Open \in TextCell /\ Quote \in TextCell /\ Number(info.size) \in TextCell
        /\ Key("relative_path") \in TextCell /\ Key("size") \in TextCell
        /\ Key("sha256") \in TextCell
    BY CellKinds DEF FieldName, StoredInfo
  <2> QED
    BY <2>1, <2>2
<1>2. IdentityText(info, tail) = a \o b \o c \o d \o tail
  BY DEF IdentityText
<1> HIDE DEF a, b, c, d
<1>3. FiveJoined(TextCell, a, b, c, d, tail, a \o b \o c \o d \o tail)
  BY ONLY <1>1, FiveParts
<1> QED
  BY <1>2, <1>3 DEF FiveJoined

RecordTail(record) == <<Quote, Key("offset"), Number(record.offset), Close>>

LEMMA RecordTextIs ==
  ASSUME NEW record \in StoredRecord
  PROVE  /\ RecordText(record) = IdentityText(record.info, RecordTail(record))
         /\ RecordTail(record) \in Seq(TextCell)
         /\ RecordText(record) \in Seq(TextCell)
<1>1. RecordText(record) = IdentityText(record.info, RecordTail(record))
  BY DEF RecordText, IdentityText, RecordTail
<1>2. RecordTail(record) \in Seq(TextCell)
  <2>1. /\ Close \in TextCell /\ Quote \in TextCell /\ Number(record.offset) \in TextCell
        /\ Key("offset") \in TextCell
    BY CellKinds DEF FieldName, StoredRecord
  <2> QED
    BY <2>1 DEF RecordTail
<1>3. record.info \in StoredInfo
  BY DEF StoredRecord
<1> QED
  BY <1>1, <1>2, <1>3, IdentityTextIsTyped

\* The records of a saved text, one after the other.
RecordTexts(records) == [i \in DOMAIN records |-> RecordText(records[i])]

LEMMA SavedIs ==
  ASSUME NEW records \in Seq(StoredRecord)
  PROVE  /\ RecordTexts(records) \in Seq(Seq(TextCell))
         /\ Len(RecordTexts(records)) = Len(records)
         /\ FlattenSeq(RecordTexts(records)) \in Seq(TextCell)
         /\ Saved(records) = <<Open, Key("records")>> \o FlattenSeq(RecordTexts(records)) \o <<Close>>
         /\ Saved(records) \in Seq(TextCell)
<1>1. PICK n \in Nat : n = Len(records) /\ DOMAIN records = 1..n
  BY LenProperties
<1>2. \A k \in 1..n : RecordText(records[k]) \in Seq(TextCell)
  BY <1>1, ElementOfSeq, RecordTextIs
<1> DEFINE texts == RecordTexts(records)
<1>3. texts = [k \in 1..n |-> RecordText(records[k])]
  BY <1>1 DEF RecordTexts
<1>4. texts \in Seq(Seq(TextCell)) /\ Len(texts) = n
  <2>1. texts \in Seq(Seq(TextCell))
    BY <1>2, <1>3, IsASeq
  <2>2. DOMAIN texts = 1..n
    BY <1>3
  <2> HIDE DEF texts
  <2> QED
    BY <2>1, <2>2, LenProperties
<1>5. FlattenSeq(texts) \in Seq(TextCell)
  <2>1. PICK at : Laid(TextCell, texts, at)
    BY <1>4, Flattened
  <2> QED
    BY <2>1 DEF Laid
<1>6. Saved(records) = <<Open, Key("records")>> \o FlattenSeq(texts) \o <<Close>>
  BY DEF Saved, RecordTexts
<1> HIDE DEF texts
<1>7. <<Open, Key("records")>> \in Seq(TextCell) /\ <<Close>> \in Seq(TextCell)
  <2>1. Open \in TextCell /\ Close \in TextCell /\ Key("records") \in TextCell
    BY CellKinds DEF FieldName
  <2> QED
    BY <2>1
<1>8. Saved(records) \in Seq(TextCell)
  <2> DEFINE a == <<Open, Key("records")>>
             b == FlattenSeq(texts)
             c == <<Close>>
  <2>1. a \in Seq(TextCell) /\ b \in Seq(TextCell) /\ c \in Seq(TextCell)
    BY <1>5, <1>7
  <2> HIDE DEF a, b, c
  <2>2. a \o b \o c \in Seq(TextCell)
    BY ONLY <2>1, Appended
  <2> QED
    BY <1>6, <2>2 DEF a, b, c
<1> QED
  BY <1>1, <1>4, <1>5, <1>6, <1>8 DEF texts

\* The record found is one of those that have the identity.
LEMMA KnownRecords ==
  ASSUME NEW records \in Seq(StoredRecord), NEW info
  PROVE  /\ Known(records, info) \subseteq 1..Len(records) /\ Len(records) \in Nat
         /\ DOMAIN records = 1..Len(records)
         /\ Known(records, info) # {} =>
              /\ First(Known(records, info)) \in Known(records, info)
              /\ \A k \in Known(records, info) : First(Known(records, info)) <= k
<1>1. DOMAIN records = 1..Len(records) /\ Len(records) \in Nat
  BY LenProperties
<1>2. Known(records, info) \subseteq 1..Len(records)
  BY <1>1 DEF Known
<1>3. Known(records, info) \subseteq Nat
  BY <1>1, <1>2
<1> QED
  BY <1>1, <1>2, <1>3, Smallest

LEMMA StateIsTyped ==
  ASSUME NEW text \in Seq(TextCell), NEW info \in StoredInfo, NEW offset \in Nat
  PROVE  /\ FindOffset(text, info) \subseteq Nat
         /\ UpdateOffset(text, info, offset) \subseteq Seq(TextCell)
         /\ Clear(text, info) \subseteq Seq(TextCell)
<1>1. Load(text) \subseteq Seq(StoredRecord)
  BY LoadIsTyped
<1>2. ASSUME NEW records \in Seq(StoredRecord), Known(records, info) # {}
      PROVE  /\ First(Known(records, info)) \in DOMAIN records
             /\ records[First(Known(records, info))] \in StoredRecord
  BY <1>2, KnownRecords, ElementOfSeq
<1>3. FindOffset(text, info) \subseteq Nat
  <2>1. ASSUME NEW records \in Load(text)
        PROVE  (IF Known(records, info) = {} \/ records[First(Known(records, info))].offset > info.size
                THEN 0 ELSE records[First(Known(records, info))].offset) \in Nat
    BY <1>1, <1>2 DEF StoredRecord
  <2> QED
    BY <2>1 DEF FindOffset
<1>4. UpdateOffset(text, info, offset) \subseteq Seq(TextCell)
  <2> SUFFICES ASSUME NEW records \in Load(text)
               PROVE  Saved(IF Known(records, info) = {}
                            THEN Append(records, [info |-> info, offset |-> offset])
                            ELSE [records EXCEPT ![First(Known(records, info))].offset = offset])
                        \in Seq(TextCell)
    BY DEF UpdateOffset
  <2>1. records \in Seq(StoredRecord)
    BY <1>1
  <2>2. Append(records, [info |-> info, offset |-> offset]) \in Seq(StoredRecord)
    <3>1. [info |-> info, offset |-> offset] \in StoredRecord
      BY DEF StoredRecord
    <3> QED
      BY <2>1, <3>1
  <2>3. ASSUME Known(records, info) # {}
        PROVE  [records EXCEPT ![First(Known(records, info))].offset = offset] \in Seq(StoredRecord)
    <3>1. PICK k : k = First(Known(records, info))
      OBVIOUS
    <3>2. k \in DOMAIN records /\ records[k] \in StoredRecord
      BY <1>2, <2>1, <2>3, <3>1
    <3>3. PICK n \in Nat : n = Len(records) /\ DOMAIN records = 1..n
      BY <2>1, LenProperties
    <3> DEFINE changed == [records EXCEPT ![k].offset = offset]
    <3>4. [records[k] EXCEPT !.offset = offset] \in StoredRecord
      BY <3>2 DEF StoredRecord
    <3>5. changed = [i \in 1..n |-> IF i = k THEN [records[k] EXCEPT !.offset = offset]
                                    ELSE records[i]]
      BY <3>2, <3>3
    <3>6. \A i \in 1..n : records[i] \in StoredRecord
      BY <2>1, <3>3, ElementOfSeq
    <3> HIDE DEF changed
    <3>7. changed = [i \in 1..n |-> changed[i]] /\ \A i \in 1..n : changed[i] \in StoredRecord
      BY <3>4, <3>5, <3>6
    <3>8. changed \in Seq(StoredRecord)
      BY <3>7, IsASeq
    <3> QED
      BY <3>1, <3>8 DEF changed
  <2> QED
    BY <2>1, <2>2, <2>3, SavedIs
<1>5. Clear(text, info) \subseteq Seq(TextCell)
  <2> SUFFICES ASSUME NEW records \in Load(text)
               PROVE  Saved(Selected(records, DOMAIN records \ Known(records, info))) \in Seq(TextCell)
    BY DEF Clear
  <2>1. Selected(records, DOMAIN records \ Known(records, info)) \in Seq(StoredRecord)
    BY <1>1, SelectionIsTyped
  <2> QED
    BY <2>1, SavedIs
<1> QED
  BY <1>3, <1>4, <1>5

LEMMA AckIsTyped ==
  ASSUME NEW offset \in Nat
  PROVE  ResumeAckText(offset) \in Seq(TextCell)
<1>1. /\ Open \in TextCell /\ Close \in TextCell /\ Number(offset) \in TextCell
      /\ Key("offset") \in TextCell
  BY CellKinds DEF FieldName
<1> QED
  BY <1>1 DEF ResumeAckText

LEMMA ManifestIsTyped ==
  ASSUME NEW manifest \in [files : Nat, bytes : Nat, directories : Nat]
  PROVE  ManifestText(manifest) \in Seq(TextCell)
<1>1. /\ \A n \in Nat : Number(n) \in TextCell
      /\ Key("beamdrop-manifest-v2") \in TextCell /\ Key("file_count") \in TextCell
      /\ Key("total_bytes") \in TextCell /\ Key("directory_count") \in TextCell
  BY CellKinds DEF FieldName
<1> QED
  BY <1>1 DEF ManifestText

-----------------------------------------------------------------------------
(* Reading back a state file, whole or torn. *)

\* Records of files whose names have no brace in them.
PlainCell   == StringCell \ {Open, Close}
PlainInfo   == [path : Seq(PlainCell) \ {<<>>}, size : Nat, sha256 : Seq(PlainCell) \ {<<>>}]
PlainRecord == [info : PlainInfo, offset : Nat]

\* They are records, of identities that can be read back.
LEMMA PlainIsStored ==
  /\ PlainInfo \subseteq Identity /\ PlainInfo \subseteq StoredInfo
  /\ PlainRecord \subseteq StoredRecord
<1>1. PlainCell \subseteq StringCell /\ PlainCell \subseteq TextCell
  BY CellKinds DEF PlainCell
<1>2. PlainInfo \subseteq Identity /\ PlainInfo \subseteq StoredInfo
  <2> SUFFICES ASSUME NEW info \in PlainInfo PROVE info \in Identity /\ info \in StoredInfo
    OBVIOUS
  <2>1. /\ info = [path |-> info.path, size |-> info.size, sha256 |-> info.sha256]
        /\ info.path \in Seq(PlainCell) /\ info.path # <<>> /\ info.size \in Nat
        /\ info.sha256 \in Seq(PlainCell) /\ info.sha256 # <<>>
    BY DEF PlainInfo
  <2>2. /\ info.path \in Seq(StringCell) /\ info.sha256 \in Seq(StringCell)
        /\ info.path \in Seq(TextCell) /\ info.sha256 \in Seq(TextCell)
    BY <1>1, <2>1, SeqMonotonic
  <2> QED
    BY <2>1, <2>2 DEF Identity, StoredInfo
<1> QED
  BY <1>2 DEF PlainRecord, StoredRecord

\* The text of a record is an object of its own, and the record is read from it.
LEMMA RecordIsRead ==
  ASSUME NEW record \in PlainRecord
  PROVE  /\ RecordText(record) \in Seq(TextCell)
         /\ Len(RecordText(record)) \in Nat /\ Len(RecordText(record)) >= 12
         /\ RecordText(record)[1] = Open /\ RecordText(record)[2] = Key("relative_path")
         /\ RecordText(record)[Len(RecordText(record))] = Close
         /\ \A p \in 2..(Len(RecordText(record)) - 1) :
              RecordText(record)[p] # Open /\ RecordText(record)[p] # Close
         /\ RecordsIn(RecordText(record)) = {record}
<1> DEFINE tail == RecordTail(record)
           text == RecordText(record)
<1>1. /\ record.info \in PlainInfo /\ record.offset \in Nat
      /\ record = [info |-> record.info, offset |-> record.offset]
  BY DEF PlainRecord
<1>2. record.info \in Identity /\ record \in StoredRecord
  BY <1>1, PlainIsStored
<1>3. tail \in Seq(TextCell) /\ text = IdentityText(record.info, tail) /\ text \in Seq(TextCell)
  BY <1>2, RecordTextIs
<1>4. /\ Len(tail) = 4 /\ tail[1] = Quote /\ tail[2] = Key("offset")
      /\ tail[3] = Number(record.offset) /\ tail[4] = Close
  BY DEF RecordTail
<1> HIDE DEF tail, text
<1>k. /\ Number(record.offset) # Open /\ Number(record.offset) # Close
      /\ Number(record.info.size) # Open /\ Number(record.info.size) # Close
      /\ \A field : Key(field) # Open /\ Key(field) # Close
      /\ Quote # Open /\ Quote # Close /\ Open # Close /\ Backslash # Open /\ Backslash # Close
  BY DEF Number, Open, Close, Key, Quote, Backslash
<1>5. IdentityTail(tail)
  <2>1. \A field \in IdentityFields : field # "offset"
    BY DEF IdentityFields
  <2>2. \A field \in IdentityFields : Key("offset") # Key(field)
    BY <2>1 DEF Key
  <2>3. \A field \in IdentityFields : /\ Quote # Key(field) /\ Close # Key(field)
                                      /\ Number(record.offset) # Key(field)
    BY CellKinds
  <2>4. \A i \in 1..4 : \A field \in IdentityFields : tail[i] # Key(field)
    BY <1>4, <2>2, <2>3
  <2> QED
    BY <1>3, <1>4, <2>4 DEF IdentityTail
<1>6. PICK m, l : Placed(record.info, tail, text, m, l)
  BY <1>2, <1>3, IdentityIsPlaced
<1>7. /\ m \in Nat /\ l \in Nat /\ Len(text) = m + l + 12
      /\ text[1] = Open /\ text[2] = Key("relative_path") /\ text[3] = Quote
      /\ text[m + 4] = Quote /\ text[m + 5] = Key("size") /\ text[m + 6] = Number(record.info.size)
      /\ text[m + 7] = Key("sha256") /\ text[m + 8] = Quote
      /\ \A i \in 1..m : text[3 + i] = EscapeJsonString(record.info.path)[i]
      /\ \A i \in 1..l : text[m + 8 + i] = EscapeJsonString(record.info.sha256)[i]
      /\ m = Len(EscapeJsonString(record.info.path))
      /\ l = Len(EscapeJsonString(record.info.sha256))
  BY <1>4, <1>6 DEF Placed
<1>8. /\ text[m + l + 9] = Quote /\ text[m + l + 10] = Key("offset")
      /\ text[m + l + 11] = Number(record.offset) /\ text[m + l + 12] = Close
  <2>1. \A i \in 1..4 : text[m + l + 8 + i] = tail[i]
    BY <1>4, <1>6 DEF Placed
  <2>2. /\ m + l + 8 + 1 = m + l + 9 /\ m + l + 8 + 2 = m + l + 10
        /\ m + l + 8 + 3 = m + l + 11 /\ m + l + 8 + 4 = m + l + 12
    BY <1>7
  <2> QED
    BY <1>4, <2>1, <2>2
<1>9. \A p \in 2..(Len(text) - 1) : text[p] # Open /\ text[p] # Close
  <2>1. EscapeJsonString(record.info.path) \in Seq(PlainCell)
        /\ EscapeJsonString(record.info.sha256) \in Seq(PlainCell)
    <3>1. Backslash \in PlainCell
      BY <1>k, CellKinds DEF PlainCell
    <3>2. record.info.path \in Seq(PlainCell) /\ record.info.sha256 \in Seq(PlainCell)
      BY <1>1 DEF PlainInfo
    <3> QED
      BY <3>1, <3>2, EscapeIsTyped
  <2>2. \A i \in 1..m : text[3 + i] \in PlainCell
    BY <1>7, <2>1, ElementOfSeq
  <2>3. \A i \in 1..l : text[m + 8 + i] \in PlainCell
    BY <1>7, <2>1, ElementOfSeq
  <2>4. \A p \in 2..(Len(text) - 1) :
          \/ p \in {2, 3, m + 4, m + 5, m + 6, m + 7, m + 8, m + l + 9, m + l + 10, m + l + 11}
          \/ \E i \in 1..m : p = 3 + i
          \/ \E i \in 1..l : p = m + 8 + i
    <3>1. PICK a \in Nat, b \in Nat, n \in Nat : a = m /\ b = l /\ n = Len(text) /\ n = a + b + 12
      BY <1>7
    <3> SUFFICES ASSUME NEW p \in 2..(n - 1)
                 PROVE \/ p \in {2, 3, a + 4, a + 5, a + 6, a + 7, a + 8, a + b + 9, a + b + 10, a + b + 11}
                       \/ \E i \in 1..a : p = 3 + i
                       \/ \E i \in 1..b : p = a + 8 + i
      BY <3>1
    <3>2. CASE p \in 2..3
      BY <3>2
    <3>3. CASE p \in 4..(a + 3)
      <4>1. p - 3 \in 1..a /\ p = 3 + (p - 3)
        BY <3>1, <3>3
      <4> QED
        BY <4>1
    <3>4. CASE p \in (a + 4)..(a + 8)
      BY ONLY <3>1, <3>4
    <3>5. CASE p \in (a + 9)..(a + b + 8)
      <4>1. p - (a + 8) \in 1..b /\ p = a + 8 + (p - (a + 8))
        BY <3>1, <3>5
      <4> QED
        BY <4>1
    <3>6. CASE p \in (a + b + 9)..(a + b + 11)
      BY ONLY <3>1, <3>6
    <3>7. \/ p \in 2..3 \/ p \in 4..(a + 3) \/ p \in (a + 4)..(a + 8)
          \/ p \in (a + 9)..(a + b + 8) \/ p \in (a + b + 9)..(a + b + 11)
      BY ONLY <3>1, p \in 2..(n - 1)
    <3> QED
      BY ONLY <3>2, <3>3, <3>4, <3>5, <3>6, <3>7
  <2>5. \A p \in {2, 3, m + 4, m + 5, m + 6, m + 7, m + 8, m + l + 9, m + l + 10, m + l + 11} :
          text[p] # Open /\ text[p] # Close
    BY <1>7, <1>8, <1>k
  <2> QED
    BY <2>2, <2>3, <2>4, <2>5 DEF PlainCell
<1>10. Identities(text) = {record.info}
  BY <1>2, <1>5, <1>6, IdentityIsRead
<1>11. NumberField(text, "offset") = {record.offset}
  <2>1. \A p \in 1..Len(text) : text[p] = Key("offset") => p = m + l + 10
    <3>1. \A p \in 1..Len(text) : text[p] = Key("offset") => p > m + l + 8
      <4>1. "offset" \notin IdentityFields
        BY DEF IdentityFields
      <4> QED
        BY <1>2, <1>5, <1>6, <4>1, KeysOfIdentity
    <3>2. /\ text[m + l + 9] # Key("offset") /\ text[m + l + 11] # Key("offset")
          /\ text[m + l + 12] # Key("offset")
      BY <1>8, CellKinds
    <3>3. PICK a \in Nat, b \in Nat : a = m /\ b = l /\ Len(text) = a + b + 12
      BY <1>7
    <3> SUFFICES ASSUME NEW p \in 1..(a + b + 12), text[p] = Key("offset") PROVE p = a + b + 10
      BY <3>3
    <3>4. p > a + b + 8 /\ p # a + b + 9 /\ p # a + b + 11 /\ p # a + b + 12
      BY <3>1, <3>2, <3>3
    <3> QED
      BY ONLY <3>4, a \in Nat, b \in Nat, p \in 1..(a + b + 12)
  <2>2. Fields(text, "offset") = {m + l + 10}
    <3>1. m + l + 10 \in 1..(Len(text) - 1)
      BY <1>7
    <3> QED
      BY <1>7, <1>8, <2>1, <3>1 DEF Fields
  <2>3. m + l + 10 + 1 = m + l + 11
    BY <1>7
  <2>4. Number(record.offset)[1] = "number" /\ Number(record.offset)[2] = record.offset
    BY CellKinds
  <2>5. text[(m + l + 10) + 1] = Number(record.offset)
    BY <1>8, <2>3
  <2> QED
    BY <2>2, <2>4, <2>5 DEF NumberField
<1>12. RecordsIn(text) = {record}
  BY <1>1, <1>10, <1>11 DEF RecordsIn
<1>13. Len(text) \in Nat /\ Len(text) >= 12 /\ text[Len(text)] = Close
  BY <1>7, <1>8
<1> QED
  BY <1>3, <1>7, <1>9, <1>12, <1>13 DEF text

\* What grows at each step grows over many.
LEMMA Mounting ==
  ASSUME NEW n \in Nat, NEW at, \A k \in 0..n : at[k] \in Nat,
         \A k \in 1..n : at[k - 1] <= at[k]
  PROVE  \A i, k \in 0..n : i <= k => at[i] <= at[k]
<1> DEFINE T == {d \in Nat : \A i \in 0..n : i + d <= n => at[i] <= at[i + d]}
<1>1. 0 \in T
  OBVIOUS
<1>2. ASSUME NEW d \in Nat, d \in T PROVE d + 1 \in T
  <2> SUFFICES ASSUME NEW i \in 0..n, i + (d + 1) <= n PROVE at[i] <= at[i + (d + 1)]
    OBVIOUS
  <2>1. PICK k : k = i + (d + 1)
    OBVIOUS
  <2>2. k \in 1..n /\ k - 1 = i + d /\ i + d <= n /\ k - 1 \in 0..n
    BY <2>1
  <2>3. at[i] <= at[k - 1] /\ at[k - 1] <= at[k]
    BY <1>2, <2>2
  <2>4. at[i] \in Nat /\ at[k - 1] \in Nat /\ at[k] \in Nat
    BY <2>2
  <2> QED
    BY <2>1, <2>3, <2>4
<1>3. Nat \subseteq T
  <2> HIDE DEF T
  <2> QED
    BY <1>1, <1>2, NaturalInduction
<1> SUFFICES ASSUME NEW i \in 0..n, NEW k \in 0..n, i <= k PROVE at[i] <= at[k]
  OBVIOUS
<1>4. k - i \in Nat /\ i + (k - i) = k /\ k <= n
  OBVIOUS
<1>5. k - i \in T
  <2> HIDE DEF T
  <2> QED
    BY <1>3, <1>4
<1> QED
  BY <1>4, <1>5

\* There is one way to list positions in order.
LEMMA OneList ==
  ASSUME NEW P, NEW a, NEW n, NEW b, NEW m, P \subseteq Nat, Listed(P, a, n), Listed(P, b, m)
  PROVE  n = m /\ a = b
<1>1. ASSUME NEW x, NEW p, NEW y, NEW q, Listed(P, x, p), Listed(P, y, q)
      PROVE  \A i \in 1..p : i \in 1..q /\ x[i] = y[i]
  <2>0. p \in Nat /\ q \in Nat
    BY <1>1 DEF Listed
  <2>n. (\A i \in 1..p : x[i] \in Nat) /\ (\A i \in 1..q : y[i] \in Nat)
    BY <1>1 DEF Listed
  <2> DEFINE T == {d \in Nat : \A i \in 1..d : i <= p => i <= q /\ x[i] = y[i]}
  <2>1. 0 \in T
    OBVIOUS
  <2>2. ASSUME NEW d \in Nat, d \in T PROVE d + 1 \in T
    <3> SUFFICES ASSUME d + 1 <= p PROVE d + 1 <= q /\ x[d + 1] = y[d + 1]
      BY <2>2
    <3>1. \A i \in 1..d : i <= p /\ i <= q /\ x[i] = y[i]
      BY <2>0, <2>2
    <3>2. d + 1 \in 1..p /\ x[d + 1] \in P
      BY <2>0, <1>1 DEF Listed
    <3>3. PICK j \in 1..q : y[j] = x[d + 1]
      BY <1>1, <3>2 DEF Listed
    <3>4. j >= d + 1
      <4>1. ASSUME j <= d PROVE FALSE
        <5>1. j \in 1..d /\ j \in 1..p /\ j < d + 1
          BY <2>0, <3>1, <4>1
        <5>2. x[j] = x[d + 1] /\ x[j] < x[d + 1] /\ x[j] \in Nat
          BY <1>1, <2>n, <3>1, <3>2, <3>3, <5>1 DEF Listed
        <5> QED
          BY <5>2
      <4> QED
        BY <2>0, <4>1
    <3>5. d + 1 \in 1..q
      BY <2>0, <3>4
    <3>6. y[d + 1] <= y[j]
      <4>1. y[d + 1] \in Nat /\ y[j] \in Nat
        BY <2>n, <3>5
      <4>2. CASE j = d + 1
        BY <4>1, <4>2
      <4>3. CASE d + 1 < j
        <5>1. y[d + 1] < y[j]
          BY <1>1, <3>5, <4>3 DEF Listed
        <5> QED
          BY <4>1, <5>1
      <4> QED
        BY <2>0, <3>4, <4>2, <4>3
    <3>7. PICK k \in 1..p : x[k] = y[d + 1]
      <4>1. y[d + 1] \in P
        BY <1>1, <3>5 DEF Listed
      <4> QED
        BY <1>1, <4>1 DEF Listed
    <3>8. k >= d + 1
      <4>1. ASSUME k <= d PROVE FALSE
        <5>1. k \in 1..d /\ k \in 1..q /\ k < d + 1
          BY <2>0, <3>1, <4>1
        <5>2. y[k] = y[d + 1] /\ y[k] < y[d + 1] /\ y[k] \in Nat
          BY <1>1, <2>n, <3>1, <3>5, <3>7, <5>1 DEF Listed
        <5> QED
          BY <5>2
      <4> QED
        BY <2>0, <4>1
    <3>9. x[d + 1] <= x[k]
      <4>1. x[d + 1] \in Nat /\ x[k] \in Nat
        BY <2>n, <3>2
      <4>2. CASE k = d + 1
        BY <4>1, <4>2
      <4>3. CASE d + 1 < k
        <5>1. x[d + 1] < x[k]
          BY <1>1, <3>2, <4>3 DEF Listed
        <5> QED
          BY <4>1, <5>1
      <4> QED
        BY <2>0, <3>8, <4>2, <4>3
    <3>10. x[d + 1] \in Nat /\ y[d + 1] \in Nat
      BY <2>n, <3>2, <3>5
    <3> QED
      BY <3>3, <3>5, <3>6, <3>7, <3>9, <3>10
  <2>3. Nat \subseteq T
    <3> HIDE DEF T
    <3> QED
      BY <2>1, <2>2, NaturalInduction
  <2>4. p \in T
    <3> HIDE DEF T
    <3> QED
      BY <2>0, <2>3
  <2> QED
    BY <2>0, <2>4
<1>2. /\ \A i \in 1..n : i \in 1..m /\ a[i] = b[i]
      /\ \A i \in 1..m : i \in 1..n
  BY <1>1
<1>3. n \in Nat /\ m \in Nat /\ a = [i \in 1..n |-> a[i]] /\ b = [i \in 1..m |-> b[i]]
  BY DEF Listed
<1>4. n = m
  <2>1. n >= 1 => n \in 1..m
    <3>1. n >= 1 => n \in 1..n
      BY <1>3
    <3> QED
      BY <1>2, <3>1
  <2>2. m >= 1 => m \in 1..n
    <3>1. m >= 1 => m \in 1..m
      BY <1>3
    <3> QED
      BY <1>2, <3>1
  <2> QED
    BY <1>3, <2>1, <2>2
<1> QED
  BY <1>2, <1>3, <1>4

\* Where the records of a saved text stand.
Standing(records, text, at) ==
  /\ text \in Seq(TextCell) /\ at \in [0..Len(records) -> Nat]
  /\ at[0] = 2 /\ Len(text) = at[Len(records)] + 1
  /\ text[1] = Open /\ text[2] = Key("records") /\ text[Len(text)] = Close
  /\ \A k \in 1..Len(records) : at[k] = at[k - 1] + Len(RecordText(records[k]))
  /\ \A k \in 1..Len(records) : \A j \in 1..Len(RecordText(records[k])) :
       text[at[k - 1] + j] = RecordText(records[k])[j]

LEMMA SavedStands ==
  ASSUME NEW records \in Seq(StoredRecord)
  PROVE  \E at : Standing(records, Saved(records), at)
<1>1. PICK K \in Nat : K = Len(records) /\ DOMAIN records = 1..K
  BY LenProperties
<1>2. PICK texts : /\ texts = RecordTexts(records) /\ texts \in Seq(Seq(TextCell)) /\ Len(texts) = K
                   /\ \A k \in 1..K : texts[k] = RecordText(records[k])
  <2>1. RecordTexts(records) \in Seq(Seq(TextCell)) /\ Len(RecordTexts(records)) = K
    BY <1>1, SavedIs
  <2>2. \A k \in 1..K : RecordTexts(records)[k] = RecordText(records[k])
    BY <1>1 DEF RecordTexts
  <2> QED
    BY <2>1, <2>2
<1>3. PICK pos : Laid(TextCell, texts, pos)
  BY <1>2, Flattened
<1> DEFINE a == <<Open, Key("records")>>
           b == FlattenSeq(texts)
           c == <<Close>>
           text == Saved(records)
<1>4. a \in Seq(TextCell) /\ b \in Seq(TextCell) /\ c \in Seq(TextCell)
  <2>1. Open \in TextCell /\ Close \in TextCell /\ Key("records") \in TextCell
    BY CellKinds DEF FieldName
  <2> QED
    BY <2>1, <1>3 DEF Laid
<1>5. text = (a \o b) \o c /\ text \in Seq(TextCell)
  BY <1>2, SavedIs
<1>6. Len(a) = 2 /\ a[1] = Open /\ a[2] = Key("records") /\ Len(c) = 1 /\ c[1] = Close
  OBVIOUS
<1> HIDE DEF a, b, c, text
<1>7. /\ a \o b \in Seq(TextCell) /\ Len(b) \in Nat /\ Len(a \o b) = Len(a) + Len(b)
      /\ \A i \in 1..Len(a) : (a \o b)[i] = a[i]
      /\ \A i \in 1..Len(b) : (a \o b)[Len(a) + i] = b[i]
  BY ONLY <1>4, Appended
<1>8. /\ Len((a \o b) \o c) = Len(a \o b) + Len(c)
      /\ \A i \in 1..Len(a \o b) : ((a \o b) \o c)[i] = (a \o b)[i]
      /\ \A i \in 1..Len(c) : ((a \o b) \o c)[Len(a \o b) + i] = c[i]
  <2>1. a \o b \in Seq(TextCell)
    BY <1>7
  <2> DEFINE ab == a \o b
  <2> HIDE DEF ab
  <2>2. ab \in Seq(TextCell)
    BY <2>1 DEF ab
  <2>3. /\ Len(ab \o c) = Len(ab) + Len(c)
        /\ \A i \in 1..Len(ab) : (ab \o c)[i] = ab[i]
        /\ \A i \in 1..Len(c) : (ab \o c)[Len(ab) + i] = c[i]
    BY ONLY <1>4, <2>2, Appended
  <2> QED
    BY <2>3 DEF ab
<1>9. PICK M \in Nat : M = Len(b)
  BY <1>7
<1>10. /\ Len(text) = M + 3 /\ text[1] = Open /\ text[2] = Key("records") /\ text[M + 3] = Close
       /\ \A i \in 1..M : text[2 + i] = b[i]
  <2>1. Len(a \o b) = M + 2
    BY <1>6, <1>7, <1>9
  <2>2. Len(text) = M + 3
    BY <1>5, <1>6, <1>8, <2>1
  <2>3. \A i \in 1..(M + 2) : text[i] = (a \o b)[i]
    BY <1>5, <1>8, <2>1
  <2>4. text[1] = Open /\ text[2] = Key("records")
    <3>1. 1 \in 1..(M + 2) /\ 2 \in 1..(M + 2) /\ 1 \in 1..Len(a) /\ 2 \in 1..Len(a)
      BY <1>6, <1>9
    <3> QED
      BY <1>6, <1>7, <2>3, <3>1
  <2>5. text[M + 3] = Close
    <3>1. (M + 2) + 1 = M + 3 /\ 1 \in 1..Len(c)
      BY <1>6
    <3>2. ((a \o b) \o c)[(M + 2) + 1] = c[1]
      BY <1>8, <2>1, <3>1
    <3> QED
      BY <1>5, <1>6, <3>1, <3>2
  <2>6. ASSUME NEW i \in 1..M PROVE text[2 + i] = b[i]
    <3>1. 2 + i \in 1..(M + 2) /\ i \in 1..Len(b)
      BY <1>9
    <3>2. (a \o b)[2 + i] = b[i]
      BY <1>6, <1>7, <3>1
    <3> QED
      BY <2>3, <3>1, <3>2
  <2> QED
    BY <2>2, <2>4, <2>5, <2>6
<1>11. /\ pos \in [0..K -> Nat] /\ pos[0] = 0 /\ pos[K] = M
       /\ \A k \in 1..K : pos[k] = pos[k - 1] + Len(texts[k])
       /\ \A k \in 0..K : pos[k] <= M
       /\ \A k \in 1..K : \A j \in 1..Len(texts[k]) : b[pos[k - 1] + j] = texts[k][j]
  BY <1>2, <1>3, <1>9 DEF Laid, b
<1> DEFINE at == [k \in 0..K |-> pos[k] + 2]
<1>12. at \in [0..K -> Nat] /\ at[0] = 2 /\ Len(text) = at[K] + 1
  BY <1>10, <1>11
<1>13. ASSUME NEW k \in 1..K
       PROVE  /\ at[k] = at[k - 1] + Len(texts[k])
              /\ \A j \in 1..Len(texts[k]) : text[at[k - 1] + j] = texts[k][j]
  <2>1. k \in 0..K /\ k - 1 \in 0..K
    OBVIOUS
  <2>2. PICK x \in Nat, y \in Nat, z \in Nat : x = pos[k - 1] /\ y = pos[k] /\ z = Len(texts[k])
    <3>1. texts[k] \in Seq(TextCell)
      BY <1>2, ElementOfSeq
    <3> QED
      BY <1>11, <2>1, <3>1, LenProperties
  <2>3. y = x + z /\ y <= M /\ at[k] = y + 2 /\ at[k - 1] = x + 2
    BY <1>11, <2>1, <2>2
  <2>4. ASSUME NEW j \in 1..z PROVE text[at[k - 1] + j] = texts[k][j]
    <3>1. x + j \in 1..M /\ at[k - 1] + j = 2 + (x + j)
      BY <1>9, <2>3
    <3> QED
      BY <1>10, <1>11, <2>2, <3>1
  <2>5. at[k] = at[k - 1] + z
    BY ONLY <2>3, x \in Nat, y \in Nat, z \in Nat
  <2> QED
    BY <2>2, <2>4, <2>5
<1> HIDE DEF at
<1>14. Standing(records, text, at)
  <2>1. \A k \in 1..K : /\ at[k] = at[k - 1] + Len(RecordText(records[k]))
                        /\ \A j \in 1..Len(RecordText(records[k])) :
                             text[at[k - 1] + j] = RecordText(records[k])[j]
    BY <1>2, <1>13
  <2>2. text[Len(text)] = Close
    BY <1>10
  <2> QED
    BY <1>1, <1>5, <1>10, <1>12, <2>1, <2>2 DEF Standing
<1> QED
  BY <1>14 DEF text

\* The braces of a saved text of plain names: one pair round everything and one
\* pair round every record.
Fenced(records, text, at) ==
  /\ Standing(records, text, at)
  /\ \A i, k \in 0..Len(records) : i <= k => at[i] <= at[k]
  /\ \A k \in 1..Len(records) :
       /\ at[k] >= at[k - 1] + 12
       /\ text[at[k - 1] + 1] = Open /\ text[at[k - 1] + 2] = Key("relative_path")
       /\ text[at[k]] = Close
       /\ \A p \in (at[k - 1] + 2)..(at[k] - 1) : text[p] # Open /\ text[p] # Close
  /\ \A p \in 3..at[Len(records)] : \E k \in 1..Len(records) : at[k - 1] < p /\ p <= at[k]

LEMMA PlainIsFenced ==
  ASSUME NEW records \in Seq(PlainRecord), NEW text, NEW at, Standing(records, text, at)
  PROVE  Fenced(records, text, at)
<1>1. PICK K \in Nat : K = Len(records)
  BY LenProperties
<1>2. /\ at[0] = 2 /\ \A k \in 0..K : at[k] \in Nat
      /\ \A k \in 1..K : at[k] = at[k - 1] + Len(RecordText(records[k]))
      /\ \A k \in 1..K : \A j \in 1..Len(RecordText(records[k])) :
           text[at[k - 1] + j] = RecordText(records[k])[j]
  BY <1>1 DEF Standing
<1>3. ASSUME NEW k \in 1..K
      PROVE  /\ at[k] >= at[k - 1] + 12
             /\ text[at[k - 1] + 1] = Open /\ text[at[k - 1] + 2] = Key("relative_path")
             /\ text[at[k]] = Close
             /\ \A p \in (at[k - 1] + 2)..(at[k] - 1) : text[p] # Open /\ text[p] # Close
  <2>1. records[k] \in PlainRecord
    BY <1>1, ElementOfSeq
  <2>2. k \in 0..K /\ k - 1 \in 0..K
    OBVIOUS
  <2>3. PICK object : object = RecordText(records[k])
    OBVIOUS
  <2>4. PICK x \in Nat, y \in Nat, z \in Nat : x = at[k - 1] /\ y = at[k] /\ z = Len(object)
    BY <1>2, <2>1, <2>2, <2>3, RecordIsRead
  <2>5. /\ z >= 12 /\ object[1] = Open /\ object[2] = Key("relative_path") /\ object[z] = Close
        /\ \A p \in 2..(z - 1) : object[p] # Open /\ object[p] # Close
    BY <2>1, <2>3, <2>4, RecordIsRead
  <2>6. y = x + z
    BY <1>2, <2>3, <2>4
  <2>7. \A j \in 1..z : text[x + j] = object[j]
    BY <1>2, <2>3, <2>4
  <2>8. 1 \in 1..z /\ 2 \in 1..z /\ z \in 1..z
    BY <2>5
  <2>9. text[x + 1] = Open /\ text[x + 2] = Key("relative_path") /\ text[y] = Close
    BY <2>5, <2>6, <2>7, <2>8
  <2>10. ASSUME NEW p \in (x + 2)..(y - 1) PROVE text[p] # Open /\ text[p] # Close
    <3>1. p - x \in 2..(z - 1) /\ p - x \in 1..z /\ x + (p - x) = p
      BY <2>6
    <3> QED
      BY <2>5, <2>7, <3>1
  <2> QED
    BY <2>4, <2>5, <2>6, <2>9, <2>10
<1>4. \A k \in 1..K : at[k - 1] <= at[k]
  <2> SUFFICES ASSUME NEW k \in 1..K PROVE at[k - 1] <= at[k]
    OBVIOUS
  <2>1. at[k] \in Nat /\ at[k - 1] \in Nat
    BY <1>2
  <2> QED
    BY <1>3, <2>1
<1>5. \A i, k \in 0..K : i <= k => at[i] <= at[k]
  BY ONLY <1>2, <1>4, Mounting, K \in Nat
<1>6. ASSUME NEW p \in 3..at[K] PROVE \E k \in 1..K : at[k - 1] < p /\ p <= at[k]
  <2> DEFINE P == {k \in 1..K : p <= at[k]}
  <2>0. at[K] \in Nat /\ p \in Nat /\ p <= at[K] /\ p > at[0]
    BY <1>1, <1>2
  <2>1. P \subseteq Nat /\ P # {}
    <3>1. K # 0
      BY <2>0, <1>2
    <3>2. K \in 1..K
      BY <3>1
    <3> QED
      BY <2>0, <3>2
  <2>2. PICK k \in P : \A i \in P : k <= i
    BY <2>1, Smallest
  <2>3. k \in 1..K /\ p <= at[k]
    BY <2>2
  <2>4. at[k - 1] < p
    <3>1. CASE k = 1
      BY <2>0, <3>1
    <3>2. CASE k # 1
      <4>1. k - 1 \in 1..K /\ k - 1 \in 0..K /\ ~ (k <= k - 1)
        BY <2>3, <3>2
      <4>2. ~ (p <= at[k - 1])
        BY <2>2, <4>1
      <4>3. PICK x \in Nat : x = at[k - 1]
        BY <1>2, <4>1
      <4> QED
        BY <2>0, <4>2, <4>3
    <3> QED
      BY <3>1, <3>2
  <2> QED
    BY <2>3, <2>4
<1> QED
  BY <1>1, <1>3, <1>5, <1>6 DEF Fenced

\* The brace that comes next.
LEMMA NextIs ==
  ASSUME NEW S, NEW text \in Seq(S), NEW i \in 1..Len(text), NEW j \in 1..Len(text), i < j,
         text[j] \in {Open, Close}, \A p \in (i + 1)..(j - 1) : text[p] \notin {Open, Close}
  PROVE  NextBrace(text, i) = {j}
<1>1. PICK N \in Nat : N = Len(text) /\ DOMAIN text = 1..N
  BY LenProperties
<1>2. Braces(text) \subseteq 1..N /\ j \in Braces(text)
  BY <1>1 DEF Braces
<1>3. ASSUME NEW k \in Braces(text), k > i PROVE j <= k
  <2>1. k \in 1..N /\ text[k] \in {Open, Close}
    BY <1>1 DEF Braces
  <2> QED
    BY <1>1, <1>3, <2>1
<1>4. ASSUME NEW k \in NextBrace(text, i) PROVE k = j
  <2>1. k \in 1..N /\ k > i /\ j \in 1..N /\ k \in Braces(text) /\ k <= j
    BY <1>1, <1>2 DEF NextBrace
  <2> QED
    BY <1>3, <2>1
<1> QED
  BY <1>2, <1>3, <1>4 DEF NextBrace

\* Where the objects of a cut text begin: at the records that are whole.
CutStarts(at, c) == [k \in 1..c |-> at[k - 1] + 1]

\* A saved text, cut off where its first c records are whole and the others are not.
CutAfter(records, text, at, n, cut, c) ==
  /\ records \in Seq(PlainRecord) /\ Fenced(records, text, at) /\ Len(records) > 0
  /\ n \in 0..Len(text) /\ cut = SubSeq(text, 1, n)
  /\ c \in 0..Len(records) /\ \A k \in 1..Len(records) : k <= c <=> at[k] <= n

LEMMA WholeObjects ==
  ASSUME NEW records, NEW text, NEW at, NEW n, NEW cut, NEW c,
         CutAfter(records, text, at, n, cut, c)
  PROVE  /\ Listed(ObjectStarts(cut), CutStarts(at, c), c)
         /\ \A k \in 1..c : ObjectAt(cut, at[k - 1] + 1) = RecordText(records[k])
<1>0. /\ records \in Seq(PlainRecord) /\ Fenced(records, text, at) /\ Len(records) > 0
      /\ n \in 0..Len(text) /\ cut = SubSeq(text, 1, n)
      /\ c \in 0..Len(records) /\ \A k \in 1..Len(records) : k <= c <=> at[k] <= n
  BY DEF CutAfter
<1>1. PICK K \in Nat, N \in Nat : K = Len(records) /\ N = Len(text) /\ DOMAIN text = 1..N
                                  /\ text \in Seq(TextCell) /\ K > 0
  <2>1. text \in Seq(TextCell)
    BY <1>0 DEF Fenced, Standing
  <2> QED
    BY <1>0, <2>1, LenProperties
<1>2. /\ at[0] = 2 /\ N = at[K] + 1 /\ text[1] = Open /\ text[2] = Key("records") /\ text[N] = Close
      /\ \A k \in 0..K : at[k] \in Nat
      /\ \A i, k \in 0..K : i <= k => at[i] <= at[k]
      /\ \A p \in 3..at[K] : \E k \in 1..K : at[k - 1] < p /\ p <= at[k]
  BY <1>0, <1>1 DEF Fenced, Standing
<1>3. ASSUME NEW k \in 1..K
      PROVE  /\ at[k] >= at[k - 1] + 12 /\ at[k] \in Nat /\ at[k - 1] \in Nat
             /\ at[k - 1] >= 2 /\ at[k] < N
             /\ text[at[k - 1] + 1] = Open /\ text[at[k]] = Close
             /\ \A p \in (at[k - 1] + 2)..(at[k] - 1) : text[p] # Open /\ text[p] # Close
             /\ at[k] = at[k - 1] + Len(RecordText(records[k]))
             /\ \A j \in 1..Len(RecordText(records[k])) :
                  text[at[k - 1] + j] = RecordText(records[k])[j]
  <2>1. k \in 0..K /\ k - 1 \in 0..K /\ 0 \in 0..K /\ K \in 0..K /\ 0 <= k - 1 /\ k <= K
    OBVIOUS
  <2>2. /\ at[k] \in Nat /\ at[k - 1] \in Nat /\ at[K] \in Nat
        /\ at[0] <= at[k - 1] /\ at[k] <= at[K]
    BY <1>2, <2>1
  <2>3. at[k - 1] >= 2 /\ at[k] < N
    BY <1>2, <2>2
  <2> QED
    BY <1>0, <1>1, <2>2, <2>3 DEF Fenced, Standing
<1>4. /\ cut \in Seq(TextCell) /\ Len(cut) = n /\ DOMAIN cut = 1..n
      /\ \A i \in 1..n : cut[i] = text[i]
  <2>1. \A i \in 1..n : text[i] \in TextCell
    BY <1>0, <1>1, ElementOfSeq
  <2>2. 1 \in Int /\ n \in Int /\ n \in Nat
    BY <1>0, <1>1
  <2>3. /\ SubSeq(text, 1, n) \in Seq(TextCell)
        /\ Len(SubSeq(text, 1, n)) = IF 1 <= n THEN n - 1 + 1 ELSE 0
        /\ \A i \in 1..(n - 1 + 1) : SubSeq(text, 1, n)[i] = text[1 + i - 1]
    BY ONLY <2>1, <2>2, SubSeqProperties
  <2>4. cut \in Seq(TextCell) /\ Len(cut) = n
    BY <1>0, <2>2, <2>3
  <2>5. ASSUME NEW i \in 1..n PROVE cut[i] = text[i]
    <3>1. i \in 1..(n - 1 + 1) /\ 1 + i - 1 = i
      BY <2>2
    <3> QED
      BY <1>0, <2>3, <3>1
  <2> QED
    BY <2>4, <2>5, LenProperties
<1>n. n \in Nat /\ n <= N /\ c \in Nat /\ c <= K
  BY <1>0, <1>1
<1>w. \A k \in 1..K : k <= c <=> at[k] <= n
  BY <1>0, <1>1
\* A whole record is an object.
<1>5. ASSUME NEW k \in 1..c
      PROVE  /\ at[k - 1] + 1 \in ObjectStarts(cut)
             /\ ObjectAt(cut, at[k - 1] + 1) = RecordText(records[k])
  <2>1. k \in 1..K
    BY <1>n
  <2>2. PICK x \in Nat, y \in Nat : x = at[k - 1] /\ y = at[k]
    BY <1>3, <2>1
  <2>3. y >= x + 12 /\ y <= n /\ x >= 2
    BY <1>3, <1>n, <1>w, <2>1, <2>2
  <2>4. x + 1 \in 1..n /\ y \in 1..n /\ x + 1 < y
    BY <1>n, <2>3
  <2>5. cut[x + 1] = Open /\ cut[y] = Close
    BY <1>3, <1>4, <2>1, <2>2, <2>4
  <2>6. \A p \in ((x + 1) + 1)..(y - 1) : cut[p] \notin {Open, Close}
    <3> SUFFICES ASSUME NEW p \in ((x + 1) + 1)..(y - 1) PROVE cut[p] \notin {Open, Close}
      OBVIOUS
    <3>1. p \in 1..n /\ p \in (x + 2)..(y - 1)
      BY <2>3, <1>n
    <3> QED
      BY <1>3, <1>4, <2>1, <2>2, <3>1
  <2>7. NextBrace(cut, x + 1) = {y}
    <3>1. x + 1 \in 1..Len(cut) /\ y \in 1..Len(cut) /\ cut[y] \in {Open, Close}
      BY <1>4, <2>4, <2>5
    <3> QED
      BY <1>4, <2>4, <2>6, <3>1, NextIs
  <2>8. x + 1 \in ObjectStarts(cut)
    BY <1>4, <2>4, <2>5, <2>7 DEF ObjectStarts, Braces
  <2>9. ObjectAt(cut, x + 1) = SubSeq(cut, x + 1, y)
    BY <2>7 DEF ObjectAt
  <2>10. SubSeq(cut, x + 1, y) = RecordText(records[k])
    <3>1. PICK object : object = RecordText(records[k]) /\ object \in Seq(TextCell)
      <4>1. records[k] \in PlainRecord
        BY <1>0, <1>1, <2>1, ElementOfSeq
      <4> QED
        BY <4>1, RecordIsRead
    <3>2. PICK z \in Nat : z = Len(object)
      BY <3>1, LenProperties
    <3>3. y = x + z /\ \A j \in 1..z : text[x + j] = object[j]
      BY <1>3, <2>1, <2>2, <3>1, <3>2
    <3>4. \A i \in (x + 1)..y : cut[i] \in TextCell
      <4>1. \A i \in (x + 1)..y : i \in 1..n
        BY <2>3, <1>n
      <4> QED
        BY <1>4, <4>1, ElementOfSeq
    <3>5. x + 1 \in Int /\ y \in Int
      OBVIOUS
    <3>6. /\ SubSeq(cut, x + 1, y) \in Seq(TextCell)
          /\ Len(SubSeq(cut, x + 1, y)) = IF x + 1 <= y THEN y - (x + 1) + 1 ELSE 0
          /\ \A i \in 1..(y - (x + 1) + 1) : SubSeq(cut, x + 1, y)[i] = cut[(x + 1) + i - 1]
      BY ONLY <3>4, <3>5, SubSeqProperties
    <3>7. Len(SubSeq(cut, x + 1, y)) = z
      BY <2>4, <3>3, <3>6
    <3>8. ASSUME NEW i \in 1..z PROVE SubSeq(cut, x + 1, y)[i] = object[i]
      <4>1. i \in 1..(y - (x + 1) + 1) /\ (x + 1) + i - 1 = x + i /\ x + i \in 1..n
        BY <1>n, <2>3, <3>3
      <4> QED
        BY <1>4, <3>3, <3>6, <4>1
    <3> QED
      BY <3>1, <3>2, <3>6, <3>7, <3>8, SeqEqual
  <2> QED
    BY <2>2, <2>8, <2>9, <2>10
\* Nothing else is.
<1>6. ASSUME NEW i \in ObjectStarts(cut) PROVE \E k \in 1..c : at[k - 1] + 1 = i
  <2>1. i \in 1..n /\ cut[i] = Open /\ text[i] = Open
    BY <1>4 DEF ObjectStarts, Braces
  <2>2. PICK j \in NextBrace(cut, i) : cut[j] = Close
    BY DEF ObjectStarts
  <2>3. j \in 1..n /\ j > i /\ \A k \in Braces(cut) : k > i => j <= k
    BY <1>4, <2>2 DEF NextBrace, Braces
  <2>d. Open # Close /\ Key("records") # Open /\ Key("records") # Close
    BY DEF Open, Close, Key
  <2>4. i # 1
    <3>1. ASSUME i = 1 PROVE FALSE
      <4>1. text[3] = Open /\ at[1] >= 14 /\ at[1] < N
        <5>1. 1 \in 1..K /\ 1 - 1 = 0 /\ at[0] = 2 /\ 2 + 1 = 3 /\ 2 + 12 = 14
          BY <1>1, <1>2
        <5>2. text[at[1 - 1] + 1] = Open /\ at[1] >= at[1 - 1] + 12 /\ at[1] < N
          BY <1>3, <5>1
        <5> QED
          BY <5>1, <5>2
      <4>2. j # 2
        BY <1>2, <1>4, <2>2, <2>3, <2>d
      <4>3. 3 \in 1..n
        BY <1>n, <2>3, <3>1, <4>2
      <4>4. 3 \in Braces(cut)
        BY <1>4, <4>1, <4>3 DEF Braces
      <4>5. j = 3
        BY <2>3, <3>1, <4>2, <4>4
      <4> QED
        BY <1>4, <2>2, <2>d, <4>1, <4>3, <4>5
    <3> QED
      BY <3>1
  <2>5. i # 2 /\ i # N
    BY <1>2, <2>1, <2>d
  <2>6. i \in 3..at[K]
    <3>1. K \in 0..K
      BY <1>1
    <3>2. at[K] \in Nat
      BY <1>2, <3>1
    <3> QED
      BY <1>2, <1>n, <2>1, <2>4, <2>5, <3>2
  <2>7. PICK k \in 1..K : at[k - 1] < i /\ i <= at[k]
    BY <1>2, <2>6
  <2>8. PICK x \in Nat, y \in Nat : x = at[k - 1] /\ y = at[k]
    BY <1>3
  <2>9. i = x + 1
    <3>1. i # y
      BY <1>3, <2>1, <2>8, <2>d
    <3>2. i \notin (x + 2)..(y - 1)
      BY <1>3, <2>1, <2>8
    <3> QED
      BY <2>1, <2>7, <2>8, <3>1, <3>2
  <2>10. y <= n
    <3>1. j >= y
      <4>1. ASSUME j < y PROVE FALSE
        <5>1. j \in (x + 2)..(y - 1)
          BY <2>3, <2>9, <4>1
        <5> QED
          BY <1>3, <1>4, <2>2, <2>3, <2>8, <5>1
      <4> QED
        BY <2>3, <4>1
    <3> QED
      BY <1>n, <2>3, <3>1
  <2>11. k \in 1..c
    BY <1>1, <1>n, <1>w, <2>8, <2>10
  <2> QED
    BY <2>8, <2>9, <2>11
<1>7. \A i, k \in 1..c : i < k => CutStarts(at, c)[i] < CutStarts(at, c)[k]
  <2> SUFFICES ASSUME NEW i \in 1..c, NEW k \in 1..c, i < k
               PROVE  CutStarts(at, c)[i] < CutStarts(at, c)[k]
    OBVIOUS
  <2>1. i \in 1..K /\ k \in 1..K /\ i \in 0..K /\ k - 1 \in 0..K /\ i <= k - 1
    BY <1>n
  <2>2. at[i] <= at[k - 1]
    BY <1>2, <2>1
  <2>3. PICK x \in Nat, y \in Nat, z \in Nat : x = at[i - 1] /\ y = at[i] /\ z = at[k - 1]
    BY <1>3, <2>1
  <2>4. y >= x + 12
    BY <1>3, <2>1, <2>3
  <2>5. CutStarts(at, c)[i] = x + 1 /\ CutStarts(at, c)[k] = z + 1
    BY <2>3 DEF CutStarts
  <2>6. x + 1 < z + 1
    <3>1. y <= z
      BY <2>2, <2>3
    <3> QED
      BY ONLY <2>4, <3>1, x \in Nat, y \in Nat, z \in Nat
  <2> QED
    BY <2>5, <2>6
<1> QED
  BY <1>n, <1>5, <1>6, <1>7 DEF Listed, CutStarts

\* A text in which no cell names a path has no record.
LEMMA NoRecords ==
  ASSUME NEW text \in Seq({Open, Close, Key("records")})
  PROVE  Load(text) = {<<>>}
<1> DEFINE S == {Open, Close, Key("records")}
           objects == Objects(text)
           P == {n \in DOMAIN objects : Contains(objects[n], Key("relative_path"))}
           chosen == Selected(objects, P)
<1>1. objects \in Seq(Seq(S))
  BY ObjectsAre
<1>2. Load(text) = IF \E n \in DOMAIN chosen : RecordsIn(chosen[n]) = {} THEN {}
                   ELSE {[n \in DOMAIN chosen |-> CHOOSE record \in RecordsIn(chosen[n]) : TRUE]}
  BY DEF Load
<1>3. Key("relative_path") \notin S
  BY DEF Open, Close, Key
<1> HIDE DEF objects, S
<1>4. P = {}
  <2> SUFFICES ASSUME NEW n \in DOMAIN objects, Contains(objects[n], Key("relative_path"))
               PROVE  FALSE
    OBVIOUS
  <2>1. objects[n] \in Seq(S)
    <3>1. n \in 1..Len(objects)
      BY <1>1, LenProperties
    <3> QED
      BY <1>1, <3>1, ElementOfSeq
  <2>2. PICK i \in 1..Len(objects[n]) : objects[n][i] = Key("relative_path")
    BY DEF Contains
  <2> QED
    BY <1>3, <2>1, <2>2, ElementOfSeq
<1>5. Selected(objects, {}) \in Seq(Seq(S)) /\ DOMAIN Selected(objects, {}) = {}
  <2>1. {} \subseteq DOMAIN objects
    OBVIOUS
  <2>2. /\ Selected(objects, {}) \in Seq(Seq(S))
        /\ DOMAIN Selected(objects, {}) = 1..Cardinality({})
    BY <1>1, <2>1, SelectionIsTyped
  <2>3. Cardinality({}) = 0
    BY FS_EmptySet
  <2> QED
    BY <2>2, <2>3
<1>6. DOMAIN chosen = {}
  BY <1>4, <1>5
<1> HIDE DEF P, chosen
<1>7. [n \in DOMAIN chosen |-> CHOOSE record \in RecordsIn(chosen[n]) : TRUE] = <<>>
  BY <1>6
<1> QED
  BY <1>2, <1>6, <1>7

\* The text of the plain records that are whole is read as those records.
LEMMA WholeIsLoaded ==
  ASSUME NEW records \in Seq(PlainRecord), NEW cut \in Seq(TextCell), NEW at,
         NEW c \in 0..Len(records),
         Listed(ObjectStarts(cut), CutStarts(at, c), c),
         \A k \in 1..c : ObjectAt(cut, at[k - 1] + 1) = RecordText(records[k])
  PROVE  Load(cut) = {SubSeq(records, 1, c)}
<1>1. PICK K \in Nat : K = Len(records)
  BY LenProperties
<1>n. c \in Nat /\ c <= K
  BY <1>1
<1>2. PICK start : start = CutStarts(at, c)
  OBVIOUS
<1>3. start = [k \in 1..c |-> at[k - 1] + 1] /\ Listed(ObjectStarts(cut), start, c)
  BY <1>2 DEF CutStarts
<1>4. /\ ObjectStarts(cut) \subseteq 1..Len(cut) /\ Len(cut) \in Nat
      /\ Listed(ObjectStarts(cut), InOrder(ObjectStarts(cut)), Cardinality(ObjectStarts(cut)))
      /\ Objects(cut) = [n \in 1..Cardinality(ObjectStarts(cut)) |->
                           ObjectAt(cut, InOrder(ObjectStarts(cut))[n])]
      /\ Objects(cut) \in Seq(Seq(TextCell))
  BY ObjectsAre
<1>5. Cardinality(ObjectStarts(cut)) = c /\ InOrder(ObjectStarts(cut)) = start
  <2>1. ObjectStarts(cut) \subseteq Nat
    BY <1>4
  <2> QED
    BY <1>3, <1>4, <2>1, OneList
<1> DEFINE objects == Objects(cut)
           P == {n \in DOMAIN objects : Contains(objects[n], Key("relative_path"))}
           chosen == Selected(objects, P)
<1>6. objects = [k \in 1..c |-> RecordText(records[k])]
  <2>1. objects = [k \in 1..c |-> ObjectAt(cut, start[k])]
    BY <1>4, <1>5
  <2>2. \A k \in 1..c : ObjectAt(cut, start[k]) = RecordText(records[k])
    BY <1>3
  <2> QED
    BY <2>1, <2>2
<1>7. Load(cut) = IF \E n \in DOMAIN chosen : RecordsIn(chosen[n]) = {} THEN {}
                  ELSE {[n \in DOMAIN chosen |-> CHOOSE record \in RecordsIn(chosen[n]) : TRUE]}
  BY DEF Load
<1>8. objects \in Seq(Seq(TextCell))
  BY <1>4
<1> HIDE DEF objects
<1>9. ASSUME NEW k \in 1..c
      PROVE  /\ records[k] \in PlainRecord
             /\ Contains(RecordText(records[k]), Key("relative_path"))
             /\ RecordsIn(RecordText(records[k])) = {records[k]}
  <2>1. records[k] \in PlainRecord
    <3>1. k \in 1..Len(records)
      BY <1>1, <1>n
    <3> QED
      BY <3>1, ElementOfSeq
  <2>2. PICK z : z = Len(RecordText(records[k]))
    OBVIOUS
  <2>3. z \in Nat /\ z >= 12 /\ RecordText(records[k])[2] = Key("relative_path")
        /\ RecordsIn(RecordText(records[k])) = {records[k]}
    BY <2>1, <2>2, RecordIsRead
  <2>4. 2 \in 1..z
    BY <2>3
  <2> QED
    BY <2>1, <2>2, <2>3, <2>4 DEF Contains
<1>10. P = 1..c
  BY <1>6, <1>9
<1> HIDE DEF P
<1>11. chosen = objects
  <2>1. PICK n, list : /\ n = Cardinality(1..c) /\ list = InOrder(1..c)
    OBVIOUS
  <2>2. Listed(1..c, list, n) /\ Selected(objects, 1..c) \in Seq(Seq(TextCell))
        /\ DOMAIN Selected(objects, 1..c) = 1..n
        /\ \A k \in 1..n : Selected(objects, 1..c)[k] = objects[list[k]]
    <3>1. 1..c \subseteq DOMAIN objects
      BY <1>6
    <3> QED
      BY <1>8, <2>1, <3>1, SelectionIsTyped
  <2>3. PICK same : same = [k \in 1..c |-> k]
    OBVIOUS
  <2>4. Listed(1..c, same, c)
    BY <1>n, <2>3 DEF Listed
  <2>5. 1..c \subseteq Nat
    BY <1>n
  <2>6. n = c /\ list = same
    BY <2>2, <2>4, <2>5, OneList
  <2>7. \A k \in 1..c : Selected(objects, 1..c)[k] = objects[k]
    BY <2>2, <2>3, <2>6
  <2>8. PICK picked : picked = Selected(objects, 1..c)
    OBVIOUS
  <2>9. picked = [k \in 1..c |-> picked[k]]
    <3>1. DOMAIN picked = 1..c
      BY <2>2, <2>6, <2>8
    <3>2. picked = [k \in DOMAIN picked |-> picked[k]]
      <4>1. picked \in Seq(Seq(TextCell))
        BY <2>2, <2>8
      <4> QED
        BY <4>1, LenProperties
    <3> QED
      BY <3>1, <3>2
  <2>10. objects = [k \in 1..c |-> objects[k]]
    BY <1>6
  <2>11. picked = objects
    BY <2>7, <2>8, <2>9, <2>10
  <2> QED
    BY <1>10, <2>8, <2>11
<1> HIDE DEF chosen
<1>12. DOMAIN chosen = 1..c /\ \A k \in 1..c : RecordsIn(chosen[k]) = {records[k]}
  BY <1>6, <1>9, <1>11
<1>13. [n \in DOMAIN chosen |-> CHOOSE record \in RecordsIn(chosen[n]) : TRUE]
         = [k \in 1..c |-> records[k]]
  <2>1. ASSUME NEW k \in 1..c
        PROVE (CHOOSE record \in RecordsIn(chosen[k]) : TRUE) = records[k]
    BY <1>12
  <2> QED
    BY <1>12, <2>1
<1>14. [k \in 1..c |-> records[k]] = SubSeq(records, 1, c)
  <2>1. \A i \in 1..c : records[i] \in PlainRecord
    BY <1>9
  <2>2. 1 \in Int /\ c \in Int
    BY <1>n
  <2>3. /\ SubSeq(records, 1, c) \in Seq(PlainRecord)
        /\ Len(SubSeq(records, 1, c)) = IF 1 <= c THEN c - 1 + 1 ELSE 0
        /\ \A i \in 1..(c - 1 + 1) : SubSeq(records, 1, c)[i] = records[1 + i - 1]
    BY ONLY <2>1, <2>2, SubSeqProperties
  <2>4. PICK front : front = SubSeq(records, 1, c)
    OBVIOUS
  <2>5. front \in Seq(PlainRecord) /\ Len(front) = c
    BY <1>n, <2>3, <2>4
  <2>6. \A i \in 1..c : front[i] = records[i]
    <3> SUFFICES ASSUME NEW i \in 1..c PROVE front[i] = records[i]
      OBVIOUS
    <3>1. i \in 1..(c - 1 + 1) /\ 1 + i - 1 = i
      BY <1>n
    <3> QED
      BY <2>3, <2>4, <3>1
  <2>7. front = [i \in 1..c |-> front[i]]
    BY <2>5, LenProperties
  <2> QED
    BY <2>4, <2>6, <2>7
<1> QED
  BY <1>7, <1>12, <1>13, <1>14

\* Wherever the writing of a state file is cut off, load() reads the records that
\* are whole, the first ones, and a file that is whole gives them all back
\* (ResumeManager.cpp 110-168), for files that have no brace in their name.
THEOREM TornStateIsRead ==
  ASSUME NEW records \in Seq(PlainRecord), NEW n \in 0..Len(Saved(records))
  PROVE  \E c \in 0..Len(records) :
           /\ Load(SubSeq(Saved(records), 1, n)) = {SubSeq(records, 1, c)}
           /\ n = Len(Saved(records)) => c = Len(records)
<1>1. PICK text : text = Saved(records)
  OBVIOUS
<1>k. PICK K \in Nat : K = Len(records)
  BY LenProperties
<1>2. records \in Seq(StoredRecord)
  BY PlainIsStored, SeqMonotonic
<1>3. PICK at : Standing(records, text, at)
  BY <1>1, <1>k, <1>2, SavedStands
<1>4. Fenced(records, text, at)
  BY <1>3, PlainIsFenced
<1>5. PICK N \in Nat : N = Len(text) /\ text \in Seq(TextCell)
  BY <1>3, LenProperties DEF Standing
<1>6. n \in Nat /\ n <= N
  BY <1>1, <1>k, <1>5
<1>7. /\ at[0] = 2 /\ N = at[K] + 1 /\ \A k \in 0..K : at[k] \in Nat
      /\ \A i, k \in 0..K : i <= k => at[i] <= at[k]
  BY <1>1, <1>k, <1>4, <1>5 DEF Fenced, Standing
<1>8. PICK cut : cut = SubSeq(text, 1, n)
  OBVIOUS
<1>9. cut \in Seq(TextCell) /\ Len(cut) = n /\ \A i \in 1..n : cut[i] = text[i]
  <2>1. \A i \in 1..n : text[i] \in TextCell
    BY <1>5, <1>6, ElementOfSeq
  <2>2. 1 \in Int /\ n \in Int
    BY <1>6
  <2>3. /\ SubSeq(text, 1, n) \in Seq(TextCell)
        /\ Len(SubSeq(text, 1, n)) = IF 1 <= n THEN n - 1 + 1 ELSE 0
        /\ \A i \in 1..(n - 1 + 1) : SubSeq(text, 1, n)[i] = text[1 + i - 1]
    BY ONLY <2>1, <2>2, SubSeqProperties
  <2>4. ASSUME NEW i \in 1..n PROVE cut[i] = text[i]
    <3>1. i \in 1..(n - 1 + 1) /\ 1 + i - 1 = i
      BY <1>6
    <3> QED
      BY <1>8, <2>3, <3>1
  <2> QED
    BY <1>6, <1>8, <2>3, <2>4
<1>10. CASE K = 0
  <2>1. N = 3 /\ text[1] = Open /\ text[2] = Key("records") /\ text[3] = Close
    BY <1>1, <1>k, <1>3, <1>5, <1>7, <1>10 DEF Standing
  <2>2. \A i \in 1..n : i \in {1, 2, 3}
    BY <1>6, <2>1
  <2>3. \A i \in 1..n : cut[i] \in {Open, Close, Key("records")}
    BY <1>9, <2>1, <2>2
  <2>4. cut = [i \in 1..n |-> cut[i]]
    BY <1>9, LenProperties
  <2>5. [i \in 1..n |-> cut[i]] \in Seq({Open, Close, Key("records")})
    BY <1>6, <2>3, IsASeq
  <2>6. Load(cut) = {<<>>}
    BY <2>4, <2>5, NoRecords
  <2>7. SubSeq(records, 1, 0) = <<>>
    BY SubSeqEmpty
  <2>8. SubSeq(Saved(records), 1, n) = cut /\ Len(records) = 0 /\ 0 \in 0..Len(records)
    BY <1>1, <1>k, <1>8, <1>10
  <2> QED
    BY <2>6, <2>7, <2>8
<1>11. CASE K > 0
  <2> DEFINE Torn == {k \in 1..K : at[k] > n}
  <2>1. PICK c \in 0..K : \A k \in 1..K : k <= c <=> at[k] <= n
    <3>1. CASE Torn = {}
      <4>1. \A k \in 1..K : at[k] <= n
        BY <1>6, <1>7, <3>1
      <4>2. K \in 0..K /\ \A k \in 1..K : k <= K
        OBVIOUS
      <4> QED
        BY <4>1, <4>2
    <3>2. CASE Torn # {}
      <4>1. PICK f \in Torn : \A k \in Torn : f <= k
        <5>1. Torn \subseteq Nat
          OBVIOUS
        <5> HIDE DEF Torn
        <5> QED
          BY <3>2, <5>1, Smallest
      <4>2. f \in 1..K /\ at[f] > n /\ f - 1 \in 0..K
        BY <4>1
      <4>3. ASSUME NEW k \in 1..K PROVE k <= f - 1 <=> at[k] <= n
        <5>1. PICK x \in Nat, y \in Nat : x = at[f] /\ y = at[k]
          BY <1>7, <4>2
        <5>2. f <= k => x <= y
          BY <1>7, <4>2, <5>1
        <5>3. y > n => f <= k
          BY <4>1, <5>1
        <5> QED
          BY <1>6, <4>2, <5>1, <5>2, <5>3
      <4> QED
        BY <4>2, <4>3
    <3> QED
      BY <3>1, <3>2
  <2>2. /\ Listed(ObjectStarts(cut), CutStarts(at, c), c)
        /\ \A k \in 1..c : ObjectAt(cut, at[k - 1] + 1) = RecordText(records[k])
    <3>1. /\ Len(records) > 0 /\ n \in 0..Len(text) /\ c \in 0..Len(records)
          /\ \A k \in 1..Len(records) : k <= c <=> at[k] <= n
      BY <1>1, <1>k, <1>5, <1>6, <1>11, <2>1
    <3>2. CutAfter(records, text, at, n, cut, c)
      BY ONLY <1>4, <1>8, <3>1, records \in Seq(PlainRecord) DEF CutAfter
    <3> QED
      BY ONLY <3>2, WholeObjects
  <2>3. Load(cut) = {SubSeq(records, 1, c)}
    <3>1. c \in 0..Len(records)
      BY <1>k
    <3> QED
      BY ONLY <1>9, <2>2, <3>1, WholeIsLoaded, records \in Seq(PlainRecord)
  <2>4. n = N => c = K
    <3>1. K \in 1..K /\ K \in 0..K
      BY <1>11
    <3>2. at[K] \in Nat /\ N = at[K] + 1
      BY <1>7, <3>1
    <3>3. n = N => at[K] <= n
      BY <3>2
    <3> QED
      BY <2>1, <3>1, <3>3
  <2> QED
    BY <1>1, <1>k, <1>5, <1>8, <2>1, <2>3, <2>4
<1> QED
  BY <1>10, <1>11

LEMMA LoadOfSaved ==
  ASSUME NEW records \in Seq(PlainRecord)
  PROVE  Load(Saved(records)) = {records}
<1>1. Saved(records) \in Seq(TextCell)
  <2>1. records \in Seq(StoredRecord)
    BY PlainIsStored, SeqMonotonic
  <2> QED
    BY <2>1, SavedIs
<1>2. PICK n \in Nat, K \in Nat : n = Len(Saved(records)) /\ K = Len(records)
  BY <1>1, LenProperties
<1>3. n \in 0..Len(Saved(records))
  BY <1>2
<1>4. PICK c \in 0..Len(records) :
        /\ Load(SubSeq(Saved(records), 1, n)) = {SubSeq(records, 1, c)}
        /\ n = Len(Saved(records)) => c = Len(records)
  BY <1>3, TornStateIsRead
<1>5. SubSeq(Saved(records), 1, n) = Saved(records) /\ SubSeq(records, 1, c) = records
  BY <1>1, <1>2, <1>4, SubSeqFull
<1> QED
  BY <1>4, <1>5

\* The records of other identities.
Others(records, info) == {records[k] : k \in DOMAIN records \ Known(records, info)}

\* What update_offset() saves: the others as they were, and the new offset.
LEMMA UpdatedRecords ==
  ASSUME NEW text, NEW records \in Seq(PlainRecord), Load(text) = {records},
         NEW info \in PlainInfo, NEW offset \in Nat, offset <= info.size
  PROVE  \E later \in Seq(PlainRecord) :
           /\ UpdateOffset(text, info, offset) = {Saved(later)}
           /\ Others(later, info) = Others(records, info)
           /\ Known(later, info) # {} /\ later[First(Known(later, info))].offset = offset
<1> DEFINE record == [info |-> info, offset |-> offset]
           known == Known(records, info)
           later == IF known = {} THEN Append(records, record)
                    ELSE [records EXCEPT ![First(known)].offset = offset]
<1>1. UpdateOffset(text, info, offset) = {Saved(later)}
  <2>1. info.path # <<>> /\ info.sha256 # <<>> /\ info.size \in Nat /\ ~ (offset > info.size)
    BY DEF PlainInfo
  <2> QED
    BY <2>1 DEF UpdateOffset
<1>2. PICK N \in Nat : N = Len(records) /\ DOMAIN records = 1..N
  BY LenProperties
<1>3. \A k \in 1..N : records[k] \in PlainRecord
  BY <1>2, ElementOfSeq
<1>4. record \in PlainRecord /\ record.info = info /\ record.offset = offset
  BY DEF PlainRecord
<1>5. ASSUME known = {}
      PROVE  /\ later \in Seq(PlainRecord) /\ Others(later, info) = Others(records, info)
             /\ Known(later, info) # {} /\ later[First(Known(later, info))].offset = offset
  <2>1. \A k \in 1..N : records[k].info # info
    BY <1>2, <1>5 DEF Known
  <2> HIDE DEF record
  <2>2. PICK longer : longer = Append(records, record)
    OBVIOUS
  <2>3. /\ longer \in Seq(PlainRecord) /\ DOMAIN longer = 1..(N + 1)
        /\ longer[N + 1] = record /\ \A k \in 1..N : longer[k] = records[k]
    BY <1>2, <1>4, <2>2
  <2>4. Known(longer, info) = {N + 1}
    <3>1. \A k \in 1..(N + 1) : k \in 1..N \/ k = N + 1
      BY <1>2
    <3>2. N + 1 \in 1..(N + 1)
      BY <1>2
    <3> QED
      BY <1>4, <2>1, <2>3, <3>1, <3>2 DEF Known
  <2>5. Others(longer, info) = Others(records, info)
    <3>1. DOMAIN longer \ Known(longer, info) = 1..N
      BY <1>2, <2>3, <2>4
    <3>2. DOMAIN records \ Known(records, info) = 1..N
      BY <1>2, <1>5
    <3> QED
      BY <2>3, <3>1, <3>2 DEF Others
  <2>6. First(Known(longer, info)) = N + 1
    <3>1. N + 1 \in Nat /\ \A m \in {N + 1} : N + 1 <= m
      OBVIOUS
    <3> QED
      BY <2>4, <3>1 DEF First
  <2>7. later = longer
    BY <1>5, <2>2
  <2> QED
    BY <1>4, <2>3, <2>4, <2>5, <2>6, <2>7
<1>6. ASSUME known # {}
      PROVE  /\ later \in Seq(PlainRecord) /\ Others(later, info) = Others(records, info)
             /\ Known(later, info) # {} /\ later[First(Known(later, info))].offset = offset
  <2>1. PICK f : f = First(known)
    OBVIOUS
  <2>2. f \in known /\ f \in 1..N /\ \A m \in known : f <= m
    <3>1. known \subseteq Nat /\ known \subseteq 1..N
      BY <1>2 DEF Known
    <3> HIDE DEF known
    <3> QED
      BY <1>6, <2>1, <3>1, Smallest
  <2>3. PICK changed : changed = [records EXCEPT ![f].offset = offset]
    OBVIOUS
  <2>4. PICK new : new = [records[f] EXCEPT !.offset = offset]
    OBVIOUS
  <2>5. new \in PlainRecord /\ new.offset = offset /\ new.info = records[f].info
    BY <1>3, <2>2, <2>4 DEF PlainRecord
  <2>6. changed = [i \in 1..N |-> IF i = f THEN new ELSE records[i]]
    BY <1>2, <2>2, <2>3, <2>4
  <2>7. /\ DOMAIN changed = 1..N /\ changed[f] = new
        /\ \A i \in 1..N : i # f => changed[i] = records[i]
        /\ \A i \in 1..N : changed[i] \in PlainRecord /\ changed[i].info = records[i].info
    BY <1>3, <2>2, <2>5, <2>6
  <2>8. changed \in Seq(PlainRecord)
    <3>1. changed = [i \in 1..N |-> changed[i]]
      BY <2>6
    <3> QED
      BY <2>7, <3>1, IsASeq
  <2>9. Known(changed, info) = known
    BY <1>2, <2>7 DEF Known
  <2>10. Others(changed, info) = Others(records, info)
    <3>1. \A k \in 1..N \ known : changed[k] = records[k]
      BY <2>2, <2>7
    <3> QED
      BY <1>2, <2>7, <2>9, <3>1 DEF Others
  <2>11. later = changed
    BY <1>6, <2>1, <2>3
  <2> QED
    BY <1>6, <2>1, <2>5, <2>7, <2>8, <2>9, <2>10, <2>11
<1> HIDE DEF later
<1>7. /\ later \in Seq(PlainRecord) /\ Others(later, info) = Others(records, info)
      /\ Known(later, info) # {} /\ later[First(Known(later, info))].offset = offset
  BY <1>5, <1>6
<1> QED
  BY <1>1, <1>7

\* What clear() saves: the others as they were, and nothing of this one.
LEMMA ClearedRecords ==
  ASSUME NEW text, NEW records \in Seq(PlainRecord), Load(text) = {records}, NEW info
  PROVE  \E later \in Seq(PlainRecord) :
           /\ Clear(text, info) = {Saved(later)}
           /\ Others(later, info) = Others(records, info) /\ Known(later, info) = {}
<1>1. PICK P : P = DOMAIN records \ Known(records, info)
  OBVIOUS
<1>2. PICK later, n, list : later = Selected(records, P) /\ n = Cardinality(P) /\ list = InOrder(P)
  OBVIOUS
<1>3. Clear(text, info) = {Saved(later)}
  BY <1>1, <1>2 DEF Clear
<1>4. /\ later \in Seq(PlainRecord) /\ DOMAIN later = 1..n /\ n \in Nat /\ Listed(P, list, n)
      /\ \A k \in 1..n : later[k] = records[list[k]]
  <2>1. P \subseteq DOMAIN records
    BY <1>1
  <2> QED
    BY <1>2, <2>1, SelectionIsTyped
<1>5. \A k \in 1..n : list[k] \in P
  BY <1>4 DEF Listed
<1>6. \A p \in P : \E k \in 1..n : list[k] = p
  BY <1>4 DEF Listed
<1>7. \A p \in P : records[p].info # info
  BY <1>1 DEF Known
<1>8. Known(later, info) = {}
  BY <1>4, <1>5, <1>7 DEF Known
<1>9. Others(later, info) = {later[k] : k \in 1..n}
  BY <1>4, <1>8 DEF Others
<1>10. Others(records, info) = {records[p] : p \in P}
  BY <1>1 DEF Others
<1>11. {later[k] : k \in 1..n} = {records[p] : p \in P}
  BY <1>4, <1>5, <1>6
<1> QED
  BY <1>3, <1>4, <1>8, <1>9, <1>10, <1>11

\* Saving an offset or clearing a record changes nothing about any other file,
\* and what was saved is what is found, however much of the state file a kill had
\* left (ResumeManager.cpp 170-241), for files that have no brace in their name.
THEOREM RecordsAreKept ==
  ASSUME NEW text, NEW records \in Seq(PlainRecord), Load(text) = {records},
         NEW info \in PlainInfo, NEW offset \in 0..info.size
  PROVE  /\ \E later \in Seq(PlainRecord) :
              /\ UpdateOffset(text, info, offset) = {Saved(later)}
              /\ Others(later, info) = Others(records, info)
              /\ FindOffset(Saved(later), info) = {offset}
         /\ \E later \in Seq(PlainRecord) :
              /\ Clear(text, info) = {Saved(later)}
              /\ Others(later, info) = Others(records, info)
              /\ FindOffset(Saved(later), info) = {0}
<1>1. info.size \in Nat /\ offset \in Nat /\ offset <= info.size
  BY DEF PlainInfo
<1>2. ASSUME NEW later \in Seq(PlainRecord)
      PROVE  FindOffset(Saved(later), info) =
               {IF Known(later, info) = {} \/ later[First(Known(later, info))].offset > info.size
                THEN 0 ELSE later[First(Known(later, info))].offset}
  <2>1. Load(Saved(later)) = {later}
    BY LoadOfSaved
  <2> QED
    BY <2>1 DEF FindOffset
<1>3. \E later \in Seq(PlainRecord) :
        /\ UpdateOffset(text, info, offset) = {Saved(later)}
        /\ Others(later, info) = Others(records, info)
        /\ FindOffset(Saved(later), info) = {offset}
  <2>1. PICK later \in Seq(PlainRecord) :
           /\ UpdateOffset(text, info, offset) = {Saved(later)}
           /\ Others(later, info) = Others(records, info)
           /\ Known(later, info) # {} /\ later[First(Known(later, info))].offset = offset
    BY <1>1, UpdatedRecords
  <2>2. FindOffset(Saved(later), info) = {offset}
    BY <1>1, <1>2, <2>1
  <2> QED
    BY <2>1, <2>2
<1>4. \E later \in Seq(PlainRecord) :
        /\ Clear(text, info) = {Saved(later)}
        /\ Others(later, info) = Others(records, info)
        /\ FindOffset(Saved(later), info) = {0}
  <2>1. PICK later \in Seq(PlainRecord) :
           /\ Clear(text, info) = {Saved(later)}
           /\ Others(later, info) = Others(records, info) /\ Known(later, info) = {}
    BY ClearedRecords
  <2>2. FindOffset(Saved(later), info) = {0}
    BY <1>2, <2>1
  <2> QED
    BY <2>1, <2>2
<1> QED
  BY <1>3, <1>4
=============================================================================
