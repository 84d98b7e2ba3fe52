-------------------------------- MODULE Sha256 --------------------------------
(***************************************************************************)
(* The streaming digest of utils/Sha256.cpp.  The compression function is  *)
(* taken to be free of collisions, so a digest is the sequence of bytes    *)
(* that were compressed; what is modelled is how update() cuts its input   *)
(* into blocks and how final_hex() pads, for any size of block and of      *)
(* length field (64 and 8 in the code).                                    *)
(***************************************************************************)
EXTENDS Integers, Sequences

CONSTANTS
  Byte,         \* what a message is made of
  BlockSize,    \* bytes process_block takes
  LengthSize    \* bytes of the length field of the last block

ASSUME HashAssumption ==
  BlockSize \in Nat /\ LengthSize \in Nat /\ 0 < LengthSize /\ LengthSize < BlockSize

Mark        == <<"mark", 0>>
Zeros(n)    == [i \in 1..n |-> <<"zero", 0>>]
Length(n)   == [i \in 1..LengthSize |-> <<"length", n>>]

NewHash == [compressed |-> <<>>, buffer |-> <<>>, total |-> 0]

\* Faulty variant: buffer_size_ is not reset after the buffer was compressed.
UpdateKeepingBuffer(hash, bytes) ==
  LET room   == BlockSize - Len(hash.buffer)
      copied == IF hash.buffer = <<>> THEN 0
                ELSE IF room < Len(bytes) THEN room ELSE Len(bytes)
      filled == hash.buffer \o SubSeq(bytes, 1, copied)
      full   == Len(filled) = BlockSize
      whole  == ((Len(bytes) - copied) \div BlockSize) * BlockSize
      rest   == SubSeq(bytes, copied + whole + 1, Len(bytes))
  IN  [compressed |-> hash.compressed \o (IF full THEN filled ELSE <<>>)
                        \o SubSeq(bytes, copied + 1, copied + whole),
       buffer     |-> IF rest # <<>> THEN rest ELSE filled,
       total      |-> hash.total + Len(bytes)]

\* Fill the buffer if something waits in it, compress whole blocks straight
\* from the input, keep the rest.
Update(hash, bytes) ==
  LET room   == BlockSize - Len(hash.buffer)
      copied == IF hash.buffer = <<>> THEN 0
                ELSE IF room < Len(bytes) THEN room ELSE Len(bytes)
      filled == hash.buffer \o SubSeq(bytes, 1, copied)
      full   == Len(filled) = BlockSize
      whole  == ((Len(bytes) - copied) \div BlockSize) * BlockSize
      rest   == SubSeq(bytes, copied + whole + 1, Len(bytes))
  IN  [compressed |-> hash.compressed \o (IF full THEN filled ELSE <<>>)
                        \o SubSeq(bytes, copied + 1, copied + whole),
       buffer     |-> IF rest # <<>> THEN rest ELSE IF full THEN <<>> ELSE filled,
       total      |-> hash.total + Len(bytes)]

\* One last block, or two when the mark and the length do not fit.
FinalHex(hash) ==
  LET used == Len(hash.buffer) + 1
      size == IF used <= BlockSize - LengthSize THEN BlockSize ELSE 2 * BlockSize
  IN  hash.compressed \o hash.buffer \o <<Mark>>
        \o Zeros(size - LengthSize - used) \o Length(hash.total)

\* The reference: the message, a mark, as few zeros as make the whole a
\* multiple of the block, the length of the message.
IsMultiple(n) == \E count \in 0..n : n = count * BlockSize
Padded(message) ==
  LET zeros == CHOOSE n \in 0..(BlockSize - 1) :
                 IsMultiple(Len(message) + 1 + n + LengthSize)
  IN  message \o <<Mark>> \o Zeros(zeros) \o Length(Len(message))
=============================================================================
