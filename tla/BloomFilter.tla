---------------------------- MODULE BloomFilter ----------------------------
(***************************************************************************)
(* BloomFilter (src/src/utils/bloom_filter.cpp): the filter SSTBuilder     *)
(* fills with the keys of an SST, writes into the file and reads back when *)
(* the SST is opened.  std::hash is external: hash1 and hash2 are          *)
(* arbitrary functions of the key.  The constructor's logarithms are left  *)
(* out: num_bits_ and num_hashes_ are arbitrary positive numbers.  A byte  *)
(* is the set of the positions of its ones: byte |= 1 << j puts j into it, *)
(* (byte >> j) & 1 asks whether j is in it.                                *)
(***************************************************************************)
EXTENDS Integers

CONSTANTS BloomKeys,
          HashValues,    \* the values of std::hash, a set of natural numbers
          Word,          \* size_t arithmetic is modulo Word
          BitCounts,     \* the values of num_bits_
          HashCounts,    \* the values of num_hashes_
          ByteWidth,     \* bits per byte
          NoImage        \* nothing has been encoded

\* What the constants have to be.
BloomParameters ==
  /\ Word \in Nat \ {0} /\ HashValues \subseteq 0..(Word - 1)
  /\ BitCounts \subseteq Nat \ {0} /\ HashCounts \subseteq Nat \ {0}
  /\ ByteWidth \in Nat \ {0}

VARIABLES
  bits,                   \* bits_, a function on 0..(num_bits - 1)
  num_bits, num_hashes,
  hash1, hash2,           \* functions on BloomKeys
  image,                  \* the encoded filter, or NoImage
  added, imaged           \* history: the keys added to the filter and to the image

vars == <<bits, num_bits, num_hashes, hash1, hash2, image, added, imaged>>
hashes == <<hash1, hash2>>

hash(k, idx) == ((hash1[k] + ((idx * hash2[k]) % Word)) % Word) % num_bits

Empty(n) == [i \in 0..(n - 1) |-> FALSE]

Init ==
  /\ num_bits \in BitCounts /\ num_hashes \in HashCounts
  /\ hash1 \in [BloomKeys -> HashValues] /\ hash2 \in [BloomKeys -> HashValues]
  /\ bits = Empty(num_bits)
  /\ image = NoImage
  /\ added = {} /\ imaged = {}

add(k) ==
  /\ bits' = [i \in DOMAIN bits |-> bits[i] \/ \E j \in 0..(num_hashes - 1) : i = hash(k, j)]
  /\ added' = added \cup {k}
  /\ UNCHANGED <<num_bits, num_hashes, hashes, image, imaged>>

\* Mutant: one hash too many is looked up.
ContainsOneMore(k) == \A j \in 0..num_hashes : bits[hash(k, j)]

possibly_contains(k) == \A j \in 0..(num_hashes - 1) : bits[hash(k, j)]

clear ==
  /\ bits' = Empty(num_bits)
  /\ added' = {}
  /\ UNCHANGED <<num_bits, num_hashes, hashes, image, imaged>>

Byte(i) ==
  {j \in 0..(ByteWidth - 1) : i * ByteWidth + j < num_bits /\ bits[i * ByteWidth + j]}

NumBytes(n) == (n + ByteWidth - 1) \div ByteWidth

encode ==
  /\ image' = [num_bits |-> num_bits, num_hashes |-> num_hashes,
               bytes |-> [i \in 0..(NumBytes(num_bits) - 1) |-> Byte(i)]]
  /\ imaged' = added
  /\ UNCHANGED <<bits, num_bits, num_hashes, hashes, added>>

\* Mutant: the first bit of a byte is the highest one.
BitFromTop(i) == (ByteWidth - 1) - (i % ByteWidth) \in image.bytes[i \div ByteWidth]

Bit(i) == i % ByteWidth \in image.bytes[i \div ByteWidth]

decode ==
  /\ image # NoImage
  /\ num_bits' = image.num_bits /\ num_hashes' = image.num_hashes
  /\ bits' = [i \in 0..(image.num_bits - 1) |-> Bit(i)]
  /\ added' = imaged
  /\ UNCHANGED <<hashes, image, imaged>>

Next == (\E k \in BloomKeys : add(k)) \/ clear \/ encode \/ decode

Spec == Init /\ [][Next]_vars

-----------------------------------------------------------------------------
\* Properties.

\* The filter never denies a key that was added to it, whatever the hashes, also
\* after it went through a file, and with a number of bits that fills no byte.
NoFalseNegatives == \A k \in added : possibly_contains(k)
=============================================================================
