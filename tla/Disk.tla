-------------------------------- MODULE Disk --------------------------------
(***************************************************************************)
(* What the engine keeps in files, and what comes back from them: the      *)
(* write-ahead log (Wal), the tranc_id file (TrancIdFile), and the         *)
(* sections of an SST file whose code is in the repository, the index of   *)
(* its blocks (BlockMeta) and the Bloom filter (BloomFilter).  A behaviour *)
(* uses one of the four.                                                   *)
(***************************************************************************)
EXTENDS Wal

CONSTANTS
  Kinds,                                                 \* "wal", "ids", "meta", "bloom"
  MaxNext, NoWrite,                                      \* TrancIdFile
  MetaEntries, MaxEntries, OffsetLimit, KeyLimit, HashLimit,     \* BlockMeta
  BloomKeys, HashValues, Word, BitCounts, HashCounts, ByteWidth, NoImage,  \* BloomFilter
  Unused                                 \* the state of the files that are not in use

VARIABLES
  kind,
  disk, buffered, opened, next, ids, saved,                             \* TrancIdFile
  meta_entries, metadata, outcome,                                      \* BlockMeta
  bits, num_bits, num_hashes, hash1, hash2, image, added, imaged        \* BloomFilter

id_file == <<disk, buffered, opened, next, ids, saved>>
sst_meta == <<meta_entries, metadata, outcome>>
filter == <<bits, num_bits, num_hashes, hash1, hash2, image, added, imaged>>
disk_vars == <<kind, vars, id_file, sst_meta, filter>>

Ids == INSTANCE TrancIdFile
Meta == INSTANCE BlockMeta
Bloom == INSTANCE BloomFilter

ASSUME DiskParameters ==
  /\ MaxNext \in Nat \ {0} /\ MaxEntries \in Nat
  /\ OffsetLimit \in Nat \ {0} /\ KeyLimit \in Nat \ {0} /\ HashLimit \in Nat \ {0}
  /\ \A m \in MetaEntries : m.offset \in Nat

ASSUME FilterParameters == Bloom!BloomParameters

IdsUnused ==
  /\ disk = Unused /\ buffered = Unused /\ opened = Unused
  /\ next = Unused /\ ids = Unused /\ saved = Unused

MetaUnused == meta_entries = Unused /\ metadata = Unused /\ outcome = Unused

BloomUnused ==
  /\ bits = Unused /\ num_bits = Unused /\ num_hashes = Unused
  /\ hash1 = Unused /\ hash2 = Unused /\ image = Unused /\ added = Unused
  /\ imaged = Unused

DiskInit ==
  /\ kind \in Kinds
  /\ Init
  /\ IF kind = "ids" THEN Ids!Init ELSE IdsUnused
  /\ IF kind = "meta" THEN Meta!Init ELSE MetaUnused
  /\ IF kind = "bloom" THEN Bloom!Init ELSE BloomUnused

WalStep(A) == kind = "wal" /\ A /\ UNCHANGED <<kind, id_file, sst_meta, filter>>

DiskNext ==
  \/ WalStep(Next)
  \/ kind = "ids" /\ Ids!Next /\ UNCHANGED <<kind, vars, sst_meta, filter>>
  \/ kind = "meta" /\ Meta!Next /\ UNCHANGED <<kind, vars, id_file, filter>>
  \/ kind = "bloom" /\ Bloom!Next /\ UNCHANGED <<kind, vars, id_file, sst_meta>>

DiskSpec == DiskInit /\ [][DiskNext]_disk_vars

-----------------------------------------------------------------------------
\* Properties, with CleanerKeepsUnfinished and RecoverReturnsSynced of Wal.

\* After a restart TranManager finds in the tranc_id file what it wrote last or,
\* when the program ended between write and sync, what it had written before;
\* never a mixture, although a short write leaves the end of a longer one behind
\* it.  Once the file was synced it can be read.
IdFileReadsBack == kind = "ids" => Ids!IdFileReadsBack

\* decode_meta_from_slice accepts what encode_meta_to_slice wrote, and of every block
\* it returns offset and keys cut to their widths: an entry that fits is read back in
\* full, and one that does not spoils neither the others nor the hash.
IndexReadsBack == kind = "meta" => Meta!IndexReadsBack

\* The Bloom filter never denies a key that was added to it, whatever the hashes,
\* also after it went through a file, and with a number of bits that fills no
\* byte: SST::get may trust its answer.
NoFalseNegatives == kind = "bloom" => Bloom!NoFalseNegatives
=============================================================================
