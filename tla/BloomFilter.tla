---------------------------- MODULE BloomFilter -----------------------------
(***************************************************************************)
(* BloomFilter.go: an array of bytes, a number of bits that need not fill  *)
(* the last one, and hash functions that differ in their seed.  Goroutines *)
(* that add keys share the array without a lock.                           *)
(***************************************************************************)
EXTENDS Calls

CONSTANTS
  Keys,
  SeedCount,    \* k
  BitCount,     \* m
  Hash(_, _)    \* hashWithSeed(data, seed)

Seeds == 0..(SeedCount - 1)

ASSUME BitCountAssumption == {SeedCount, BitCount} \subseteq Nat \ {0}
ASSUME HashAssumption == \A k \in Keys, i \in Seeds : Hash(k, i) \in Nat

VARIABLES
  bits,     \* the bits set, as <<byte, bit of the byte>>
  addReq,   \* per client: the access it makes next, its key and seed, and
            \* the bits of the byte it has loaded
  alone,    \* clients whose Add no other Add has overlapped
  added     \* keys whose Add returned, overlapped by no other

bloomVars == <<bits, addReq, alone, added>>

Bytes == 0..(((BitCount + 7) \div 8) - 1)

NoAdd == [at |-> "idle", key |-> "none", seed |-> 0, byte |-> {}]

BloomInit ==
  /\ bits   = {}
  /\ addReq = [c \in Clients |-> NoAdd]
  /\ alone  = {}
  /\ added  = {}

\* Mutant: the hash is not reduced to the array's size.
PositionUnreduced(k, i) == <<Hash(k, i) \div 8, Hash(k, i) % 8>>

Position(k, i) ==
  LET hash == Hash(k, i) % BitCount IN <<hash \div 8, hash % 8>>

Idles(c) == addReq[c].at = "idle"

\* What a goroutine finds in the byte of a key's bit.
Loaded(k, i) == {b \in 0..7 : <<Position(k, i)[1], b>> \in bits}

\* bits[byteIndex] |= 1 << bitIndex is two accesses.  A goroutine enters Add
\* and reads its first byte.
Add(c, k) ==
  /\ Arrive
  /\ Idles(c)
  /\ addReq' = [addReq EXCEPT ![c] = [at |-> "store", key |-> k, seed |-> 0, byte |-> Loaded(k, 0)]]
  /\ alone' = IF \A d \in Clients : Idles(d) THEN {c} ELSE {}
  /\ UNCHANGED <<bits, added>>

\* It reads the byte of its next bit.
LoadByte(c) ==
  /\ addReq[c].at = "load"
  /\ addReq' = [addReq EXCEPT ![c] =
       [addReq[c] EXCEPT !.at = "store", !.byte = Loaded(addReq[c].key, addReq[c].seed)]]
  /\ NoFault /\ UNCHANGED <<bits, alone, added>>

\* Where the client's key has its next bit.
Target(c) == Position(addReq[c].key, addReq[c].seed)

\* Mutant: the bit is assigned to the byte, not added to it.
BitsWithout(c) ==
  (bits \ ({Target(c)[1]} \X (0..7))) \cup {Target(c)}

\* What the array holds once the byte is written back with one bit more.
BitsWith(c) ==
  (bits \ ({Target(c)[1]} \X (0..7)))
    \cup ({Target(c)[1]} \X addReq[c].byte) \cup {Target(c)}

Last(c) == addReq[c].seed = SeedCount - 1

\* It writes the byte.  After its last seed Add returns.
StoreByte(c) ==
  /\ addReq[c].at = "store"
  /\ bits' = BitsWith(c)
  /\ addReq' = [addReq EXCEPT ![c] =
       IF Last(c) THEN NoAdd ELSE [addReq[c] EXCEPT !.at = "load", !.seed = @ + 1, !.byte = {}]]
  /\ added' = IF Last(c) /\ c \in alone THEN added \cup {addReq[c].key} ELSE added
  /\ alone' = IF Last(c) THEN alone \ {c} ELSE alone
  /\ NoFault

Contains(k) == \A i \in Seeds : Position(k, i) \in bits

BloomNext == \E c \in Clients : (\E k \in Keys : Add(c, k)) \/ LoadByte(c) \/ StoreByte(c)

\* The array is memory of the process.
BloomCrash ==
  /\ bits' = {} /\ alone' = {} /\ added' = {}
  /\ addReq' = [c \in Clients |-> NoAdd]

-----------------------------------------------------------------------------
BloomTypeOK ==
  /\ bits \subseteq Bytes \X (0..7)
  /\ addReq \in [Clients -> {NoAdd} \cup
       [at: {"load", "store"}, key: Keys, seed: Seeds, byte: SUBSET (0..7)]]
  /\ alone \subseteq Clients
  /\ added \subseteq Keys

(***************************************************************************)
(* Add reads and writes a byte apart, without a lock (BloomFilter.go:88),  *)
(* so Adds that overlap can lose each other's bits.  They lose nobody      *)
(* else's: a key whose own Add ran alone is never said to be absent,       *)
(* whatever Adds overlap before or after it.                               *)
(***************************************************************************)
NoFalseNegative == \A k \in added : Contains(k)

=============================================================================
