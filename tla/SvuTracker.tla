----------------------------- MODULE SvuTracker -----------------------------
(***************************************************************************)
(* The receiver-side tracker of the Self-Verifying Uploader, lib/ci_svu.c: *)
(* it reassembles a payload from fragments that arrive lost, repeated,     *)
(* reordered or damaged, and decides whether the payload is complete and   *)
(* intact or which byte ranges have to be sent again.                      *)
(*                                                                         *)
(* A payload is a sequence of bytes; the byte at offset i of the code is   *)
(* element i+1 of the sequence.  A SHA-256 digest is modelled by the bytes *)
(* it is taken over, with their offsets: two digests of a block are equal  *)
(* exactly when the blocks are, which is what the code takes SHA-256 for.  *)
(***************************************************************************)
EXTENDS Integers, Sequences, FiniteSets

CONSTANTS
  Byte,       \* the values a byte can have
  BlockSize,  \* bytes per integrity block (block_size, 4096 in the tools)
  Word        \* 2^32, the modulus of the code's uint32_t

ASSUME ByteAssumption == 0 \in Byte

ASSUME BlockAssumption ==
  /\ BlockSize \in Nat \ {0}
  /\ Word \in Nat
  /\ BlockSize < Word

-----------------------------------------------------------------------------
(* Block arithmetic                                                        *)

\* The number of integrity blocks of a payload, in uint32_t arithmetic.
ci_svu_nblocks(total) ==
  IF total = 0 THEN 0 ELSE ((total + BlockSize - 1) % Word) \div BlockSize

\* The offsets of block b: [b*block, min((b+1)*block, total)).
BlockBytes(total, b) ==
  {i \in 0 .. total - 1 : b * BlockSize <= i /\ i < (b + 1) * BlockSize}

hash_block(src, b) == [i \in BlockBytes(Len(src), b) |-> src[i + 1]]

\* The digests the sender publishes, block by block.
ci_svu_manifest(src) ==
  [b \in 0 .. ci_svu_nblocks(Len(src)) - 1 |-> hash_block(src, b)]

-----------------------------------------------------------------------------
(* The tracker                                                             *)

\* The NULL pointer a caller holds before it has a tracker: a real one never has
\* total = 0.
NoTracker ==
  [total |-> 0, nblocks |-> 0, covered_count |-> 0, covered |-> {},
   data |-> <<>>, expected |-> <<>>]

\* A fresh tracker, or NoTracker when the declared geometry is degenerate.
ci_svu_new(total, expected, nblocks) ==
  IF nblocks = 0 \/ nblocks # ci_svu_nblocks(total)
  THEN NoTracker
  ELSE [total         |-> total,
        nblocks       |-> nblocks,
        covered_count |-> 0,
        covered       |-> {},
        data          |-> [i \in 1 .. total |-> 0],
        expected      |-> expected]

\* Whether a fragment lies inside the declared payload.
Fits(s, offset, buf) == offset + Len(buf) <= s.total

\* The offsets a fragment claims.
Span(offset, buf) == offset .. offset + Len(buf) - 1

\* Faulty variant: every byte of an accepted fragment is counted again.
ci_svu_accept_recount(s, offset, buf) ==
  IF ~Fits(s, offset, buf)
  THEN s
  ELSE [s EXCEPT
         !.covered       = @ \cup Span(offset, buf),
         !.covered_count = @ + Len(buf),
         !.data          = [i \in 1 .. s.total |->
                              IF i - 1 \in Span(offset, buf)
                              THEN buf[i - offset] ELSE @[i]]]

\* One fragment arrives: out of range it is rejected; otherwise its bytes are
\* written (the last writer wins) and each byte is counted the first time only.
ci_svu_accept(s, offset, buf) ==
  IF ~Fits(s, offset, buf)
  THEN s
  ELSE [s EXCEPT
         !.covered       = @ \cup Span(offset, buf),
         !.covered_count = @ + Cardinality(Span(offset, buf) \ s.covered),
         !.data          = [i \in 1 .. s.total |->
                              IF i - 1 \in Span(offset, buf)
                              THEN buf[i - offset] ELSE @[i]]]

-----------------------------------------------------------------------------
(* The verdict                                                             *)

\* The maximal runs of uncovered bytes, as half-open intervals.
MissingRuns(s) ==
  {iv \in (0 .. s.total - 1) \X (1 .. s.total) :
     /\ iv[1] < iv[2]
     /\ \A i \in iv[1] .. iv[2] - 1 : i \notin s.covered
     /\ iv[1] = 0 \/ iv[1] - 1 \in s.covered
     /\ iv[2] = s.total \/ iv[2] \in s.covered}

\* Faulty variant: the last, partial block is not hashed.
BadBlocksButLast(s) ==
  {b \in 0 .. s.nblocks - 2 : hash_block(s.data, b) # s.expected[b]}

\* The blocks whose reassembled bytes do not have the expected digest.
BadBlocks(s) ==
  {b \in 0 .. s.nblocks - 1 : hash_block(s.data, b) # s.expected[b]}

\* The byte range of block b.
BlockRange(s, b) ==
  <<b * BlockSize,
    IF (b + 1) * BlockSize > s.total THEN s.total ELSE (b + 1) * BlockSize>>

\* Faulty variant: full coverage is taken for success, as DTP's byte counter does.
StatusByCount(s) ==
  IF s.covered_count < s.total THEN "INCOMPLETE" ELSE "COMPLETE_VERIFIED"

\* Coverage is judged first: only a fully covered payload is hashed.
Status(s) ==
  IF s.covered_count < s.total
  THEN "INCOMPLETE"
  ELSE IF BadBlocks(s) # {} THEN "CORRUPT" ELSE "COMPLETE_VERIFIED"

\* Every range that has to be sent again.
DamagedRanges(s) ==
  IF s.covered_count < s.total
  THEN MissingRuns(s)
  ELSE {BlockRange(s, b) : b \in BadBlocks(s)}

\* Faulty variant: one range more than the array holds.
FirstRangesPlusOne(ivs, max) ==
  {iv \in ivs : Cardinality({jv \in ivs : jv[1] < iv[1]}) <= max}

\* Of a set of disjoint ranges, the max first ones in payload order: all that
\* push_interval has room for in the caller's array.
FirstRanges(ivs, max) ==
  {iv \in ivs : Cardinality({jv \in ivs : jv[1] < iv[1]}) < max}

ci_svu_verify(s, max) ==
  [status |-> Status(s),
   nout   |-> Cardinality(DamagedRanges(s)),
   out    |-> FirstRanges(DamagedRanges(s), max)]

-----------------------------------------------------------------------------
(* What the tracker of a payload of n blocks looks like                    *)

Interval == Nat \X Nat

\* A well-formed tracker: its count is the number of distinct bytes covered.
TrackerOK(s) ==
  /\ s = [total         |-> s.total,
          nblocks       |-> s.nblocks,
          covered_count |-> s.covered_count,
          covered       |-> s.covered,
          data          |-> s.data,
          expected      |-> s.expected]
  /\ s.total \in Nat \ {0}
  /\ s.nblocks = ci_svu_nblocks(s.total)
  /\ s.nblocks > 0
  /\ s.covered \subseteq 0 .. s.total - 1
  /\ s.covered_count = Cardinality(s.covered)
  /\ s.data \in [1 .. s.total -> Byte]
=============================================================================
