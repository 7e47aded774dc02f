---------------------------- MODULE EfctTxStream ----------------------------
(***************************************************************************)
(* The byte streaming of the CTPIO transmit path of efct_vi.c: how         *)
(* efct_ef_vi_transmit(v) turn a header and an iovec list into 64-bit      *)
(* stores to the write-combined aperture, with the 1..7 byte tail, the     *)
(* byte swap of the tail word, the zero padding to 64 bytes and the wrap   *)
(* of the word offset at the aperture's end.                               *)
(*                                                                         *)
(* A 64-bit value is the sequence of its 8 bytes, most significant first.  *)
(* The host is little-endian (x86): a native store of value v puts its     *)
(* bytes in memory least significant first, and a native load reads them  *)
(* back the same way.  A word of the aperture is its 8 bytes in address    *)
(* order, which is what the NIC consumes.                                  *)
(*                                                                         *)
(* The header's bit layout is outside this file; its bytes are tokens      *)
(* derived from the packet length.  Payload bytes are labelled by packet   *)
(* and position, so that a byte out of place is seen.                      *)
(***************************************************************************)
EXTENDS Integers, Sequences, SequencesExt

CONSTANTS
  ApertureWords, \* tx_aperture_bytes / 8
  IovLens,       \* iov_len values the application passes
  MaxIovs,       \* iov_len (number of iovecs) of a transmitv
  MaxCtAdded,    \* no transmit once ct_added has reached this bound
  NoWord         \* an aperture word not written yet

ASSUME ApertureWords \in {2^i : i \in 3 .. 16}
ASSUME IovLens \subseteq Nat /\ MaxIovs \in Nat \ {0}

EFCT_TX_ALIGNMENT    == 64
EFCT_TX_HEADER_BYTES == 8

RoundUp(n, a) == ((n + a - 1) \div a) * a

(* Native 64-bit store and load on the little-endian host. *)
MemBytes(v) == Reverse(v)
LoadLE(m)   == Reverse(m)

(* CI_BSWAP_BE64, cpu_to_be64: on a little-endian host it swaps the bytes. *)
CI_BSWAP_BE64(v) == Reverse(v)

Zero64 == [i \in 1 .. 8 |-> 0]

(* efct_tx_pkt_header(vi, len, EFCT_TX_CT_DISABLE): the header value. *)
efct_tx_pkt_header(len) == [i \in 1 .. 8 |-> -(8 * len + i)]

-----------------------------------------------------------------------------
(* struct efct_tx_state, with the aperture it writes to: tail is a 64-bit *)
(* value, offset counts words from the aperture base, and bug records the *)
(* BUG_ONs that fired.                                                     *)

(* efct_tx_init: the offset is ct_added in words, which must be aligned. *)
efct_tx_init(ap, ct_added) ==
  [ap |-> ap, tail |-> Zero64, tail_len |-> 0, offset |-> ct_added \div 8,
   bug |-> ct_added % EFCT_TX_ALIGNMENT # 0]

(* efct_tx_tail_byte: tail = (tail << 8) | byte in 64 bits. *)
efct_tx_tail_byte(tx, byte) ==
  [tx EXCEPT !.tail = Append(Tail(@), byte), !.tail_len = @ + 1,
             !.bug = @ \/ tx.tail_len >= 8]

(* efct_tx_word: the store at offset & mask, mask = ApertureWords - 1. *)
efct_tx_word(tx, value) ==
  [tx EXCEPT !.ap[tx.offset % ApertureWords] = MemBytes(value),
             !.offset = @ + 1]

(* The byte loops of efct_tx_block: move bytes of d into the tail while  *)
(* the tail has room (the first loop) or while any are left (the last).  *)
RECURSIVE TailBytes(_, _, _)
TailBytes(tx, d, untilFull) ==
  IF d = <<>> \/ (untilFull /\ tx.tail_len >= 8) THEN [tx |-> tx, d |-> d]
  ELSE TailBytes(efct_tx_tail_byte(tx, Head(d)), Tail(d), untilFull)

(* The word loop of efct_tx_block: whole 8-byte chunks by native loads. *)
RECURSIVE BlockWords(_, _)
BlockWords(tx, d) ==
  IF Len(d) < 8 THEN [tx |-> tx, d |-> d]
  ELSE BlockWords(efct_tx_word(tx, LoadLE(SubSeq(d, 1, 8))), SubSeq(d, 9, Len(d)))

(* Mutant: a full tail is written out but its length is not reset. *)
efct_tx_block_keep_len(tx, d) ==
  LET f  == IF tx.tail_len # 0 THEN TailBytes(tx, d, TRUE) ELSE [tx |-> tx, d |-> d]
      t1 == IF f.tx.tail_len = 8
              THEN [efct_tx_word(f.tx, CI_BSWAP_BE64(f.tx.tail)) EXCEPT !.tail = Zero64]
              ELSE f.tx
      w  == BlockWords(t1, f.d)
  IN  TailBytes(w.tx, w.d, FALSE).tx

(* efct_tx_block(tx, base, len) with d the len bytes at base. *)
efct_tx_block(tx, d) ==
  LET f  == IF tx.tail_len # 0 THEN TailBytes(tx, d, TRUE) ELSE [tx |-> tx, d |-> d]
      t1 == IF f.tx.tail_len = 8
              THEN [efct_tx_word(f.tx, CI_BSWAP_BE64(f.tx.tail))
                      EXCEPT !.tail = Zero64, !.tail_len = 0]
              ELSE f.tx
      w  == BlockWords(t1, f.d)
  IN  TailBytes(w.tx, w.d, FALSE).tx

RECURSIVE Blocks(_, _)
Blocks(tx, iovs) ==
  IF iovs = <<>> THEN tx ELSE Blocks(efct_tx_block(tx, Head(iovs)), Tail(iovs))

(* The zero words of efct_tx_complete up to the next 64-byte boundary. *)
RECURSIVE PadWords(_)
PadWords(tx) ==
  IF tx.offset % (EFCT_TX_ALIGNMENT \div 8) = 0 THEN tx
  ELSE PadWords(efct_tx_word(tx, Zero64))

(* Mutant: the shift of the tail is one byte short. *)
efct_tx_complete_shift_short(tx) ==
  LET shifted == SubSeq(tx.tail, 8 - tx.tail_len, 8) \o [i \in 1 .. 8 - tx.tail_len |-> 0]
  IN  IF tx.bug THEN tx
      ELSE PadWords(IF tx.tail_len # 0 THEN efct_tx_word(tx, CI_BSWAP_BE64(shifted))
                    ELSE tx)

(* The aperture writes of efct_tx_complete: the tail shifted up by       *)
(* (8 - tail_len) bytes and byte-swapped, then the padding.  The sfence  *)
(* and the descriptor update are the EfctTx model's.  A BUG_ON that      *)
(* fired has already stopped the program.                                 *)
efct_tx_complete(tx) ==
  LET shifted == SubSeq(tx.tail, 9 - tx.tail_len, 8) \o [i \in 1 .. 8 - tx.tail_len |-> 0]
  IN  IF tx.bug THEN tx
      ELSE PadWords(IF tx.tail_len # 0 THEN efct_tx_word(tx, CI_BSWAP_BE64(shifted))
                    ELSE tx)

-----------------------------------------------------------------------------
VARIABLES
  ap,        \* the aperture: word index -> 8 bytes in address order
  ct_added,  \* vi->ep_state->txq.ct_added
  bug,       \* a BUG_ON of the streaming has fired
  last       \* history: the last packet sent, [start, words, len, iovs]

vars == <<ap, ct_added, bug, last>>

NoPacket == [start |-> 0, words |-> 0, len |-> 0, iovs |-> <<>>]

(* The len payload bytes of the packet at FIFO position n, labelled. *)
Payload(n, len) == [k \in 1 .. len |-> 256 * n + k]

(* The iovecs over consecutive pieces of the payload. *)
Split(p, lens) ==
  [i \in DOMAIN lens |->
     LET off == FoldLeft(LAMBDA a, b : a + b, 0, SubSeq(lens, 1, i - 1))
     IN  SubSeq(p, off + 1, off + lens[i])]

Init ==
  /\ ap = [w \in 0 .. ApertureWords - 1 |-> NoWord]
  /\ ct_added = 0 /\ bug = FALSE /\ last = NoPacket

(* efct_ef_vi_transmitv (efct_ef_vi_transmit is the case of one iovec):  *)
(* the header word, each iovec's block, the completion; ct_added moves   *)
(* by the padded length.  Admission is the EfctTx model's; the NIC       *)
(* drains the FIFO, so the aperture is reused round the ring.            *)
Transmitv(lens) ==
  LET len  == FoldLeft(LAMBDA a, b : a + b, 0, lens)
      iovs == Split(Payload(ct_added \div EFCT_TX_ALIGNMENT, len), lens)
      tx0 == efct_tx_init(ap, ct_added)
      tx  == efct_tx_complete(Blocks(efct_tx_word(tx0, efct_tx_pkt_header(len)), iovs))
  IN  /\ ap' = tx.ap
      /\ ct_added' = ct_added + RoundUp(len + EFCT_TX_HEADER_BYTES, EFCT_TX_ALIGNMENT)
      /\ bug' = bug \/ tx.bug
      /\ last' = [start |-> tx0.offset, words |-> tx.offset - tx0.offset,
                  len |-> len, iovs |-> iovs]

Sent == ct_added > 0

(* A bound on the application: the padded packet fits the aperture, so  *)
(* one packet never overwrites its own words.  efct_tx_check admits on   *)
(* the payload length (EfctTx, finding 3); admission is not this module's. *)
PacketFits(len) ==
  RoundUp(len + EFCT_TX_HEADER_BYTES, EFCT_TX_ALIGNMENT) <= ApertureWords * 8

Next ==
  \E iov \in UNION {[1 .. k -> IovLens] : k \in 1 .. MaxIovs} :
     /\ ct_added < MaxCtAdded
     /\ PacketFits(FoldLeft(LAMBDA a, b : a + b, 0, iov))
     /\ Transmitv(iov)

Spec == Init /\ [][Next]_vars

-----------------------------------------------------------------------------
(* Properties.                                                             *)

TypeOK ==
  /\ ap \in [0 .. ApertureWords - 1 -> [1 .. 8 -> Int] \cup {NoWord}]
  /\ ct_added \in Nat /\ bug \in BOOLEAN

(* What the NIC must read for the last packet: the header as a native    *)
(* word, the payload bytes in order across the iovecs, zeros to 64 bytes. *)
Expected(pkt) ==
  LET b == MemBytes(efct_tx_pkt_header(pkt.len)) \o FlattenSeq(pkt.iovs)
  IN  b \o [i \in 1 .. RoundUp(Len(b), EFCT_TX_ALIGNMENT) - Len(b) |-> 0]

(* The aperture holds the last packet exactly as the NIC must read it,   *)
(* from its aligned start and wrapping at the aperture's end, in as many *)
(* words as efct_tx_complete charges to ct_added (so the next packet     *)
(* starts aligned where the FIFO accounting says), and no BUG_ON of the  *)
(* streaming fired: for any iovec lengths, including empty iovecs and    *)
(* tails that straddle iovecs.                                            *)
ApertureHoldsPacket ==
  Sent =>
    /\ ~bug
    /\ last.words * 8 = Len(Expected(last))
    /\ \A k \in 0 .. last.words - 1 :
         ap[(last.start + k) % ApertureWords] = SubSeq(Expected(last), 8 * k + 1, 8 * k + 8)

=============================================================================
