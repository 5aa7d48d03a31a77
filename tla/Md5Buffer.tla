------------------------------ MODULE Md5Buffer ------------------------------
(***************************************************************************)
(* rewrite_tool::MD5: which bytes update(), final() and digest() hand to   *)
(* the compression function, in which order.  The state of the compression *)
(* is the sequence of the blocks it was given; the arithmetic on them is   *)
(* left out.  (ToolUtilProofs extends this module and SearchDir, the other *)
(* part of rewrite_tool: hence Md5Init, Md5Next and so on.)                *)
(***************************************************************************)
EXTENDS Integers, Sequences

CONSTANTS
  BlockLen,   \* bytes of a block: 64
  LenLen,     \* of which the length of the message takes the last: 8
  MaxBytes,   \* bound: bytes of a message
  MaxMessages \* bound: messages, between which the object is reset

ASSUME Md5ConstantsOK ==
  /\ BlockLen \in Nat /\ LenLen \in 1 .. BlockLen - 1
  /\ MaxBytes \in Nat /\ MaxMessages \in Nat \ {0}

VARIABLES
  md5,      \* the object: __buff, _count and the blocks in _magic_num
  digest,   \* _digest: the blocks it was computed from
  message,  \* history: the number of the message since the last reset()
  regular,  \* history: every update() of it began at the start of a block
  digested  \* history: nothing was updated or reset since digest()

md5_vars == <<md5, digest, message, regular, digested>>

\* The cells of a block: byte i of message n, the bytes of padding, the length
\* of the message, and what was there before the constructor.
Byte(n, i) == <<n, i>>
Padding(i) == <<0, IF i = 1 THEN 128 ELSE 0>>
Bits(n) == <<-1, n>>
Garbage == <<-2, 0>>

\* Fault: reset() leaves the state of the compression as it is.
OnlyCountCleared(m) == [m EXCEPT !.count = 0]

\* reset() leaves __buff as it is.
Cleared(m) == [m EXCEPT !.count = 0, !.blocks = << >>]

Md5Init ==
  /\ md5 = [buff |-> [i \in 1 .. BlockLen |-> Garbage], count |-> 0, blocks |-> << >>]
  /\ digest = << >> /\ message = 1 /\ regular = TRUE /\ digested = FALSE

\* Fault: the loop over whole blocks starts at the first byte.
FromStart(in, part) ==
  [k \in 1 .. Len(in) \div BlockLen |-> SubSeq(in, (k - 1) * BlockLen + 1, k * BlockLen)]

\* The whole blocks behind the first part bytes go to the compression from
\* where they are.
Direct(in, part) ==
  [k \in 1 .. (Len(in) - part) \div BlockLen |->
     SubSeq(in, part + (k - 1) * BlockLen + 1, part + k * BlockLen)]

Index(m) == m.count % BlockLen

\* update(): input that does not fill __buff, and what is left behind the last
\* whole block, is counted and dropped.
Fed(m, in) ==
  LET part == BlockLen - Index(m)
      filled == SubSeq(m.buff, 1, Index(m)) \o SubSeq(in, 1, part)
  IN IF Len(in) < part THEN [m EXCEPT !.count = @ + Len(in)]
     ELSE [buff |-> filled, count |-> m.count + Len(in),
           blocks |-> Append(m.blocks, filled) \o Direct(in, part)]

\* The padding ends LenLen bytes before the end of a block.
PadLen(m) ==
  LET last == BlockLen - LenLen
  IN IF Index(m) < last THEN last - Index(m) ELSE last + BlockLen - Index(m)

\* final(), up to where it puts the counters back.
Finished(m) ==
  LET padded == Fed(m, [i \in 1 .. PadLen(m) |-> Padding(i)])
  IN Fed(padded, [i \in 1 .. LenLen |-> Bits(m.count)])

\* Fault: final() puts nothing back.
NotRestored(m, done) == done

\* final() puts the counters back, but not __buff.
Restored(m, done) == [m EXCEPT !.buff = done.buff]

Update(n) ==
  /\ md5.count + n <= MaxBytes
  /\ md5' = Fed(md5, [i \in 1 .. n |-> Byte(message, md5.count + i)])
  /\ regular' = (regular /\ Index(md5) = 0)
  /\ digested' = FALSE
  /\ UNCHANGED <<digest, message>>

\* digest() sets _finish so as not to do it twice, and the update() of final()
\* takes it back.
Digest ==
  /\ md5' = Restored(md5, Finished(md5))
  /\ digest' = Finished(md5).blocks
  /\ digested' = TRUE
  /\ UNCHANGED <<message, regular>>

Reset ==
  /\ message < MaxMessages
  /\ md5' = Cleared(md5)
  /\ message' = message + 1
  /\ regular' = TRUE /\ digested' = FALSE
  /\ UNCHANGED digest

Md5Next == Digest \/ Reset \/ \E n \in 0 .. MaxBytes : Update(n)

Md5Spec == Md5Init /\ [][Md5Next]_md5_vars

-----------------------------------------------------------------------------
(* Properties.                                                             *)

Offsets == 1 .. BlockLen
WholeBlocks == md5.count \div BlockLen

\* A file is read in parts of 1024 bytes, so that every update() begins at the
\* start of a block.  Its digest, if it has a whole block, is that of its whole
\* blocks, each once and in order, and of what final() adds, with nothing in it
\* of the memory before the constructor or of what was hashed before reset().
DigestOfOwnBytes ==
  regular /\ digested /\ WholeBlocks > 0 =>
    \A k \in 1 .. Len(digest), o \in Offsets :
      IF k <= WholeBlocks THEN digest[k][o] = Byte(message, (k - 1) * BlockLen + o)
      ELSE digest[k][o][1] \in {message, 0, -1}

\* Asking again gives the same digest, though it is computed again: unless the
\* message ends among the last LenLen bytes of a block, where the second final()
\* finds the length of the first in __buff.
DigestRepeats ==
  [][digested /\ digested' /\ Index(md5) <= BlockLen - LenLen => digest' = digest]_md5_vars
=============================================================================
