------------------------------ MODULE Lz4Zero ------------------------------
(***************************************************************************)
(* The zero-aware lz4 decoder, bslz4_lz4_decode_zero of                    *)
(* src/src/steps/lz4zero.h.  A block is a sequence of literal runs, each   *)
(* followed by a match (a copy of earlier output) except the last.  The    *)
(* decoder does not write zeros it can foresee: it knows a suffix of its   *)
(* output to be zero, moves past a match that starts in there, and writes  *)
(* the bytes it has left out only before the next byte that is not zero.   *)
(* Copies are made in fixed chunks, which leave stray bytes behind them.   *)
(*                                                                         *)
(* The input is chosen as it is read, run by run: there is a number of     *)
(* bytes left, and what a token, an offset and the literals say is any     *)
(* value.  Lengths are not split into extension bytes.  Beside the decoder *)
(* the model keeps what a decoder that writes everything has (plain): what *)
(* LZ4_decompress_safe does with the same input.                           *)
(***************************************************************************)
EXTENDS Integers, Sequences

CONSTANTS Cap, Slacks,          \* bytes of the block, and how many after it may be overwritten
          MemoryEnd,            \* the memory looked at
          Literals,             \* the literal runs
          Offsets, Lengths,     \* the matches
          Sizes,                \* sizes of the input
          Dirt,                 \* what an unwritten or a stray byte may hold
          LitChunk, MatchChunk, ShortMatch, \* 32, 16, 64: bytes of a literal copy, of a match chunk; a short match
          ZeroChunk, ZeroMax,   \* 64 and 512: bytes of a zero store, and the most filled with those
          Mflimit, LastLits, InLimit  \* 12, 5 and 8: where the format ends a block

Byte  == 0 .. 255
Guard == -1                           \* what memory of others holds
Memory    == 0 .. MemoryEnd
Positions == 0 .. Cap - 1

ASSUME Lz4Assumption ==
    /\ Cap \in Nat /\ Slacks \subseteq Nat /\ MemoryEnd \in Nat /\ Sizes \subseteq Nat /\ Dirt \subseteq Byte /\ Dirt # {}
    /\ Literals \subseteq Seq(Byte) /\ Offsets \subseteq Nat /\ Lengths \subseteq Nat \ {0}
    /\ \A s \in Slacks : Cap + s <= MemoryEnd
    /\ LitChunk \in Nat \ {0} /\ MatchChunk \in Nat \ {0}
    /\ ShortMatch \in Nat \ {0} /\ ShortMatch % MatchChunk = 0
    /\ ZeroChunk \in Nat \ {0} /\ ZeroMax \in Nat
    /\ Mflimit \in Nat /\ LastLits \in Nat /\ InLimit \in Nat

VARIABLES sse2, slack, \* the build, and the caller's slack
          left,       \* bytes of the input not read (iend - ip)
          pc,         \* "literals", "match", "done" or "bad"
          op,         \* bytes of the output so far
          dst,        \* the memory from the block on
          written,    \* the bytes from here to op are zero, and not written
          zero_from,  \* the bytes from here to op are zero
          plain       \* the output, byte by byte; 0 past op

DecodeVars == <<sse2, slack, left, pc, op, dst, written, zero_from, plain>>

Limit == Cap + slack    \* olim: nothing is written from here on

DecodeTypeOK ==
    /\ sse2 \in BOOLEAN /\ slack \in Slacks /\ left \in Nat /\ pc \in {"literals", "match", "done", "bad"}
    /\ op \in 0 .. Cap /\ written \in 0 .. op /\ zero_from \in 0 .. written
    /\ dst \in [Memory -> Byte \cup {Guard}]
    /\ plain \in [Positions -> Byte]

DecodeInit ==
    /\ sse2 \in BOOLEAN /\ slack \in Slacks /\ left \in Sizes /\ pc = "literals"
    /\ op = 0 /\ written = 0 /\ zero_from = 0
    /\ \E d \in Dirt : dst = [i \in Memory |-> IF i < Limit THEN d ELSE Guard]
    /\ plain = [i \in Positions |-> 0]

-----------------------------------------------------------------------------
(* The output. *)

Up(n, size) == ((n + size - 1) \div size) * size

\* Zeros from one position on, in whole stores if they are few and there is room.
ZeroesStored(from, n) == IF n <= ZeroMax /\ Limit - from >= Up(n, ZeroChunk) THEN Up(n, ZeroChunk) ELSE n
zero_fill_never(d, from, to) == d
zero_fill(d, from, to) ==
    IF from >= to THEN d
    ELSE [i \in Memory |-> IF i >= from /\ i < from + ZeroesStored(from, to - from) THEN 0 ELSE d[i]]

\* The end of the last byte of [from, to) that is not zero; from, if all are.
IsEndOfData(d, from, to, e) ==
    /\ e \in from .. to
    /\ \A i \in e .. to - 1 : d[i] = 0
    /\ e = from \/ d[e - 1] # 0
EndOfData(d, from, to) == CHOOSE e \in from .. to : IsEndOfData(d, from, to, e)

\* A match of length n from src to op.  One that overlaps what it writes is copied by doubling:
\* each copy moves whole periods, so byte i is that of the period.  Others go in chunks, as many as
\* needed or one of fixed size, if there is room; what follows the match there is a stray byte.
copy_overlap(d, src, n) ==
    [i \in Memory |-> IF i >= op /\ i < op + n THEN d[src + ((i - op) % (op - src))] ELSE d[i]]
CopyAlways(n) == IF sse2 THEN Up(n, MatchChunk) ELSE IF n <= ShortMatch THEN ShortMatch ELSE n
CopyStored(n) ==
    CASE sse2 /\ ((n <= ShortMatch /\ Limit - op >= ShortMatch) \/ Limit - op >= n + MatchChunk) -> Up(n, MatchChunk)
      [] ~sse2 /\ n <= ShortMatch /\ Limit - op >= ShortMatch -> ShortMatch
      [] OTHER -> n
copy_chunks(d, src, n) ==
    [i \in Memory |-> IF i >= op /\ i < op + CopyStored(n) THEN d[src + (i - op)] ELSE d[i]]

\* The same for the plain decoder.
PlainMatch(src, n) ==
    [i \in Positions |-> IF i >= op /\ i < op + n THEN plain[src + ((i - op) % (op - src))] ELSE plain[i]]
PlainLiterals(lits) ==
    [i \in Positions |-> IF i >= op /\ i < op + Len(lits) THEN lits[i - op + 1] ELSE plain[i]]

-----------------------------------------------------------------------------
(* The steps. *)

\* The format ends a block with literals, and says how far from its end other literals stay.
MustBeTheLast(lit, rest) == Cap - op < Mflimit + lit \/ rest < InLimit + lit
LiteralsFit(lit) ==
    /\ left >= 1 /\ lit <= left - 1 /\ lit <= Cap - op
    /\ MustBeTheLast(lit, left - 1) => lit = left - 1

\* A copy of fixed size: its bytes past the literals are the input's next ones.
LitStored(lit) ==
    IF lit <= LitChunk /\ left - 1 >= LitChunk /\ Limit - op >= LitChunk THEN LitChunk ELSE lit

ReadLiterals(lits, stray) ==
    LET lit    == Len(lits)
        filled == zero_fill(dst, written, op)
    IN  /\ pc = "literals" /\ LiteralsFit(lit)
        /\ plain' = PlainLiterals(lits)
        /\ IF \A k \in 1 .. lit : lits[k] = 0
           THEN UNCHANGED <<dst, written, zero_from>>
           ELSE /\ dst' = [i \in Memory |->
                              IF i >= op /\ i < op + lit THEN lits[i - op + 1]
                              ELSE IF i >= op /\ i < op + LitStored(lit) THEN stray ELSE filled[i]]
                /\ written' = op + lit
                /\ zero_from' = EndOfData(dst', op, op + lit)
        /\ op' = op + lit
        /\ left' = left - 1 - lit
        /\ pc' = IF left' > 0 THEN "match" ELSE IF op' = Cap THEN "done" ELSE "bad"
        /\ UNCHANGED <<sse2, slack>>

MatchFits(off, n) ==
    left >= 2 /\ off # 0 /\ off <= op /\ n <= Cap - op /\ Cap - op - n >= LastLits

ReadsZerosOnly(off) == op - off >= zero_from

\* A match that starts among the known zeros has zeros only.
SkipMatch(off, n) ==
    /\ pc = "match" /\ MatchFits(off, n) /\ ReadsZerosOnly(off)
    /\ plain' = PlainMatch(op - off, n)
    /\ op' = op + n
    /\ left' = left - 2 /\ pc' = "literals"
    /\ UNCHANGED <<sse2, slack, dst, written, zero_from>>

CopyMatch(off, n) ==
    /\ pc = "match" /\ MatchFits(off, n) /\ ~ReadsZerosOnly(off)
    /\ plain' = PlainMatch(op - off, n)
    /\ LET filled == zero_fill(dst, written, op)
       IN  dst' = IF off >= n THEN copy_chunks(filled, op - off, n) ELSE copy_overlap(filled, op - off, n)
    /\ op' = op + n
    /\ written' = op + n
    /\ zero_from' = EndOfData(dst', op, op + n)
    /\ left' = left - 2 /\ pc' = "literals"
    /\ UNCHANGED <<sse2, slack>>

\* The input ends early or says what cannot be.
Refuse ==
    /\ \/ pc = "literals" /\ \E lits \in Literals : ~LiteralsFit(Len(lits))
       \/ pc = "match" /\ \E off \in Offsets, n \in Lengths : ~MatchFits(off, n)
    /\ pc' = "bad"
    /\ UNCHANGED <<sse2, slack, left, op, dst, written, zero_from, plain>>

DecodeNext ==
    \/ \E lits \in Literals, stray \in Dirt : ReadLiterals(lits, stray)
    \/ \E off \in Offsets, n \in Lengths : SkipMatch(off, n) \/ CopyMatch(off, n)
    \/ Refuse

DecodeSpec == DecodeInit /\ [][DecodeNext]_DecodeVars

-----------------------------------------------------------------------------
\* What has been decoded is the plain output: in memory up to written, zero from there on.  The bytes
\* that decode as zero are known by their position alone, while memory still holds those of an earlier
\* block there, or strays of a chunk; a copy must never read one (lz4zero.h, the fill before a match).
ZeroDecoderAgrees ==
    /\ \A i \in 0 .. written - 1 : dst[i] = plain[i]
    /\ \A i \in written .. op - 1 : plain[i] = 0
    /\ \A i \in zero_from .. op - 1 : plain[i] = 0

\* The chunks end before olim: nothing behind the slack is overwritten.
StaysInSlack == \A i \in Memory : i >= Limit => dst[i] = Guard
=============================================================================
