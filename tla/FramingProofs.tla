--------------------------- MODULE FramingProofs ---------------------------
(***************************************************************************)
(* Proofs about Framing, for every number of chunks, every header, every   *)
(* size word and every length.  The first inductive invariant (IInv) is    *)
(* TypeOK, Cursor (where the walk can be) and Inside (how far it can be):  *)
(* nothing outside a chunk is read.  The second (WalkInv) compares each    *)
(* walk with the positions that follow from the size words alone (Start):  *)
(* what a walk has passed is where these are, so the three walks agree.    *)
(***************************************************************************)
EXTENDS Framing, WellFoundedInduction, TLAPS

Inside == pc \in {"walk", "raw"} => \A g \in Frames : pos[g] <= chunk[g].len

Cursor ==
    /\ pc \in {"walk", "raw"} /\ op # "decompress" => f < F
    /\ pc = "walk" /\ op = "decompress" => b <= Full
    /\ pc = "walk" /\ op = "starts" => b <= Blocks
    /\ pc = "raw" => op \in Decoders /\ f < F /\ b = Full

IInv == TypeOK /\ Cursor /\ Inside /\ ReadsInside

-----------------------------------------------------------------------------
\* A group of 8 pixels has bytes.
LEMMA WholeGroups == Group \in Nat \ {0} /\ FrameBytes \in Nat
  BY FramingAssumption DEF Group, FrameBytes

\* What integer division does.
LEMMA Division ==
    ASSUME NEW r \in Nat, NEW g \in Nat \ {0}
    PROVE  r \div g \in Nat /\ g * (r \div g) <= r /\ g * (r \div g) \in Nat
  BY SMT

\* The bytes of whole pixels are so many pixels.
LEMMA WholePixelsDivide ==
    ASSUME NEW n \in Nat, NEW g \in Nat \ {0}
    PROVE  (n * g) \div g = n
<1>1. n * g \in Nat /\ n * g = g * n
  BY SMT
<1> QED
  BY <1>1, SMT

\* The sizes of a frame, from the header of its chunk.
LEMMA Sizes ==
    ASSUME chunk \in [Frames -> Chunks]
    PROVE  /\ Total \in Nat /\ Size \in Nat \ {0} /\ Full \in Nat /\ Full <= Limit
           /\ Remaining \in Nat /\ TailBlock \in Nat /\ Raw \in Nat
           /\ Blocks \in Nat /\ Full <= Blocks /\ Blocks <= Full + 1
           /\ \A i \in Nat : SizeOf(i) \in Nat
  <1>1. chunk[0] \in Chunk
    BY FramingAssumption DEF Frames
  <1>2. Total \in Nat /\ Size \in Nat \ {0}
    BY <1>1, FramingAssumption DEF Total, Size, BlockSize, Chunk
  <1>3. Full \in Nat /\ Size * Full <= Total /\ Size * Full \in Nat
    BY <1>2, Division DEF Full
  <1>4. Full <= Limit
    BY FramingAssumption DEF Frames, Full, Total, Size
  <1>5. Full * Size = Size * Full
    BY <1>2, <1>3, SMT
  <1>6. Remaining \in Nat
    BY <1>2, <1>3, <1>5 DEF Remaining
  <1>7. TailBlock \in Nat /\ TailBlock <= Remaining
    BY <1>6, Division, WholeGroups DEF TailBlock
  <1>8. Raw \in Nat
    BY <1>6, <1>7 DEF Raw
  <1>9. Blocks \in Nat /\ Full <= Blocks /\ Blocks <= Full + 1
    BY <1>3 DEF Blocks
  <1>10. \A i \in Nat : SizeOf(i) \in Nat
    BY <1>2, <1>7 DEF SizeOf
  <1> QED
    BY <1>2, <1>3, <1>4, <1>6, <1>7, <1>8, <1>9, <1>10

\* The length of a chunk is a natural number.
LEMMA Lengths ==
    ASSUME chunk \in [Frames -> Chunks], NEW g \in Frames
    PROVE  chunk[g].len \in Nat
  BY FramingAssumption DEF Chunk

\* A chunk the walk is at, and the size word it reads there.
LEMMA Words ==
    ASSUME chunk \in [Frames -> Chunks], NEW g \in Frames, NEW i \in 0 .. Full
    PROVE  chunk[g].len \in Nat /\ chunk[g].word[i] \in Nat
  <1>1. chunk[g] \in Chunk
    BY FramingAssumption
  <1>2. i \in 0 .. Limit
    BY Sizes, FramingAssumption
  <1> QED
    BY <1>1, <1>2 DEF Chunk

\* The walk starts in the invariant.
LEMMA Initially == Init => IInv
  <1> SUFFICES ASSUME Init PROVE IInv
    OBVIOUS
  <1>1. Full \in Nat
    BY Sizes DEF Init
  <1>2. TypeOK
    BY <1>1, FramingAssumption DEF Init, TypeOK, Ops, Frames, Header, Nothing, Results
  <1> QED
    BY <1>2 DEF Init, IInv, Cursor, Inside, ReadsInside, Nothing

-----------------------------------------------------------------------------
(* The steps *)

\* No step changes the chunks, so what is computed from them stays.
LEMMA SameSizes ==
    ASSUME chunk' = chunk
    PROVE  Total' = Total /\ Size' = Size /\ Full' = Full /\ Blocks' = Blocks
  BY DEF Total, Size, Full, Blocks, BlockSize, TailBlock, Remaining

\* Locate moves the walk of a chunk past a block that is inside it.
LEMMA LocateMoves ==
    ASSUME TypeOK, Inside, f \in Frames, b \in 0 .. Full, pc = "walk",
           WordInside, BlockInside, Locate
    PROVE  /\ pos' \in [Frames -> Nat]
           /\ found' \in [Ops -> SUBSET (Frames \X (0 .. Full) \X Nat)]
           /\ \A g \in Frames : pos'[g] <= chunk[g].len
  <1>1. /\ chunk[f].len \in Nat /\ chunk[f].word[b] \in Nat /\ pos[f] \in Nat
    BY Words DEF TypeOK
  <1>2. pos' = [pos EXCEPT ![f] = pos[f] + chunk[f].word[b] + SizeWord]
    BY DEF Locate
  <1>3. pos[f] + chunk[f].word[b] + SizeWord \in Nat
    BY <1>1 DEF SizeWord
  <1>4. pos[f] + chunk[f].word[b] + SizeWord <= chunk[f].len
    BY <1>1 DEF BlockInside, SizeWord
  <1>5. pos' \in [Frames -> Nat]
    BY <1>2, <1>3 DEF TypeOK
  <1>6. \A g \in Frames : pos'[g] <= chunk[g].len
    BY <1>2, <1>4 DEF TypeOK, Inside
  <1>7. <<f, b, pos[f]>> \in Frames \X (0 .. Full) \X Nat
    BY <1>1
  <1>8. found' \in [Ops -> SUBSET (Frames \X (0 .. Full) \X Nat)]
    BY <1>7 DEF Locate, TypeOK
  <1> QED
    BY <1>5, <1>6, <1>8

\* Where the walk goes next.
LEMMA Moves ==
    ASSUME TypeOK, NEW stages \in Nat, f \in Frames, b \in Nat, b < stages, NextAt(stages)
    PROVE  /\ f' \in 0 .. F /\ b' \in 0 .. stages
           /\ op # "decompress" => f' < F
           /\ op = "decompress" => b' < stages
  BY FramingAssumption DEF NextAt, Frames

\* A decoder that is not at the end is at a block of a chunk, or at its tail.
LEMMA AtAChunk ==
    ASSUME IInv, pc = "walk", op \in Decoders, ~WalkIsOver
    PROVE  /\ f \in Frames /\ b \in 0 .. Full
           /\ chunk[f].len \in Nat /\ pos[f] \in Nat
  <1>1. Full \in Nat
    BY Sizes DEF IInv, TypeOK
  <1>2. f \in 0 .. F /\ b \in 0 .. Full + 1 /\ Cursor
    BY DEF IInv, TypeOK
  <1>a. F \in Nat \ {0}
    BY FramingAssumption
  <1>3. ASSUME op = "decompress" PROVE f \in Frames /\ b \in 0 .. Full
    <2>1. f # F /\ b <= Full
      BY <1>2, <1>3 DEF Cursor, WalkIsOver
    <2> QED
      BY <1>1, <1>2, <1>a, <2>1 DEF Frames
  <1>4. ASSUME op = "run" PROVE f \in Frames /\ b \in 0 .. Full
    <2>1. f < F /\ ~(b > Full)
      BY <1>2, <1>4 DEF Cursor, WalkIsOver
    <2> QED
      BY <1>1, <1>2, <1>a, <2>1 DEF Frames
  <1>5. f \in Frames /\ b \in 0 .. Full
    BY <1>3, <1>4 DEF Decoders
  <1> QED
    BY <1>5, Lengths DEF IInv, TypeOK

\* The bytes of a frame grow.
LEMMA Adding ==
    ASSUME IInv, f \in Frames, NEW n \in Nat, filled' = [filled EXCEPT ![f] = filled[f] + n]
    PROVE  filled' \in [Frames -> Nat]
  <1>1. filled \in [Frames -> Nat]
    BY DEF IInv, TypeOK
  <1>2. filled[f] + n \in Nat
    BY <1>1
  <1> QED
    BY <1>1, <1>2

\* A call that returns has one of the results.
LEMMA Returns ==
    ASSUME TypeOK, NEW rc \in Results \ {"none"},
           Return(rc)
    PROVE  result' \in [Ops -> Results]
  BY DEF TypeOK, Return, Results

\* What is given out of n bytes.
LEMMA GivesOut ==
    ASSUME NEW n \in Nat
    PROVE  GivenOut(n) \in Nat
  BY Division, FramingAssumption DEF GivenOut

\* A call starts.
LEMMA CheckStep == ASSUME IInv, Check PROVE IInv'
  <1>1. Total' = Total /\ Full' = Full /\ Blocks' = Blocks
    BY SameSizes DEF Check
  <1>2. Full \in Nat /\ Blocks \in Nat /\ chunk' = chunk
    BY Sizes DEF IInv, TypeOK, Check
  <1>a. pos' \in [Frames -> Nat] /\ filled' \in [Frames -> Nat]
    BY DEF Check, Header
  <1>b. result' \in [Ops -> Results]
    <2>1. CASE Verdict = "ok"
      BY <2>1 DEF Check, IInv, TypeOK
    <2>2. CASE Verdict # "ok"
      <3>1. Verdict \in {"corrupt", "mismatch", "too many pixels", "too few pixels", "too large"}
        BY <2>2 DEF Verdict
      <3> QED
        BY <2>2, <3>1, Returns DEF Check, IInv, Results
    <2> QED
      BY <2>1, <2>2
  <1>3. TypeOK'
    <2>1. f' \in 0 .. F /\ b' \in 0 .. Full + 1 /\ bad' \subseteq Frames
      BY <1>2, FramingAssumption DEF Check
    <2>2. pc' \in {"call", "walk", "raw", "returned"}
      BY DEF Check, Return
    <2> QED
      BY <1>1, <1>2, <1>a, <1>b, <2>1, <2>2 DEF IInv, TypeOK, Check
  <1>4. Cursor'
    BY <1>1, <1>2, FramingAssumption DEF Check, Cursor, Return
  <1>5. Inside'
    <2> SUFFICES ASSUME pc' \in {"walk", "raw"}, NEW g \in Frames
                 PROVE  pos'[g] <= chunk'[g].len
      BY DEF Inside
    <2>1. ~Short
      BY DEF Check, Return, Verdict
    <2>2. chunk[g].len \in Nat /\ pos'[g] = Header
      BY Lengths, <1>2 DEF IInv, TypeOK, Check
    <2> QED
      BY <2>1, <2>2, <1>2 DEF Short, Header
  <1>6. ReadsInside'
    BY <1>2 DEF IInv, ReadsInside, Check
  <1> QED
    BY <1>3, <1>4, <1>5, <1>6 DEF IInv

\* A decoder is refused a block.
LEMMA CorruptStep == ASSUME IInv, Corrupt PROVE IInv'
  <1>1. Total' = Total /\ Full' = Full /\ Blocks' = Blocks
    BY SameSizes DEF Corrupt
  <1>2. f \in Frames /\ chunk[f].len \in Nat /\ pos[f] \in Nat /\ chunk' = chunk
    BY AtAChunk DEF Corrupt
  <1>3. read' \in [f : Frames, from : Nat, to : Nat]
    <2>1. pos[f] + SizeWord \in Nat
      BY <1>2 DEF SizeWord
    <2> QED
      BY <1>2, <2>1 DEF IInv, TypeOK, Corrupt
  <1>4. TypeOK'
    BY <1>1, <1>2, <1>3 DEF IInv, TypeOK, Corrupt, Return, Ops, Results
  <1>5. Cursor' /\ Inside'
    BY DEF Corrupt, Return, Cursor, Inside
  <1>6. ReadsInside'
    BY <1>2 DEF IInv, ReadsInside, Corrupt, WordInside, SizeWord
  <1> QED
    BY <1>4, <1>5, <1>6 DEF IInv

\* A decoder takes a block, and reads its size word and its bytes.
LEMMA DecodeBlockStep == ASSUME IInv, DecodeBlock PROVE IInv'
  <1>1. Total' = Total /\ Full' = Full /\ Blocks' = Blocks /\ chunk' = chunk
    BY SameSizes DEF DecodeBlock
  <1>2. /\ f \in Frames /\ b \in 0 .. Full
        /\ chunk[f].len \in Nat /\ pos[f] \in Nat
    BY AtAChunk DEF DecodeBlock
  <1>3. /\ pos' \in [Frames -> Nat]
        /\ found' \in [Ops -> SUBSET (Frames \X (0 .. Full) \X Nat)]
        /\ \A g \in Frames : pos'[g] <= chunk[g].len
    BY <1>2, LocateMoves DEF IInv, DecodeBlock
  <1>4. /\ read' = [f |-> f, from |-> pos[f], to |-> pos[f] + SizeWord + chunk[f].word[b]]
        /\ chunk[f].word[b] \in Nat
    BY <1>2, Words DEF IInv, TypeOK, DecodeBlock
  <1>5. pos[f] + SizeWord + chunk[f].word[b] \in Nat
    BY <1>2, <1>4 DEF SizeWord
  <1>6. read' \in [f : Frames, from : Nat, to : Nat]
    BY <1>2, <1>4, <1>5
  <1>7. pos[f] + SizeWord + chunk[f].word[b] <= chunk[f].len
    BY <1>2, <1>4 DEF DecodeBlock, BlockInside, SizeWord
  <1>8. ReadsInside'
    <2>1. read'.from <= read'.to
      BY <1>2, <1>4 DEF SizeWord
    <2>2. read'.to <= chunk'[read'.f].len
      BY <1>1, <1>4, <1>7
    <2> QED
      BY <2>1, <2>2 DEF ReadsInside
  <1>9. CASE (Return("decompress") \/ Return("untranspose")) /\ UNCHANGED <<f, b, filled>>
    <2>1. /\ Return("decompress") \/ Return("untranspose")
          /\ f' = f /\ b' = b /\ filled' = filled /\ op' = op /\ bad' = bad /\ pc' = "returned"
      BY <1>9 DEF DecodeBlock, Return
    <2>a. result' \in [Ops -> Results]
      BY <2>1, Returns DEF IInv, Results
    <2>2. TypeOK'
      BY <1>1, <1>3, <1>6, <2>1, <2>a DEF IInv, TypeOK
    <2>3. Cursor' /\ Inside'
      BY <2>1 DEF Cursor, Inside
    <2> QED
      BY <1>8, <2>2, <2>3 DEF IInv
  <1>10. CASE /\ filled' = [filled EXCEPT ![f] = filled[f] + GivenOut(SizeOf(b))]
              /\ IF AtTheTail THEN pc' = "raw" /\ UNCHANGED <<f, b>>
                              ELSE NextAt(Full + 1) /\ UNCHANGED pc
              /\ UNCHANGED result
    <2>1. /\ filled' = [filled EXCEPT ![f] = filled[f] + GivenOut(SizeOf(b))]
          /\ op' = op /\ bad' = bad /\ result' = result
      BY <1>10 DEF DecodeBlock
    <2>2. SizeOf(b) \in Nat /\ Full \in Nat
      <3>1. chunk \in [Frames -> Chunks]
        BY DEF IInv, TypeOK
      <3>2. b \in Nat
        BY <1>2
      <3> QED
        BY <3>1, <3>2, Sizes
    <2>3. filled' \in [Frames -> Nat]
      BY <1>2, <2>1, <2>2, GivesOut, Adding
    <2>4. Inside'
      BY <1>1, <1>3 DEF Inside
    <2>5. CASE AtTheTail
      <3>1. pc' = "raw" /\ f' = f /\ b' = b
        BY <1>10, <2>5 DEF DecodeBlock
      <3>2. TypeOK'
        BY <1>1, <1>3, <1>6, <2>1, <2>3, <3>1 DEF IInv, TypeOK
      <3>3. Cursor'
        BY <1>1, <1>2, <2>1, <2>5, <3>1, FramingAssumption DEF Cursor, AtTheTail, DecodeBlock, Frames
      <3> QED
        BY <1>8, <2>4, <3>2, <3>3 DEF IInv
    <2>6. CASE ~AtTheTail
      <3>1. NextAt(Full + 1) /\ pc' = "walk" /\ op \in Decoders
        BY <1>10, <2>6 DEF DecodeBlock
      <3>2. /\ f' \in 0 .. F /\ b' \in 0 .. Full + 1
            /\ op # "decompress" => f' < F
            /\ op = "decompress" => b' < Full + 1
        BY <1>2, <2>2, <3>1, Moves DEF IInv
      <3>3. TypeOK'
        BY <1>1, <1>3, <1>6, <2>1, <2>3, <3>1, <3>2 DEF IInv, TypeOK
      <3>4. Cursor'
        BY <1>1, <2>1, <2>2, <3>1, <3>2 DEF Cursor, Decoders
      <3> QED
        BY <1>8, <2>4, <3>3, <3>4 DEF IInv
    <2> QED
      BY <2>5, <2>6
  <1> QED
    BY <1>9, <1>10 DEF DecodeBlock

\* A frame without a tail block.
LEMMA NoTailBlockStep == ASSUME IInv, NoTailBlock PROVE IInv'
  <1>1. Total' = Total /\ Full' = Full /\ Blocks' = Blocks /\ chunk' = chunk
    BY SameSizes DEF NoTailBlock
  <1>2. f \in Frames
    BY AtAChunk DEF NoTailBlock
  <1>3. TypeOK'
    BY <1>1 DEF IInv, TypeOK, NoTailBlock
  <1>4. b = Full /\ f < F
    BY <1>2, FramingAssumption DEF NoTailBlock, HasBlock, AtTheTail, Frames
  <1>5. Cursor'
    BY <1>1, <1>4 DEF NoTailBlock, Cursor
  <1>6. Inside' /\ ReadsInside'
    BY <1>1 DEF IInv, NoTailBlock, Inside, ReadsInside
  <1> QED
    BY <1>3, <1>5, <1>6 DEF IInv

\* A decoder reads the raw end of a frame.
LEMMA CopyRawStep == ASSUME IInv, CopyRaw PROVE IInv'
  <1>1. Total' = Total /\ Full' = Full /\ Blocks' = Blocks /\ chunk' = chunk
    BY SameSizes DEF CopyRaw
  <1>2. Full \in Nat /\ Raw \in Nat
    BY Sizes DEF IInv, TypeOK
  <1>a. f \in 0 .. F /\ F \in Nat
    BY FramingAssumption DEF IInv, TypeOK
  <1>b. b = Full /\ op \in Decoders /\ f < F
    BY DEF IInv, Cursor, CopyRaw
  <1>3. f \in Frames /\ b = Full /\ op \in Decoders /\ f < F
    BY <1>a, <1>b DEF Frames
  <1>4. chunk[f].len \in Nat /\ pos[f] \in Nat
    BY <1>3, Lengths DEF IInv, TypeOK
  <1>5. op' = op /\ pos' = pos /\ bad' = bad /\ found' = found
    BY DEF CopyRaw
  <1>6. CASE Raw > 0 /\ ~RawInside
    <2>1. Return("corrupt") /\ f' = f /\ b' = b /\ filled' = filled /\ read' = read
      BY <1>6 DEF CopyRaw
    <2>2. TypeOK'
      BY <1>1, <1>5, <2>1, Returns DEF IInv, TypeOK, Return, Results
    <2>3. Cursor' /\ Inside' /\ ReadsInside'
      BY <1>1, <2>1 DEF IInv, Return, Cursor, Inside, ReadsInside
    <2> QED
      BY <2>2, <2>3 DEF IInv
  <1>7. CASE ~(Raw > 0 /\ ~RawInside)
    <2>1. /\ pc' = "walk" /\ NextAt(Full + 1) /\ result' = result
          /\ filled' = [filled EXCEPT ![f] = filled[f] + GivenOut(Raw)]
          /\ read' = IF Raw > 0 THEN [f |-> f, from |-> chunk[f].len - Raw, to |-> chunk[f].len]
                                ELSE read
      BY <1>7 DEF CopyRaw
    <2>2. /\ f' \in 0 .. F /\ b' \in 0 .. Full + 1
          /\ op # "decompress" => f' < F
          /\ op = "decompress" => b' < Full + 1
      BY <1>2, <1>3, <2>1, Moves DEF IInv
    <2>3. filled' \in [Frames -> Nat]
      BY <1>2, <1>3, <2>1, GivesOut, Adding
    <2>4. ASSUME Raw > 0
          PROVE  read' \in [f : Frames, from : Nat, to : Nat] /\ ReadsInside'
      <3>1. chunk[f].len - Raw \in Nat
        BY <1>2, <1>4, <1>7, <2>4 DEF RawInside
      <3>2. read' \in [f : Frames, from : Nat, to : Nat]
        BY <1>3, <1>4, <2>1, <2>4, <3>1
      <3>3. ReadsInside'
        BY <1>1, <1>2, <1>4, <2>1, <2>4 DEF ReadsInside
      <3> QED
        BY <3>2, <3>3
    <2>5. ASSUME ~(Raw > 0)
          PROVE  read' \in [f : Frames, from : Nat, to : Nat] /\ ReadsInside'
      <3>1. read' = read
        BY <2>1, <2>5
      <3> QED
        BY <1>1, <3>1 DEF IInv, TypeOK, ReadsInside
    <2>6. TypeOK'
      BY <1>1, <1>5, <2>1, <2>2, <2>3, <2>4, <2>5 DEF IInv, TypeOK
    <2>7. Cursor'
      BY <1>1, <1>2, <1>3, <1>5, <2>1, <2>2 DEF Cursor, Decoders
    <2>8. Inside'
      BY <1>1, <1>5 DEF IInv, Inside, CopyRaw
    <2> QED
      BY <2>4, <2>5, <2>6, <2>7, <2>8 DEF IInv
  <1> QED
    BY <1>6, <1>7

\* A decoder returns.
LEMMA FinishStep == ASSUME IInv, Finish PROVE IInv'
  <1>1. Total' = Total /\ Full' = Full /\ Blocks' = Blocks /\ chunk' = chunk
    BY SameSizes DEF Finish
  <1>2. TypeOK'
    <2>1. result' \in [Ops -> Results]
      BY Returns DEF IInv, Finish, Results
    <2> QED
      BY <1>1, <2>1 DEF IInv, TypeOK, Finish, Return
  <1>3. Cursor' /\ Inside' /\ ReadsInside'
    BY <1>1 DEF IInv, Finish, Return, Cursor, Inside, ReadsInside
  <1> QED
    BY <1>2, <1>3 DEF IInv

\* block_starts takes a block of a chunk, or gives the chunk up, and reads its size word.
LEMMA FindStartStep == ASSUME IInv, FindStart PROVE IInv'
  <1>1. Total' = Total /\ Full' = Full /\ Blocks' = Blocks /\ chunk' = chunk
    BY SameSizes DEF FindStart
  <1>2. Full \in Nat /\ Blocks \in Nat /\ Blocks <= Full + 1
    BY Sizes DEF IInv, TypeOK
  <1>a. f \in 0 .. F /\ F \in Nat /\ b \in 0 .. Full + 1
    BY FramingAssumption DEF IInv, TypeOK
  <1>b. f < F /\ b < Blocks /\ op = "starts" /\ pc = "walk"
    BY DEF IInv, Cursor, FindStart
  <1>3. f \in Frames /\ b \in 0 .. Full /\ b \in Nat
    BY <1>2, <1>a, <1>b DEF Frames
  <1>4. chunk[f].len \in Nat /\ pos[f] \in Nat
    BY <1>3, Lengths DEF IInv, TypeOK
  <1>5. op' = op /\ pc' = pc /\ filled' = filled /\ result' = result
    BY DEF FindStart
  <1>6. /\ f' \in 0 .. F /\ b' \in 0 .. Blocks /\ f' < F
    <2>1. NextAt(Blocks)
      BY DEF FindStart
    <2> QED
      BY <1>2, <1>3, <1>b, <2>1, Moves DEF IInv
  <1>7. read' \in [f : Frames, from : Nat, to : Nat] /\ ReadsInside'
    <2>1. CASE f \notin bad /\ WordInside
      <3>1. read' = [f |-> f, from |-> pos[f], to |-> pos[f] + SizeWord]
        BY <2>1 DEF FindStart
      <3>2. pos[f] + SizeWord \in Nat /\ pos[f] + SizeWord <= chunk[f].len
        BY <1>4, <2>1 DEF WordInside, SizeWord
      <3>3. pos[f] <= pos[f] + SizeWord
        BY <1>4 DEF SizeWord
      <3> QED
        BY <1>1, <1>3, <1>4, <3>1, <3>2, <3>3 DEF ReadsInside
    <2>2. CASE ~(f \notin bad /\ WordInside)
      <3>1. read' = read
        BY <2>2 DEF FindStart
      <3> QED
        BY <1>1, <3>1 DEF IInv, TypeOK, ReadsInside
    <2> QED
      BY <2>1, <2>2
  <1>8. /\ pos' \in [Frames -> Nat] /\ bad' \subseteq Frames
        /\ found' \in [Ops -> SUBSET (Frames \X (0 .. Full) \X Nat)]
        /\ \A g \in Frames : pos'[g] <= chunk[g].len
    <2>1. CASE f \in bad \/ ~WordInside \/ ~BlockInside
      BY <1>3, <1>b, <2>1 DEF FindStart, IInv, TypeOK, Inside
    <2>2. CASE ~(f \in bad \/ ~WordInside \/ ~BlockInside)
      <3>1. Locate /\ bad' = bad
        BY <2>2 DEF FindStart
      <3> QED
        BY <1>3, <1>b, <2>2, <3>1, LocateMoves DEF IInv, TypeOK
    <2> QED
      BY <2>1, <2>2
  <1>9. TypeOK'
    <2>1. f' \in 0 .. F
      BY <1>6
    <2>2. b' \in 0 .. Full' + 1
      BY <1>1, <1>2, <1>6
    <2>3. found' \in [Ops -> SUBSET (Frames \X (0 .. Full') \X Nat)]
      BY <1>1, <1>8
    <2>4. /\ chunk' \in [Frames -> Chunks] /\ filled' \in [Frames -> Nat]
          /\ op' \in Ops /\ pc' \in {"call", "walk", "raw", "returned"}
      BY <1>1, <1>5 DEF IInv, TypeOK
    <2>5. result' \in [Ops -> Results]
      BY <1>5 DEF IInv, TypeOK
    <2> QED
      BY <1>7, <1>8, <2>1, <2>2, <2>3, <2>4, <2>5 DEF TypeOK
  <1>10. Cursor' /\ Inside'
    BY <1>1, <1>2, <1>5, <1>6, <1>8, <1>b DEF Cursor, Inside
  <1> QED
    BY <1>7, <1>9, <1>10 DEF IInv

\* block_starts returns, and the next entry point is called.
LEMMA FinishStartsStep == ASSUME IInv, FinishStarts PROVE IInv'
  <1>1. Total' = Total /\ Full' = Full /\ Blocks' = Blocks /\ chunk' = chunk
    BY SameSizes DEF FinishStarts
  <1>2. TypeOK'
    <2>1. result' \in [Ops -> Results]
      BY Returns DEF IInv, FinishStarts, Results
    <2>2. bad' \subseteq Frames
      BY DEF IInv, TypeOK, FinishStarts
    <2> QED
      BY <1>1, <2>1, <2>2 DEF IInv, TypeOK, FinishStarts, Return
  <1>3. Cursor' /\ Inside' /\ ReadsInside'
    BY <1>1 DEF IInv, FinishStarts, Return, Cursor, Inside, ReadsInside
  <1> QED
    BY <1>2, <1>3 DEF IInv

\* The next entry point is called.
LEMMA NextCallStep == ASSUME IInv, NextCall PROVE IInv'
  <1>1. Total' = Total /\ Full' = Full /\ Blocks' = Blocks /\ chunk' = chunk
    BY SameSizes DEF NextCall
  <1>2. TypeOK'
    BY <1>1 DEF IInv, TypeOK, NextCall, Ops
  <1>3. Cursor' /\ Inside' /\ ReadsInside'
    BY <1>1 DEF IInv, NextCall, Cursor, Inside, ReadsInside
  <1> QED
    BY <1>2, <1>3 DEF IInv

\* The invariant is inductive.
LEMMA Inductive == IInv /\ [Next]_vars => IInv'
  <1> SUFFICES ASSUME IInv, [Next]_vars PROVE IInv'
    OBVIOUS
  <1>1. CASE UNCHANGED vars
    <2>1. Full' = Full /\ Blocks' = Blocks
      BY <1>1, SameSizes DEF vars
    <2>2. TypeOK'
      BY <1>1, <2>1 DEF IInv, TypeOK, vars
    <2>3. Cursor' /\ Inside' /\ ReadsInside'
      BY <1>1, <2>1 DEF IInv, Cursor, Inside, ReadsInside, vars
    <2> QED
      BY <2>2, <2>3 DEF IInv
  <1>2. CASE Done
    BY <1>1, <1>2 DEF Done
  <1> QED
    BY <1>1, <1>2, CheckStep, CorruptStep, DecodeBlockStep, NoTailBlockStep, CopyRawStep, FinishStep,
       FindStartStep, FinishStartsStep, NextCallStep DEF Next

-----------------------------------------------------------------------------
\* The walk has the types of its state (TypeOK), for every instance.
THEOREM TypeCorrect == Spec => []TypeOK
  <1>1. IInv => TypeOK
    BY DEF IInv
  <1> QED
    BY Initially, Inductive, <1>1, PTL DEF Spec

\* Whatever the headers, size words and lengths are, no entry point of driver.c reads outside a
\* chunk.
THEOREM NoReadOutside == Spec => []ReadsInside
  <1>1. IInv => ReadsInside
    BY DEF IInv
  <1> QED
    BY Initially, Inductive, <1>1, PTL DEF Spec

-----------------------------------------------------------------------------
(* Where the blocks of a chunk are, from its size words alone *)

\* The positions of the first n blocks of chunk c, and of what comes after them.
AreStarts(s, c, n) ==
    /\ s \in [0 .. n -> Nat]
    /\ s[0] = Header
    /\ \A i \in 0 .. n - 1 : s[i + 1] = s[i] + c.word[i] + SizeWord
StartsOf(c) == CHOOSE s : AreStarts(s, c, Limit + 1)
Start(g, i) == StartsOf(chunk[g])[i]

\* The blocks and the raw bytes are inside the chunk; they end where the chunk does.
Whole(g) == Start(g, Blocks) + Raw <= chunk[g].len
Tiled(g) == Start(g, Blocks) + Raw = chunk[g].len

\* All the blocks of a call, each at its place.
AllBlocks == {x \in Frames \X (0 .. Full) \X Nat : x[2] < Blocks /\ x[3] = Start(x[1], x[2])}

\* What an entry point accepts.
Declined(o) == o = "decompress" /\ Unshuffle /\ Ungrouped
Checked(o) ==
    /\ ~Short /\ ~Mismatch /\ ~Declined(o)
    /\ o = "run" => Total = FrameBytes
    /\ o # "starts" => Total <= Int32Max
Accepts(o) ==
    /\ Checked(o)
    /\ \A g \in Frames :
        IF o = "starts" THEN Tiled(g)
        ELSE Whole(g) /\ \A i \in 0 .. Blocks - 1 : chunk[g].good[i] = TRUE

-----------------------------------------------------------------------------
(* How far a walk is *)

Walking == pc \in {"walk", "raw"}

\* The blocks of chunk g that were passed, and whether its raw bytes were; the bytes of the frame
\* that n blocks give, if they are whole pixels (Exact).
Upto(n) == IF n <= Blocks THEN n ELSE Blocks
Count(g) ==
    IF op = "decompress"
    THEN IF g < f \/ (g = f /\ pc = "raw") THEN Blocks ELSE IF g = f THEN b ELSE 0
    ELSE IF g < f \/ (g = f /\ pc = "raw") THEN Upto(b + 1) ELSE Upto(b)
RawDone(g) == IF op = "decompress" THEN g < f ELSE b = Full + 1 \/ (b = Full /\ g < f)
Exact == op = "run" => Size % NB = 0
FilledTo(n) == IF n <= Full THEN n * Size ELSE Full * Size + TailBlock

\* A walk by blocks ends at the first chunk.
AtEnd ==
    /\ Walking /\ op = "starts" /\ b = Blocks => f = 0
    /\ Walking /\ op = "run" /\ b > Full => f = 0

\* The walk of a chunk that was not given up is where its next block is.
GivenUp(g) == op = "starts" /\ g \in bad
PosInv ==
    Walking =>
        /\ Checked(op)
        /\ \A g \in Frames : ~GivenUp(g) => pos[g] = Start(g, Count(g))

\* What a decoder has decoded.
DecodedInv ==
    Walking /\ op \in Decoders => \A g \in Frames :
        /\ \A i \in 0 .. Count(g) - 1 : chunk[g].good[i] = TRUE
        /\ RawDone(g) => Whole(g)
        /\ Exact => filled[g] = FilledTo(Count(g)) + (IF RawDone(g) THEN Raw ELSE 0)

\* Which blocks were found.
FoundInv ==
    /\ \A o \in Ops : found[o] \subseteq AllBlocks
    /\ \A o \in Ops : result[o] = "ok" => AllBlocks \subseteq found[o]
    /\ Walking => \A g \in Frames : ~GivenUp(g) =>
          \A i \in 0 .. Count(g) - 1 : <<g, i, Start(g, i)>> \in found[op]

\* What the entry points returned.
ResultInv ==
    /\ \A o \in Ops : result[o] = "ok" => Accepts(o)
    /\ \A o \in Decoders :
          /\ result[o] \notin {"none", "ok", "untranspose"} => ~Accepts(o)
          /\ result[o] = "corrupt" => Short \/ Declined(o) \/ \E g \in Frames : ~Whole(g)
          /\ result[o] = "untranspose" => o = "run" /\ Full > 0 /\ Ungrouped
    /\ pc = "returned" => result[op] # "none"
    /\ op = "decompress" => result["run"] # "none"

WalkInv == AtEnd /\ PosInv /\ DecodedInv /\ FoundInv /\ ResultInv /\ AcceptedFramesAreWhole

-----------------------------------------------------------------------------
(* Induction over the natural numbers, with the predicate as a set *)

\* A set of natural numbers has a smallest one.
LEMMA Smallest ==
    ASSUME NEW T, T \subseteq Nat, T # {}
    PROVE  \E n \in T : \A m \in T : n <= m
<1> DEFINE R == {ss \in Nat \X Nat : ss[1] < ss[2]}
<1>1. OpToRel(<, Nat) = R
  BY DEF OpToRel
<1>2. IsWellFoundedOn(R, Nat)
  BY <1>1, NatLessThanWellFounded
<1> HIDE DEF R
<1>3. PICK n \in T : \A m \in T : <<m, n>> \notin R
  BY <1>2, WFMin
<1>4. ASSUME NEW m \in T PROVE n <= m
  <2>1. <<m, n>> \notin R
    BY <1>3
  <2>2. ~(m < n)
    BY <2>1 DEF R
  <2>3. m \in Nat /\ n \in Nat
    OBVIOUS
  <2> QED
    BY <2>2, <2>3
<1> QED
  BY <1>4

\* A set with 0, and with n + 1 whenever it has n, has all natural numbers.
LEMMA Induction ==
    ASSUME NEW S, 0 \in S, \A n \in Nat : n \in S => n + 1 \in S
    PROVE  \A n \in Nat : n \in S
<1>1. SUFFICES ASSUME Nat \ S # {} PROVE FALSE
  OBVIOUS
<1>2. PICK n \in Nat \ S : \A m \in Nat \ S : n <= m
  BY <1>1, Smallest
<1>3. n # 0 /\ n - 1 \in Nat /\ (n - 1) + 1 = n
  BY <1>2
<1>4. n - 1 \in S
  BY <1>2, <1>3
<1> QED
  BY <1>3, <1>4

\* There are positions of any number of blocks.
LEMMA StartsExist ==
    ASSUME NEW c \in Chunk
    PROVE  AreStarts(StartsOf(c), c, Limit + 1)
<1>1. Limit \in Nat /\ \A i \in 0 .. Limit : c.word[i] \in Nat
  BY FramingAssumption DEF Chunk
<1> DEFINE S == {n \in Nat : n <= Limit + 1 => \E s : AreStarts(s, c, n)}
<1>2. 0 \in S
  <2>1. AreStarts([i \in 0 .. 0 |-> Header], c, 0)
    BY DEF AreStarts, Header
  <2> QED
    BY <2>1
<1>3. ASSUME NEW n \in Nat, n \in S PROVE n + 1 \in S
  <2>1. SUFFICES ASSUME n + 1 <= Limit + 1 PROVE \E t : AreStarts(t, c, n + 1)
    OBVIOUS
  <2>2. PICK s : AreStarts(s, c, n)
    BY <1>1, <1>3, <2>1
  <2> DEFINE t == [i \in 0 .. n + 1 |-> IF i <= n THEN s[i] ELSE s[n] + c.word[n] + SizeWord]
  <2>3. /\ s \in [0 .. n -> Nat] /\ s[0] = Header /\ n \in 0 .. n /\ s[n] \in Nat /\ c.word[n] \in Nat
        /\ \A i \in 0 .. n - 1 : s[i + 1] = s[i] + c.word[i] + SizeWord
    BY <1>1, <2>1, <2>2 DEF AreStarts
  <2>4. t \in [0 .. n + 1 -> Nat] /\ t[0] = Header
    BY <2>3 DEF SizeWord
  <2>5. ASSUME NEW i \in 0 .. n PROVE t[i + 1] = t[i] + c.word[i] + SizeWord
    <3>1. CASE i = n
      <4>1. ~(n + 1 <= n) /\ n + 1 \in 0 .. n + 1
        OBVIOUS
      <4> QED
        BY <2>3, <3>1, <4>1
    <3>2. CASE i # n
      BY <2>3, <3>2
    <3> QED
      BY <3>1, <3>2
  <2>6. (n + 1) - 1 = n
    OBVIOUS
  <2> HIDE DEF t
  <2>7. AreStarts(t, c, n + 1)
    BY <2>4, <2>5, <2>6 DEF AreStarts
  <2> QED
    BY <2>7
<1> HIDE DEF S
<1>4. Limit + 1 \in S
  BY <1>1, <1>2, <1>3, Induction
<1>5. \E s : AreStarts(s, c, Limit + 1)
  BY <1>1, <1>4 DEF S
<1> QED
  BY <1>5 DEF StartsOf

\* The first block is after the header, and each block after the one before.
LEMMA Starts ==
    ASSUME TypeOK, NEW g \in Frames
    PROVE  /\ Start(g, 0) = Header
           /\ \A i \in 0 .. Full + 1 : Start(g, i) \in Nat
           /\ \A i \in 0 .. Full : Start(g, i + 1) = Start(g, i) + chunk[g].word[i] + SizeWord
<1>1. chunk[g] \in Chunk /\ chunk \in [Frames -> Chunks]
  BY FramingAssumption DEF TypeOK
<1>2. Full \in Nat /\ Limit \in Nat /\ Full <= Limit
  BY <1>1, Sizes, FramingAssumption
<1> DEFINE s == StartsOf(chunk[g])
<1>3. AreStarts(s, chunk[g], Limit + 1)
  BY <1>1, StartsExist
<1> HIDE DEF s
<1>4. /\ s \in [0 .. Limit + 1 -> Nat] /\ s[0] = Header
      /\ \A i \in 0 .. (Limit + 1) - 1 : s[i + 1] = s[i] + chunk[g].word[i] + SizeWord
  BY <1>3 DEF AreStarts
<1>5. /\ s[0] = Header
      /\ \A i \in 0 .. Full + 1 : s[i] \in Nat
      /\ \A i \in 0 .. Full : s[i + 1] = s[i] + chunk[g].word[i] + SizeWord
  BY <1>2, <1>4
<1> QED
  BY <1>5 DEF s, Start

\* Later blocks are further on.
LEMMA StartsGrow ==
    ASSUME TypeOK, NEW g \in Frames, NEW i \in 0 .. Full + 1, NEW j \in 0 .. Full + 1, i <= j
    PROVE  Start(g, i) <= Start(g, j)
<1>1. Full \in Nat
  BY Sizes DEF TypeOK
<1> DEFINE S == {n \in Nat : i + n <= Full + 1 => Start(g, i) <= Start(g, i + n)}
<1>2. 0 \in S
  <2>1. i + 0 = i /\ Start(g, i) \in Nat
    BY Starts
  <2> QED
    BY <2>1
<1>3. ASSUME NEW n \in Nat, n \in S PROVE n + 1 \in S
  <2>1. SUFFICES ASSUME i + (n + 1) <= Full + 1 PROVE Start(g, i) <= Start(g, i + (n + 1))
    OBVIOUS
  <2>2. i + n \in 0 .. Full /\ i + n \in 0 .. Full + 1 /\ (i + n) + 1 = i + (n + 1) /\ i + n <= Full + 1
    BY <1>1, <2>1
  <2>3. Start(g, i) <= Start(g, i + n)
    BY <1>3, <2>2
  <2>4. Start(g, i) \in Nat /\ Start(g, i + n) \in Nat /\ chunk[g].word[i + n] \in Nat
    BY <2>2, Starts, Words DEF TypeOK
  <2>5. Start(g, i + (n + 1)) = Start(g, i + n) + chunk[g].word[i + n] + SizeWord
    <3>1. Start(g, (i + n) + 1) = Start(g, i + n) + chunk[g].word[i + n] + SizeWord
      BY <2>2, Starts
    <3> QED
      BY <2>2, <3>1
  <2> QED
    BY <2>3, <2>4, <2>5 DEF SizeWord
<1> HIDE DEF S
<1>4. j - i \in S
  <2>1. j - i \in Nat
    OBVIOUS
  <2> QED
    BY <1>2, <1>3, <2>1, Induction
<1>5. i + (j - i) = j /\ j <= Full + 1
  BY <1>1
<1> QED
  BY <1>4, <1>5 DEF S

-----------------------------------------------------------------------------
(* The state of a walk *)

\* No step changes the chunks, so what follows from them stays.
LEMMA SameWalks ==
    ASSUME chunk' = chunk
    PROVE  /\ \A g, i : Start(g, i)' = Start(g, i)
           /\ \A g : (Whole(g)' <=> Whole(g)) /\ (Tiled(g)' <=> Tiled(g))
           /\ AllBlocks' = AllBlocks
           /\ \A n : FilledTo(n)' = FilledTo(n) /\ Upto(n)' = Upto(n)
           /\ (Short' <=> Short) /\ (Ungrouped' <=> Ungrouped)
           /\ \A o : /\ (Checked(o)' <=> Checked(o)) /\ (Accepts(o)' <=> Accepts(o))
                     /\ Declined(o)' <=> Declined(o)
           /\ Full' = Full /\ Blocks' = Blocks /\ Raw' = Raw /\ Total' = Total /\ Size' = Size
           /\ TailBlock' = TailBlock
<1>1. /\ Full' = Full /\ Blocks' = Blocks /\ Raw' = Raw /\ Total' = Total /\ Size' = Size
      /\ TailBlock' = TailBlock
  BY DEF Total, Size, Full, Blocks, Raw, BlockSize, TailBlock, Remaining
<1>2. \A g, i : Start(g, i)' = Start(g, i)
  BY DEF Start
<1>3. \A g : (Whole(g)' <=> Whole(g)) /\ (Tiled(g)' <=> Tiled(g))
  BY <1>1, <1>2 DEF Whole, Tiled
<1>4. AllBlocks' = AllBlocks
  BY <1>1, <1>2 DEF AllBlocks
<1>5. \A n : FilledTo(n)' = FilledTo(n) /\ Upto(n)' = Upto(n)
  BY <1>1 DEF FilledTo, Upto
<1>6. (Short' <=> Short) /\ (Mismatch' <=> Mismatch)
  BY <1>1 DEF Short, Mismatch
<1>9. (Ungrouped' <=> Ungrouped) /\ \A o : (Declined(o)' <=> Declined(o))
  BY <1>1 DEF Ungrouped, Declined
<1>7. \A o : Checked(o)' <=> Checked(o)
  BY <1>1, <1>6, <1>9 DEF Checked
<1>8. \A o : Accepts(o)' <=> Accepts(o)
  BY <1>1, <1>3, <1>7 DEF Accepts
<1> QED
  BY <1>1, <1>2, <1>3, <1>4, <1>5, <1>6, <1>7, <1>8, <1>9

\* A block is inside its chunk exactly if the walk after it is.
LEMMA InsideIsStart ==
    ASSUME TypeOK, f \in Frames, b \in 0 .. Full, pos[f] = Start(f, b)
    PROVE  (WordInside /\ BlockInside) <=> Start(f, b + 1) <= chunk[f].len
<1>1. /\ chunk[f].len \in Nat /\ chunk[f].word[b] \in Nat /\ pos[f] \in Nat
      /\ Start(f, b + 1) = pos[f] + chunk[f].word[b] + SizeWord
  BY Words, Starts DEF TypeOK
<1> QED
  BY <1>1 DEF WordInside, BlockInside, SizeWord

\* The headers are accepted if the verdict is 0.
LEMMA VerdictIsChecked ==
    ASSUME TypeOK
    PROVE  /\ Verdict = "ok" <=> Checked(op)
           /\ Verdict = "corrupt" => Short \/ Declined(op)
           /\ Verdict \notin {"none", "untranspose"}
<1>1. Total \in Nat /\ FrameBytes \in Nat /\ Int32Max \in Nat
  BY Sizes, WholeGroups, FramingAssumption DEF TypeOK
<1>2. Total = FrameBytes => ~(Total \div NB > NIJ)
  BY FramingAssumption, WholePixelsDivide DEF FrameBytes
<1> QED
  BY <1>1, <1>2 DEF Verdict, Checked, Refused, Declined

\* Where a walk can be.
LEMMA Place ==
    ASSUME TypeOK
    PROVE  /\ Full \in Nat /\ Blocks \in Nat /\ Full <= Blocks /\ Blocks <= Full + 1
           /\ f \in Nat /\ f <= F /\ b \in Nat /\ b <= Full + 1 /\ F \in Nat \ {0}
           /\ op \in {"starts", "run", "decompress"}
<1>1. chunk \in [Frames -> Chunks] /\ f \in 0 .. F /\ b \in 0 .. Full + 1 /\ F \in Nat \ {0} /\ op \in Ops
  BY FramingAssumption DEF TypeOK
<1>2. Full \in Nat /\ Blocks \in Nat /\ Full <= Blocks /\ Blocks <= Full + 1
  BY <1>1, Sizes
<1> QED
  BY <1>1, <1>2 DEF Ops

\* How many blocks were passed, of the chunk the walk is at.
LEMMA CountHere ==
    ASSUME IInv, Walking
    PROVE  /\ \A g \in Frames : Count(g) \in 0 .. Blocks
           /\ pc = "walk" /\ b < Blocks /\ f \in Frames => Count(f) = b
           /\ pc = "raw" => f \in Frames /\ b = Full /\ Count(f) = Blocks /\ RawDone(f) = FALSE
           /\ pc = "walk" /\ op \in Decoders /\ ~WalkIsOver => RawDone(f) = FALSE
<1>1. /\ Full \in Nat /\ Blocks \in Nat /\ Full <= Blocks /\ Blocks <= Full + 1
      /\ f \in Nat /\ f <= F /\ b \in Nat /\ b <= Full + 1 /\ F \in Nat \ {0} /\ Cursor
      /\ op \in {"starts", "run", "decompress"}
  BY Place DEF IInv
<1>2. ASSUME NEW g \in Frames PROVE Count(g) \in 0 .. Blocks
  <2>1. g \in Nat
    BY DEF Frames
  <2>2. Upto(b) \in 0 .. Blocks /\ Upto(b + 1) \in 0 .. Blocks
    BY <1>1 DEF Upto
  <2>3. pc = "walk" /\ op = "decompress" => b \in 0 .. Blocks
    BY <1>1 DEF Cursor
  <2> QED
    BY <1>1, <2>1, <2>2, <2>3 DEF Count, Walking
<1>3. pc = "walk" /\ b < Blocks /\ f \in Frames => Count(f) = b
  BY <1>1 DEF Count, Upto
<1>4. pc = "raw" => f \in Frames /\ b = Full /\ Count(f) = Blocks /\ RawDone(f) = FALSE
  <2>1. pc = "raw" => f \in Frames /\ b = Full /\ f < F
    BY <1>1 DEF Cursor, Frames
  <2>2. pc = "raw" => Upto(b + 1) = Blocks
    BY <1>1, <2>1 DEF Upto
  <2> QED
    BY <1>1, <2>1, <2>2 DEF Count, RawDone
<1>5. pc = "walk" /\ op \in Decoders /\ ~WalkIsOver => RawDone(f) = FALSE
  BY <1>1 DEF WalkIsOver, RawDone, Decoders
<1> QED
  BY <1>2, <1>3, <1>4, <1>5

\* A call starts at the first block of every chunk.
LEMMA CountStarts ==
    ASSUME IInv, pc = "walk", f = 0, b = 0, NEW g \in Frames
    PROVE  Count(g) = 0 /\ (RawDone(g) <=> FALSE)
<1>1. /\ Full \in Nat /\ Blocks \in Nat /\ Full <= Blocks /\ g \in Nat
  BY Place DEF IInv, Frames
<1> QED
  BY <1>1 DEF Count, RawDone, Upto

\* The walk passes a block that is not at the end of its frame.
LEMMA CountMoves ==
    ASSUME IInv, pc = "walk", pc' = "walk", op' = op, chunk' = chunk, f \in Frames, NEW g \in Frames,
           b < Blocks,
           \/ op = "starts" /\ NextAt(Blocks)
           \/ op \in Decoders /\ b < Full /\ NextAt(Full + 1)
    PROVE  /\ Count(g)' = IF g = f THEN Count(g) + 1 ELSE Count(g)
           /\ op \in Decoders => (RawDone(g)' <=> RawDone(g))
<1>1. /\ Full \in Nat /\ Blocks \in Nat /\ Full <= Blocks /\ Blocks <= Full + 1
      /\ f \in Nat /\ f <= F - 1 /\ b \in Nat /\ F \in Nat \ {0} /\ g \in Nat /\ g <= F - 1
      /\ op \in {"starts", "run", "decompress"} /\ Full' = Full /\ Blocks' = Blocks
  BY Place, SameWalks, FramingAssumption DEF IInv, Frames
<1>2. CASE op = "decompress"
  <2>1. NextAt(Full + 1) /\ b < Full
    BY <1>2
  <2>2. b' = b + 1 /\ f' = f
    BY <1>1, <1>2, <2>1 DEF NextAt
  <2> QED
    BY <1>1, <1>2, <2>2 DEF Count, RawDone
<1>3. CASE op # "decompress"
  <2>1. /\ f' = IF f = F - 1 THEN 0 ELSE f + 1
        /\ b' = IF f = F - 1 THEN b + 1 ELSE b
    BY <1>3 DEF NextAt
  <2>2. Upto(b) = b /\ Upto(b + 1) = b + 1 /\ \A n : Upto(n)' = Upto(n)
    BY <1>1, SameWalks DEF Upto
  <2>3. Count(g) = IF g < f THEN b + 1 ELSE b
    BY <1>3, <2>2 DEF Count
  <2>4. Count(g)' = IF g < f' THEN Upto(b' + 1) ELSE Upto(b')
    BY <1>1, <1>3, SameWalks DEF Count, Upto
  <2>5. Count(g)' = IF g = f THEN Count(g) + 1 ELSE Count(g)
    <3>1. CASE f = F - 1
      <4>1. f' = 0 /\ b' = b + 1
        BY <2>1, <3>1
      <4>2. Count(g)' = b + 1
        BY <1>1, <2>2, <2>4, <4>1
      <4> QED
        BY <1>1, <2>3, <3>1, <4>2
    <3>2. CASE f # F - 1
      <4>1. f' = f + 1 /\ b' = b
        BY <2>1, <3>2
      <4>2. Count(g)' = IF g < f + 1 THEN b + 1 ELSE b
        BY <2>2, <2>4, <4>1
      <4> QED
        BY <1>1, <2>3, <4>2
    <3> QED
      BY <3>1, <3>2
  <2>6. op \in Decoders => (RawDone(g)' <=> RawDone(g))
    <3>1. SUFFICES ASSUME op \in Decoders PROVE RawDone(g)' <=> RawDone(g)
      OBVIOUS
    <3>2. b < Full
      BY <3>1 DEF Decoders
    <3>3. ~RawDone(g)
      BY <1>1, <1>3, <3>2 DEF RawDone
    <3>4. b' = b \/ (b' = b + 1 /\ f' = 0)
      BY <2>1
    <3>5. ~(b' = Full /\ g < f') /\ b' # Full + 1
      BY <1>1, <3>2, <3>4
    <3> QED
      BY <1>1, <1>3, <3>3, <3>5 DEF RawDone
  <2> QED
    BY <2>5, <2>6
<1> QED
  BY <1>2, <1>3

\* The walk comes to the raw end of a frame, and passes it.
LEMMA CountAtTheEnd ==
    ASSUME IInv, op' = op, chunk' = chunk, f \in Frames, b = Full, NEW g \in Frames, op \in Decoders
    PROVE  /\ pc = "walk" /\ pc' = "raw" /\ f' = f /\ b' = b
                => /\ Count(g)' = IF g = f THEN Blocks ELSE Count(g)
                   /\ RawDone(g)' <=> RawDone(g)
           /\ pc = "raw" /\ pc' = "walk" /\ NextAt(Full + 1)
                => /\ Count(g)' = Count(g)
                   /\ RawDone(g)' <=> (g = f \/ RawDone(g))
<1>1. /\ Full \in Nat /\ Blocks \in Nat /\ Full <= Blocks /\ Blocks <= Full + 1
      /\ f \in Nat /\ f <= F - 1 /\ b \in Nat /\ F \in Nat \ {0} /\ g \in Nat /\ g <= F - 1
      /\ op \in {"run", "decompress"} /\ Full' = Full /\ Blocks' = Blocks
  BY Place, SameWalks, FramingAssumption DEF IInv, Frames, Decoders
<1>2. Upto(b) = Full /\ Upto(b + 1) = Blocks /\ Upto((b + 1) + 1) = Blocks /\ \A n : Upto(n)' = Upto(n)
  BY <1>1, SameWalks DEF Upto
<1>3. ASSUME pc = "walk", pc' = "raw", f' = f, b' = b
      PROVE  /\ Count(g)' = IF g = f THEN Blocks ELSE Count(g)
             /\ RawDone(g)' <=> RawDone(g)
  <2>1. Count(g)' = IF op = "decompress" THEN IF g < f \/ g = f THEN Blocks ELSE 0
                    ELSE IF g < f \/ g = f THEN Blocks ELSE Full
    BY <1>1, <1>2, <1>3 DEF Count, Upto
  <2>2. Count(g) = IF op = "decompress" THEN IF g < f THEN Blocks ELSE IF g = f THEN b ELSE 0
                   ELSE IF g < f THEN Blocks ELSE Full
    BY <1>2, <1>3 DEF Count
  <2> QED
    BY <1>1, <1>3, <2>1, <2>2 DEF RawDone
<1>4. ASSUME pc = "raw", pc' = "walk", NextAt(Full + 1)
      PROVE  /\ Count(g)' = Count(g)
             /\ RawDone(g)' <=> (g = f \/ RawDone(g))
  <2>1. Count(g) = IF op = "decompress" THEN IF g < f \/ g = f THEN Blocks ELSE 0
                   ELSE IF g < f \/ g = f THEN Blocks ELSE Full
    BY <1>2, <1>4 DEF Count
  <2>2. CASE op = "decompress"
    <3>1. b' = 0 /\ f' = f + 1
      BY <1>1, <1>4, <2>2 DEF NextAt
    <3>2. Count(g)' = IF g < f + 1 THEN Blocks ELSE 0
      BY <1>1, <1>4, <2>2, <3>1 DEF Count
    <3>3. RawDone(g)' <=> g < f + 1
      BY <2>2, <3>1 DEF RawDone
    <3>4. RawDone(g) <=> g < f
      BY <2>2 DEF RawDone
    <3> QED
      BY <1>1, <2>1, <2>2, <3>2, <3>3, <3>4
  <2>3. CASE op # "decompress"
    <3>1. RawDone(g) <=> g < f
      BY <1>1, <2>3 DEF RawDone
    <3>2. CASE f = F - 1
      <4>1. f' = 0 /\ b' = b + 1
        BY <1>4, <2>3, <3>2 DEF NextAt
      <4>2. Count(g)' = Blocks
        BY <1>1, <1>2, <1>4, <2>3, <4>1 DEF Count, Upto
      <4>3. RawDone(g)'
        BY <1>1, <2>3, <4>1 DEF RawDone
      <4> QED
        BY <1>1, <2>1, <2>3, <3>1, <3>2, <4>2, <4>3
    <3>3. CASE f # F - 1
      <4>1. f' = f + 1 /\ b' = b
        BY <1>4, <2>3, <3>3 DEF NextAt
      <4>2. Count(g)' = IF g < f + 1 THEN Blocks ELSE Full
        BY <1>1, <1>2, <1>4, <2>3, <4>1 DEF Count, Upto
      <4>3. RawDone(g)' <=> g < f + 1
        BY <1>1, <2>3, <4>1 DEF RawDone
      <4> QED
        BY <1>1, <2>1, <2>3, <3>1, <4>2, <4>3
    <3> QED
      BY <3>2, <3>3
  <2> QED
    BY <2>2, <2>3
<1> QED
  BY <1>3, <1>4

-----------------------------------------------------------------------------
(* Whole pixels and whole groups of them *)

\* No step of a call changes whether its blocks are whole pixels.
LEMMA SameExact == ASSUME chunk' = chunk, op' = op PROVE Exact' <=> Exact
  BY SameSizes DEF Exact

\* A multiple of the size of a pixel is whole pixels.
LEMMA WholePixels ==
    ASSUME NEW q \in Int, NEW n \in Nat, n = NB * q
    PROVE  NB * (n \div NB) = n
<1>1. NB \in Nat \ {0}
  BY FramingAssumption
<1>2. n \div NB = q
  BY <1>1, SMT
<1> QED
  BY <1>2

\* If the blocks are whole pixels run gives out all of them, decompress always does.
LEMMA GivesAll ==
    ASSUME TypeOK, Checked(op), Exact
    PROVE  GivenOut(Raw) = Raw /\ \A i \in Nat : GivenOut(SizeOf(i)) = SizeOf(i)
<1>1. CASE op # "run"
  BY <1>1 DEF GivenOut
<1>2. CASE op = "run"
  <2>1. /\ NB \in Nat \ {0} /\ NIJ \in Nat /\ Total = NIJ * NB /\ Size % NB = 0
        /\ Group = 8 * NB /\ Group \in Nat \ {0}
    BY <1>2, FramingAssumption, WholeGroups DEF Checked, Exact, FrameBytes, Group
  <2>2. /\ Size \in Nat /\ Full \in Nat /\ Remaining \in Nat /\ TailBlock \in Nat /\ Raw \in Nat
    BY Sizes DEF TypeOK
  <2> DEFINE s == Size \div NB
             k == Remaining \div Group
  <2>3. s \in Nat /\ Size = NB * s
    BY <2>1, <2>2, SMT
  <2>4. k \in Nat /\ TailBlock = Group * k
    BY <2>1, <2>2, Division DEF TailBlock
  <2> HIDE DEF s, k
  <2>5. TailBlock = NB * (8 * k) /\ 8 * k \in Int
    BY <2>1, <2>4
  <2>6. Raw = (NIJ * NB - Full * (NB * s)) - NB * (8 * k)
    BY <2>1, <2>3, <2>5 DEF Raw, Remaining
  <2>7. Raw = NB * ((NIJ - Full * s) - 8 * k) /\ (NIJ - Full * s) - 8 * k \in Int
    BY <2>1, <2>2, <2>3, <2>4, <2>6
  <2>8. NB * (Raw \div NB) = Raw /\ NB * (Size \div NB) = Size /\ NB * (TailBlock \div NB) = TailBlock
    BY <2>2, <2>3, <2>5, <2>7, WholePixels
  <2> QED
    BY <1>2, <2>8 DEF GivenOut, SizeOf
<1> QED
  BY <1>1, <1>2

\* Blocks whose pixels are not whole groups are blocks whose bytes are not.
LEMMA HalfAGroup ==
    ASSUME TypeOK, (Size \div NB) % 8 # 0
    PROVE  Ungrouped
<1>1. NB \in Nat \ {0} /\ Size \in Nat /\ Group = 8 * NB
  BY FramingAssumption, Sizes DEF TypeOK, Group
<1>2. ASSUME Size % (8 * NB) = 0 PROVE FALSE
  <2> DEFINE q == Size \div (8 * NB)
  <2>1. q \in Nat /\ Size = (8 * NB) * q
    BY <1>1, <1>2, SMT
  <2> HIDE DEF q
  <2>2. Size = NB * (8 * q)
    BY <1>1, <2>1
  <2>3. Size \div NB = 8 * q
    BY <1>1, <2>1, <2>2, SMT
  <2>4. (8 * q) % 8 = 0
    BY <2>1
  <2> QED
    BY <2>3, <2>4
<1> QED
  BY <1>1, <1>2 DEF Ungrouped

-----------------------------------------------------------------------------
(* The steps of the walks *)

\* A step with which a call returns rc.
LEMMA ReturnKeeps ==
    ASSUME IInv, WalkInv, chunk' = chunk, op' = op, NEW rc, Return(rc), rc # "none",
           \A o \in Ops : found'[o] \subseteq AllBlocks /\ found[o] \subseteq found'[o],
           rc = "ok" => Accepts(op) /\ AllBlocks \subseteq found'[op],
           op \in Decoders /\ rc \notin {"ok", "untranspose"} => ~Accepts(op),
           op \in Decoders /\ rc = "corrupt" => Short \/ Declined(op) \/ \E g \in Frames : ~Whole(g),
           op \in Decoders /\ rc = "untranspose" => op = "run" /\ Full > 0 /\ Ungrouped,
           op \in Decoders /\ rc = "ok" /\ Exact => \A g \in Frames : filled'[g] = Total
    PROVE  WalkInv'
<1>1. pc' = "returned" /\ result' = [result EXCEPT ![op] = rc] /\ op \in Ops /\ DOMAIN result = Ops
  BY DEF Return, IInv, TypeOK
<1>2. result'[op] = rc /\ \A o \in Ops : o # op => result'[o] = result[o]
  BY <1>1
<1>3. AtEnd' /\ PosInv' /\ DecodedInv'
  BY <1>1 DEF AtEnd, PosInv, DecodedInv, Walking
<1>4. FoundInv'
  <2>1. AllBlocks' = AllBlocks
    BY SameWalks
  <2>2. \A o \in Ops : result'[o] = "ok" => AllBlocks \subseteq found'[o]
    <3>1. SUFFICES ASSUME NEW o \in Ops, result'[o] = "ok" PROVE AllBlocks \subseteq found'[o]
      OBVIOUS
    <3>2. CASE o = op
      BY <1>2, <3>1, <3>2
    <3>3. CASE o # op
      BY <1>2, <3>1, <3>3 DEF WalkInv, FoundInv
    <3> QED
      BY <3>2, <3>3
  <2> QED
    BY <1>1, <2>1, <2>2 DEF FoundInv, Walking
<1>5. ResultInv'
  <2>1. /\ \A o : (Accepts(o)' <=> Accepts(o))
        /\ \A g : (Whole(g)' <=> Whole(g))
        /\ (Short' <=> Short) /\ (Ungrouped' <=> Ungrouped) /\ Full' = Full
        /\ \A o : (Declined(o)' <=> Declined(o))
    BY SameWalks
  <2>2. \A o \in Ops : result'[o] = "ok" => Accepts(o)
    BY <1>2 DEF WalkInv, ResultInv
  <2>3. ASSUME NEW o \in Decoders
        PROVE  /\ result'[o] \notin {"none", "ok", "untranspose"} => ~Accepts(o)
               /\ result'[o] = "corrupt" => Short \/ Declined(o) \/ \E g \in Frames : ~Whole(g)
               /\ result'[o] = "untranspose" => o = "run" /\ Full > 0 /\ Ungrouped
    <3>1. CASE o = op
      BY <1>2, <2>3, <3>1
    <3>2. CASE o # op
      BY <1>2, <2>3, <3>2 DEF WalkInv, ResultInv, Decoders, Ops
    <3> QED
      BY <3>1, <3>2
  <2>4. op = "decompress" => result'["run"] # "none"
    BY <1>2 DEF WalkInv, ResultInv, Ops
  <2> QED
    BY <1>2, <2>1, <2>2, <2>3, <2>4 DEF ResultInv
<1>6. AcceptedFramesAreWhole'
  BY <1>2, SameWalks DEF AcceptedFramesAreWhole, Exact
<1> QED
  BY <1>3, <1>4, <1>5, <1>6 DEF WalkInv

\* A step of a walk, or the start of one, returns nothing.
LEMMA WalkKeeps ==
    ASSUME IInv, WalkInv, chunk' = chunk, op' = op, result' = result, pc' \in {"walk", "raw"},
           Checked(op), AtEnd', DecodedInv',
           \A g \in Frames : ~GivenUp(g)' => pos'[g] = Start(g, Count(g)'),
           \A o \in Ops : found'[o] \subseteq AllBlocks /\ found[o] \subseteq found'[o],
           \A g \in Frames : ~GivenUp(g)' => \A i \in 0 .. Count(g)' - 1 : <<g, i, Start(g, i)>> \in found'[op]
    PROVE  WalkInv'
<1>1. /\ \A o : (Accepts(o)' <=> Accepts(o)) /\ (Checked(o)' <=> Checked(o))
      /\ \A g, i : Start(g, i)' = Start(g, i)
      /\ \A g : (Whole(g)' <=> Whole(g))
      /\ Short' <=> Short /\ AllBlocks' = AllBlocks
  BY SameWalks
<1>2. PosInv'
  <2>1. ASSUME NEW g \in Frames, ~GivenUp(g)' PROVE pos'[g] = Start(g, Count(g))'
    <3>1. Start(g, Count(g))' = Start(g, Count(g)')
      BY DEF Start
    <3> QED
      BY <2>1, <3>1
  <2> QED
    BY <1>1, <2>1 DEF PosInv
<1>3. FoundInv'
  <2>1. \A o \in Ops : result'[o] = "ok" => AllBlocks \subseteq found'[o]
    BY DEF WalkInv, FoundInv
  <2>2. ASSUME NEW g \in Frames, ~GivenUp(g)', NEW i \in 0 .. Count(g)' - 1
        PROVE  <<g, i, Start(g, i)'>> \in found'[op']
    <3>1. <<g, i, Start(g, i)>> \in found'[op]
      BY <2>2
    <3>2. Start(g, i)' = Start(g, i)
      BY <1>1
    <3> QED
      BY <3>1, <3>2
  <2>3. AllBlocks' = AllBlocks
    BY SameWalks
  <2> QED
    BY <2>1, <2>2, <2>3 DEF FoundInv
<1>4. ResultInv'
  <2>1. /\ \A o \in Ops : result[o] = "ok" => Accepts(o)
        /\ \A o \in Decoders :
              /\ result[o] \notin {"none", "ok", "untranspose"} => ~Accepts(o)
              /\ result[o] = "corrupt" => Short \/ Declined(o) \/ \E g \in Frames : ~Whole(g)
              /\ result[o] = "untranspose" => o = "run" /\ Full > 0 /\ Ungrouped
        /\ op = "decompress" => result["run"] # "none"
    BY DEF WalkInv, ResultInv
  <2>2. pc' # "returned"
    OBVIOUS
  <2>3. /\ \A o : Accepts(o)' <=> Accepts(o)
        /\ \A g : Whole(g)' <=> Whole(g)
        /\ (Short' <=> Short) /\ (Ungrouped' <=> Ungrouped) /\ Full' = Full
        /\ \A o : (Declined(o)' <=> Declined(o))
    BY SameWalks
  <2> QED
    BY <2>1, <2>2, <2>3 DEF ResultInv
<1>5. AcceptedFramesAreWhole'
  BY DEF AcceptedFramesAreWhole
<1> QED
  BY <1>2, <1>3, <1>4, <1>5 DEF WalkInv

\* A call is refused for its headers, or starts its walk.
LEMMA CheckWalks == ASSUME IInv, WalkInv, IInv', Check PROVE WalkInv'
<1>1. chunk' = chunk /\ op' = op /\ found' = found /\ f' = 0 /\ b' = 0 /\ bad' = {} /\ TypeOK
  BY DEF Check, IInv
<1>2. CASE Verdict # "ok"
  <2>1. Return(Verdict) /\ Verdict # "none" /\ Verdict # "untranspose" /\ ~Checked(op)
        /\ (Verdict = "corrupt" => Short \/ Declined(op))
    BY <1>1, <1>2, VerdictIsChecked DEF Check
  <2>2. ~Accepts(op)
    BY <2>1 DEF Accepts
  <2>3. \A o \in Ops : found'[o] \subseteq AllBlocks /\ found[o] \subseteq found'[o]
    BY <1>1 DEF WalkInv, FoundInv
  <2> QED
    BY <1>1, <1>2, <2>1, <2>2, <2>3, ReturnKeeps
<1>3. CASE Verdict = "ok"
  <2>1. pc' = "walk" /\ result' = result /\ Checked(op)
    BY <1>1, <1>3, VerdictIsChecked DEF Check
  <2>2. /\ Full \in Nat /\ Blocks \in Nat /\ Full <= Blocks /\ F \in Nat \ {0}
        /\ Full' = Full /\ Blocks' = Blocks
    BY <1>1, Place, SameWalks
  <2>3. ASSUME NEW g \in Frames PROVE Count(g)' = 0 /\ (RawDone(g)' <=> FALSE)
    <3>1. g \in Nat
      BY DEF Frames
    <3> QED
      BY <1>1, <2>1, <2>2, <3>1 DEF Count, RawDone, Upto
  <2>4. AtEnd'
    BY <1>1 DEF AtEnd
  <2>5. DecodedInv'
    <3>1. ASSUME NEW g \in Frames
          PROVE  filled'[g] = 0 /\ FilledTo(Count(g))' = 0
      <4>1. FilledTo(Count(g))' = 0 * Size'
        BY <2>2, <2>3 DEF FilledTo
      <4>2. Size' = Size /\ Size \in Nat
        BY <1>1, Sizes, SameWalks DEF TypeOK
      <4> QED
        BY <4>1, <4>2 DEF Check
    <3>2. ASSUME NEW g \in Frames
          PROVE  /\ \A i \in 0 .. Count(g)' - 1 : chunk'[g].good[i] = TRUE
                 /\ filled'[g] = FilledTo(Count(g))' + (IF RawDone(g)' THEN Raw' ELSE 0)
      BY <2>3, <3>1
    <3> QED
      BY <2>3, <3>2 DEF DecodedInv
  <2>6. \A g \in Frames : pos'[g] = Start(g, Count(g)')
    <3>1. \A g \in Frames : Start(g, 0) = Header
      BY <1>1, Starts
    <3> QED
      BY <2>3, <3>1 DEF Check
  <2>7. \A o \in Ops : found'[o] \subseteq AllBlocks /\ found[o] \subseteq found'[o]
    BY <1>1 DEF WalkInv, FoundInv
  <2>8. \A g \in Frames : \A i \in 0 .. Count(g)' - 1 : <<g, i, Start(g, i)>> \in found'[op]
    BY <2>3
  <2> QED
    BY <1>1, <2>1, <2>4, <2>5, <2>6, <2>7, <2>8, WalkKeeps
<1> QED
  BY <1>2, <1>3

\* A chunk with a block outside is not whole.
LEMMA OutsideIsNotWhole ==
    ASSUME TypeOK, NEW g \in Frames, NEW i \in 0 .. Full, i < Blocks, ~(Start(g, i + 1) <= chunk[g].len)
    PROVE  ~Whole(g)
<1>1. Full \in Nat /\ Blocks \in 0 .. Full + 1 /\ i + 1 \in 0 .. Full + 1 /\ i + 1 <= Blocks
  BY Place
<1>2. Start(g, i + 1) \in Nat /\ Start(g, Blocks) \in Nat /\ Start(g, i + 1) <= Start(g, Blocks)
  BY <1>1, Starts, StartsGrow
<1>3. Raw \in Nat /\ chunk[g].len \in Nat
  BY Sizes, Lengths DEF TypeOK
<1> QED
  BY <1>2, <1>3 DEF Whole

\* A decoder at a block of a chunk.
LEMMA AtABlock ==
    ASSUME IInv, WalkInv, pc = "walk", op \in Decoders, ~WalkIsOver, HasBlock
    PROVE  /\ f \in Frames /\ b \in 0 .. Full /\ b < Blocks /\ TypeOK /\ Checked(op) /\ ~GivenUp(f)
           /\ Count(f) = b /\ pos[f] = Start(f, b) /\ (RawDone(f) <=> FALSE)
<1>1. f \in Frames /\ b \in 0 .. Full /\ TypeOK /\ Walking
  BY AtAChunk DEF IInv, Walking
<1>2. Full \in Nat /\ Blocks = Full + (IF TailBlock > 0 THEN 1 ELSE 0)
  BY <1>1, Place DEF Blocks
<1>3. b < Blocks
  BY <1>1, <1>2 DEF HasBlock, AtTheTail
<1>4. Count(f) = b /\ (RawDone(f) <=> FALSE)
  BY <1>1, <1>3, CountHere
<1>5. ~GivenUp(f)
  BY DEF GivenUp, Decoders
<1>6. Checked(op) /\ pos[f] = Start(f, Count(f))
  BY <1>1, <1>5 DEF WalkInv, PosInv
<1> QED
  BY <1>1, <1>3, <1>4, <1>5, <1>6

\* A decoder refuses a block that is not inside its chunk.
LEMMA CorruptWalks == ASSUME IInv, WalkInv, Corrupt PROVE WalkInv'
<1>1. /\ f \in Frames /\ b \in 0 .. Full /\ b < Blocks /\ TypeOK /\ pos[f] = Start(f, b)
  BY AtABlock DEF Corrupt
<1>2. chunk' = chunk /\ op' = op /\ found' = found /\ Return("corrupt") /\ op \in Decoders
  BY DEF Corrupt
<1>3. ~Whole(f)
  BY <1>1, InsideIsStart, OutsideIsNotWhole DEF Corrupt
<1>4. ~Accepts(op)
  BY <1>1, <1>2, <1>3 DEF Accepts, Decoders
<1>5. \A o \in Ops : found'[o] \subseteq AllBlocks /\ found[o] \subseteq found'[o]
  BY <1>2 DEF WalkInv, FoundInv
<1> QED
  BY <1>1, <1>2, <1>3, <1>4, <1>5, ReturnKeeps

\* A block is one of all the blocks.
LEMMA BlockIsABlock ==
    ASSUME TypeOK, NEW g \in Frames, NEW i \in 0 .. Full, i < Blocks
    PROVE  <<g, i, Start(g, i)>> \in AllBlocks
<1>1. Start(g, i) \in Nat
  BY Starts, Place
<1> QED
  BY <1>1 DEF AllBlocks

\* Locate finds the block and moves on to the next one.
LEMMA LocateWalks ==
    ASSUME TypeOK, FoundInv, f \in Frames, b \in 0 .. Full, b < Blocks, pos[f] = Start(f, b), Locate
    PROVE  /\ pos'[f] = Start(f, b + 1) /\ \A g \in Frames : g # f => pos'[g] = pos[g]
           /\ <<f, b, Start(f, b)>> \in found'[op]
           /\ \A o \in Ops : found'[o] \subseteq AllBlocks /\ found[o] \subseteq found'[o]
<1>1. /\ pos' = [pos EXCEPT ![f] = pos[f] + chunk[f].word[b] + SizeWord]
      /\ found' = [found EXCEPT ![op] = found[op] \cup {<<f, b, pos[f]>>}]
      /\ op \in Ops /\ DOMAIN found = Ops /\ DOMAIN pos = Frames
  BY DEF Locate, TypeOK
<1>2. Start(f, b + 1) = Start(f, b) + chunk[f].word[b] + SizeWord
  BY Starts
<1>3. <<f, b, Start(f, b)>> \in AllBlocks
  BY BlockIsABlock
<1> QED
  BY <1>1, <1>2, <1>3 DEF FoundInv

\* The bytes of a frame after one more block.
LEMMA FilledGrows ==
    ASSUME TypeOK, NEW i \in 0 .. Full, i < Blocks
    PROVE  FilledTo(i) + SizeOf(i) = FilledTo(i + 1) /\ FilledTo(i) \in Nat /\ SizeOf(i) \in Nat
<1>1. Full \in Nat /\ Size \in Nat /\ TailBlock \in Nat
  BY Sizes DEF TypeOK
<1>2. CASE i < Full
  <2>1. FilledTo(i) = i * Size /\ FilledTo(i + 1) = (i + 1) * Size /\ SizeOf(i) = Size
    BY <1>1, <1>2 DEF FilledTo, SizeOf
  <2>2. (i + 1) * Size = i * Size + Size /\ i * Size \in Nat
    BY <1>1, SMT
  <2> QED
    BY <1>1, <2>1, <2>2
<1>3. CASE ~(i < Full)
  <2>1. i = Full /\ FilledTo(i) = Full * Size /\ FilledTo(i + 1) = Full * Size + TailBlock /\ SizeOf(i) = TailBlock
    BY <1>1, <1>3 DEF FilledTo, SizeOf
  <2>2. Full * Size \in Nat
    BY <1>1, SMT
  <2> QED
    BY <1>1, <2>1, <2>2
<1> QED
  BY <1>2, <1>3

\* All the blocks and the raw bytes are the frame.
LEMMA FilledIsTotal ==
    ASSUME TypeOK
    PROVE  FilledTo(Blocks) + Raw = Total
<1>1. Full \in Nat /\ Size \in Nat /\ TailBlock \in Nat /\ Total \in Nat /\ Remaining \in Nat
  BY Sizes DEF TypeOK
<1>2. Full * Size \in Nat
  BY <1>1, SMT
<1>3. FilledTo(Blocks) = Full * Size + TailBlock
  <2>1. CASE TailBlock > 0
    BY <1>1, <2>1 DEF Blocks, FilledTo
  <2>2. CASE ~(TailBlock > 0)
    <3>1. Blocks = Full /\ TailBlock = 0
      BY <1>1, <2>2 DEF Blocks
    <3> QED
      BY <1>1, <1>2, <3>1 DEF FilledTo
  <2> QED
    BY <2>1, <2>2
<1> QED
  BY <1>1, <1>2, <1>3 DEF Raw, Remaining

\* A decoder takes a block.
LEMMA DecodeBlockWalks == ASSUME IInv, WalkInv, IInv', DecodeBlock PROVE WalkInv'
<1>1. /\ f \in Frames /\ b \in 0 .. Full /\ b < Blocks /\ TypeOK /\ Checked(op) /\ pos[f] = Start(f, b)
      /\ Count(f) = b /\ (RawDone(f) <=> FALSE)
  BY AtABlock DEF DecodeBlock
<1>2. chunk' = chunk /\ op' = op /\ bad' = bad /\ Locate /\ op \in Decoders /\ FoundInv /\ pc = "walk"
  BY DEF DecodeBlock, WalkInv
<1>3. /\ pos'[f] = Start(f, b + 1) /\ \A g \in Frames : g # f => pos'[g] = pos[g]
      /\ <<f, b, Start(f, b)>> \in found'[op]
      /\ \A o \in Ops : found'[o] \subseteq AllBlocks /\ found[o] \subseteq found'[o]
  BY <1>1, <1>2, LocateWalks
<1>4. CASE ~chunk[f].good[b] /\ Return("decompress") /\ UNCHANGED <<f, b, filled>>
  <2>1. Return("decompress")
    BY <1>4
  <2>2. b \in 0 .. Blocks - 1
    BY <1>1, Place
  <2>3. ~Accepts(op)
    BY <1>1, <1>2, <1>4, <2>2 DEF Accepts, Decoders
  <2> QED
    BY <1>2, <1>3, <2>1, <2>3, ReturnKeeps
<1>6. CASE chunk[f].good[b] /\ MayNotTranspose /\ Return("untranspose") /\ UNCHANGED <<f, b, filled>>
  <2>1. Return("untranspose") /\ op = "run" /\ Ungrouped
    BY <1>1, <1>6, HalfAGroup DEF MayNotTranspose
  <2>2. Full > 0
    BY <1>1, <1>6, Place DEF MayNotTranspose, AtTheTail
  <2> QED
    BY <1>2, <1>3, <2>1, <2>2, ReturnKeeps
<1>5. CASE /\ chunk[f].good[b]
           /\ filled' = [filled EXCEPT ![f] = filled[f] + GivenOut(SizeOf(b))]
           /\ IF AtTheTail THEN pc' = "raw" /\ UNCHANGED <<f, b>>
                           ELSE NextAt(Full + 1) /\ UNCHANGED pc
           /\ UNCHANGED result
  <2>1. /\ filled' = [filled EXCEPT ![f] = filled[f] + GivenOut(SizeOf(b))] /\ result' = result
        /\ AtTheTail => pc' = "raw" /\ f' = f /\ b' = b
        /\ ~AtTheTail => NextAt(Full + 1) /\ pc' = pc
    BY <1>5
  <2>2. ASSUME NEW g \in Frames
        PROVE  /\ Count(g)' = IF g = f THEN b + 1 ELSE Count(g)
               /\ RawDone(g)' <=> RawDone(g)
    <3>1. CASE AtTheTail
      <4>1. b = Full /\ pc' = "raw" /\ f' = f /\ b' = b /\ Blocks = b + 1
        BY <1>1, <2>1, <3>1, Place DEF AtTheTail
      <4> QED
        BY <1>1, <1>2, <2>2, <4>1, CountAtTheEnd
    <3>2. CASE ~AtTheTail
      <4>1. b < Full /\ NextAt(Full + 1) /\ pc' = "walk"
        BY <1>1, <1>2, <2>1, <3>2, Place DEF AtTheTail
      <4> QED
        BY <1>1, <1>2, <2>2, <4>1, CountMoves
    <3> QED
      BY <3>1, <3>2
  <2>3. AtEnd'
    <3>1. CASE AtTheTail
      BY <1>1, <1>2, <2>1, <3>1, Place, SameWalks DEF AtEnd, AtTheTail, Decoders
    <3>2. CASE ~AtTheTail
      <4>1. op = "run" => b' \in {b, b + 1} /\ (b' = b + 1 => f' = 0) /\ b < Full
        BY <1>1, <2>1, <3>2, Place DEF NextAt, AtTheTail
      <4> QED
        BY <1>1, <1>2, <4>1, Place, SameWalks DEF AtEnd, Decoders
    <3> QED
      BY <3>1, <3>2
  <2>4. Walking /\ DecodedInv
    BY <1>2 DEF Walking, WalkInv
  <2>5. DecodedInv'
    <3>1. SUFFICES ASSUME NEW g \in Frames
                   PROVE  /\ \A i \in 0 .. Count(g)' - 1 : chunk[g].good[i] = TRUE
                          /\ RawDone(g)' => Whole(g)
                          /\ Exact => filled'[g] = FilledTo(Count(g)') + (IF RawDone(g)' THEN Raw ELSE 0)
      <4>1. \A g : (Whole(g)' <=> Whole(g))
        BY <1>2, SameWalks
      <4>2. \A g : FilledTo(Count(g))' = FilledTo(Count(g)')
        BY <1>2, SameWalks DEF FilledTo
      <4>3. Raw' = Raw
        BY <1>2, SameWalks
      <4> QED
        BY <1>2, <4>1, <4>2, <4>3, SameExact DEF DecodedInv
    <3>2. /\ \A i \in 0 .. Count(g) - 1 : chunk[g].good[i] = TRUE
          /\ RawDone(g) => Whole(g)
          /\ Exact => filled[g] = FilledTo(Count(g)) + (IF RawDone(g) THEN Raw ELSE 0)
      BY <1>2, <2>4 DEF DecodedInv
    <3>3. CASE g = f
      <4>1. Count(g)' = b + 1 /\ ~RawDone(g)' /\ filled'[g] = filled[f] + GivenOut(SizeOf(b))
        BY <1>1, <2>1, <2>2, <3>3 DEF TypeOK
      <4>2. chunk[f].good[b] = TRUE
        <5>1. chunk \in [Frames -> Chunks]
          BY <1>1 DEF TypeOK
        <5>2. chunk[f] \in Chunk /\ b \in 0 .. Limit
          BY <1>1, <5>1, Sizes, FramingAssumption
        <5> QED
          BY <1>5, <5>2 DEF Chunk
      <4>3. \A i \in 0 .. b : chunk[f].good[i] = TRUE
        BY <1>1, <3>2, <3>3, <4>2
      <4>4. (Exact => filled[f] = FilledTo(b) + 0) /\ FilledTo(b) + SizeOf(b) = FilledTo(b + 1)
            /\ FilledTo(b) \in Nat /\ SizeOf(b) \in Nat /\ (Exact => GivenOut(SizeOf(b)) = SizeOf(b))
        BY <1>1, <3>2, <3>3, FilledGrows, GivesAll
      <4>5. (Exact => filled'[g] = FilledTo(b + 1) + 0) /\ (b + 1) - 1 = b
        BY <1>1, <4>1, <4>4
      <4> QED
        BY <3>3, <4>1, <4>3, <4>5
    <3>4. CASE g # f
      <4>1. filled'[g] = filled[g]
        BY <1>1, <2>1, <3>4 DEF TypeOK
      <4> QED
        BY <2>2, <3>2, <3>4, <4>1
    <3> QED
      BY <3>3, <3>4
  <2>6. \A g \in Frames : pos'[g] = Start(g, Count(g)')
    <3>1. \A g \in Frames : pos[g] = Start(g, Count(g))
      BY <1>2, <2>4 DEF WalkInv, PosInv, GivenUp, Decoders
    <3> QED
      BY <1>3, <2>2, <3>1
  <2>7. ASSUME NEW g \in Frames, NEW i \in 0 .. Count(g)' - 1 PROVE <<g, i, Start(g, i)>> \in found'[op]
    <3>1. \A j \in 0 .. Count(g) - 1 : <<g, j, Start(g, j)>> \in found[op]
      BY <1>2, <2>4 DEF FoundInv, GivenUp, Decoders
    <3>2. CASE i \in 0 .. Count(g) - 1
      BY <1>2, <1>3, <3>1, <3>2 DEF IInv, TypeOK
    <3>3. CASE i \notin 0 .. Count(g) - 1
      <4>1. g = f /\ i = b
        BY <1>1, <2>2, <2>7, <3>3
      <4> QED
        BY <1>3, <4>1
    <3> QED
      BY <3>2, <3>3
  <2>8. pc' \in {"walk", "raw"}
    BY <1>2, <2>1
  <2> QED
    BY <1>1, <1>2, <1>3, <2>1, <2>3, <2>5, <2>6, <2>7, <2>8, WalkKeeps
<1> QED
  BY <1>4, <1>5, <1>6 DEF DecodeBlock

\* A frame without a tail block.
LEMMA NoTailBlockWalks == ASSUME IInv, WalkInv, NoTailBlock PROVE WalkInv'
<1>1. /\ chunk' = chunk /\ op' = op /\ bad' = bad /\ op \in Decoders /\ pc = "walk" /\ pc' = "raw" /\ f' = f
      /\ b' = b /\ pos' = pos /\ found' = found /\ filled' = filled /\ result' = result /\ TypeOK
      /\ ~WalkIsOver /\ ~HasBlock
  BY DEF NoTailBlock, IInv
<1>2. f \in Frames /\ b = Full /\ Blocks = Full /\ b \in 0 .. Full
  <2>1. f \in Frames /\ b = Full
    BY <1>1, AtAChunk DEF HasBlock, AtTheTail
  <2>2. Blocks = Full
    BY <1>1, Place DEF HasBlock, Blocks
  <2> QED
    BY <1>1, <2>1, <2>2, Place
<1>3. Walking /\ DecodedInv /\ FoundInv /\ PosInv
  BY <1>1 DEF Walking, WalkInv
<1>4. ASSUME NEW g \in Frames PROVE Count(g)' = Count(g) /\ (RawDone(g)' <=> RawDone(g))
  <2>1. /\ Count(g)' = IF g = f THEN Blocks ELSE Count(g)
        /\ RawDone(g)' <=> RawDone(g)
    BY <1>1, <1>2, <1>4, CountAtTheEnd
  <2>2. Count(f) = Blocks
    BY <1>1, <1>2, Place DEF Count, Upto
  <2> QED
    BY <2>1, <2>2
<1>5. AtEnd'
  BY <1>1, <1>2, Place, SameWalks DEF AtEnd, Decoders
<1>6. DecodedInv'
  <2>1. \A g : (Whole(g)' <=> Whole(g))
    BY <1>1, SameWalks
  <2>2. ASSUME NEW g \in Frames PROVE FilledTo(Count(g))' = FilledTo(Count(g))
    BY <1>1, <1>4, <2>2, SameWalks DEF FilledTo
  <2>3. Raw' = Raw
    BY <1>1, SameWalks
  <2> QED
    BY <1>1, <1>3, <1>4, <2>1, <2>2, <2>3, SameExact DEF DecodedInv
<1>7. \A g \in Frames : pos'[g] = Start(g, Count(g)')
  BY <1>1, <1>3, <1>4 DEF PosInv, GivenUp, Decoders
<1>8. \A g \in Frames : \A i \in 0 .. Count(g)' - 1 : <<g, i, Start(g, i)>> \in found'[op]
  BY <1>1, <1>3, <1>4 DEF FoundInv, GivenUp, Decoders
<1>9. \A o \in Ops : found'[o] \subseteq AllBlocks /\ found[o] \subseteq found'[o]
  BY <1>1, <1>3 DEF FoundInv
<1>10. Checked(op)
  BY <1>3 DEF PosInv
<1> QED
  BY <1>1, <1>5, <1>6, <1>7, <1>8, <1>9, <1>10, WalkKeeps

\* The raw end of a frame is copied, or is not inside its chunk.
LEMMA CopyRawWalks == ASSUME IInv, WalkInv, CopyRaw PROVE WalkInv'
<1>1. /\ chunk' = chunk /\ op' = op /\ bad' = bad /\ pos' = pos /\ found' = found /\ pc = "raw" /\ TypeOK
      /\ Walking /\ DecodedInv /\ FoundInv /\ PosInv /\ op \in Decoders
  BY DEF CopyRaw, IInv, Walking, WalkInv, Cursor
<1>2. f \in Frames /\ b = Full /\ Count(f) = Blocks /\ (RawDone(f) <=> FALSE)
  BY <1>1, CountHere
<1>3. /\ pos[f] = Start(f, Blocks) /\ pos[f] \in Nat /\ pos[f] <= chunk[f].len /\ chunk[f].len \in Nat
      /\ Raw \in Nat /\ Checked(op)
  <2>1. ~GivenUp(f)
    BY <1>1 DEF GivenUp, Decoders
  <2>2. pos[f] = Start(f, Blocks) /\ Checked(op)
    BY <1>1, <1>2, <2>1 DEF PosInv
  <2>3. pos[f] <= chunk[f].len
    BY <1>1, <1>2 DEF IInv, Inside
  <2>4. pos[f] \in Nat /\ chunk[f].len \in Nat
    BY <1>1, <1>2, Lengths DEF TypeOK
  <2>5. Raw \in Nat
    BY <1>1, Sizes DEF TypeOK
  <2> QED
    BY <2>2, <2>3, <2>4, <2>5
<1>4. Whole(f) <=> (Raw = 0 \/ RawInside)
  BY <1>3 DEF Whole, RawInside
<1>5. \A o \in Ops : found'[o] \subseteq AllBlocks /\ found[o] \subseteq found'[o]
  BY <1>1 DEF FoundInv
<1>6. CASE Raw > 0 /\ ~RawInside
  <2>1. Return("corrupt") /\ ~Whole(f)
    BY <1>3, <1>4, <1>6 DEF CopyRaw
  <2>2. ~Accepts(op)
    BY <1>1, <1>2, <2>1 DEF Accepts, Decoders
  <2> QED
    BY <1>1, <1>2, <1>5, <2>1, <2>2, ReturnKeeps
<1>7. CASE ~(Raw > 0 /\ ~RawInside)
  <2>1. /\ pc' = "walk" /\ NextAt(Full + 1) /\ result' = result
        /\ filled' = [filled EXCEPT ![f] = filled[f] + GivenOut(Raw)] /\ Whole(f)
    BY <1>3, <1>4, <1>7 DEF CopyRaw
  <2>2. ASSUME NEW g \in Frames
        PROVE  Count(g)' = Count(g) /\ (RawDone(g)' <=> (g = f \/ RawDone(g)))
    BY <1>1, <1>2, <2>1, <2>2, CountAtTheEnd
  <2>3. AtEnd'
    <3>1. op = "run" => b' = b \/ (b' = b + 1 /\ f' = 0)
      BY <2>1 DEF NextAt
    <3> QED
      BY <1>1, <1>2, <3>1, Place, SameWalks DEF AtEnd, Decoders
  <2>4. DecodedInv'
    <3>1. SUFFICES ASSUME NEW g \in Frames
                   PROVE  /\ \A i \in 0 .. Count(g) - 1 : chunk[g].good[i] = TRUE
                          /\ g = f \/ RawDone(g) => Whole(g)
                          /\ Exact => filled'[g] = FilledTo(Count(g)) + (IF g = f \/ RawDone(g) THEN Raw ELSE 0)
      <4>1. \A g : (Whole(g)' <=> Whole(g))
        BY <1>1, SameWalks
      <4>2. ASSUME NEW g \in Frames PROVE FilledTo(Count(g))' = FilledTo(Count(g))
        BY <1>1, <2>2, <4>2, SameWalks DEF FilledTo
      <4>3. Raw' = Raw
        BY <1>1, SameWalks
      <4> QED
        BY <1>1, <2>2, <4>1, <4>2, <4>3, SameExact DEF DecodedInv
    <3>2. /\ \A i \in 0 .. Count(g) - 1 : chunk[g].good[i] = TRUE
          /\ RawDone(g) => Whole(g)
          /\ Exact => filled[g] = FilledTo(Count(g)) + (IF RawDone(g) THEN Raw ELSE 0)
      BY <1>1 DEF DecodedInv
    <3>3. CASE g = f
      <4>1. /\ Exact => filled'[f] = filled[f] + Raw /\ filled[f] = FilledTo(Count(f)) + 0
            /\ filled[f] \in Nat
        BY <1>1, <1>2, <1>3, <2>1, <3>2, <3>3, GivesAll DEF TypeOK
      <4>2. ASSUME Exact PROVE filled'[f] = FilledTo(Count(f)) + Raw
        <5>1. filled'[f] = (FilledTo(Count(f)) + 0) + Raw /\ FilledTo(Count(f)) + 0 \in Nat
          BY <4>1, <4>2
        <5>2. FilledTo(Count(f)) \in Nat
          <6>1. Full \in Nat /\ Size \in Nat /\ TailBlock \in Nat /\ Blocks \in Nat
            BY <1>1, Sizes DEF TypeOK
          <6>2. Blocks * Size \in Nat /\ Full * Size \in Nat
            BY <6>1, SMT
          <6> QED
            BY <1>2, <6>1, <6>2 DEF FilledTo
        <5> QED
          BY <5>1, <5>2
      <4> QED
        BY <2>1, <3>2, <3>3, <4>2
    <3>4. CASE g # f
      <4>1. filled'[g] = filled[g]
        BY <1>1, <2>1, <3>4 DEF TypeOK
      <4> QED
        BY <3>2, <3>4, <4>1
    <3> QED
      BY <3>3, <3>4
  <2>5. \A g \in Frames : pos'[g] = Start(g, Count(g)')
    BY <1>1, <2>2 DEF PosInv, GivenUp, Decoders
  <2>6. \A g \in Frames : \A i \in 0 .. Count(g)' - 1 : <<g, i, Start(g, i)>> \in found'[op]
    BY <1>1, <2>2 DEF FoundInv, GivenUp, Decoders
  <2> QED
    BY <1>1, <1>3, <1>5, <2>1, <2>3, <2>4, <2>5, <2>6, WalkKeeps
<1> QED
  BY <1>6, <1>7

\* What was found is all the blocks, when all of them were passed.
LEMMA AllWereFound ==
    ASSUME TypeOK, NEW S, \A g \in Frames : \A i \in 0 .. Blocks - 1 : <<g, i, Start(g, i)>> \in S
    PROVE  AllBlocks \subseteq S
<1>1. SUFFICES ASSUME NEW x \in AllBlocks PROVE x \in S
  OBVIOUS
<1>2. x \in Frames \X (0 .. Full) \X Nat /\ x[2] < Blocks /\ x[3] = Start(x[1], x[2])
  BY <1>1 DEF AllBlocks
<1>3. Blocks \in Nat /\ Full \in Nat
  BY Place
<1>4. x[1] \in Frames /\ x[2] \in 0 .. Blocks - 1 /\ x = <<x[1], x[2], x[3]>>
  BY <1>2, <1>3
<1>5. <<x[1], x[2], Start(x[1], x[2])>> \in S
  BY <1>4
<1> QED
  BY <1>2, <1>4, <1>5

\* A decoder returns when it has passed every chunk.
LEMMA FinishWalks == ASSUME IInv, WalkInv, Finish PROVE WalkInv'
<1>1. /\ chunk' = chunk /\ op' = op /\ found' = found /\ filled' = filled /\ Return("ok") /\ op \in Decoders
      /\ Walking /\ pc = "walk" /\ WalkIsOver /\ TypeOK /\ DecodedInv /\ FoundInv /\ PosInv /\ AtEnd
  BY DEF Finish, IInv, Walking, WalkInv
<1>2. ASSUME NEW g \in Frames PROVE Count(g) = Blocks /\ RawDone(g)
  <2>1. /\ Full \in Nat /\ Blocks \in Nat /\ Blocks <= Full + 1 /\ g \in Nat /\ g < F /\ F \in Nat
        /\ b \in Nat /\ b <= Full + 1
    BY <1>1, Place DEF Frames
  <2>2. CASE op = "decompress"
    BY <1>1, <2>1, <2>2 DEF WalkIsOver, Count, RawDone
  <2>3. CASE op # "decompress"
    <3>1. b = Full + 1 /\ f = 0
      BY <1>1, <2>1, <2>3 DEF WalkIsOver, AtEnd, Decoders
    <3> QED
      BY <1>1, <2>1, <2>3, <3>1 DEF Count, RawDone, Upto
  <2> QED
    BY <2>2, <2>3
<1>3. Checked(op)
  BY <1>1 DEF PosInv
<1>4. ASSUME NEW g \in Frames
      PROVE  /\ Whole(g) /\ \A i \in 0 .. Blocks - 1 : chunk[g].good[i] = TRUE
             /\ Exact => filled[g] = Total
             /\ \A i \in 0 .. Blocks - 1 : <<g, i, Start(g, i)>> \in found[op]
  <2>1. /\ \A i \in 0 .. Blocks - 1 : chunk[g].good[i] = TRUE
        /\ Whole(g) /\ (Exact => filled[g] = FilledTo(Blocks) + Raw)
    BY <1>1, <1>2 DEF DecodedInv
  <2>2. ~GivenUp(g)
    BY <1>1 DEF GivenUp, Decoders
  <2>3. \A i \in 0 .. Blocks - 1 : <<g, i, Start(g, i)>> \in found[op]
    BY <1>1, <1>2, <2>2 DEF FoundInv
  <2> QED
    BY <1>1, <2>1, <2>3, FilledIsTotal
<1>5. Accepts(op)
  BY <1>1, <1>3, <1>4 DEF Accepts, Decoders
<1>6. AllBlocks \subseteq found[op]
  BY <1>1, <1>4, AllWereFound
<1>7. \A o \in Ops : found'[o] \subseteq AllBlocks /\ found[o] \subseteq found'[o]
  BY <1>1 DEF FoundInv
<1> QED
  BY <1>1, <1>4, <1>5, <1>6, <1>7, ReturnKeeps

\* block_starts takes a block of a chunk, or gives the chunk up.
LEMMA FindStartWalks == ASSUME IInv, WalkInv, IInv', FindStart PROVE WalkInv'
<1>1. /\ chunk' = chunk /\ op' = op /\ op = "starts" /\ pc = "walk" /\ pc' = pc /\ result' = result
      /\ b < Blocks /\ NextAt(Blocks) /\ TypeOK /\ FoundInv /\ PosInv /\ Walking /\ bad \subseteq bad'
  BY DEF FindStart, IInv, Walking, WalkInv
<1>2. f \in Frames /\ b \in 0 .. Full /\ f < F
  BY <1>1, Place DEF IInv, Cursor, Walking, Frames
<1>3. ASSUME NEW g \in Frames PROVE Count(g)' = IF g = f THEN b + 1 ELSE Count(g)
  <2>1. Count(g)' = IF g = f THEN Count(g) + 1 ELSE Count(g)
    BY <1>1, <1>2, <1>3, CountMoves
  <2>2. Count(f) = b
    BY <1>1, <1>2, CountHere
  <2> QED
    BY <2>1, <2>2
<1>4. AtEnd'
  <2>1. b' = b \/ f' = 0
    BY <1>1, <1>2 DEF NextAt
  <2>2. Blocks' = Blocks
    BY <1>1, SameWalks
  <2>3. b # Blocks
    BY <1>1, Place
  <2> QED
    BY <1>1, <2>1, <2>2, <2>3 DEF AtEnd
<1>5. DecodedInv'
  BY <1>1 DEF DecodedInv, Decoders
<1>6. Checked(op) /\ \A g \in Frames : g \notin bad => pos[g] = Start(g, Count(g))
  BY <1>1 DEF PosInv, GivenUp
<1>7. \A g \in Frames : g \notin bad => \A i \in 0 .. Count(g) - 1 : <<g, i, Start(g, i)>> \in found[op]
  BY <1>1 DEF FoundInv, GivenUp
<1>8. CASE f \in bad \/ ~WordInside \/ ~BlockInside
  <2>1. f \in bad' /\ pos' = pos /\ found' = found
    BY <1>8 DEF FindStart
  <2>2. ASSUME NEW g \in Frames, ~GivenUp(g)'
        PROVE  g \notin bad /\ g # f /\ Count(g)' = Count(g)
    BY <1>1, <1>3, <2>1, <2>2 DEF GivenUp
  <2>3. \A g \in Frames : ~GivenUp(g)' => pos'[g] = Start(g, Count(g)')
    BY <1>6, <2>1, <2>2
  <2>4. \A g \in Frames : ~GivenUp(g)' => \A i \in 0 .. Count(g)' - 1 : <<g, i, Start(g, i)>> \in found'[op]
    BY <1>7, <2>1, <2>2
  <2>5. \A o \in Ops : found'[o] \subseteq AllBlocks /\ found[o] \subseteq found'[o]
    BY <1>1, <2>1 DEF FoundInv
  <2> QED
    BY <1>1, <1>4, <1>5, <1>6, <2>3, <2>4, <2>5, WalkKeeps
<1>9. CASE ~(f \in bad \/ ~WordInside \/ ~BlockInside)
  <2>1. Locate /\ bad' = bad /\ f \notin bad
    BY <1>9 DEF FindStart
  <2>2. pos[f] = Start(f, b)
    BY <1>1, <1>2, <1>6, <2>1, CountHere
  <2>3. /\ pos'[f] = Start(f, b + 1) /\ \A g \in Frames : g # f => pos'[g] = pos[g]
        /\ <<f, b, Start(f, b)>> \in found'[op]
        /\ \A o \in Ops : found'[o] \subseteq AllBlocks /\ found[o] \subseteq found'[o]
    BY <1>1, <1>2, <2>1, <2>2, LocateWalks
  <2>4. \A g \in Frames : ~GivenUp(g)' => g \notin bad
    BY <1>1, <2>1 DEF GivenUp
  <2>5. \A g \in Frames : ~GivenUp(g)' => pos'[g] = Start(g, Count(g)')
    BY <1>3, <1>6, <2>3, <2>4
  <2>6. ASSUME NEW g \in Frames, ~GivenUp(g)', NEW i \in 0 .. Count(g)' - 1
        PROVE  <<g, i, Start(g, i)>> \in found'[op]
    <3>1. CASE i \in 0 .. Count(g) - 1
      BY <1>1, <1>7, <2>3, <2>4, <2>6, <3>1 DEF Ops
    <3>2. CASE i \notin 0 .. Count(g) - 1
      <4>1. Count(f) = b
        BY <1>1, <1>2, CountHere
      <4>2. g = f /\ i = b
        BY <1>2, <1>3, <2>6, <3>2, <4>1
      <4> QED
        BY <2>3, <4>2
    <3> QED
      BY <3>1, <3>2
  <2> QED
    BY <1>1, <1>4, <1>5, <1>6, <2>3, <2>5, <2>6, WalkKeeps
<1> QED
  BY <1>8, <1>9

\* block_starts accepts chunks that end with their raw bytes.
LEMMA FinishStartsWalks == ASSUME IInv, WalkInv, FinishStarts PROVE WalkInv'
<1>1. /\ chunk' = chunk /\ op' = op /\ op = "starts" /\ pc = "walk" /\ found' = found
      /\ b = Blocks /\ TypeOK /\ FoundInv /\ PosInv /\ Walking /\ AtEnd
      /\ bad' = bad \cup {g \in Frames : Untiled(g)}
      /\ Return(IF bad' = {} THEN "ok" ELSE "corrupt")
  BY DEF FinishStarts, IInv, Walking, WalkInv
<1>2. op \notin Decoders /\ f = 0
  BY <1>1 DEF Decoders, AtEnd
<1>3. \A o \in Ops : found'[o] \subseteq AllBlocks /\ found[o] \subseteq found'[o]
  BY <1>1 DEF FoundInv
<1>4. ASSUME bad' = {} PROVE Accepts(op) /\ AllBlocks \subseteq found'[op]
  <2>1. ASSUME NEW g \in Frames
        PROVE  Tiled(g) /\ \A i \in 0 .. Blocks - 1 : <<g, i, Start(g, i)>> \in found[op]
    <3>1. ~GivenUp(g) /\ ~Untiled(g)
      BY <1>1, <1>4 DEF GivenUp
    <3>2. Count(g) = Blocks
      <4>1. Upto(b) = Blocks /\ g \in Nat
        BY <1>1, Place DEF Upto, Frames
      <4> QED
        BY <1>1, <1>2, <4>1 DEF Count
    <3>3. pos[g] = Start(g, Blocks)
      BY <1>1, <3>1, <3>2 DEF PosInv
    <3>4. \A i \in 0 .. Blocks - 1 : <<g, i, Start(g, i)>> \in found[op]
      BY <1>1, <3>1, <3>2 DEF FoundInv
    <3> QED
      BY <3>1, <3>3, <3>4 DEF Untiled, Tiled
  <2>2. Checked(op)
    BY <1>1 DEF PosInv
  <2>3. AllBlocks \subseteq found[op]
    BY <1>1, <2>1, AllWereFound
  <2> QED
    BY <1>1, <2>1, <2>2, <2>3 DEF Accepts
<1> DEFINE rc == IF bad' = {} THEN "ok" ELSE "corrupt"
<1>5. Return(rc) /\ rc # "none" /\ (rc = "ok" => Accepts(op) /\ AllBlocks \subseteq found'[op])
  BY <1>1, <1>4
<1> HIDE DEF rc
<1> QED
  BY <1>1, <1>2, <1>3, <1>5, ReturnKeeps

\* The next entry point finds nothing of the walk before it.
LEMMA NextCallWalks == ASSUME IInv, WalkInv, NextCall PROVE WalkInv'
<1>1. /\ chunk' = chunk /\ found' = found /\ result' = result /\ pc' = "call" /\ pc = "returned"
      /\ op' = IF op = "starts" THEN "run" ELSE "decompress"
      /\ op \in {"starts", "run", "decompress"} /\ op # "decompress"
  BY Place DEF NextCall, IInv
<1>2. AtEnd' /\ PosInv' /\ DecodedInv' /\ AcceptedFramesAreWhole'
  BY <1>1 DEF AtEnd, PosInv, DecodedInv, AcceptedFramesAreWhole, Walking
<1>3. FoundInv'
  <2>1. AllBlocks' = AllBlocks
    BY <1>1, SameWalks
  <2> QED
    BY <1>1, <2>1 DEF WalkInv, FoundInv, Walking
<1>4. ResultInv'
  <2>1. /\ \A o : Accepts(o)' <=> Accepts(o)
        /\ \A g : Whole(g)' <=> Whole(g)
        /\ (Short' <=> Short) /\ (Ungrouped' <=> Ungrouped) /\ Full' = Full
        /\ \A o : (Declined(o)' <=> Declined(o))
    BY <1>1, SameWalks
  <2>2. op' = "decompress" => result'["run"] # "none"
    BY <1>1 DEF WalkInv, ResultInv
  <2>3. pc' # "returned"
    BY <1>1
  <2>4. /\ \A o \in Ops : result[o] = "ok" => Accepts(o)
        /\ \A o \in Decoders :
              /\ result[o] \notin {"none", "ok", "untranspose"} => ~Accepts(o)
              /\ result[o] = "corrupt" => Short \/ Declined(o) \/ \E g \in Frames : ~Whole(g)
              /\ result[o] = "untranspose" => o = "run" /\ Full > 0 /\ Ungrouped
    BY DEF WalkInv, ResultInv
  <2> QED
    BY <1>1, <2>1, <2>2, <2>3, <2>4 DEF ResultInv
<1> QED
  BY <1>2, <1>3, <1>4 DEF WalkInv

\* A step that changes nothing.
LEMMA StutterWalks == ASSUME IInv, WalkInv, UNCHANGED vars PROVE WalkInv'
<1>1. /\ chunk' = chunk /\ op' = op /\ pc' = pc /\ f' = f /\ b' = b /\ pos' = pos /\ bad' = bad
      /\ found' = found /\ filled' = filled /\ read' = read /\ result' = result
  BY DEF vars
<1>2. /\ \A o : (Accepts(o)' <=> Accepts(o)) /\ (Checked(o)' <=> Checked(o))
      /\ \A g : (Whole(g)' <=> Whole(g))
      /\ (Short' <=> Short) /\ (Ungrouped' <=> Ungrouped) /\ (Exact' <=> Exact)
      /\ \A o : (Declined(o)' <=> Declined(o))
  BY <1>1, SameWalks, SameExact
<1>3. /\ \A g, i : Start(g, i)' = Start(g, i)
      /\ AllBlocks' = AllBlocks /\ Full' = Full /\ Blocks' = Blocks /\ Raw' = Raw /\ Total' = Total
  BY <1>1, SameWalks
<1>4. \A g : /\ Count(g)' = Count(g) /\ (RawDone(g)' <=> RawDone(g)) /\ (GivenUp(g)' <=> GivenUp(g))
             /\ FilledTo(Count(g))' = FilledTo(Count(g)) /\ Start(g, Count(g))' = Start(g, Count(g))
  BY <1>1, SameWalks DEF Count, RawDone, GivenUp, Upto, FilledTo, Start
<1>5. AtEnd' /\ (Walking' <=> Walking)
  BY <1>1, <1>3 DEF WalkInv, AtEnd, Walking
<1>6. PosInv'
  BY <1>1, <1>2, <1>4, <1>5 DEF WalkInv, PosInv
<1>7. DecodedInv'
  BY <1>1, <1>2, <1>3, <1>4, <1>5 DEF WalkInv, DecodedInv
<1>8. FoundInv'
  BY <1>1, <1>3, <1>4, <1>5 DEF WalkInv, FoundInv
<1>9. ResultInv'
  BY <1>1, <1>2, <1>3 DEF WalkInv, ResultInv
<1>10. AcceptedFramesAreWhole'
  BY <1>1, <1>3, SameSizes DEF WalkInv, AcceptedFramesAreWhole
<1> QED
  BY <1>5, <1>6, <1>7, <1>8, <1>9, <1>10 DEF WalkInv

\* Nothing is walked before the first call.
LEMMA WalksInitially == Init => WalkInv
<1>1. SUFFICES ASSUME Init PROVE WalkInv
  OBVIOUS
<1>2. /\ pc = "call" /\ op = "starts" /\ found = [o \in Ops |-> {}] /\ result = [o \in Ops |-> "none"]
  BY <1>1 DEF Init
<1>3. AtEnd /\ PosInv /\ DecodedInv /\ AcceptedFramesAreWhole
  BY <1>2 DEF AtEnd, PosInv, DecodedInv, AcceptedFramesAreWhole, Walking
<1>4. FoundInv
  BY <1>2 DEF FoundInv, Walking
<1>5. ResultInv
  BY <1>2 DEF ResultInv, Decoders, Ops
<1> QED
  BY <1>3, <1>4, <1>5 DEF WalkInv

\* The invariant of the walks is inductive.
LEMMA WalksInductive == IInv /\ WalkInv /\ [Next]_vars => WalkInv'
<1>1. SUFFICES ASSUME IInv, WalkInv, [Next]_vars PROVE WalkInv'
  OBVIOUS
<1>2. IInv'
  BY <1>1, Inductive
<1>3. CASE UNCHANGED vars
  BY <1>1, <1>3, StutterWalks
<1>4. CASE Done
  BY <1>3, <1>4 DEF Done
<1> QED
  BY <1>1, <1>2, <1>3, <1>4, CheckWalks, CorruptWalks, DecodeBlockWalks, NoTailBlockWalks, CopyRawWalks,
     FinishWalks, FindStartWalks, FinishStartsWalks, NextCallWalks DEF Next

\* What the invariant says of the three entry points.
LEMMA WalksAgree == IInv /\ WalkInv => DecodersAgree /\ StartsAreTheBlocks
<1>1. SUFFICES ASSUME IInv, WalkInv PROVE DecodersAgree /\ StartsAreTheBlocks
  OBVIOUS
<1>2. TypeOK /\ ResultInv /\ FoundInv
  BY <1>1 DEF IInv, WalkInv
<1>3. DecodersAgree
  <2>1. SUFFICES ASSUME AllReturned, Total = FrameBytes
                 PROVE  /\ result["run"] = "ok" =>
                               (result["decompress"] = "ok" <=> ~(Unshuffle /\ Ungrouped))
                        /\ result["decompress"] = "ok" =>
                               result["run"] = "ok" \/ (Full > 0 /\ Ungrouped /\ result["run"] = "untranspose")
    BY DEF DecodersAgree
  <2>2. Accepts("decompress") <=> Accepts("run") /\ ~(Unshuffle /\ Ungrouped)
    BY <2>1 DEF Accepts, Checked, Declined
  <2>3. result["run"] # "none" /\ result["decompress"] # "none"
    BY <1>2, <2>1 DEF ResultInv, AllReturned
  <2>4. \A o \in Decoders : /\ result[o] = "ok" => Accepts(o)
                            /\ result[o] \notin {"none", "ok", "untranspose"} => ~Accepts(o)
                            /\ result[o] = "untranspose" => o = "run" /\ Full > 0 /\ Ungrouped
    BY <1>2 DEF ResultInv, Decoders, Ops
  <2>5. "run" \in Decoders /\ "decompress" \in Decoders
    BY DEF Decoders
  <2> QED
    BY <2>2, <2>3, <2>4, <2>5
<1>4. StartsAreTheBlocks
  <2>1. SUFFICES ASSUME result["starts"] = "ok", NEW o \in Decoders
                 PROVE  /\ found[o] \subseteq found["starts"]
                        /\ result[o] = "corrupt" => o = "decompress" /\ Unshuffle /\ Ungrouped
                        /\ result[o] = "ok" => found[o] = found["starts"]
    BY DEF StartsAreTheBlocks
  <2>2. "starts" \in Ops /\ o \in Ops
    BY DEF Ops, Decoders
  <2>3. found["starts"] = AllBlocks /\ Accepts("starts")
    BY <1>2, <2>1, <2>2 DEF FoundInv, ResultInv
  <2>4. found[o] \subseteq AllBlocks /\ (result[o] = "ok" => AllBlocks \subseteq found[o])
    BY <1>2, <2>2 DEF FoundInv
  <2>5. ~Short /\ \A g \in Frames : Tiled(g)
    BY <2>3 DEF Accepts, Checked
  <2>6. ASSUME NEW g \in Frames PROVE Whole(g)
    <3>1. chunk[g].len \in Nat
      BY <1>2, Lengths DEF TypeOK
    <3> QED
      BY <2>5, <3>1 DEF Tiled, Whole
  <2>7. result[o] = "corrupt" => o = "decompress" /\ Unshuffle /\ Ungrouped
    BY <1>2, <2>5, <2>6 DEF ResultInv, Declined
  <2> QED
    BY <2>3, <2>4, <2>7
<1> QED
  BY <1>3, <1>4

-----------------------------------------------------------------------------
\* The invariant of the walks holds in every state of every instance (driver.c).
THEOREM WalksCorrect == Spec => [](IInv /\ WalkInv)
<1>1. Init => IInv /\ WalkInv
  BY Initially, WalksInitially
<1>2. (IInv /\ WalkInv) /\ [Next]_vars => (IInv /\ WalkInv)'
  BY Inductive, WalksInductive
<1> QED
  BY <1>1, <1>2, PTL DEF Spec

\* run and decompress, which walk the chunks in different orders, accept the same chunks of the size the
\* caller expects, whatever the size words are; but for a header whose blocks are not whole groups of 8
\* pixels, which decompress refuses to unshuffle (bslz4_driver_run, bslz4_driver_decompress).
THEOREM TheDecodersAgree == Spec => []DecodersAgree
  BY WalksCorrect, WalksAgree, PTL

\* The blocks of chunks that block_starts accepts are where both decoders find them, and the decoders
\* then find a chunk corrupt only for such a block size (driver.c: "The walk is the decoders'").
THEOREM TheStartsAreTheBlocks == Spec => []StartsAreTheBlocks
  BY WalksCorrect, WalksAgree, PTL

\* A decoder that returns 0 has filled every frame exactly: full blocks, tail block and raw bytes add up
\* to the size in the header, in run if its blocks are whole pixels (bslz4_driver_run,
\* bslz4_driver_decompress).
THEOREM TheFramesAreWhole == Spec => []AcceptedFramesAreWhole
<1>1. WalkInv => AcceptedFramesAreWhole
  BY DEF WalkInv
<1> QED
  BY <1>1, WalksCorrect, PTL
=============================================================================
