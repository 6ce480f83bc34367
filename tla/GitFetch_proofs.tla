--------------------------- MODULE GitFetch_proofs ---------------------------
(***************************************************************************)
(* Proofs about GitFetch, for every listing, every pack and every way to   *)
(* cut the answer of the server into messages; and about PackObject, for   *)
(* every object, every delta and every place where they are cut off.       *)
(***************************************************************************)
EXTENDS GitFetch, PackObject, TLAPS,
        WellFoundedInduction, SequenceTheorems, FiniteSetTheorems

-----------------------------------------------------------------------------
(***************************************************************************)
(* Positions.                                                              *)
(***************************************************************************)

\* The flush, the NAK and the header stand next to each other.
LEMMA Fronts ==
    /\ FlushAt \in Nat \ {0}
    /\ NakAt = FlushAt + 1
    /\ HeaderAt = FlushAt + 2
BY ListingAssumption DEF FlushAt, NakAt, HeaderAt

\* The objects stand behind the header, one after the other, each with at least
\* one piece, and the checksum behind all of them.
LEMMA Places ==
    /\ Objects \in Nat \ {0}
    /\ ChecksumAt \in Nat
    /\ HeaderAt < ChecksumAt
    /\ \A i \in 1..Objects :
          /\ ObjectAt[i] \in Nat /\ ObjectAt[i + 1] \in Nat
          /\ HeaderAt < ObjectAt[i]
          /\ Pieces(i) \in Nat \ {0}
          /\ ObjectAt[i + 1] = ObjectAt[i] + Pieces(i) + 1
          /\ ObjectAt[i] + Pieces(i) < ChecksumAt
<1>1. Objects \in Nat \ {0} /\ ObjectAt \in [1..Objects + 1 -> Nat]
  BY PackAssumption
<1>2. ObjectAt[1] = HeaderAt + 1 /\ HeaderAt \in Nat
  BY PackAssumption, Fronts
<1>3. \A i, j \in 1..Objects + 1 : i < j => ObjectAt[i] + 1 < ObjectAt[j]
  BY PackAssumption
<1>4. ASSUME NEW i \in 1..Objects
      PROVE  /\ ObjectAt[i] \in Nat /\ ObjectAt[i + 1] \in Nat
             /\ HeaderAt < ObjectAt[i]
             /\ Pieces(i) \in Nat \ {0}
             /\ ObjectAt[i + 1] = ObjectAt[i] + Pieces(i) + 1
             /\ ObjectAt[i] + Pieces(i) < ChecksumAt
  <2>1. i \in 1..Objects + 1 /\ i + 1 \in 1..Objects + 1 /\ 1 \in 1..Objects + 1
    BY <1>1
  <2>2. ObjectAt[i] \in Nat /\ ObjectAt[i + 1] \in Nat
    BY <1>1, <2>1
  <2>3. HeaderAt < ObjectAt[i]
    BY <1>1, <1>2, <1>3, <2>1, <2>2
  <2>4. ObjectAt[i] + 1 < ObjectAt[i + 1]
    BY <1>3, <2>1
  <2>5. ObjectAt[i + 1] <= ChecksumAt
    <3>1. CASE i = Objects
      BY <3>1, <2>2 DEF ChecksumAt
    <3>2. CASE i # Objects
      <4>1. i + 1 < Objects + 1 /\ Objects + 1 \in 1..Objects + 1
        BY <1>1, <3>2
      <4>2. ObjectAt[i + 1] + 1 < ObjectAt[Objects + 1]
        BY <1>3, <2>1, <4>1
      <4>3. ObjectAt[Objects + 1] \in Nat
        BY <1>1
      <4>4. QED BY <2>2, <4>2, <4>3 DEF ChecksumAt
    <3>3. QED BY <3>1, <3>2
  <2>6. ChecksumAt \in Nat
    BY <1>1 DEF ChecksumAt
  <2>7. QED BY <2>2, <2>3, <2>4, <2>5, <2>6 DEF Pieces
<1>5. ChecksumAt \in Nat
  BY <1>1 DEF ChecksumAt
<1>6. HeaderAt < ChecksumAt
  BY <1>1, <1>2, <1>4, <1>5
<1>7. QED BY <1>1, <1>4, <1>5, <1>6

\* No two headers of objects stand at one place.
LEMMA OneObjectAt ==
    ASSUME NEW i \in 1..Objects, NEW j \in 1..Objects, ObjectAt[i] = ObjectAt[j]
    PROVE  i = j
<1>1. i \in 1..Objects + 1 /\ j \in 1..Objects + 1 /\ i \in Nat /\ j \in Nat
  BY PackAssumption
<1>2. ObjectAt[i] \in Nat /\ ObjectAt[j] \in Nat
  BY Places
<1>3. ~(i < j) /\ ~(j < i)
  BY <1>1, <1>2, PackAssumption
<1>4. QED BY <1>1, <1>3

-----------------------------------------------------------------------------
(***************************************************************************)
(* What a parser is given: the buffer, or the buffer and a message.        *)
(***************************************************************************)

Input(input) ==
    /\ input \in Seq(Nat)
    /\ Len(input) > 0
    /\ received' \in Nat
    /\ Len(input) <= received'
    /\ received' - Len(input) = Parsed
    /\ \A j \in 1..Len(input) : input[j] = received' - Len(input) + j
    /\ pc = "list" => received' <= FlushAt
    /\ headerCut' \in BOOLEAN
    /\ headerCut => headerCut'
    /\ received' = HeaderAt => headerCut'
    /\ mode' = mode

\* The first unit is the one behind what has been parsed.
LEMMA FirstUnit ==
    ASSUME NEW input, Input(input), FetchTypes, Contiguous
    PROVE  /\ input[1] = Parsed + 1
           /\ Parsed \in Nat
           /\ Parsed + Len(input) = received'
<1>1. /\ input \in Seq(Nat) /\ Len(input) \in Nat \ {0} /\ received' \in Nat
      /\ received' - Len(input) = Parsed
      /\ Len(input) <= received'
      /\ \A j \in 1..Len(input) : input[j] = received' - Len(input) + j
  BY DEF Input
<1>2. input[1] = received' - Len(input) + 1
  BY <1>1
<1>3. QED BY <1>1, <1>2

\* What a parser leaves of its input is again what came last.
LEMMA TakeKeeps ==
    ASSUME NEW input, Input(input), FetchTypes, Contiguous,
           NEW n \in 0..Len(input), Take(input, n)
    PROVE  /\ buffer' \in Seq(Nat)
           /\ Contiguous'
           /\ Parsed' = Parsed + n
           /\ waiting' = FALSE
<1>1. buffer' = SubSeq(input, n + 1, Len(input)) /\ waiting' = FALSE
  BY DEF Take
<1>2. /\ input \in Seq(Nat) /\ Len(input) \in Nat /\ received' \in Nat
      /\ Len(input) <= received'
      /\ received' - Len(input) = Parsed
      /\ \A j \in 1..Len(input) : input[j] = received' - Len(input) + j
  BY DEF Input
<1>3. buffer' \in Seq(Nat) /\ Len(buffer') = Len(input) - n
  <2>1. n \in Nat /\ n <= Len(input)
    BY <1>2
  <2>2. CASE n = Len(input)
    <3>1. buffer' = << >>
      BY <1>1, <1>2, <2>2
    <3>2. QED BY <1>2, <2>2, <3>1
  <2>3. CASE n < Len(input)
    BY <1>1, <1>2, <2>1, <2>3
  <2>4. QED BY <1>2, <2>1, <2>2, <2>3
<1>4. \A j \in 1..Len(buffer') : buffer'[j] = input[n + j]
  BY <1>1, <1>2, <1>3
<1>5. ASSUME NEW j \in 1..Len(buffer')
      PROVE  buffer'[j] = received' - Len(buffer') + j
  <2>1. n + j \in 1..Len(input) /\ j \in Nat /\ n \in Nat
    BY <1>2, <1>3
  <2>2. buffer'[j] = input[n + j]
    BY <1>4
  <2>3. input[n + j] = received' - Len(input) + (n + j)
    BY <1>2, <2>1
  <2>4. Len(buffer') = Len(input) - n
    BY <1>3
  <2>5. QED BY <1>2, <2>1, <2>2, <2>3, <2>4
<1>6. Contiguous'
  BY <1>2, <1>3, <1>5 DEF Contiguous
<1>7. Parsed' = Parsed + n
  BY <1>2, <1>3 DEF Parsed
<1>8. QED BY <1>1, <1>3, <1>6, <1>7

\* As long as no message has ended behind the header, what comes next is what
\* the reader of the pack expects.
LEMMA NextFits ==
    ASSUME FetchTypes, Place, pc = "pack", ~headerCut, current # Junk,
           NEW input, input[1] = Parsed + 1
    PROVE  Fits(input)
<1>1. CASE ~header
  BY <1>1, Fronts DEF Place, Fits
<1>2. CASE header /\ current = 0
  <2>1. next + 1 \in 1..Objects /\ Parsed = ObjectAt[next + 1] - 1
    BY <1>2, Places DEF Place, FetchTypes, HeaderAgain
  <2>2. input[1] = ObjectAt[next + 1]
    BY <2>1, Places
  <2>3. QED BY <1>2, <2>1, <2>2 DEF Fits
<1>3. CASE header /\ current # 0
  <2>1. current \in 1..Objects /\ Parsed = ObjectAt[current] + fed /\ fed \in Nat
    BY <1>3, Places DEF Place, FetchTypes, Junk
  <2>2. QED BY <1>3, <2>1, Places DEF Fits
<1>4. QED BY <1>1, <1>2, <1>3 DEF FetchTypes

-----------------------------------------------------------------------------
(***************************************************************************)
(* The parsers.                                                            *)
(***************************************************************************)

\* A call starts with nothing received.
LEMMA InitFetch == Init => FetchInv
<1>1. SUFFICES ASSUME Init PROVE FetchInv
  OBVIOUS
<1>2. Objects \in Nat \ {0} /\ Junk = Objects + 1 /\ FlushAt \in Nat /\ HeaderAt = FlushAt + 2
  BY Fronts, Places DEF Junk
<1>3. FetchTypes
  <2>1. Flags
    BY <1>1 DEF Init, Flags
  <2>2. QED BY <1>1, <1>2, <2>1 DEF Init, FetchTypes
<1>4. Contiguous
  BY <1>1 DEF Init, Contiguous
<1>5. Place
  BY <1>1, <1>2 DEF Init, Place
<1>6. Cuts
  BY <1>1, <1>2 DEF Init, Cuts, CutDoesNotMatter
<1>7. QED BY <1>3, <1>4, <1>5, <1>6 DEF FetchInv

\* A line of the listing.
LEMMA LineKeeps ==
    ASSUME FetchInv, NEW input, Input(input), ReadLine(input)
    PROVE  FetchInv'
<1>1. FetchTypes /\ Contiguous /\ Place /\ Cuts
  BY DEF FetchInv
<1>2. /\ buffer' \in Seq(Nat) /\ Contiguous' /\ waiting' = FALSE
  <2>1. 1 \in 0..Len(input) /\ Take(input, 1)
    BY DEF Input, ReadLine
  <2>2. QED BY <1>1, <2>1, TakeKeeps
<1>3. pc = "list" /\ pc' \in {"list", "done"} /\ received' <= FlushAt /\ UNCHANGED packVars
  BY DEF ReadLine, Input
<1>4. FetchTypes'
  <2>1. Flags'
    BY <1>1, <1>2, <1>3 DEF FetchTypes, Flags, Input, packVars
  <2>2. QED BY <1>1, <1>2, <1>3, <2>1 DEF FetchTypes, Input, packVars
<1>5. Place'
  BY <1>1, <1>2, <1>3 DEF Place, packVars
<1>6. Cuts'
  BY <1>1, <1>2, <1>3, Fronts DEF Cuts, Place, packVars, Input, CutDoesNotMatter, Junk, FetchTypes
<1>7. QED BY <1>2, <1>4, <1>5, <1>6 DEF FetchInv

\* The flush.
LEMMA FlushKeeps ==
    ASSUME FetchInv, NEW input, Input(input), ReadFlush(input)
    PROVE  FetchInv'
<1>1. FetchTypes /\ Contiguous /\ Place /\ Cuts
  BY DEF FetchInv
<1>2. buffer' \in Seq(Nat) /\ Contiguous' /\ waiting' = FALSE /\ Parsed' = Parsed + 1
  <2>1. 1 \in 0..Len(input) /\ Take(input, 1)
    BY DEF Input, ReadFlush
  <2>2. QED BY <1>1, <2>1, TakeKeeps
<1>3. /\ pc = "list" /\ pc' \in {"pack", "done", "failed"} /\ input[1] = FlushAt
      /\ received' <= FlushAt /\ UNCHANGED packVars
  BY DEF ReadFlush, Input
<1>4. Parsed' = FlushAt
  BY <1>1, <1>2, <1>3, FirstUnit
<1>5. FetchTypes'
  <2>1. Flags'
    BY <1>1, <1>2, <1>3 DEF FetchTypes, Flags, Input, packVars
  <2>2. QED BY <1>1, <1>2, <1>3, <2>1 DEF FetchTypes, Input, packVars
<1>6. Place'
  BY <1>1, <1>2, <1>3, <1>4, Places DEF Place, packVars
<1>7. Cuts'
  BY <1>1, <1>2, <1>3, Fronts, Places
     DEF Cuts, Place, packVars, Input, CutDoesNotMatter, Junk, FetchTypes
<1>8. QED BY <1>2, <1>5, <1>6, <1>7 DEF FetchInv

\* The header of the pack, with or without the header of an object behind it.
LEMMA HeaderKeeps ==
    ASSUME FetchInv, NEW input, Input(input), ReadHeader(input)
    PROVE  FetchInv'
<1>1. FetchTypes /\ Contiguous /\ Place /\ Cuts
  BY DEF FetchInv
<1>2. /\ pc = "pack" /\ pc' = "pack" /\ ~header /\ fed' = fed /\ next' = next /\ index' = index
  BY DEF ReadHeader
<1>3. current = 0 /\ Parsed = FlushAt /\ next = 0 /\ fed = 0 /\ index = 1..next
  BY <1>1, <1>2 DEF Place
<1>4. /\ input \in Seq(Nat) /\ Len(input) \in Nat \ {0}
      /\ received' \in Nat /\ headerCut' \in BOOLEAN /\ mode' = mode
      /\ received' = HeaderAt => headerCut'
  BY DEF Input
<1>5. received' = FlushAt + Len(input)
  BY <1>1, <1>3, FirstUnit
<1>6. Objects \in Nat \ {0} /\ 1 \in 1..Objects /\ Junk = Objects + 1
  BY Places DEF Junk
<1>7. CASE Len(input) < 3 /\ Incomplete(input) /\ current' = current
      /\ header' \in BOOLEAN /\ (header' => Len(input) = 2)
  <2>1. buffer' = input /\ waiting' = TRUE /\ current' = 0
    BY <1>3, <1>7 DEF Incomplete
  <2>2. Contiguous'
    BY <2>1 DEF Contiguous, Input
  <2>3. Parsed' = FlushAt
    BY <1>3, <2>1 DEF Parsed, Input
  <2>4. header' => headerCut'
    BY <1>2, <1>4, <1>5, <1>7, Fronts
  <2>5. Flags'
    BY <1>1, <1>4, <1>7, <2>1 DEF FetchTypes, Flags
  <2>6. FetchTypes'
    BY <1>1, <1>2, <1>4, <1>6, <2>1, <2>5 DEF FetchTypes
  <2>7. Place'
    BY <1>2, <1>3, <1>6, <2>1, <2>3, <2>4 DEF Place, HeaderAgain
  <2>8. Cuts'
    BY <1>2, <1>4, <1>5, <1>6, <1>7, <2>1, Fronts DEF Cuts, CutDoesNotMatter
  <2>9. QED BY <2>2, <2>6, <2>7, <2>8 DEF FetchInv
<1>8. CASE Len(input) > 2 /\ header' = TRUE /\ Take(input, 3) /\ current' = 1
  <2>1. 3 \in 0..Len(input) /\ Take(input, 3)
    BY <1>4, <1>8
  <2>2. buffer' \in Seq(Nat) /\ Contiguous' /\ waiting' = FALSE /\ Parsed' = FlushAt + 3
    BY <1>1, <1>3, <2>1, TakeKeeps
  <2>3. ObjectAt[1] = FlushAt + 3 /\ Pieces(1) \in Nat
    BY <1>6, Fronts, Places, PackAssumption
  <2>4. FetchTypes'
    <3>1. Flags'
      BY <1>4, <1>8, <2>2 DEF Flags
    <3>2. QED BY <1>1, <1>2, <1>3, <1>4, <1>6, <1>8, <2>2, <3>1 DEF FetchTypes
  <2>5. Place'
    BY <1>2, <1>3, <1>6, <1>8, <2>2, <2>3, Fronts DEF Place
  <2>6. Cuts'
    BY <1>2, <1>4, <1>6, <1>8, <2>2 DEF Cuts, CutDoesNotMatter
  <2>7. QED BY <2>2, <2>4, <2>5, <2>6 DEF FetchInv
<1>9. CASE Len(input) = 1 /\ Incomplete(input) /\ UNCHANGED <<header, current>>
  <2>1. Len(input) < 3 /\ current' = current /\ header' \in BOOLEAN /\ ~header'
    BY <1>1, <1>2, <1>9 DEF FetchTypes, Flags
  <2>2. QED BY <1>7, <1>9, <2>1
<1>10. CASE Len(input) = 2 /\ header' = TRUE /\ Incomplete(input) /\ UNCHANGED current
  <2>1. Len(input) < 3 /\ current' = current /\ header' \in BOOLEAN
    BY <1>10
  <2>2. QED BY <1>7, <1>10, <2>1
<1>11. QED BY <1>8, <1>9, <1>10 DEF ReadHeader

\* The header of an object, or the NAK taken for one.
LEMMA ObjectHeaderKeeps ==
    ASSUME FetchInv, NEW input, Input(input), ReadObjectHeader(input)
    PROVE  FetchInv'
<1>1. FetchTypes /\ Contiguous /\ Place /\ Cuts
  BY DEF FetchInv
<1>2. /\ pc = "pack" /\ pc' = "pack" /\ header /\ header' /\ current = 0
      /\ fed' = fed /\ next' = next /\ index' = index
  BY DEF ReadObjectHeader
<1>3. /\ fed = 0 /\ next < Objects /\ next \in 0..Objects /\ index = 1..next
      /\ Parsed = ObjectAt[next + 1] - 1 \/ (Parsed = FlushAt /\ headerCut)
  <2>1. next \in 0..Objects
    BY <1>1 DEF FetchTypes
  <2>2. fed = 0 /\ next < Objects /\ index = 1..next
    BY <1>1, <1>2 DEF Place
  <2>3. Parsed = ObjectAt[next + 1] - 1 \/ (Parsed = FlushAt /\ headerCut)
    <3>1. Parsed = ObjectAt[next + 1] - 1 \/ HeaderAgain
      BY <1>1, <1>2 DEF Place
    <3>2. QED BY <3>1 DEF HeaderAgain
  <2>4. QED BY <2>1, <2>2, <2>3
<1>4. /\ input \in Seq(Nat) /\ Len(input) \in Nat \ {0}
      /\ received' \in Nat /\ headerCut' \in BOOLEAN /\ mode' = mode
      /\ received' = HeaderAt => headerCut'
      /\ headerCut => headerCut'
  BY DEF Input
<1>5. input[1] = Parsed + 1 /\ Parsed \in Nat
  BY <1>1, FirstUnit
<1>6. Objects \in Nat \ {0} /\ next + 1 \in 1..Objects /\ Junk = Objects + 1
  BY <1>3, Places DEF Junk
<1>7. ObjectAt[next + 1] \in Nat /\ HeaderAt < ObjectAt[next + 1]
  BY <1>6, Places
<1>8. ASSUME NEW i \in 1..Objects, input[1] = ObjectAt[i], current' = i, Take(input, 1)
      PROVE  FetchInv'
  <2>1. 1 \in 0..Len(input)
    BY <1>4
  <2>2. buffer' \in Seq(Nat) /\ Contiguous' /\ waiting' = FALSE /\ Parsed' = Parsed + 1
    BY <1>1, <1>8, <2>1, TakeKeeps
  <2>3. ObjectAt[i] \in Nat /\ HeaderAt < ObjectAt[i] /\ Pieces(i) \in Nat
    BY Places
  <2>4. ObjectAt[i] = ObjectAt[next + 1]
    BY <1>3, <1>5, <1>7, <1>8, <2>3, Fronts
  <2>5. i = next + 1
    BY <1>6, <2>4, OneObjectAt
  <2>6. FetchTypes'
    <3>1. Flags'
      BY <1>1, <1>2, <1>4, <2>2 DEF Flags, FetchTypes
    <3>2. QED BY <1>1, <1>2, <1>3, <1>4, <1>6, <1>8, <2>2, <3>1 DEF FetchTypes
  <2>7. Parsed' = ObjectAt[i] + 0
    BY <1>5, <1>8, <2>2, <2>3
  <2>8. Place'
    BY <1>2, <1>3, <1>6, <1>8, <2>2, <2>3, <2>5, <2>7 DEF Place
  <2>9. Cuts'
    BY <1>2, <1>4, <1>6, <1>8, <2>2 DEF Cuts, CutDoesNotMatter
  <2>10. QED BY <2>2, <2>6, <2>8, <2>9 DEF FetchInv
<1>9. CASE input[1] = NakAt /\ current' = Junk /\ Take(input, 0)
  <2>1. 0 \in 0..Len(input)
    BY <1>4
  <2>2. buffer' \in Seq(Nat) /\ Contiguous' /\ waiting' = FALSE
    BY <1>1, <1>9, <2>1, TakeKeeps
  <2>3. headerCut'
    BY <1>3, <1>4, <1>5, <1>7, <1>9, Fronts
  <2>4. FetchTypes'
    <3>1. Flags'
      BY <1>1, <1>2, <1>4, <2>2 DEF Flags, FetchTypes
    <3>2. QED BY <1>1, <1>2, <1>3, <1>4, <1>6, <1>9, <2>2, <3>1 DEF FetchTypes
  <2>5. Place'
    BY <1>2, <1>3, <1>6, <1>9, <2>2 DEF Place
  <2>6. Cuts'
    BY <1>2, <2>2, <2>3 DEF Cuts, CutDoesNotMatter
  <2>7. QED BY <2>2, <2>4, <2>5, <2>6 DEF FetchInv
<1>10. QED BY <1>8, <1>9 DEF ReadObjectHeader

\* Pieces of an object, and perhaps the end of its stream.
LEMMA InflateKeeps ==
    ASSUME FetchInv, NEW input, Input(input), Inflate(input)
    PROVE  FetchInv'
<1>1. FetchTypes /\ Contiguous /\ Place /\ Cuts
  BY DEF FetchInv
<1>2. pc = "pack" /\ header /\ header' /\ current \in 1..Objects
  BY DEF Inflate
<1>3. PICK n \in 0..Len(input) :
          /\ fed + n <= Pieces(current)
          /\ Take(input, n)
          /\ \/ fed' = fed + n /\ UNCHANGED <<pc, current, next, index>>
             \/ /\ fed + n = Pieces(current)
                /\ index' = index \cup {current}
                /\ next' = next + 1
                /\ current' = 0
                /\ fed' = 0
                /\ pc' = IF next' = Objects THEN "flush" ELSE pc
  BY DEF Inflate
<1>4. /\ next < Objects /\ next \in 0..Objects /\ fed \in Nat /\ index = 1..next
      /\ current = next + 1
      /\ Parsed = ObjectAt[current] + fed
  <2>1. next \in 0..Objects /\ fed \in Nat
    BY <1>1 DEF FetchTypes
  <2>2. QED BY <1>1, <1>2, <2>1 DEF Place
<1>5. /\ input \in Seq(Nat) /\ Len(input) \in Nat
      /\ received' \in Nat /\ headerCut' \in BOOLEAN /\ mode' = mode
      /\ received' = HeaderAt => headerCut'
  BY DEF Input
<1>6. buffer' \in Seq(Nat) /\ Contiguous' /\ waiting' = FALSE /\ Parsed' = Parsed + n
  BY <1>1, <1>3, TakeKeeps
<1>7. /\ Objects \in Nat \ {0} /\ Junk = Objects + 1
      /\ ObjectAt[current] \in Nat /\ Pieces(current) \in Nat \ {0}
      /\ ObjectAt[current + 1] = ObjectAt[current] + Pieces(current) + 1
  BY <1>2, Places DEF Junk
<1>8. Flags'
  <2>1. header' \in BOOLEAN
    BY <1>1 DEF Inflate, FetchTypes, Flags
  <2>2. QED BY <1>5, <1>6, <2>1 DEF Flags
<1>9. CASE fed' = fed + n /\ UNCHANGED <<pc, current, next, index>>
  <2>1. FetchTypes'
    BY <1>1, <1>3, <1>4, <1>5, <1>6, <1>8, <1>9 DEF FetchTypes
  <2>2. Parsed' = ObjectAt[current] + (fed + n)
    BY <1>3, <1>4, <1>6, <1>7
  <2>3. Place'
    BY <1>2, <1>3, <1>4, <1>6, <1>7, <1>9, <2>2 DEF Place
  <2>4. Cuts'
    BY <1>2, <1>5, <1>6, <1>7, <1>9 DEF Cuts, CutDoesNotMatter
  <2>5. QED BY <1>6, <2>1, <2>3, <2>4 DEF FetchInv
<1>10. CASE /\ fed + n = Pieces(current)
            /\ index' = index \cup {current}
            /\ next' = next + 1
            /\ current' = 0
            /\ fed' = 0
            /\ pc' = IF next' = Objects THEN "flush" ELSE pc
  <2>1. FetchTypes'
    BY <1>1, <1>2, <1>4, <1>5, <1>6, <1>7, <1>8, <1>10 DEF FetchTypes
  <2>2. index' = 1..next'
    BY <1>4, <1>10
  <2>3. Parsed' = ObjectAt[next' + 1] - 1
    <3>1. next' + 1 = current + 1
      BY <1>4, <1>10
    <3>2. Parsed' = ObjectAt[current] + Pieces(current)
      BY <1>3, <1>4, <1>6, <1>7, <1>10
    <3>3. Parsed' = ObjectAt[current + 1] - 1
      BY <1>7, <3>2
    <3>4. QED BY <3>1, <3>3
  <2>4. pc' = "flush" \/ (pc' = "pack" /\ next' < Objects)
    BY <1>2, <1>4, <1>7, <1>10
  <2>5. Place'
    BY <1>2, <1>10, <2>2, <2>3, <2>4 DEF Place
  <2>6. Cuts'
    BY <1>2, <1>5, <1>6, <1>7, <1>10 DEF Cuts, CutDoesNotMatter
  <2>7. QED BY <1>6, <2>1, <2>5, <2>6 DEF FetchInv
<1>11. QED BY <1>3, <1>9, <1>10

\* What does not fit is given up, and only a cut behind the header leads there.
LEMMA ParseErrorKeeps ==
    ASSUME FetchInv, NEW input, Input(input), ParseError(input)
    PROVE  FetchInv'
<1>1. FetchTypes /\ Contiguous /\ Place /\ Cuts
  BY DEF FetchInv
<1>2. pc = "pack" /\ ~Fits(input) /\ pc' = "failed" /\ UNCHANGED packVars
  BY DEF ParseError
<1>3. /\ input \in Seq(Nat) /\ Len(input) \in Nat \ {0}
      /\ received' \in Nat /\ headerCut' \in BOOLEAN /\ mode' = mode
      /\ headerCut => headerCut'
  BY DEF Input
<1>4. buffer' \in Seq(Nat) /\ Contiguous' /\ waiting' = FALSE
  <2>1. Len(input) \in 0..Len(input) /\ Take(input, Len(input))
    BY <1>3 DEF ParseError
  <2>2. QED BY <1>1, <2>1, TakeKeeps
<1>5. headerCut
  <2>1. SUFFICES ASSUME ~headerCut PROVE FALSE
    OBVIOUS
  <2>2. current # Junk
    BY <1>1, <2>1 DEF Cuts
  <2>3. Fits(input)
    BY <1>1, <1>2, <2>1, <2>2, FirstUnit, NextFits
  <2>4. QED BY <1>2, <2>3
<1>6. headerCut'
  BY <1>3, <1>5
<1>7. FetchTypes'
  <2>1. Flags'
    BY <1>1, <1>2, <1>3, <1>4 DEF FetchTypes, Flags, packVars
  <2>2. QED BY <1>1, <1>2, <1>3, <1>4, <2>1 DEF FetchTypes, packVars
<1>8. Place'
  BY <1>1, <1>2 DEF Place, packVars
<1>9. Cuts'
  BY <1>2, <1>4, <1>6 DEF Cuts, CutDoesNotMatter
<1>10. QED BY <1>4, <1>7, <1>8, <1>9 DEF FetchInv

\* Whatever the parsers make of their input, the invariant holds behind it.
LEMMA ParseKeeps ==
    ASSUME FetchInv, NEW input, Input(input), Parse(input)
    PROVE  FetchInv'
BY LineKeeps, FlushKeeps, HeaderKeeps, ObjectHeaderKeeps, InflateKeeps, ParseErrorKeeps DEF Parse

-----------------------------------------------------------------------------
(***************************************************************************)
(* The channel.                                                            *)
(***************************************************************************)

\* What is in the buffer is an input of the parsers.
LEMMA BufferedInput ==
    ASSUME FetchInv, ReadBuffered
    PROVE  Input(buffer) /\ Parse(buffer)
<1>1. FetchTypes /\ Contiguous /\ Place /\ Cuts
  BY DEF FetchInv
<1>2. /\ buffer # <<>> /\ Parse(buffer)
      /\ received' = received /\ headerCut' = headerCut /\ mode' = mode
  BY DEF ReadBuffered, callVars
<1>3. buffer \in Seq(Nat) /\ received \in Nat /\ headerCut \in BOOLEAN
  BY <1>1 DEF FetchTypes, Flags
<1>4. Len(buffer) \in Nat \ {0}
  BY <1>2, <1>3
<1>5. Input(buffer)
  <2>1. /\ Len(buffer) <= received'
        /\ \A j \in 1..Len(buffer) : buffer[j] = received' - Len(buffer) + j
        /\ received' - Len(buffer) = Parsed
    BY <1>1, <1>2 DEF Contiguous, Parsed
  <2>2. pc = "list" => received' <= FlushAt
    BY <1>1, <1>2 DEF Place
  <2>3. headerCut' \in BOOLEAN /\ (headerCut => headerCut')
    BY <1>2, <1>3
  <2>4. received' = HeaderAt => headerCut'
    BY <1>1, <1>2 DEF Cuts
  <2>5. QED BY <1>2, <1>3, <1>4, <2>1, <2>2, <2>3, <2>4 DEF Input
<1>6. QED BY <1>2, <1>5

\* A message behind what is in the buffer is an input of the parsers too.
LEMMA ReceivedInput ==
    ASSUME FetchInv, Receive
    PROVE  \E input : Input(input) /\ Parse(input)
<1>1. FetchTypes /\ Contiguous /\ Place /\ Cuts
  BY DEF FetchInv
<1>2. PICK n \in 1..Sent - received :
          /\ received' = received + n
          /\ headerCut' = (headerCut \/ received' = HeaderAt)
          /\ Parse(Extended(n))
  BY DEF Receive
<1>3. mode' = mode
  BY DEF Receive, callVars
<1>4. buffer \in Seq(Nat) /\ received \in Nat /\ headerCut \in BOOLEAN /\ Len(buffer) \in Nat
  BY <1>1 DEF FetchTypes, Flags
<1>5. Sent \in Nat /\ (pc = "list" => Sent = FlushAt)
  BY Fronts, Places DEF Sent
<1>6. n \in Nat \ {0} /\ received' \in Nat /\ received' <= Sent
  BY <1>2, <1>4, <1>5
<1>7. Message(n) \in Seq(Nat) /\ Len(Message(n)) = n
  BY <1>4, <1>6 DEF Message
<1>8. Extended(n) \in Seq(Nat) /\ Len(Extended(n)) = Len(buffer) + n
  BY <1>4, <1>6, <1>7 DEF Extended
<1>9. Len(buffer) <= received /\ Parsed = received - Len(buffer)
  BY <1>1 DEF Contiguous, Parsed
<1>10. ASSUME NEW j \in 1..Len(Extended(n))
       PROVE  Extended(n)[j] = received' - Len(Extended(n)) + j
  <2>1. CASE j <= Len(buffer)
    <3>1. Extended(n)[j] = buffer[j] /\ j \in 1..Len(buffer)
      BY <1>4, <1>6, <1>7, <1>8, <2>1 DEF Extended
    <3>2. buffer[j] = received - Len(buffer) + j
      BY <1>1, <3>1 DEF Contiguous
    <3>3. QED BY <1>2, <1>4, <1>6, <1>8, <3>1, <3>2
  <2>2. CASE j > Len(buffer)
    <3>1. j - Len(buffer) \in 1..n
      BY <1>4, <1>6, <1>8, <2>2
    <3>2. Extended(n)[j] = Message(n)[j - Len(buffer)]
      BY <1>4, <1>6, <1>7, <1>8, <2>2 DEF Extended
    <3>3. Message(n)[j - Len(buffer)] = received + (j - Len(buffer))
      BY <3>1 DEF Message
    <3>4. QED BY <1>2, <1>4, <1>6, <1>8, <3>2, <3>3
  <2>3. QED BY <1>4, <1>8, <2>1, <2>2
<1>11. Input(Extended(n))
  <2>1. received' - Len(Extended(n)) = Parsed /\ Len(Extended(n)) <= received'
    BY <1>2, <1>4, <1>6, <1>8, <1>9
  <2>2. headerCut' \in BOOLEAN /\ (headerCut => headerCut')
    BY <1>2, <1>4
  <2>3. received' = HeaderAt => headerCut'
    BY <1>2
  <2>4. Len(Extended(n)) > 0
    BY <1>4, <1>6, <1>8
  <2>5. QED BY <1>3, <1>5, <1>6, <1>8, <1>10, <2>1, <2>2, <2>3, <2>4 DEF Input
<1>12. QED BY <1>2, <1>11

\* The end of the channel is noticed only when all that has come is parsed.
LEMMA EndKeeps ==
    ASSUME FetchInv, EndOfChannel
    PROVE  FetchInv'
<1>1. FetchTypes /\ Contiguous /\ Place /\ Cuts
  BY DEF FetchInv
<1>2. /\ UNCHANGED <<callVars, received, channel, buffer, waiting, listVars, packVars, headerCut>>
      /\ pc \in {"list", "pack"} /\ (waiting \/ buffer = <<>>)
      /\ pc' \in {"done", "failed", "flush"}
      /\ pc' = "failed" => channel = "error"
  BY DEF EndOfChannel, Waits, Reading
<1>3. received \in Nat /\ Len(buffer) \in Nat /\ headerCut \in BOOLEAN
  BY <1>1 DEF FetchTypes, Flags
<1>4. ASSUME received = ChecksumAt PROVE headerCut
  <2>1. SUFFICES ASSUME ~headerCut PROVE FALSE
    OBVIOUS
  <2>2. pc = "pack"
    BY <1>1, <1>2, <1>4, Fronts, Places DEF Place
  <2>3. ~waiting /\ current # Junk
    BY <1>1, <1>4, <2>1, Fronts, Places DEF Cuts
  <2>4. Parsed = ChecksumAt
    BY <1>2, <1>3, <1>4, <2>3 DEF Parsed
  <2>5. next \in 0..Objects /\ current \in 0..Junk /\ fed \in Nat
    BY <1>1 DEF FetchTypes
  <2>6. CASE ~header
    BY <1>1, <2>2, <2>4, <2>6, Fronts, Places DEF Place
  <2>7. CASE header /\ current = 0
    <3>1. next + 1 \in 1..Objects /\ Parsed = ObjectAt[next + 1] - 1
      BY <1>1, <2>1, <2>2, <2>5, <2>7, Places DEF Place, HeaderAgain
    <3>2. QED BY <2>4, <3>1, Places
  <2>8. CASE header /\ current # 0
    <3>1. current \in 1..Objects
      BY <2>3, <2>5, <2>8, Places DEF Junk
    <3>2. fed <= Pieces(current) /\ Parsed = ObjectAt[current] + fed
      BY <1>1, <2>2, <3>1 DEF Place
    <3>3. QED BY <2>4, <2>5, <3>1, <3>2, Places
  <2>9. QED BY <2>6, <2>7, <2>8
<1>5. FetchTypes'
  <2>1. Flags'
    BY <1>1, <1>2 DEF FetchTypes, Flags, packVars
  <2>2. QED BY <1>1, <1>2, <2>1 DEF FetchTypes, packVars, callVars
<1>6. Contiguous'
  BY <1>1, <1>2 DEF Contiguous
<1>7. Place'
  BY <1>1, <1>2 DEF Place, packVars
<1>8. Cuts'
  BY <1>1, <1>2, <1>4 DEF Cuts, CutDoesNotMatter, packVars, Junk
<1>9. QED BY <1>5, <1>6, <1>7, <1>8 DEF FetchInv

\* The number of objects is compared.
LEMMA CountKeeps ==
    ASSUME FetchInv, Flush
    PROVE  FetchInv'
<1>1. FetchTypes /\ Contiguous /\ Place /\ Cuts
  BY DEF FetchInv
<1>2. /\ UNCHANGED <<callVars, received, channel, buffer, waiting, listVars, packVars, headerCut>>
      /\ pc = "flush" /\ (pc' = IF AllObjects THEN "extract" ELSE "failed")
  BY DEF Flush
<1>3. FetchTypes'
  <2>1. Flags'
    BY <1>1, <1>2 DEF FetchTypes, Flags, packVars
  <2>2. QED BY <1>1, <1>2, <2>1 DEF FetchTypes, packVars, callVars
<1>4. Contiguous'
  BY <1>1, <1>2 DEF Contiguous
<1>5. Place'
  BY <1>1, <1>2 DEF Place, packVars
<1>6. AllObjects' <=> AllObjects
  BY <1>2 DEF AllObjects, packVars
<1>7. ~AllObjects => next # Objects
  BY DEF AllObjects
<1>8. Cuts'
  BY <1>1, <1>2, <1>6, <1>7 DEF Cuts, CutDoesNotMatter, packVars, Junk
<1>9. QED BY <1>3, <1>4, <1>5, <1>8 DEF FetchInv

\* The server closes the channel, or nothing happens.
LEMMA RestKeeps ==
    ASSUME FetchInv, Close \/ UNCHANGED vars
    PROVE  FetchInv'
<1>1. FetchTypes /\ Contiguous /\ Place /\ Cuts
  BY DEF FetchInv
<1>2. /\ UNCHANGED <<mode, pc, received, buffer, waiting, packVars, headerCut>>
      /\ channel' # "error" => channel # "error"
  BY DEF Close, vars, callVars, packVars
<1>3. FetchTypes'
  <2>1. Flags'
    BY <1>1, <1>2 DEF FetchTypes, Flags, packVars
  <2>2. QED BY <1>1, <1>2, <2>1 DEF FetchTypes, packVars
<1>4. Contiguous'
  BY <1>1, <1>2 DEF Contiguous
<1>5. Place'
  BY <1>1, <1>2 DEF Place, packVars, HeaderAgain, Parsed
<1>6. AllObjects' <=> AllObjects
  BY <1>2 DEF AllObjects, packVars
<1>7. Cuts'
  BY <1>1, <1>2, <1>6 DEF Cuts, CutDoesNotMatter, packVars, Junk
<1>8. QED BY <1>3, <1>4, <1>5, <1>7 DEF FetchInv

-----------------------------------------------------------------------------
(***************************************************************************)
(* The revisions.                                                          *)
(***************************************************************************)

\* No line has been read, and nothing is returned.
LEMMA ReturnsNone ==
    ASSUME revisions = <<>>
    PROVE  Returns(AtHead(0))
<1> DEFINE at == [i \in {} |-> i]
<1>1. DOMAIN revisions = {} /\ AtHead(0) = {}
  BY DEF AtHead
<1>2. at \in Bijection({}, {})
  BY DEF Bijection, Injection, Surjection, IsInjective
<1>3. QED BY <1>1, <1>2 DEF Returns

\* A further line is returned behind the others if it is a branch at HEAD.
LEMMA ReturnsMore ==
    ASSUME NEW S, revisions \in Seq(S), NEW p \in 1..Len(Listing), Listing[p] \in S,
           Returns(AtHead(p - 1)),
           revisions' = IF p \in AtHead(p) THEN Append(revisions, Listing[p]) ELSE revisions
    PROVE  Returns(AtHead(p))'
<1> DEFINE n == Len(revisions)
<1>1. /\ Len(Listing) \in Nat /\ p \in Nat /\ n \in Nat
      /\ DOMAIN revisions = 1..n
  BY ListingAssumption
<1>2. AtHead(p) = AtHead(p - 1) \cup {i \in {p} : i \in AtHead(p)}
  <2>1. 1..p = (1..p - 1) \cup {p}
    BY <1>1
  <2>2. QED BY <2>1 DEF AtHead
<1>3. \A i \in AtHead(p - 1) : i \in Nat /\ i < p
  BY <1>1 DEF AtHead
<1>4. PICK at \in Bijection(DOMAIN revisions, AtHead(p - 1)) :
        /\ \A i, j \in DOMAIN revisions : i < j => at[i] < at[j]
        /\ \A i \in DOMAIN revisions : revisions[i] = Listing[at[i]]
  BY DEF Returns
<1>5. /\ at \in [1..n -> AtHead(p - 1)]
      /\ \A i, j \in 1..n : at[i] = at[j] => i = j
      /\ \A k \in AtHead(p - 1) : \E i \in 1..n : at[i] = k
  BY <1>1, <1>4 DEF Bijection, Injection, Surjection, IsInjective
<1>6. CASE p \notin AtHead(p)
  <2>1. AtHead(p) = AtHead(p - 1) /\ revisions' = revisions
    BY <1>2, <1>6
  <2>2. QED BY <2>1 DEF Returns
<1>7. CASE p \in AtHead(p)
  <2> DEFINE more == [i \in 1..n + 1 |-> IF i = n + 1 THEN p ELSE at[i]]
  <2>1. AtHead(p) = AtHead(p - 1) \cup {p}
    BY <1>2, <1>7
  <2>2. /\ DOMAIN revisions' = 1..n + 1
        /\ revisions'[n + 1] = Listing[p]
        /\ \A i \in 1..n : revisions'[i] = revisions[i]
    BY <1>1, <1>7
  <2>3. 1..n + 1 = (1..n) \cup {n + 1} /\ n + 1 \notin 1..n
    BY <1>1
  <2>4. more \in [1..n + 1 -> AtHead(p)]
    BY <1>5, <2>1, <2>3
  <2>5. more[n + 1] = p /\ \A i \in 1..n : more[i] = at[i] /\ at[i] \in AtHead(p - 1)
    BY <1>5, <2>3
  <2> HIDE DEF more
  <2>6. \A i, j \in 1..n + 1 : i < j => more[i] < more[j]
    <3>1. ASSUME NEW i \in 1..n + 1, NEW j \in 1..n + 1, i < j PROVE more[i] < more[j]
      <4>1. i \in 1..n
        BY <1>1, <3>1
      <4>2. CASE j = n + 1
        BY <1>3, <2>5, <4>1, <4>2
      <4>3. CASE j # n + 1
        <5>1. j \in 1..n
          BY <2>3, <4>3
        <5>2. QED BY <1>1, <1>4, <2>5, <3>1, <4>1, <5>1
      <4>4. QED BY <4>2, <4>3
    <3>2. QED BY <3>1
  <2>7. \A i, j \in 1..n + 1 : more[i] = more[j] => i = j
    <3>1. \A i \in 1..n : more[i] # p
      BY <1>3, <2>5
    <3>2. QED BY <1>5, <2>3, <2>5, <3>1
  <2>8. \A k \in AtHead(p) : \E i \in 1..n + 1 : more[i] = k
    BY <1>5, <2>1, <2>3, <2>5
  <2>9. more \in Bijection(1..n + 1, AtHead(p))
    BY <2>4, <2>7, <2>8 DEF Bijection, Injection, Surjection, IsInjective
  <2>10. \A i \in 1..n + 1 : revisions'[i] = Listing[more[i]]
    BY <1>1, <1>4, <2>2, <2>3, <2>5
  <2>11. QED BY <2>2, <2>6, <2>9, <2>10 DEF Returns
<1>8. QED BY <1>6, <1>7

\* What the listing is made of.
LEMMA Lines ==
    ASSUME NEW p \in 1..Len(Listing)
    PROVE  /\ Len(Listing) \in Nat /\ p \in Nat \ {0}
           /\ Listing[p] \in [ref : Ref, hash : Hash]
           /\ Listing[p].ref \in Ref /\ Listing[p].hash \in Hash
           /\ ListsHead /\ p # 1 => Listing[p].ref # HeadRef
<1>1. PICK S : S = [ref : Ref, hash : Hash]
  OBVIOUS
<1>2. /\ Len(Listing) \in Nat /\ DOMAIN Listing = 1..Len(Listing)
      /\ Listing[p] \in [ref : Ref, hash : Hash]
  <2>1. Listing \in Seq(S)
    BY <1>1, ListingAssumption
  <2>2. /\ Len(Listing) \in Nat /\ DOMAIN Listing = 1..Len(Listing)
        /\ Listing[p] \in S
    BY <2>1
  <2>3. QED BY <1>1, <2>2
<1>3. Listing[p].ref \in Ref /\ Listing[p].hash \in Hash
  BY <1>2
<1>4. ASSUME ListsHead, p # 1 PROVE Listing[p].ref # HeadRef
  <2>1. 1 \in DOMAIN Listing /\ p \in DOMAIN Listing
    BY <1>2
  <2>2. QED BY <1>4, <2>1, ListingAssumption DEF ListsHead
<1>5. QED BY <1>2, <1>3, <1>4

\* A line is read.
LEMMA LineReturns ==
    ASSUME FetchInv, LatestInv, NEW input, Input(input), ReadLine(input)
    PROVE  LatestInv'
<1>0. PICK p : p = Parsed + 1
  OBVIOUS
<1> DEFINE line == Listing[p]
<1>1. FetchTypes /\ Contiguous
  BY DEF FetchInv
<1>2. input[1] = p /\ Parsed \in Nat
  BY <1>0, <1>1, FirstUnit
<1>3. p \in 1..Len(Listing) /\ p - 1 = Parsed
  BY <1>0, <1>2, Fronts, ListingAssumption DEF ReadLine, FlushAt
<1>4. Parsed' = p
  <2>1. 1 \in 0..Len(input) /\ Take(input, 1)
    BY DEF Input, ReadLine
  <2>2. QED BY <1>0, <1>1, <2>1, TakeKeeps
<1>5. /\ pc = "list" /\ mode' = mode
      /\ head' = IF line.ref = HeadRef THEN line.hash ELSE head
      /\ \/ /\ mode = "latest"
            /\ pc' = IF TooMany THEN "done" ELSE pc
            /\ revisions' = IF Passes(line) /\ ~TooMany
                            THEN Append(revisions, line) ELSE revisions
         \/ mode = "clone" /\ pc' = pc /\ revisions' = revisions
  BY <1>2 DEF ReadLine, Input
<1>6. line \in [ref : Ref, hash : Hash] /\ line.hash \in Hash
  BY <1>3, Lines
<1>7. revisions' \in Seq([ref : Ref, hash : Hash])
  <2>1. PICK S : S = [ref : Ref, hash : Hash]
    OBVIOUS
  <2>2. revisions \in Seq(S) /\ line \in S
    BY <1>6, <2>1 DEF LatestInv
  <2>3. revisions' \in Seq(S)
    BY <1>5, <2>2
  <2>4. QED BY <2>1, <2>3
<1>8. ASSUME ListsHead PROVE head' = Listing[1].hash
  <2>1. CASE p = 1
    BY <1>5, <1>8, <2>1 DEF ListsHead
  <2>2. CASE p # 1
    BY <1>2, <1>3, <1>5, <1>8, <2>2, Lines DEF LatestInv
  <2>3. QED BY <2>1, <2>2
<1>9. ASSUME ListsHead PROVE Passes(line) <=> p \in AtHead(p)
  <2>1. CASE p = 1
    BY <1>2, <1>8, <1>9, <2>1, RefAssumption DEF ListsHead, Passes, AtHead
  <2>2. CASE p # 1
    <3>1. head = Listing[1].hash
      BY <1>0, <1>2, <1>5, <1>9, <2>2 DEF LatestInv
    <3>2. QED BY <1>3, <3>1 DEF Passes, AtHead
  <2>3. QED BY <2>1, <2>2
<1>10. ASSUME mode = "latest", ListsHead, ~TooMany PROVE Returns(AtHead(p))'
  <2>1. Returns(AtHead(p - 1))
    BY <1>3, <1>5, <1>10 DEF LatestInv
  <2>2. revisions' = IF p \in AtHead(p) THEN Append(revisions, Listing[p]) ELSE revisions
    BY <1>5, <1>9, <1>10
  <2>3. QED BY <1>3, <1>6, <2>1, <2>2, ReturnsMore DEF LatestInv
<1>11. ASSUME mode = "latest", ListsHead, TooMany PROVE LatestAreBranchesAtHead'
  <2>1. revisions' = revisions /\ Returns(AtHead(Parsed))
    BY <1>5, <1>11 DEF LatestInv
  <2>2. Returns(AtHead(p - 1))' /\ TooMany'
    BY <1>3, <1>11, <2>1 DEF Returns, TooMany
  <2>3. p - 1 \in 0..Len(Listing)
    BY <1>2, <1>3
  <2>4. QED BY <2>2, <2>3 DEF LatestAreBranchesAtHead
<1>12. pc' = "done" => mode = "latest" /\ TooMany
  BY <1>5
<1>13. QED
  BY <1>2, <1>3, <1>4, <1>5, <1>7, <1>8, <1>10, <1>11, <1>12 DEF LatestInv, LatestAreBranchesAtHead

\* The end of the listing.
LEMMA FlushReturns ==
    ASSUME FetchInv, LatestInv, NEW input, Input(input), ReadFlush(input)
    PROVE  LatestInv'
<1>1. FetchTypes /\ Contiguous
  BY DEF FetchInv
<1>2. input[1] = Parsed + 1 /\ Parsed \in Nat /\ input[1] = FlushAt /\ pc = "list"
  BY <1>1, FirstUnit DEF ReadFlush
<1>3. Parsed = Len(Listing) /\ Len(Listing) \in Nat
  BY <1>2, ListingAssumption DEF FlushAt
<1>4. /\ revisions' = revisions /\ pc' \in {"done", "pack", "failed"}
      /\ pc' = "done" => mode = "latest"
  BY <1>1 DEF ReadFlush, listVars, FetchTypes
<1>5. mode = "latest" /\ ListsHead => Returns(AtHead(Len(Listing)))'
  BY <1>2, <1>3, <1>4 DEF LatestInv, Returns
<1>6. LatestAreBranchesAtHead'
  <2>1. Len(Listing) \in 0..Len(Listing)
    BY <1>3
  <2>2. QED BY <1>4, <1>5, <2>1 DEF LatestAreBranchesAtHead
<1>7. QED BY <1>4, <1>6 DEF LatestInv

\* Steps behind the listing, and those that leave what is returned alone.
LEMMA RestReturns ==
    ASSUME LatestInv, revisions' = revisions, pc' # "list",
           pc' = "done" => pc = "done" /\ (channel # "open" => channel' # "open")
    PROVE  LatestInv'
<1>1. \A lines : Returns(lines)' <=> Returns(lines)
  BY DEF Returns
<1>2. TooMany' = TooMany
  BY DEF TooMany
<1>3. LatestAreBranchesAtHead'
  BY <1>1, <1>2 DEF LatestInv, LatestAreBranchesAtHead
<1>4. QED BY <1>3 DEF LatestInv

LEMMA SameReturns ==
    ASSUME LatestInv, UNCHANGED <<pc, mode, received, buffer, listVars>>,
           channel # "open" => channel' # "open"
    PROVE  LatestInv'
<1>1. UNCHANGED <<revisions, head>>
  BY DEF listVars
<1>2. \A lines : Returns(lines)' <=> Returns(lines)
  BY <1>1 DEF Returns
<1>3. TooMany' = TooMany /\ Parsed' = Parsed
  BY <1>1 DEF TooMany, Parsed
<1>4. LatestAreBranchesAtHead'
  BY <1>2, <1>3 DEF LatestInv, LatestAreBranchesAtHead
<1>5. QED BY <1>1, <1>2, <1>3, <1>4 DEF LatestInv

LEMMA ParseReturns ==
    ASSUME FetchInv, LatestInv, NEW input, Input(input), Parse(input)
    PROVE  LatestInv'
<1>1. CASE ReadHeader(input) \/ ReadObjectHeader(input) \/ Inflate(input) \/ ParseError(input)
  <2>1. revisions' = revisions /\ pc' \in {"pack", "flush", "failed"}
    BY <1>1 DEF ReadHeader, ReadObjectHeader, Inflate, ParseError, listVars
  <2>2. QED BY <2>1, RestReturns
<1>2. QED BY <1>1, LineReturns, FlushReturns DEF Parse

\* The channel ends while lines are still to come.
LEMMA EndReturns ==
    ASSUME FetchInv, LatestInv, EndOfChannel
    PROVE  LatestInv'
<1>1. /\ UNCHANGED <<mode, received, channel, buffer, revisions, head>>
      /\ channel # "open" /\ pc' \in {"done", "failed", "flush"}
      /\ pc' = "done" => pc = "list" /\ mode = "latest"
  BY DEF EndOfChannel, listVars, callVars
<1>2. Parsed \in Nat
  <2>1. received \in Nat /\ Len(buffer) \in Nat /\ Len(buffer) <= received
    BY DEF FetchInv, FetchTypes, Contiguous
  <2>2. QED BY <2>1 DEF Parsed
<1>3. ASSUME pc' = "done", ListsHead PROVE LatestAreBranchesAtHead'
  <2>0. PICK n : n = Parsed
    OBVIOUS
  <2>1. Returns(AtHead(n))' /\ n \in 0..Len(Listing)
    BY <1>1, <1>2, <1>3, <2>0, ListingAssumption DEF LatestInv, Returns
  <2>2. QED BY <1>1, <2>1 DEF LatestAreBranchesAtHead
<1>4. QED BY <1>1, <1>3 DEF LatestInv, LatestAreBranchesAtHead

LEMMA NextReturns == FetchInv /\ LatestInv /\ [Next]_vars => LatestInv'
<1> SUFFICES ASSUME FetchInv, LatestInv, [Next]_vars PROVE LatestInv'
  OBVIOUS
<1>1. CASE ReadBuffered
  BY <1>1, BufferedInput, ParseReturns
<1>2. CASE Receive
  BY <1>2, ReceivedInput, ParseReturns
<1>3. CASE EndOfChannel
  BY <1>3, EndReturns
<1>4. CASE Flush
  BY <1>4, RestReturns DEF Flush, listVars
<1>5. CASE Close \/ UNCHANGED vars
  <2>1. UNCHANGED <<pc, mode, received, buffer, listVars>> /\ (channel # "open" => channel' # "open")
    BY <1>5 DEF Close, vars, callVars, listVars
  <2>2. QED BY <2>1, SameReturns
<1>6. QED BY <1>1, <1>2, <1>3, <1>4, <1>5 DEF Next, Client

-----------------------------------------------------------------------------
(***************************************************************************)
(* The theorems about GitFetch.                                            *)
(***************************************************************************)

\* The reader stands where the parsed part of the answer ends, and the buffer
\* holds the rest of what has come.
THEOREM FetchInvariant == Spec => []FetchInv
<1>1. Init => FetchInv
  BY InitFetch
<1>2. FetchInv /\ [Next]_vars => FetchInv'
  BY BufferedInput, ReceivedInput, ParseKeeps, EndKeeps, CountKeeps, RestKeeps DEF Next, Client
<1>3. QED BY <1>1, <1>2, PTL DEF Spec

\* The buffer keeps every unit in its turn, and the reader of the pack is given
\* what it expects, unless a message has ended behind the header.
THEOREM NothingIsLost == Spec => []NothingLost
<1>1. FetchInv => NothingLost
  <2>1. SUFFICES ASSUME FetchInv PROVE NothingLost
    OBVIOUS
  <2>2. FetchTypes /\ Contiguous /\ Place /\ Cuts
    BY <2>1 DEF FetchInv
  <2>3. ASSUME pc = "pack", buffer # <<>>, ~headerCut PROVE Fits(buffer)
    <3>1. buffer \in Seq(Nat) /\ Len(buffer) \in Nat \ {0} /\ received \in Nat
      BY <2>2, <2>3 DEF FetchTypes
    <3>2. buffer[1] = Parsed + 1
      BY <2>2, <3>1 DEF Contiguous, Parsed
    <3>3. current # Junk
      BY <2>2, <2>3 DEF Cuts
    <3>4. QED BY <2>2, <2>3, <3>2, <3>3, NextFits
  <2>4. QED BY <2>2, <2>3 DEF NothingLost, Contiguous
<1>2. QED BY <1>1, FetchInvariant, PTL

\* git_clone goes on to extract with all objects of a pack or without any.
THEOREM FetchCompletes == Spec => []FetchIsComplete
<1>1. FetchInv => FetchIsComplete
  BY Places DEF FetchInv, FetchTypes, Flags, Place, Cuts, AllObjects, FetchIsComplete
<1>2. QED BY <1>1, FetchInvariant, PTL

\* The clone of a pack that has come in full fails only when a message has ended
\* behind the header of the pack.
THEOREM CutsDoNotMatter == Spec => []CutDoesNotMatter
<1>1. FetchInv => CutDoesNotMatter
  BY DEF FetchInv, Cuts
<1>2. QED BY <1>1, FetchInvariant, PTL

\* git_list_latest returns the branches at the commit of HEAD, each once and in
\* the order of the listing: all of them, or those before the limit or the end
\* of the channel.  However the listing is cut into messages.
THEOREM LatestAreAtHead == Spec => []LatestAreBranchesAtHead
<1>1. Init => LatestInv
  <2>1. SUFFICES ASSUME Init PROVE LatestInv
    OBVIOUS
  <2>2. pc = "list" /\ revisions = <<>> /\ head = NoHash /\ received = 0 /\ buffer = <<>>
    BY <2>1 DEF Init
  <2>3. Len(Listing) \in Nat
    BY ListingAssumption
  <2>4. Parsed = 0
    <3>1. Len(buffer) = 0
      BY <2>2
    <3>2. \A a, b \in Nat : a = b => a - b = 0
      OBVIOUS
    <3>3. QED BY <2>2, <3>1, <3>2 DEF Parsed
  <2>5. QED BY <2>2, <2>3, <2>4, ReturnsNone DEF LatestInv, LatestAreBranchesAtHead
<1>2. LatestInv => LatestAreBranchesAtHead
  BY DEF LatestInv
<1>3. QED BY <1>1, <1>2, NextReturns, FetchInvariant, PTL DEF Spec

-----------------------------------------------------------------------------
(***************************************************************************)
(* Numbers and recursive functions.                                        *)
(***************************************************************************)

\* What holds of 0, and of the successor of each number it holds of, holds of all.
LEMMA Induct ==
    ASSUME NEW S, 0 \in S, \A n \in Nat : n \in S => n + 1 \in S
    PROVE  Nat \subseteq S
<1> DEFINE T == Nat \ S
           R == OpToRel(<, Nat)
<1>1. SUFFICES ASSUME T # {} PROVE FALSE
  OBVIOUS
<1>2. IsWellFoundedOn(R, Nat)
  BY NatLessThanWellFounded
<1>3. \A a, b \in Nat : a < b => <<a, b>> \in R
  BY DEF OpToRel
<1>4. T \subseteq Nat
  OBVIOUS
<1> HIDE DEF R, T
<1>5. PICK m \in T : \A k \in T : ~(<<k, m>> \in R)
  BY <1>1, <1>2, <1>4, WFMin
<1>6. m \in Nat /\ m \notin S
  BY DEF T
<1>7. PICK k \in Nat : m = k + 1
  <2>1. m # 0
    BY <1>6
  <2>2. m - 1 \in Nat /\ m = (m - 1) + 1
    BY <1>6, <2>1
  <2>3. QED BY <2>2
<1>8. k \in S
  <2>1. <<k, m>> \in R
    BY <1>3, <1>6, <1>7
  <2>2. k \notin T
    BY <1>5, <2>1
  <2>3. QED BY <2>2 DEF T
<1>9. QED BY <1>6, <1>7, <1>8

\* A function on the numbers that is given step by step.
Steps(T) == [Nat -> [T -> T]]
Follows(f, T, x, step) ==
    /\ f \in [Nat -> T]
    /\ f[0] = x
    /\ \A n \in Nat : f[n + 1] = step[n][f[n]]

\* There is one.
LEMMA Recursion ==
    ASSUME NEW T, NEW x \in T, NEW step \in Steps(T)
    PROVE  \E f : Follows(f, T, x, step)
<1> USE DEF Steps
<1> DEFINE Begins(f, n) == f[0] = x /\ \A i \in 0..n - 1 : f[i + 1] = step[i][f[i]]
<1>1. \A n \in Nat : \E f \in [0..n -> T] : Begins(f, n)
  <2> DEFINE S == {n \in Nat : \E f \in [0..n -> T] : Begins(f, n)}
  <2>1. 0 \in S
    <3>1. [i \in 0..0 |-> x] \in [0..0 -> T] /\ Begins([i \in 0..0 |-> x], 0)
      OBVIOUS
    <3>2. QED BY <3>1
  <2>2. ASSUME NEW n \in Nat, n \in S PROVE n + 1 \in S
    <3>1. PICK f \in [0..n -> T] : Begins(f, n)
      BY <2>2
    <3> DEFINE g == [i \in 0..n + 1 |-> IF i = n + 1 THEN step[n][f[n]] ELSE f[i]]
    <3>2. f[n] \in T /\ step[n][f[n]] \in T
      OBVIOUS
    <3>3. g \in [0..n + 1 -> T]
      BY <3>2
    <3>4. ASSUME NEW i \in 0..n PROVE g[i + 1] = step[i][g[i]]
      <4>1. g[i] = f[i]
        OBVIOUS
      <4>2. CASE i = n
        BY <4>1, <4>2
      <4>3. CASE i # n
        <5>1. i \in 0..n - 1 /\ i + 1 \in 0..n + 1 /\ i + 1 # n + 1
          BY <4>3
        <5>2. g[i + 1] = f[i + 1]
          BY <5>1
        <5>3. QED BY <3>1, <4>1, <5>1, <5>2
      <4>4. QED BY <4>2, <4>3
    <3>5. g[0] = x
      BY <3>1
    <3>6. Begins(g, n + 1)
      <4> HIDE DEF g
      <4>1. \A i \in 0..(n + 1) - 1 : g[i + 1] = step[i][g[i]]
        BY <3>4
      <4>2. QED BY <3>5, <4>1
    <3> HIDE DEF g, Begins
    <3>7. n + 1 \in Nat
      OBVIOUS
    <3>8. QED BY <3>3, <3>6, <3>7
  <2> HIDE DEF Begins
  <2>3. Nat \subseteq S
    <3> HIDE DEF S
    <3>1. QED BY <2>1, <2>2, Induct
  <2>4. QED BY <2>3
<1>2. ASSUME NEW m \in Nat, NEW n \in Nat, NEW f, NEW g, Begins(f, m), Begins(g, n)
      PROVE  \A k \in Nat : k <= m /\ k <= n => f[k] = g[k]
  <2> DEFINE S == {k \in Nat : k <= m /\ k <= n => f[k] = g[k]}
  <2>1. 0 \in S
    BY <1>2
  <2>2. ASSUME NEW k \in Nat, k \in S PROVE k + 1 \in S
    <3>1. ASSUME k + 1 <= m, k + 1 <= n PROVE f[k + 1] = g[k + 1]
      <4>1. k \in 0..m - 1 /\ k \in 0..n - 1 /\ f[k] = g[k]
        BY <2>2, <3>1
      <4>2. QED BY <1>2, <4>1
    <3>2. QED BY <3>1
  <2>3. Nat \subseteq S
    <3> HIDE DEF S
    <3>1. QED BY <2>1, <2>2, Induct
  <2>4. QED BY <2>3
<1> DEFINE upTo(n) == CHOOSE f \in [0..n -> T] : Begins(f, n)
           h == [n \in Nat |-> upTo(n)[n]]
<1>3. ASSUME NEW n \in Nat
      PROVE  upTo(n) \in [0..n -> T] /\ Begins(upTo(n), n)
  BY <1>1
<1> HIDE DEF Begins, upTo
<1>4. h \in [Nat -> T]
  BY <1>3
<1>5. h[0] = x
  <2>1. Begins(upTo(0), 0)
    BY <1>3
  <2>2. upTo(0)[0] = x
    BY <2>1 DEF Begins
  <2>3. QED BY <2>2
<1>6. ASSUME NEW n \in Nat PROVE h[n + 1] = step[n][h[n]]
  <2>1. Begins(upTo(n), n) /\ Begins(upTo(n + 1), n + 1)
    BY <1>3
  <2>2. upTo(n + 1)[n + 1] = step[n][upTo(n + 1)[n]]
    <3>1. n \in 0..(n + 1) - 1
      OBVIOUS
    <3>2. QED BY <2>1, <3>1 DEF Begins
  <2>3. upTo(n + 1)[n] = upTo(n)[n]
    BY <1>2, <2>1
  <2>4. QED BY <2>2, <2>3
<1>7. QED BY <1>4, <1>5, <1>6 DEF Follows

-----------------------------------------------------------------------------
(***************************************************************************)
(* How git writes a number, and what the parsers make of its bytes.        *)
(***************************************************************************)

\* The equation of VarCode, whose values are bytes.
LEMMA VarCodes ==
    /\ VarCode \in [Nat -> Seq(Byte)]
    /\ \A n \in Nat : VarCode[n] = IF n < 128 THEN <<n>>
                                   ELSE <<128 + (n % 128)>> \o VarCode[n \div 128]
<1> DEFINE T == [Nat -> Seq(Byte)]
           Code(g, n) == IF n < 128 THEN <<n>> ELSE <<128 + (n % 128)>> \o g[n \div 128]
           longer(g) == [n \in Nat |-> Code(g, n)]
           step == [k \in Nat |-> [g \in T |-> longer(g)]]
           none == [n \in Nat |-> <<>>]
<1>1. \A n \in Nat : n \div 128 \in Nat /\ (n % 128) \in 0..127 /\ (n >= 128 => n \div 128 < n)
  OBVIOUS
<1>2. none \in T
  OBVIOUS
<1>3. ASSUME NEW g \in T PROVE longer(g) \in T
  <2>1. ASSUME NEW n \in Nat PROVE Code(g, n) \in Seq(Byte)
    <3>1. CASE n < 128
      <4>1. n \in Byte
        BY <3>1 DEF Byte
      <4>2. QED BY <3>1, <4>1
    <3>2. CASE ~(n < 128)
      <4>1. 128 + (n % 128) \in Byte
        BY <1>1 DEF Byte
      <4>2. g[n \div 128] \in Seq(Byte)
        BY <1>1
      <4>3. QED BY <3>2, <4>1, <4>2
    <3>3. QED BY <3>1, <3>2
  <2> HIDE DEF Code
  <2>2. QED BY <2>1
<1>4. step \in [Nat -> [T -> T]]
  <2> HIDE DEF T, longer
  <2>1. QED BY <1>3
<1> HIDE DEF longer
<1>5. PICK h \in [Nat -> T] : h[0] = none /\ \A k \in Nat : h[k + 1] = longer(h[k])
  <2> HIDE DEF T, none
  <2>1. PICK h \in [Nat -> T] : h[0] = none /\ \A k \in Nat : h[k + 1] = step[k][h[k]]
    <3>1. step \in Steps(T)
      BY <1>4 DEF Steps
    <3> HIDE DEF step
    <3>2. \E h : Follows(h, T, none, step)
      BY <1>2, <3>1, Recursion
    <3>3. QED BY <3>2 DEF Follows
  <2>2. \A k \in Nat : step[k][h[k]] = longer(h[k])
    OBVIOUS
  <2>3. QED BY <2>1, <2>2
<1>6. \A k \in Nat : \A n \in Nat : n < k => h[k][n] = h[k + 1][n]
  <2> DEFINE S == {k \in Nat : \A n \in Nat : n < k => h[k][n] = h[k + 1][n]}
  <2>1. 0 \in S
    OBVIOUS
  <2>2. ASSUME NEW k \in Nat, k \in S PROVE k + 1 \in S
    <3>1. ASSUME NEW n \in Nat, n < k + 1 PROVE h[k + 1][n] = h[k + 2][n]
      <4>1. h[k + 1] = longer(h[k]) /\ h[k + 2] = longer(h[k + 1])
        <5>1. k + 1 \in Nat /\ (k + 1) + 1 = k + 2
          OBVIOUS
        <5>2. QED BY <1>5, <5>1
      <4>2. h[k + 1][n] = Code(h[k], n) /\ h[k + 2][n] = Code(h[k + 1], n)
        BY <4>1 DEF longer
      <4>3. n >= 128 => h[k][n \div 128] = h[k + 1][n \div 128]
        <5>1. ASSUME n >= 128 PROVE n \div 128 \in Nat /\ n \div 128 < k
          BY <1>1, <3>1, <5>1
        <5>2. QED BY <2>2, <5>1
      <4>4. QED BY <4>2, <4>3
    <3>2. k + 1 \in Nat /\ (k + 1) + 1 = k + 2
      OBVIOUS
    <3>3. QED BY <3>1, <3>2
  <2>3. Nat \subseteq S
    <3> HIDE DEF S
    <3>1. QED BY <2>1, <2>2, Induct
  <2>4. QED BY <2>3
<1>7. \A n \in Nat : \A k \in Nat : n < k => h[k][n] = h[n + 1][n]
  <2> SUFFICES ASSUME NEW n \in Nat PROVE \A k \in Nat : n < k => h[k][n] = h[n + 1][n]
    OBVIOUS
  <2> DEFINE S == {k \in Nat : n < k => h[k][n] = h[n + 1][n]}
  <2>1. 0 \in S
    OBVIOUS
  <2>2. ASSUME NEW k \in Nat, k \in S PROVE k + 1 \in S
    <3>1. CASE n < k
      BY <1>6, <2>2, <3>1
    <3>2. CASE n = k
      BY <3>2
    <3>3. CASE k < n
      BY <3>3
    <3>4. QED BY <3>1, <3>2, <3>3
  <2>3. Nat \subseteq S
    <3> HIDE DEF S
    <3>1. QED BY <2>1, <2>2, Induct
  <2>4. QED BY <2>3
<1> DEFINE f == [n \in Nat |-> h[n + 1][n]]
<1>8. ASSUME NEW n \in Nat PROVE f[n] = Code(f, n)
  <2>1. h[n + 1][n] = Code(h[n], n)
    <3>1. h[n + 1] = longer(h[n])
      BY <1>5
    <3>2. longer(h[n])[n] = Code(h[n], n)
      <4> HIDE DEF Code
      <4>1. QED BY DEF longer
    <3>3. QED BY <3>1, <3>2
  <2>2. n >= 128 => h[n][n \div 128] = h[(n \div 128) + 1][n \div 128]
    BY <1>1, <1>7
  <2>3. n >= 128 => f[n \div 128] = h[(n \div 128) + 1][n \div 128]
    BY <1>1
  <2>4. f[n] = h[n + 1][n]
    OBVIOUS
  <2> HIDE DEF f
  <2>5. CASE n < 128
    BY <2>1, <2>4, <2>5
  <2>6. CASE ~(n < 128)
    <3>1. h[n][n \div 128] = f[n \div 128]
      BY <2>2, <2>3, <2>6
    <3>2. QED BY <2>1, <2>4, <2>6, <3>1
  <2>7. QED BY <2>5, <2>6
<1>9. f \in T
  OBVIOUS
<1>10. f = [n \in Nat |-> Code(f, n)]
  <2> HIDE DEF Code
  <2>1. QED BY <1>8
<1> HIDE DEF f
<1>11. VarCode = [n \in Nat |-> Code(VarCode, n)]
  BY <1>10 DEF VarCode
<1>12. \A n \in Nat : VarCode[n] = Code(VarCode, n)
  <2> HIDE DEF Code
  <2>1. QED BY <1>11
<1>13. \A n \in Nat : VarCode[n] = f[n]
  <2> DEFINE S == {k \in Nat : \A n \in Nat : n < k => VarCode[n] = f[n]}
  <2>1. 0 \in S
    OBVIOUS
  <2>2. ASSUME NEW k \in Nat, k \in S PROVE k + 1 \in S
    <3>1. ASSUME NEW n \in Nat, n < k + 1 PROVE VarCode[n] = f[n]
      <4>1. VarCode[n] = Code(VarCode, n) /\ f[n] = Code(f, n)
        BY <1>8, <1>12
      <4>2. n >= 128 => VarCode[n \div 128] = f[n \div 128]
        <5>1. ASSUME n >= 128 PROVE n \div 128 \in Nat /\ n \div 128 < k
          BY <1>1, <3>1, <5>1
        <5>2. QED BY <2>2, <5>1
      <4>3. QED BY <4>1, <4>2
    <3>2. QED BY <3>1
  <2>3. Nat \subseteq S
    <3> HIDE DEF S
    <3>1. QED BY <2>1, <2>2, Induct
  <2>4. ASSUME NEW n \in Nat PROVE VarCode[n] = f[n]
    <3>1. n + 1 \in Nat /\ n < n + 1
      OBVIOUS
    <3>2. n + 1 \in S
      BY <2>3, <3>1
    <3>3. QED BY <3>1, <3>2
  <2>5. QED BY <2>4
<1>14. VarCode \in T
  <2>1. VarCode = [n \in Nat |-> f[n]]
    <3> HIDE DEF Code
    <3>1. QED BY <1>11, <1>13
  <2>2. QED BY <1>9, <2>1
<1>15. QED BY <1>12, <1>14

\* The same up to a bound.
FollowsTo(f, n, T, x, step) ==
    /\ f \in [0..n -> T]
    /\ f[0] = x
    /\ \A k \in 1..n : f[k] = step[k - 1][f[k - 1]]

\* There is one of these, too.
LEMMA BoundedRecursion ==
    ASSUME NEW T, NEW x \in T, NEW step \in Steps(T), NEW n \in Nat
    PROVE  \E f : FollowsTo(f, n, T, x, step)
<1>1. PICK h : Follows(h, T, x, step)
  BY Recursion
<1> DEFINE f == [k \in 0..n |-> h[k]]
<1>2. f \in [0..n -> T] /\ f[0] = x
  BY <1>1 DEF Follows
<1>3. ASSUME NEW k \in 1..n PROVE f[k] = step[k - 1][f[k - 1]]
  <2>1. k \in 0..n /\ k - 1 \in 0..n /\ k - 1 \in Nat /\ (k - 1) + 1 = k
    OBVIOUS
  <2>2. h[k] = step[k - 1][h[k - 1]]
    BY <1>1, <2>1 DEF Follows
  <2>3. f[k] = h[k] /\ f[k - 1] = h[k - 1]
    BY <2>1
  <2>4. QED BY <2>2, <2>3
<1> HIDE DEF f
<1>4. QED BY <1>2, <1>3 DEF FollowsTo

\* A function whose values follow from each other keeps to their set.
LEMMA BoundedType ==
    ASSUME NEW T, NEW n \in Nat, NEW f, f[0] \in T,
           \A k \in 1..n : f[k - 1] \in T => f[k] \in T
    PROVE  \A k \in 0..n : f[k] \in T
<1> DEFINE S == {k \in Nat : k <= n => f[k] \in T}
<1>1. 0 \in S
  OBVIOUS
<1>2. ASSUME NEW k \in Nat, k \in S PROVE k + 1 \in S
  <2>1. ASSUME k + 1 <= n PROVE f[k + 1] \in T
    <3>1. k + 1 \in 1..n /\ (k + 1) - 1 = k /\ k <= n
      BY <2>1
    <3>2. QED BY <1>2, <3>1
  <2>2. QED BY <2>1
<1>3. Nat \subseteq S
  <2> HIDE DEF S
  <2>1. QED BY <1>1, <1>2, Induct
<1>4. QED BY <1>3

\* The equation of LastBytes: the value of the last k bytes of the first n.
LEMMA BytesFollow ==
    ASSUME NEW s \in Seq(Byte), NEW n \in 0..Len(s)
    PROVE  /\ LastBytes(s, n)[0] = 0
           /\ \A k \in 0..n : LastBytes(s, n)[k] \in Nat
           /\ \A k \in 1..n :
                LastBytes(s, n)[k] = (s[n - k + 1] % 128) + 128 * LastBytes(s, n)[k - 1]
<1> DEFINE more(k, v) == (s[n - k + 1] % 128) + 128 * v
           step == [k \in Nat |-> [v \in Nat |-> IF k < n THEN more(k + 1, v) ELSE 0]]
           Values(g) == [k \in 0..n |-> IF k = 0 THEN 0 ELSE more(k, g[k - 1])]
<1>1. n \in Nat /\ Len(s) \in Nat
  OBVIOUS
<1>2. ASSUME NEW k \in 1..n, NEW v \in Nat PROVE more(k, v) \in Nat
  <2>1. PICK b \in Nat : b = s[n - k + 1]
    <3>1. n - k + 1 \in 1..Len(s)
      OBVIOUS
    <3>2. s[n - k + 1] \in Byte
      BY <3>1
    <3>3. Byte \subseteq Nat
      BY DEF Byte
    <3>4. QED BY <3>2, <3>3
  <2>2. (b % 128) \in Nat
    OBVIOUS
  <2>3. QED BY <2>1, <2>2
<1> HIDE DEF more
<1>3. step \in Steps(Nat)
  <2>1. ASSUME NEW k \in Nat, NEW v \in Nat PROVE (IF k < n THEN more(k + 1, v) ELSE 0) \in Nat
    <3>1. CASE k < n
      <4>1. k + 1 \in 1..n
        BY <1>1, <3>1
      <4>2. QED BY <1>2, <3>1, <4>1
    <3>2. CASE ~(k < n)
      BY <3>2
    <3>3. QED BY <3>1, <3>2
  <2>2. QED BY <2>1 DEF Steps
<1>4. PICK f : /\ f \in [0..n -> Nat] /\ f[0] = 0
               /\ \A k \in 1..n : f[k] = step[k - 1][f[k - 1]]
  <2> HIDE DEF step
  <2>1. \E f : FollowsTo(f, n, Nat, 0, step)
    <3>1. 0 \in Nat
      OBVIOUS
    <3>2. QED BY <1>1, <1>3, <3>1, BoundedRecursion, ZenonT(30)
  <2>2. QED BY <2>1 DEF FollowsTo
<1>5. f = Values(f)
  <2>1. ASSUME NEW k \in 1..n PROVE f[k] = more(k, f[k - 1])
    <3>1. k - 1 \in Nat /\ k - 1 \in 0..n /\ k - 1 < n /\ (k - 1) + 1 = k
      BY <1>1
    <3>2. f[k - 1] \in Nat
      BY <1>4, <3>1
    <3>3. step[k - 1][f[k - 1]] = more(k, f[k - 1])
      BY <3>1, <3>2
    <3>4. QED BY <1>4, <3>3
  <2>2. ASSUME NEW k \in 0..n PROVE f[k] = Values(f)[k]
    BY <1>4, <2>1
  <2>3. QED BY <1>4, <2>2
<1>6. LastBytes(s, n) = CHOOSE g : g = Values(g)
  BY DEF LastBytes, more
<1> HIDE DEF Values
<1>7. LastBytes(s, n) = Values(LastBytes(s, n))
  BY <1>5, <1>6
<1>8. PICK g : g = LastBytes(s, n)
  OBVIOUS
<1>9. g[0] = 0 /\ \A k \in 1..n : g[k] = more(k, g[k - 1])
  <2>1. g = Values(g)
    BY <1>7, <1>8
  <2>2. \A k \in 0..n : Values(g)[k] = IF k = 0 THEN 0 ELSE more(k, g[k - 1])
    BY DEF Values
  <2>3. QED BY <1>1, <2>1, <2>2
<1>10. \A k \in 0..n : g[k] \in Nat
  <2>1. \A k \in 1..n : g[k - 1] \in Nat => g[k] \in Nat
    BY <1>2, <1>9
  <2>2. n \in Nat /\ g[0] \in Nat
    BY <1>1, <1>9
  <2>3. QED BY <2>1, <2>2, BoundedType, ZenonT(30)
<1>11. QED BY <1>8, <1>9, <1>10 DEF more

-----------------------------------------------------------------------------
(***************************************************************************)
(* The instructions of a delta.                                            *)
(***************************************************************************)

\* How the bytes that are sent are counted.
LEMMA Counts ==
    ASSUME NEW S \in SUBSET (0..6)
    PROVE  /\ \A i \in 0..6 : UpTo(S, i) \in Nat /\ Flag(S, i) \in {0, 1} /\ (Flag(S, i) = 1 <=> i \in S)
           /\ UpTo(S, 0) = Flag(S, 0)
           /\ \A i \in 0..5 : UpTo(S, i + 1) = UpTo(S, i) + Flag(S, i + 1)
           /\ UpTo(S, 6) = Cardinality(S)
<1> DEFINE below(i) == {j \in S : j <= i}
<1>0. \A j \in S : j \in Nat /\ 0 <= j /\ j <= 6
  OBVIOUS
<1>1. ASSUME NEW i \in 0..6 PROVE IsFiniteSet(below(i)) /\ Cardinality(below(i)) \in Nat
  <2>1. IsFiniteSet(0..6)
    <3>1. 0 \in Int /\ 6 \in Int
      OBVIOUS
    <3>2. QED BY <3>1, FS_Interval
  <2>2. IsFiniteSet(below(i))
    BY <2>1, FS_Subset
  <2>3. QED BY <2>2, FS_CardinalityType
<1>2. \A i \in 0..6 : Flag(S, i) \in {0, 1} /\ (Flag(S, i) = 1 <=> i \in S)
  BY DEF Flag
<1>3. UpTo(S, 0) = Flag(S, 0)
  <2>1. CASE 0 \in S
    <3>1. below(0) = {0}
      <4>1. \A j \in S : j <= 0 <=> j = 0
        BY <1>0
      <4>2. QED BY <2>1, <4>1
    <3>2. Cardinality({0}) = 1
      BY FS_Singleton
    <3>3. QED BY <2>1, <3>1, <3>2 DEF UpTo, Flag
  <2>2. CASE 0 \notin S
    <3>1. below(0) = {}
      <4>1. \A j \in S : ~(j <= 0)
        BY <1>0, <2>2
      <4>2. QED BY <4>1
    <3>2. QED BY <2>2, <3>1, FS_EmptySet DEF UpTo, Flag
  <2>3. QED BY <2>1, <2>2
<1>4. ASSUME NEW i \in 0..5 PROVE UpTo(S, i + 1) = UpTo(S, i) + Flag(S, i + 1)
  <2>1. i \in 0..6 /\ i + 1 \in 0..6
    OBVIOUS
  <2>2. CASE i + 1 \in S
    <3>1. below(i + 1) = below(i) \cup {i + 1}
      <4>1. \A j \in S : j <= i + 1 <=> j <= i \/ j = i + 1
        BY <1>0
      <4>2. QED BY <2>2, <4>1
    <3>2. i + 1 \notin below(i)
      OBVIOUS
    <3>3. Cardinality(below(i) \cup {i + 1}) = Cardinality(below(i)) + 1
      <4> HIDE DEF below
      <4>1. QED BY <1>1, <2>1, <3>2, FS_AddElement
    <3>4. QED BY <2>2, <3>1, <3>3 DEF UpTo, Flag
  <2>3. CASE i + 1 \notin S
    <3>1. below(i + 1) = below(i)
      <4>1. \A j \in S : j <= i + 1 <=> j <= i
        BY <1>0, <2>3
      <4>2. QED BY <4>1
    <3>2. PICK n \in Nat : n = Cardinality(below(i))
      BY <1>1, <2>1
    <3>3. UpTo(S, i + 1) = n /\ UpTo(S, i) = n /\ Flag(S, i + 1) = 0
      BY <2>3, <3>1, <3>2 DEF UpTo, Flag
    <3>4. QED BY <3>2, <3>3
  <2>4. QED BY <2>2, <2>3
<1>5. UpTo(S, 6) = Cardinality(S)
  <2>1. below(6) = S
    BY <1>0
  <2>2. QED BY <2>1 DEF UpTo
<1>6. QED BY <1>1, <1>2, <1>3, <1>4, <1>5 DEF UpTo

\* Each byte that is sent has a place, and each place a byte.
LEMMA Ranks ==
    ASSUME NEW S \in SUBSET (0..6)
    PROVE  /\ Cardinality(S) \in 0..7
           /\ \A i \in S : UpTo(S, i) \in 1..Cardinality(S)
           /\ \A i, j \in S : UpTo(S, i) = UpTo(S, j) => i = j
           /\ \A k \in 1..Cardinality(S) : \E i \in S : UpTo(S, i) = k
<1> DEFINE u(i) == UpTo(S, i)
           f(i) == Flag(S, i)
<1>1. /\ u(0) = f(0) /\ u(1) = u(0) + f(1) /\ u(2) = u(1) + f(2) /\ u(3) = u(2) + f(3)
      /\ u(4) = u(3) + f(4) /\ u(5) = u(4) + f(5) /\ u(6) = u(5) + f(6)
      /\ Cardinality(S) = u(6)
  BY Counts
<1>2. /\ f(0) \in {0, 1} /\ f(1) \in {0, 1} /\ f(2) \in {0, 1} /\ f(3) \in {0, 1}
      /\ f(4) \in {0, 1} /\ f(5) \in {0, 1} /\ f(6) \in {0, 1}
  BY Counts
<1>3. \A i \in 0..6 : i \in S <=> f(i) = 1
  BY Counts
<1>4. \A i \in S : i \in {0, 1, 2, 3, 4, 5, 6}
  OBVIOUS
<1> HIDE DEF u, f
<1>5. Cardinality(S) \in 0..7
  BY <1>1, <1>2
<1>6. \A i \in S : u(i) \in 1..Cardinality(S)
  BY <1>1, <1>2, <1>3, <1>4
<1>7. \A i, j \in S : u(i) = u(j) => i = j
  BY <1>1, <1>2, <1>3, <1>4
<1>8. \A k \in 1..Cardinality(S) : \E i \in S : u(i) = k
  <2>1. SUFFICES ASSUME NEW k \in 1..Cardinality(S), \A i \in S : u(i) # k PROVE FALSE
    OBVIOUS
  <2>2. \A i \in {0, 1, 2, 3, 4, 5, 6} : f(i) = 1 => u(i) # k
    BY <1>3, <2>1
  <2>3. QED BY <1>1, <1>2, <2>1, <2>2
<1>9. QED BY <1>5, <1>6, <1>7, <1>8 DEF u

\* The first byte of a copy says what is sent.
LEMMA FirstByteSays ==
    ASSUME NEW S \in SUBSET (0..6), NEW s, s[1] = FirstByte(S)
    PROVE  FirstByte(S) \in 128..255 /\ Given(s) = S
<1>1. PICK a \in {0, 1}, b \in {0, 1}, c \in {0, 1}, d \in {0, 1},
           e \in {0, 1}, f \in {0, 1}, g \in {0, 1} :
        /\ a = Flag(S, 0) /\ b = Flag(S, 1) /\ c = Flag(S, 2) /\ d = Flag(S, 3)
        /\ e = Flag(S, 4) /\ f = Flag(S, 5) /\ g = Flag(S, 6)
  BY Counts
<1>2. PICK n \in Nat : n = 128 + a + 2 * b + 4 * c + 8 * d + 16 * e + 32 * f + 64 * g
  OBVIOUS
<1>3. n \in 128..255 /\ s[1] = n /\ FirstByte(S) = n
  <2>1. n >= 128 /\ n <= 255
    BY <1>2
  <2>2. FirstByte(S) = n
    BY <1>1, <1>2 DEF FirstByte
  <2>3. QED BY <2>1, <2>2
<1>4. \A i \in 0..6 : i \in {0, 1, 2, 3, 4, 5, 6}
  OBVIOUS
<1>5. \A i \in 0..6 : i \in S <=> Flag(S, i) = 1
  BY Counts
<1>6. (n \div 1) % 2 = a /\ (n \div 2) % 2 = b /\ (n \div 4) % 2 = c /\ (n \div 8) % 2 = d
  BY <1>2, SMTT(30)
<1>7. (n \div 16) % 2 = e /\ (n \div 32) % 2 = f /\ (n \div 64) % 2 = g
  BY <1>2, SMTT(30)
<1>8. ASSUME NEW i \in 0..6 PROVE Has(s, i) <=> i \in S
  <2>1. CASE i = 0
    BY <1>1, <1>3, <1>5, <1>6, <2>1 DEF Has
  <2>2. CASE i = 1
    BY <1>1, <1>3, <1>5, <1>6, <2>2 DEF Has
  <2>3. CASE i = 2
    BY <1>1, <1>3, <1>5, <1>6, <2>3 DEF Has
  <2>4. CASE i = 3
    BY <1>1, <1>3, <1>5, <1>6, <2>4 DEF Has
  <2>5. CASE i = 4
    BY <1>1, <1>3, <1>5, <1>7, <2>5 DEF Has
  <2>6. CASE i = 5
    BY <1>1, <1>3, <1>5, <1>7, <2>6 DEF Has
  <2>7. CASE i = 6
    BY <1>1, <1>3, <1>5, <1>7, <2>7 DEF Has
  <2>8. QED BY <1>4, <2>1, <2>2, <2>3, <2>4, <2>5, <2>6, <2>7
<1>9. Given(s) = S
  BY <1>8 DEF Given
<1>10. QED BY <1>3, <1>9

\* A copy and data of the delta.
LEMMA PieceFacts ==
    ASSUME NEW p \in Piece
    PROVE  /\ p.from = "parent" =>
                /\ p = [from |-> "parent", offset |-> p.offset, length |-> p.length]
                /\ p.offset \in Nat /\ BytesOf(p.offset)[4] < 256
                /\ p.length \in Nat /\ p.length # 0 /\ BytesOf(p.length)[4] = 0
           /\ p.from # "parent" =>
                /\ p = [from |-> "delta", data |-> p.data]
                /\ p.data \in Seq(Byte) /\ Len(p.data) \in 1..127
           /\ PieceLength(p) \in Nat \ {0}
<1>1. CASE /\ p \in [from : {"parent"}, offset : Nat, length : Nat \ {0}]
           /\ BytesOf(p.offset)[4] < 256 /\ BytesOf(p.length)[4] = 0
  BY <1>1 DEF PieceLength
<1>2. CASE p \in [from : {"delta"}, data : Seq(Byte)] /\ Len(p.data) \in 1..127
  <2>1. p.from = "delta" /\ p.data \in Seq(Byte) /\ p = [from |-> "delta", data |-> p.data]
    BY <1>2
  <2>2. PieceLength(p) = Len(p.data)
    BY <2>1 DEF PieceLength
  <2>3. PICK n : n = Len(p.data)
    OBVIOUS
  <2>4. n \in 1..127
    BY <1>2, <2>3
  <2>5. n \in Nat /\ n # 0
    BY <2>4
  <2>6. QED BY <1>2, <2>1, <2>2, <2>3, <2>5
<1>3. QED BY <1>1, <1>2 DEF Piece

\* A number is what its bytes stand for.
LEMMA Digits ==
    ASSUME NEW n \in Nat
    PROVE  /\ BytesOf(n)[1] \in Byte /\ BytesOf(n)[2] \in Byte /\ BytesOf(n)[3] \in Byte
           /\ BytesOf(n)[4] \in Nat
           /\ BytesOf(n)[1] + 256 * (BytesOf(n)[2] + 256 * (BytesOf(n)[3] + 256 * BytesOf(n)[4])) = n
<1> DEFINE second == n \div 256
           third == second \div 256
<1>1. BytesOf(n) = <<n % 256, second % 256, third % 256, third \div 256>>
  BY DEF BytesOf
<1>2. second \in Nat /\ (n % 256) \in 0..255 /\ n = 256 * second + (n % 256)
  OBVIOUS
<1> HIDE DEF second
<1>3. third \in Nat /\ (second % 256) \in 0..255 /\ second = 256 * third + (second % 256)
  BY <1>2
<1> HIDE DEF third
<1>4. third \div 256 \in Nat /\ (third % 256) \in 0..255 /\ third = 256 * (third \div 256) + (third % 256)
  BY <1>3
<1>5. PICK a, b, c, d \in Nat : /\ a = n % 256 /\ b = second % 256 /\ c = third % 256
                                /\ d = third \div 256
  BY <1>2, <1>3, <1>4
<1>6. /\ BytesOf(n)[1] = a /\ BytesOf(n)[2] = b /\ BytesOf(n)[3] = c /\ BytesOf(n)[4] = d
  BY <1>1, <1>5
<1>7. a + 256 * (b + 256 * (c + 256 * d)) = n
  BY <1>2, <1>3, <1>4, <1>5
<1>8. QED BY <1>2, <1>3, <1>4, <1>5, <1>6, <1>7 DEF Byte

\* The bytes of a copy add up to its numbers.
LEMMA CopyBytes ==
    ASSUME NEW p \in Piece, p.from = "parent"
    PROVE  /\ \A i \in 0..6 : CopyByte(p, i) \in Byte
           /\ CopyByte(p, 0) + 256 * (CopyByte(p, 1) + 256 * (CopyByte(p, 2) + 256 * CopyByte(p, 3)))
                = p.offset
           /\ CopyByte(p, 4) + 256 * (CopyByte(p, 5) + 256 * CopyByte(p, 6))
                = IF p.length = 65536 THEN 0 ELSE p.length
<1>1. PICK o \in Nat, l \in Nat :
        o = p.offset /\ l = p.length /\ BytesOf(o)[4] < 256 /\ BytesOf(l)[4] = 0
  BY PieceFacts
<1>3. /\ CopyByte(p, 0) = BytesOf(o)[1] /\ CopyByte(p, 1) = BytesOf(o)[2]
      /\ CopyByte(p, 2) = BytesOf(o)[3] /\ CopyByte(p, 3) = BytesOf(o)[4]
  BY <1>1, SMT DEF CopyByte
<1>4. /\ CopyByte(p, 4) = IF l = 65536 THEN 0 ELSE BytesOf(l)[1]
      /\ CopyByte(p, 5) = IF l = 65536 THEN 0 ELSE BytesOf(l)[2]
      /\ CopyByte(p, 6) = IF l = 65536 THEN 0 ELSE BytesOf(l)[3]
  BY <1>1, SMT DEF CopyByte
<1>5. 0 \in Byte /\ BytesOf(o)[4] \in Byte
  <2>1. PICK d \in Nat : d = BytesOf(o)[4] /\ d < 256
    BY <1>1, Digits
  <2>2. QED BY <2>1 DEF Byte
<1>6. \A i \in 0..6 : i \in {0, 1, 2, 3, 4, 5, 6}
  OBVIOUS
<1>7. \A i \in 0..6 : CopyByte(p, i) \in Byte
  BY <1>3, <1>4, <1>5, <1>6, Digits, SMT
<1>8. CopyByte(p, 0) + 256 * (CopyByte(p, 1) + 256 * (CopyByte(p, 2) + 256 * CopyByte(p, 3))) = o
  BY <1>3, Digits, SMT
<1>9. CopyByte(p, 4) + 256 * (CopyByte(p, 5) + 256 * CopyByte(p, 6)) = IF l = 65536 THEN 0 ELSE l
  <2>1. CASE l = 65536
    BY <1>4, <2>1, SMT
  <2>2. CASE l # 65536
    <3>1. PICK a, b, c \in Nat : a = BytesOf(l)[1] /\ b = BytesOf(l)[2] /\ c = BytesOf(l)[3]
      <4>1. Byte \subseteq Nat
        BY DEF Byte
      <4>2. QED BY <4>1, Digits
    <3>2. a + 256 * (b + 256 * c) = l
      BY <1>1, <3>1, Digits, SMT
    <3>3. QED BY <1>4, <2>2, <3>1, <3>2, SMT
  <2>3. QED BY <2>1, <2>2, SMT
<1>10. QED BY <1>1, <1>7, <1>8, <1>9, SMT

\* Bytes that have come are those of a code, as far as both go.
Agrees(s, c) == \A i \in 1..Len(s) : i <= Len(c) => s[i] = c[i]

\* The first byte of a copy.
LEMMA LaterBytes == \A b \in 128..255 : b >= 128
OBVIOUS

\* A copy is read as it was written.
LEMMA CopyRead ==
    ASSUME NEW how, NEW p \in Piece, p.from = "parent"
    PROVE  /\ CopyCode(how, p) \in Seq(Byte) /\ Len(CopyCode(how, p)) >= 1
           /\ \A s \in Seq(Byte) :
                s # <<>> /\ Agrees(s, CopyCode(how, p)) =>
                    /\ s[1] >= 128
                    /\ 1 + Needs(s) = Len(CopyCode(how, p))
                    /\ Len(s) >= Len(CopyCode(how, p)) => Copy(s) = p
<1> DEFINE S == {i \in 0..6 : how = "all" \/ CopyByte(p, i) # 0}
           at(k) == CHOOSE i \in S : UpTo(S, i) = k
           c == CopyCode(how, p)
<1>1. S \in SUBSET (0..6)
  OBVIOUS
<1>2. PICK m \in 0..7 : m = Cardinality(S)
  BY <1>1, Ranks
<1>3. c = [k \in 1..1 + m |-> IF k = 1 THEN FirstByte(S) ELSE CopyByte(p, at(k - 1))]
  BY <1>2 DEF CopyCode
<1>4. \A i \in 0..6 : CopyByte(p, i) \in Byte
  BY CopyBytes
<1>5. \A i \in 0..6 : i \notin S => CopyByte(p, i) = 0
  OBVIOUS
<1> HIDE DEF S
<1>6. ASSUME NEW k \in 1..m PROVE at(k) \in S /\ UpTo(S, at(k)) = k
  BY <1>1, <1>2, Ranks
<1>7. \A i \in S : UpTo(S, i) \in 1..m /\ at(UpTo(S, i)) = i
  <2>1. ASSUME NEW i \in S PROVE UpTo(S, i) \in 1..m /\ at(UpTo(S, i)) = i
    <3>1. PICK k \in 1..m : k = UpTo(S, i)
      BY <1>1, <1>2, Ranks
    <3>2. at(k) \in S /\ UpTo(S, at(k)) = UpTo(S, i)
      BY <1>6, <3>1
    <3>3. at(k) = i
      <4> HIDE DEF at
      <4>1. QED BY <1>1, <3>2, Ranks
    <3>4. QED BY <3>1, <3>3
  <2>2. QED BY <2>1
<1> HIDE DEF at, c
<1>8. c \in Seq(Byte) /\ Len(c) = 1 + m
  <2>1. FirstByte(S) \in Byte
    <3>1. <<FirstByte(S)>>[1] = FirstByte(S)
      OBVIOUS
    <3>2. FirstByte(S) \in 128..255
      BY <1>1, <3>1, FirstByteSays
    <3>3. QED BY <3>2 DEF Byte
  <2>2. ASSUME NEW k \in 1..1 + m, k # 1 PROVE CopyByte(p, at(k - 1)) \in Byte
    <3>1. k - 1 \in 1..m
      BY <2>2
    <3>2. at(k - 1) \in 0..6
      BY <1>1, <1>6, <3>1
    <3>3. QED BY <1>4, <3>2
  <2>3. QED BY <1>3, <2>1, <2>2
<1>9. ASSUME NEW s \in Seq(Byte), s # <<>>, Agrees(s, c)
      PROVE  s[1] >= 128 /\ 1 + Needs(s) = Len(c) /\ (Len(s) >= Len(c) => Copy(s) = p)
  <2>1. s[1] = FirstByte(S)
    <3>1. 1 \in 1..Len(s) /\ 1 <= Len(c) /\ c[1] = FirstByte(S)
      BY <1>3, <1>8, <1>9
    <3>2. QED BY <1>9, <3>1 DEF Agrees
  <2>2. s[1] \in 128..255 /\ Given(s) = S
    <3>1. FirstByte(S) \in 128..255 /\ Given(s) = S
      BY <1>1, <2>1, FirstByteSays, Zenon
    <3>2. QED BY <2>1, <3>1
  <2>3. 1 + Needs(s) = Len(c)
    <3>1. s[1] >= 128
      BY <2>2, LaterBytes
    <3>2. Needs(s) = Cardinality(Given(s))
      BY <3>1 DEF Needs
    <3>3. Needs(s) = m
      BY <1>2, <2>2, <3>2
    <3>4. QED BY <1>8, <3>3
  <2>4. ASSUME Len(s) >= Len(c) PROVE Copy(s) = p
    <3>1. ASSUME NEW i \in 0..6 PROVE Value(s, i) = CopyByte(p, i)
      <4>1. CASE i \in S
        <5>1. PICK k \in 1..m : k = UpTo(S, i) /\ at(k) = i
          BY <1>7, <4>1
        <5>2. 1 + k \in 1..Len(s) /\ 1 + k <= Len(c) /\ 1 + k \in 1..1 + m /\ 1 + k # 1 /\ (1 + k) - 1 = k
          BY <1>8, <2>4
        <5>3. s[1 + k] = c[1 + k]
          BY <1>9, <5>2 DEF Agrees
        <5>4. c[1 + k] = CopyByte(p, i)
          BY <1>3, <5>1, <5>2
        <5>5. QED BY <2>2, <4>1, <5>1, <5>3, <5>4 DEF Value
      <4>2. CASE i \notin S
        BY <1>5, <2>2, <4>2 DEF Value
      <4>3. QED BY <4>1, <4>2
    <3>2. Offset(s) = p.offset
      BY <3>1, CopyBytes, SMT DEF Offset
    <3>3. CopyLength(s) = IF p.length = 65536 THEN 0 ELSE p.length
      BY <3>1, CopyBytes, SMT DEF CopyLength
    <3>4. p.length # 0 /\ p = [from |-> "parent", offset |-> p.offset, length |-> p.length]
      BY PieceFacts
    <3>5. (IF CopyLength(s) = 0 THEN 65536 ELSE CopyLength(s)) = p.length
      BY <3>3, <3>4, SMT
    <3>6. Copy(s) = [from |-> "parent", offset |-> p.offset, length |-> p.length]
      BY <3>2, <3>5, SMT DEF Copy
    <3>7. QED BY <3>4, <3>6
  <2>5. s[1] >= 128
    BY <2>2, LaterBytes
  <2>6. QED BY <2>3, <2>4, <2>5
<1>10. QED BY <1>8, <1>9 DEF c

\* Data of the delta is read as it was written.
LEMMA InsertRead ==
    ASSUME NEW p \in Piece, p.from # "parent"
    PROVE  LET c == <<Len(p.data)>> \o p.data IN
           /\ c \in Seq(Byte) /\ Len(c) >= 1
           /\ \A s \in Seq(Byte) :
                s # <<>> /\ Agrees(s, c) =>
                    /\ ~(s[1] >= 128)
                    /\ 1 + Needs(s) = Len(c)
                    /\ Len(s) >= Len(c) => Insert(s) = p
<1> DEFINE c == <<Len(p.data)>> \o p.data
<1>1. PICK d \in Seq(Byte), n \in Nat :
        d = p.data /\ n = Len(p.data) /\ n >= 1 /\ n < 128 /\ p = [from |-> "delta", data |-> d]
  <2>1. PICK n : n = Len(p.data)
    OBVIOUS
  <2>2. n \in 1..127
    BY <2>1, PieceFacts
  <2>3. n \in Nat /\ n >= 1 /\ n < 128
    BY <2>2
  <2>4. QED BY <2>1, <2>3, PieceFacts
<1>2. n \in Byte
  <2>1. n \in Nat /\ n < 256
    BY <1>1
  <2>2. QED BY <2>1 DEF Byte
<1>3. c = <<n>> \o d /\ Len(d) = n
  BY <1>1
<1>4. /\ c \in Seq(Byte) /\ Len(c) = 1 + n
      /\ c[1] = n /\ \A i \in 1..n : c[i + 1] = d[i]
  BY <1>1, <1>2, <1>3
<1> HIDE DEF c
<1>5. ASSUME NEW s \in Seq(Byte), s # <<>>, Agrees(s, c)
      PROVE  ~(s[1] >= 128) /\ 1 + Needs(s) = Len(c) /\ (Len(s) >= Len(c) => Insert(s) = p)
  <2>1. s[1] = n
    <3>1. 1 \in 1..Len(s) /\ 1 <= Len(c)
      BY <1>1, <1>4, <1>5
    <3>2. QED BY <1>4, <1>5, <3>1 DEF Agrees
  <2>2. ~(s[1] >= 128) /\ Needs(s) = n
    BY <1>1, <2>1 DEF Needs
  <2>3. ASSUME Len(s) >= Len(c) PROVE Insert(s) = p
    <3>1. PICK t : t = SubSeq(s, 2, 1 + n)
      OBVIOUS
    <3>2. t \in Seq(Byte) /\ Len(t) = n /\ \A i \in 1..n : t[i] = s[i + 1]
      BY <1>1, <1>4, <2>3, <3>1
    <3>3. \A i \in 1..n : s[i + 1] = d[i]
      <4>1. ASSUME NEW i \in 1..n PROVE s[i + 1] = d[i]
        <5>1. i + 1 \in 1..Len(s) /\ i + 1 <= Len(c)
          BY <1>1, <1>4, <2>3
        <5>2. QED BY <1>4, <1>5, <5>1 DEF Agrees
      <4>2. QED BY <4>1
    <3>4. t = d
      <4>1. t \in Seq(Byte) /\ d \in Seq(Byte) /\ Len(t) = Len(d)
        BY <1>3, <3>2
      <4>2. \A i \in 1..Len(t) : t[i] = d[i]
        BY <3>2, <3>3
      <4>3. QED BY <4>1, <4>2, SeqEqual
    <3>5. QED BY <1>1, <2>2, <3>1, <3>4 DEF Insert
  <2>4. QED BY <1>4, <2>2, <2>3
<1>6. c \in Seq(Byte) /\ Len(c) >= 1
  BY <1>1, <1>4
<1>7. QED BY <1>5, <1>6 DEF c

\* The code of a piece says how long it is, and is read as it was written.
LEMMA PieceRead ==
    ASSUME NEW how, NEW p \in Piece
    PROVE  /\ PieceCode(how, p) \in Seq(Byte) /\ Len(PieceCode(how, p)) >= 1
           /\ \A s \in Seq(Byte) :
                s # <<>> /\ Agrees(s, PieceCode(how, p)) =>
                    /\ 1 + Needs(s) = Len(PieceCode(how, p))
                    /\ Len(s) >= Len(PieceCode(how, p)) => Instruction(s) = p
<1>1. CASE p.from = "parent"
  <2>1. PieceCode(how, p) = CopyCode(how, p)
    BY <1>1 DEF PieceCode
  <2>2. QED BY <1>1, <2>1, CopyRead DEF Instruction
<1>2. CASE p.from # "parent"
  <2>1. PieceCode(how, p) = <<Len(p.data)>> \o p.data
    BY <1>2 DEF PieceCode
  <2>2. QED BY <1>2, <2>1, InsertRead DEF Instruction
<1>3. QED BY <1>1, <1>2

\* The equation of LastCodes: the codes of the last k pieces of a row.
LEMMA CodesFollow ==
    ASSUME NEW how, NEW row \in Seq(Piece)
    PROVE  /\ LastCodes(how, row)[0] = <<>>
           /\ \A k \in 0..Len(row) : LastCodes(how, row)[k] \in Seq(Byte)
           /\ \A k \in 1..Len(row) :
                LastCodes(how, row)[k] =
                    PieceCode(how, row[Len(row) - k + 1]) \o LastCodes(how, row)[k - 1]
<1> DEFINE n == Len(row)
           T == Seq(Byte)
           more(k, v) == PieceCode(how, row[n - k + 1]) \o v
           step == [k \in Nat |-> [v \in T |-> IF k < n THEN more(k + 1, v) ELSE <<>>]]
           Values(g) == [k \in 0..n |-> IF k = 0 THEN <<>> ELSE more(k, g[k - 1])]
<1>1. n \in Nat /\ <<>> \in T
  OBVIOUS
<1>2. ASSUME NEW k \in 1..n, NEW v \in T PROVE more(k, v) \in T
  <2>1. row[n - k + 1] \in Piece
    <3>1. n - k + 1 \in 1..n
      BY <1>1
    <3>2. QED BY <3>1
  <2>2. PieceCode(how, row[n - k + 1]) \in Seq(Byte)
    BY <2>1, PieceRead
  <2>3. QED BY <2>2
<1>3. LastCodes(how, row) = CHOOSE g : g = Values(g)
  BY DEF LastCodes
<1> HIDE DEF more, T, n
<1>4. step \in Steps(T)
  <2>1. ASSUME NEW k \in Nat, NEW v \in T PROVE (IF k < n THEN more(k + 1, v) ELSE <<>>) \in T
    <3>1. CASE k < n
      <4>1. k + 1 \in 1..n
        BY <1>1, <3>1
      <4>2. QED BY <1>2, <3>1, <4>1
    <3>2. CASE ~(k < n)
      BY <1>1, <3>2
    <3>3. QED BY <3>1, <3>2
  <2>2. QED BY <2>1 DEF Steps
<1>5. PICK f : /\ f \in [0..n -> T] /\ f[0] = <<>>
               /\ \A k \in 1..n : f[k] = step[k - 1][f[k - 1]]
  <2> HIDE DEF step
  <2>1. \E f : FollowsTo(f, n, T, <<>>, step)
    BY <1>1, <1>4, BoundedRecursion, ZenonT(30)
  <2>2. QED BY <2>1 DEF FollowsTo
<1>6. f = Values(f)
  <2>1. ASSUME NEW k \in 1..n PROVE f[k] = more(k, f[k - 1])
    <3>1. k - 1 \in Nat /\ k - 1 \in 0..n /\ k - 1 < n /\ (k - 1) + 1 = k
      BY <1>1
    <3>2. f[k - 1] \in T
      BY <1>5, <3>1
    <3>3. step[k - 1][f[k - 1]] = more(k, f[k - 1])
      BY <3>1, <3>2
    <3>4. QED BY <1>5, <3>3
  <2>2. ASSUME NEW k \in 0..n PROVE f[k] = Values(f)[k]
    BY <1>1, <1>5, <2>1
  <2>3. QED BY <1>5, <2>2
<1> HIDE DEF Values
<1>7. LastCodes(how, row) = Values(LastCodes(how, row))
  BY <1>3, <1>6
<1>8. PICK g : g = LastCodes(how, row)
  OBVIOUS
<1>9. g[0] = <<>> /\ \A k \in 1..n : g[k] = more(k, g[k - 1])
  <2>1. g = Values(g)
    BY <1>7, <1>8
  <2>2. \A k \in 0..n : Values(g)[k] = IF k = 0 THEN <<>> ELSE more(k, g[k - 1])
    BY DEF Values
  <2>3. QED BY <1>1, <2>1, <2>2
<1>10. \A k \in 0..n : g[k] \in T
  <2>1. \A k \in 1..n : g[k - 1] \in T => g[k] \in T
    BY <1>2, <1>9
  <2>2. n \in Nat /\ g[0] \in T
    BY <1>1, <1>9
  <2>3. QED BY <2>1, <2>2, BoundedType, ZenonT(30)
<1>11. QED BY <1>8, <1>9, <1>10 DEF more, T, n

\* The equation of LastLengths: what the last k pieces make.
LEMMA LengthsFollow ==
    ASSUME NEW row \in Seq(Piece)
    PROVE  /\ LastLengths(row)[0] = 0
           /\ \A k \in 0..Len(row) : LastLengths(row)[k] \in Nat
           /\ \A k \in 1..Len(row) :
                LastLengths(row)[k] = PieceLength(row[Len(row) - k + 1]) + LastLengths(row)[k - 1]
<1> DEFINE n == Len(row)
           more(k, v) == PieceLength(row[n - k + 1]) + v
           step == [k \in Nat |-> [v \in Nat |-> IF k < n THEN more(k + 1, v) ELSE 0]]
           Values(g) == [k \in 0..n |-> IF k = 0 THEN 0 ELSE more(k, g[k - 1])]
<1>1. n \in Nat
  OBVIOUS
<1>2. ASSUME NEW k \in 1..n, NEW v \in Nat PROVE more(k, v) \in Nat
  <2>1. row[n - k + 1] \in Piece
    <3>1. n - k + 1 \in 1..n
      BY <1>1
    <3>2. QED BY <3>1
  <2>2. PICK l \in Nat : l = PieceLength(row[n - k + 1])
    BY <2>1, PieceFacts
  <2>3. QED BY <2>2
<1>3. LastLengths(row) = CHOOSE g : g = Values(g)
  BY DEF LastLengths
<1> HIDE DEF more, n
<1>4. step \in Steps(Nat)
  <2>1. ASSUME NEW k \in Nat, NEW v \in Nat PROVE (IF k < n THEN more(k + 1, v) ELSE 0) \in Nat
    <3>1. CASE k < n
      <4>1. k + 1 \in 1..n
        BY <1>1, <3>1
      <4>2. QED BY <1>2, <3>1, <4>1
    <3>2. CASE ~(k < n)
      BY <3>2
    <3>3. QED BY <3>1, <3>2
  <2>2. QED BY <2>1 DEF Steps
<1>5. PICK f : /\ f \in [0..n -> Nat] /\ f[0] = 0
               /\ \A k \in 1..n : f[k] = step[k - 1][f[k - 1]]
  <2> HIDE DEF step
  <2>1. \E f : FollowsTo(f, n, Nat, 0, step)
    <3>1. 0 \in Nat
      OBVIOUS
    <3>2. QED BY <1>1, <1>4, <3>1, BoundedRecursion, ZenonT(30)
  <2>2. QED BY <2>1 DEF FollowsTo
<1>6. f = Values(f)
  <2>1. ASSUME NEW k \in 1..n PROVE f[k] = more(k, f[k - 1])
    <3>1. k - 1 \in Nat /\ k - 1 \in 0..n /\ k - 1 < n /\ (k - 1) + 1 = k
      BY <1>1
    <3>2. f[k - 1] \in Nat
      BY <1>5, <3>1
    <3>3. step[k - 1][f[k - 1]] = more(k, f[k - 1])
      BY <3>1, <3>2
    <3>4. QED BY <1>5, <3>3
  <2>2. ASSUME NEW k \in 0..n PROVE f[k] = Values(f)[k]
    BY <1>1, <1>5, <2>1
  <2>3. QED BY <1>5, <2>2
<1> HIDE DEF Values
<1>7. LastLengths(row) = Values(LastLengths(row))
  BY <1>3, <1>6
<1>8. PICK g : g = LastLengths(row)
  OBVIOUS
<1>9. g[0] = 0 /\ \A k \in 1..n : g[k] = more(k, g[k - 1])
  <2>1. g = Values(g)
    BY <1>7, <1>8
  <2>2. \A k \in 0..n : Values(g)[k] = IF k = 0 THEN 0 ELSE more(k, g[k - 1])
    BY DEF Values
  <2>3. QED BY <1>1, <2>1, <2>2
<1>10. \A k \in 0..n : g[k] \in Nat
  <2>1. \A k \in 1..n : g[k - 1] \in Nat => g[k] \in Nat
    BY <1>2, <1>9
  <2>2. n \in Nat /\ g[0] \in Nat
    BY <1>1, <1>9
  <2>3. QED BY <2>1, <2>2, BoundedType, ZenonT(30)
<1>11. QED BY <1>8, <1>9, <1>10 DEF more, n

-----------------------------------------------------------------------------
(***************************************************************************)
(* Where a number ends.                                                    *)
(***************************************************************************)

\* The first of some positions.
LEMMA FirstIs ==
    ASSUME NEW S \in SUBSET Nat, NEW m \in S, \A i \in S : m <= i
    PROVE  Min(S) = m
<1>1. \A i \in S : (\A j \in S : i <= j) => i = m
  <2>1. ASSUME NEW i \in S, \A j \in S : i <= j PROVE i = m
    <3>1. i \in Nat /\ m \in Nat /\ i <= m /\ m <= i
      BY <2>1
    <3>2. QED BY <3>1
  <2>2. QED BY <2>1
<1>2. \E i \in S : \A j \in S : i <= j
  OBVIOUS
<1>3. QED BY <1>1, <1>2 DEF Min

\* A first position there is.
LEMMA FirstEnd ==
    ASSUME NEW S \in SUBSET Nat, S # {}
    PROVE  Min(S) \in S /\ \A i \in S : Min(S) <= i
<1> DEFINE T == {n \in Nat : \A i \in S : n < i}
<1>1. \E m \in S : \A i \in S : m <= i
  <2>1. SUFFICES ASSUME \A m \in S : \E i \in S : ~(m <= i) PROVE FALSE
    OBVIOUS
  <2>2. \A m \in S : \E i \in S : i < m
    <3>1. ASSUME NEW m \in S PROVE \E i \in S : i < m
      <4>1. PICK i \in S : ~(m <= i)
        BY <2>1
      <4>2. i \in Nat /\ m \in Nat
        OBVIOUS
      <4>3. i < m
        BY <4>1, <4>2
      <4>4. QED BY <4>3
    <3>2. QED BY <3>1
  <2>3. 0 \in T
    <3>1. ASSUME NEW i \in S PROVE 0 < i
      <4>1. i \in Nat
        OBVIOUS
      <4>2. i # 0
        <5>1. \A j \in S : ~(j < 0)
          OBVIOUS
        <5>2. QED BY <2>2, <5>1
      <4>3. QED BY <4>1, <4>2
    <3>2. QED BY <3>1
  <2>4. ASSUME NEW n \in Nat, n \in T PROVE n + 1 \in T
    <3>1. ASSUME NEW i \in S PROVE n + 1 < i
      <4>1. i \in Nat /\ n < i
        BY <2>4
      <4>2. PICK j \in S : j < i
        BY <2>2
      <4>3. j \in Nat /\ n < j
        BY <2>4
      <4>4. QED BY <4>1, <4>2, <4>3
    <3>2. QED BY <3>1
  <2>5. Nat \subseteq T
    <3> HIDE DEF T
    <3>1. QED BY <2>3, <2>4, Induct
  <2>6. PICK m : m \in S
    OBVIOUS
  <2>7. m \in Nat /\ m < m
    BY <2>5, <2>6
  <2>8. QED BY <2>7
<1>2. QED BY <1>1 DEF Min

\* Without its first byte.
LEMMA Rest ==
    ASSUME NEW s \in Seq(Byte), s # <<>>
    PROVE  /\ Tail(s) \in Seq(Byte) /\ Len(s) \in Nat /\ Len(s) >= 1
           /\ Len(Tail(s)) = Len(s) - 1
           /\ \A i \in 1..Len(s) - 1 : Tail(s)[i] = s[i + 1]
           /\ s[1] \in Nat /\ s[1] < 256
           /\ s[1] >= 128 => Ends(s) = {i + 1 : i \in Ends(Tail(s))}
           /\ s[1] < 128 => 1 \in Ends(s)
<1>1. /\ Tail(s) \in Seq(Byte) /\ Len(s) \in Nat /\ Len(s) >= 1
      /\ Len(Tail(s)) = Len(s) - 1
      /\ \A i \in 1..Len(s) - 1 : Tail(s)[i] = s[i + 1]
  OBVIOUS
<1>2. \A i \in 1..Len(s) : s[i] \in Nat /\ s[i] < 256
  <2>1. \A i \in 1..Len(s) : s[i] \in Byte
    OBVIOUS
  <2>2. \A b \in Byte : b \in Nat /\ b < 256
    BY DEF Byte
  <2>3. QED BY <2>1, <2>2
<1>3. DOMAIN s = 1..Len(s) /\ DOMAIN Tail(s) = 1..Len(s) - 1
  BY <1>1
<1>4. 1 \in 1..Len(s)
  BY <1>1
<1>5. ASSUME s[1] >= 128 PROVE Ends(s) = {i + 1 : i \in Ends(Tail(s))}
  <2>1. ASSUME NEW j \in Ends(s) PROVE \E i \in Ends(Tail(s)) : j = i + 1
    <3>1. j \in 1..Len(s) /\ s[j] < 128
      BY <1>3 DEF Ends
    <3>2. j # 1
      BY <1>2, <1>4, <1>5, <3>1
    <3>3. PICK i \in 1..Len(s) - 1 : j = i + 1
      <4>1. j - 1 \in 1..Len(s) - 1 /\ j = (j - 1) + 1
        BY <1>1, <3>1, <3>2
      <4>2. QED BY <4>1
    <3>4. Tail(s)[i] = s[j]
      BY <1>1, <3>3
    <3>5. i \in Ends(Tail(s))
      BY <1>3, <3>1, <3>4 DEF Ends
    <3>6. QED BY <3>3, <3>5
  <2>2. ASSUME NEW i \in Ends(Tail(s)) PROVE i + 1 \in Ends(s)
    <3>1. i \in 1..Len(s) - 1 /\ Tail(s)[i] < 128
      BY <1>3 DEF Ends
    <3>2. i + 1 \in 1..Len(s) /\ s[i + 1] = Tail(s)[i]
      BY <1>1, <3>1
    <3>3. QED BY <1>3, <3>1, <3>2 DEF Ends
  <2>3. QED BY <2>1, <2>2
<1>6. s[1] < 128 => 1 \in Ends(s)
  BY <1>3, <1>4 DEF Ends
<1>7. QED BY <1>1, <1>2, <1>4, <1>5, <1>6

\* The last bytes are the same without the first.
LEMMA RestBytes ==
    ASSUME NEW s \in Seq(Byte), s # <<>>, NEW n \in Nat, n < Len(s)
    PROVE  \A k \in 0..n : LastBytes(s, n + 1)[k] = LastBytes(Tail(s), n)[k]
<1> DEFINE S == {k \in Nat : k <= n => LastBytes(s, n + 1)[k] = LastBytes(Tail(s), n)[k]}
<1>1. n + 1 \in 0..Len(s) /\ n \in 0..Len(Tail(s)) /\ Tail(s) \in Seq(Byte)
  BY Rest
<1>2. 0 \in S
  BY <1>1, BytesFollow
<1>3. ASSUME NEW k \in Nat, k \in S PROVE k + 1 \in S
  <2>1. ASSUME k + 1 <= n
        PROVE  LastBytes(s, n + 1)[k + 1] = LastBytes(Tail(s), n)[k + 1]
    <3>1. k + 1 \in 1..n + 1 /\ k + 1 \in 1..n /\ (k + 1) - 1 = k
      BY <2>1
    <3>2. (n + 1) - (k + 1) + 1 = n - k + 1 /\ n - (k + 1) + 1 = n - k
      OBVIOUS
    <3>3. /\ LastBytes(s, n + 1)[k + 1] = (s[n - k + 1] % 128) + 128 * LastBytes(s, n + 1)[k]
          /\ LastBytes(Tail(s), n)[k + 1] = (Tail(s)[n - k] % 128) + 128 * LastBytes(Tail(s), n)[k]
      <4>1. LastBytes(s, n + 1)[k + 1]
              = (s[(n + 1) - (k + 1) + 1] % 128) + 128 * LastBytes(s, n + 1)[(k + 1) - 1]
        BY <1>1, <3>1, BytesFollow
      <4>2. LastBytes(Tail(s), n)[k + 1]
              = (Tail(s)[n - (k + 1) + 1] % 128) + 128 * LastBytes(Tail(s), n)[(k + 1) - 1]
        BY <1>1, <3>1, BytesFollow
      <4>3. QED BY <3>1, <3>2, <4>1, <4>2
    <3>4. Tail(s)[n - k] = s[n - k + 1]
      <4>1. n - k \in 1..Len(s) - 1
        BY <2>1, Rest
      <4>2. QED BY <4>1, Rest
    <3>5. LastBytes(s, n + 1)[k] = LastBytes(Tail(s), n)[k]
      BY <1>3, <2>1
    <3>6. QED BY <3>3, <3>4, <3>5
  <2>2. QED BY <2>1
<1>4. Nat \subseteq S
  <2> HIDE DEF S
  <2>1. QED BY <1>2, <1>3, Induct
<1>5. QED BY <1>4

\* What is read of a number's code, as far as it has come.
Reads(n) ==
    /\ Len(VarCode[n]) \in Nat /\ Len(VarCode[n]) >= 1
    /\ \A s \in Seq(Byte) :
        Agrees(s, VarCode[n]) =>
            /\ Len(s) < Len(VarCode[n]) => Ends(s) = {}
            /\ Len(s) >= Len(VarCode[n]) =>
                Ends(s) # {} /\ Last(s) = Len(VarCode[n]) /\ VariableLength(s) = n

\* A number of one byte.
LEMMA ShortRead ==
    ASSUME NEW n \in Nat, n < 128
    PROVE  Reads(n)
<1>1. VarCode[n] = <<n>>
  BY VarCodes
<1>2. Len(VarCode[n]) = 1 /\ VarCode[n][1] = n
  BY <1>1
<1>3. ASSUME NEW s \in Seq(Byte), Agrees(s, VarCode[n])
      PROVE  /\ Len(s) < 1 => Ends(s) = {}
             /\ Len(s) >= 1 => Ends(s) # {} /\ Last(s) = 1 /\ VariableLength(s) = n
  <2>1. ASSUME Len(s) < 1 PROVE Ends(s) = {}
    <3>1. s = <<>>
      BY <2>1
    <3>2. QED BY <3>1 DEF Ends
  <2>2. ASSUME Len(s) >= 1
        PROVE  Ends(s) # {} /\ Last(s) = 1 /\ VariableLength(s) = n
    <3>1. s # <<>> /\ 1 \in 1..Len(s)
      BY <2>2
    <3>2. s[1] = n
      BY <1>2, <1>3, <3>1 DEF Agrees
    <3>3. 1 \in Ends(s)
      BY <3>1, <3>2, Rest
    <3>4. Last(s) = 1
      <4>1. Ends(s) \in SUBSET Nat /\ \A i \in Ends(s) : 1 <= i
        BY DEF Ends
      <4>2. QED BY <3>3, <4>1, FirstIs DEF Last
    <3>5. VariableLength(s) = LastBytes(s, 1)[1]
      BY <3>4 DEF VariableLength
    <3>6. /\ LastBytes(s, 1)[1] = (s[1] % 128) + 128 * LastBytes(s, 1)[0]
          /\ LastBytes(s, 1)[0] = 0
      <4>1. 1 \in 0..Len(s) /\ 1 \in 1..1 /\ 1 - 1 + 1 = 1 /\ 1 - 1 = 0
        BY <2>2
      <4>2. LastBytes(s, 1)[1] = (s[1 - 1 + 1] % 128) + 128 * LastBytes(s, 1)[1 - 1]
        BY <4>1, BytesFollow
      <4>3. LastBytes(s, 1)[0] = 0
        BY <4>1, BytesFollow
      <4>4. QED BY <4>1, <4>2, <4>3
    <3>7. (n % 128) + 128 * 0 = n
      OBVIOUS
    <3>8. QED BY <3>2, <3>3, <3>4, <3>5, <3>6, <3>7
  <2>3. QED BY <2>1, <2>2
<1>4. QED BY <1>2, <1>3 DEF Reads

\* One byte more than the number above its last seven bits.
LEMMA LongRead ==
    ASSUME NEW n \in Nat, ~(n < 128), Reads(n \div 128)
    PROVE  Reads(n)
<1>1. PICK m \in Nat, b \in 128..255 :
        m = n \div 128 /\ b = 128 + (n % 128) /\ n = 128 * m + (b % 128) /\ b >= 128 /\ b < 256
  <2>1. n \div 128 \in Nat /\ (n % 128) \in 0..127 /\ n = 128 * (n \div 128) + (n % 128)
    OBVIOUS
  <2>2. PICK r \in 0..127 : r = n % 128
    BY <2>1
  <2>3. (128 + r) % 128 = r /\ 128 + r \in 128..255 /\ 128 + r >= 128 /\ 128 + r < 256
    OBVIOUS
  <2>4. QED BY <2>1, <2>2, <2>3
<1>2. PICK d \in Seq(Byte), l \in Nat : d = VarCode[m] /\ l = Len(d) /\ l >= 1
  BY <1>1, VarCodes DEF Reads
<1>3. PICK c : c = VarCode[n]
  OBVIOUS
<1>4. c = <<b>> \o d
  <2>1. VarCode[n] = <<128 + (n % 128)>> \o VarCode[n \div 128]
    BY VarCodes
  <2>2. QED BY <1>1, <1>2, <1>3, <2>1
<1>5. Len(c) = l + 1 /\ c[1] = b /\ \A i \in 1..l : c[i + 1] = d[i]
  BY <1>2, <1>4
<1>6. ASSUME NEW s \in Seq(Byte), Agrees(s, c)
      PROVE  /\ Len(s) < l + 1 => Ends(s) = {}
             /\ Len(s) >= l + 1 => Ends(s) # {} /\ Last(s) = l + 1 /\ VariableLength(s) = n
  <2>1. CASE s = <<>>
    BY <1>2, <2>1 DEF Ends
  <2>2. CASE s # <<>>
    <3>1. s[1] = b
      <4>1. 1 \in 1..Len(s) /\ 1 <= Len(c)
        BY <1>2, <1>5, <2>2
      <4>2. QED BY <1>5, <1>6, <4>1 DEF Agrees
    <3>2. Agrees(Tail(s), d)
      <4>1. ASSUME NEW i \in 1..Len(Tail(s)), i <= Len(d) PROVE Tail(s)[i] = d[i]
        <5>1. i \in 1..Len(s) - 1 /\ i + 1 \in 1..Len(s) /\ i + 1 <= Len(c) /\ i \in 1..l
          BY <1>2, <1>5, <2>2, <4>1, Rest
        <5>2. Tail(s)[i] = s[i + 1]
          BY <2>2, <5>1, Rest
        <5>3. s[i + 1] = c[i + 1]
          BY <1>6, <5>1 DEF Agrees
        <5>4. QED BY <1>5, <5>1, <5>2, <5>3
      <4>2. QED BY <4>1 DEF Agrees
    <3>3. Ends(s) = {i + 1 : i \in Ends(Tail(s))}
      BY <1>1, <2>2, <3>1, Rest
    <3>4. /\ Len(Tail(s)) < l => Ends(Tail(s)) = {}
          /\ Len(Tail(s)) >= l =>
                Ends(Tail(s)) # {} /\ Last(Tail(s)) = l /\ VariableLength(Tail(s)) = m
      <4>1. Tail(s) \in Seq(Byte)
        BY <2>2, Rest
      <4>2. Reads(m)
        BY <1>1
      <4>3. QED BY <1>2, <3>2, <4>1, <4>2 DEF Reads
    <3>5. Len(Tail(s)) = Len(s) - 1 /\ Len(s) \in Nat
      BY <2>2, Rest
    <3>6. Len(s) < l + 1 => Ends(s) = {}
      <4>1. Len(s) < l + 1 => Len(Tail(s)) < l
        BY <1>2, <3>5
      <4>2. Ends(Tail(s)) = {} => Ends(s) = {}
        BY <3>3
      <4>3. QED BY <3>4, <4>1, <4>2
    <3>7. ASSUME Len(s) >= l + 1
          PROVE  Ends(s) # {} /\ Last(s) = l + 1 /\ VariableLength(s) = n
      <4>1. Ends(Tail(s)) # {} /\ Last(Tail(s)) = l /\ VariableLength(Tail(s)) = m
        BY <3>4, <3>5, <3>7
      <4>2. l \in Ends(Tail(s)) /\ \A i \in Ends(Tail(s)) : l <= i
        <5>1. Ends(Tail(s)) \in SUBSET Nat
          BY <2>2, Rest DEF Ends
        <5>2. QED BY <4>1, <5>1, FirstEnd DEF Last
      <4>3. l + 1 \in Ends(s) /\ \A i \in Ends(s) : l + 1 <= i
        <5>1. Ends(Tail(s)) \subseteq Nat
          BY <2>2, Rest DEF Ends
        <5>2. QED BY <1>2, <3>3, <4>2, <5>1
      <4>4. Last(s) = l + 1
        <5>1. Ends(s) \in SUBSET Nat
          BY DEF Ends
        <5>2. QED BY <4>3, <5>1, FirstIs DEF Last
      <4>5. LastBytes(s, l + 1)[l] = m
        <5>1. LastBytes(s, l + 1)[l] = LastBytes(Tail(s), l)[l]
          <6>1. l < Len(s) /\ l \in 0..l
            BY <1>2, <3>5, <3>7
          <6>2. QED BY <1>2, <2>2, <6>1, RestBytes
        <5>2. QED BY <4>1, <5>1 DEF VariableLength
      <4>6. LastBytes(s, l + 1)[l + 1] = (s[1] % 128) + 128 * LastBytes(s, l + 1)[l]
        <5>1. l + 1 \in 0..Len(s) /\ l + 1 \in 1..l + 1 /\ (l + 1) - (l + 1) + 1 = 1 /\ (l + 1) - 1 = l
          BY <1>2, <3>5, <3>7
        <5>2. QED BY <5>1, BytesFollow
      <4>7. VariableLength(s) = n
        BY <1>1, <3>1, <4>4, <4>5, <4>6 DEF VariableLength
      <4>8. QED BY <4>3, <4>4, <4>7
    <3>8. QED BY <3>6, <3>7
  <2>3. QED BY <2>1, <2>2
<1>7. QED BY <1>2, <1>3, <1>5, <1>6 DEF Reads

\* A number is read from its code as soon as its last byte has come.
LEMMA VarRead == \A n \in Nat : Reads(n)
<1> DEFINE S == {k \in Nat : \A n \in Nat : n < k => Reads(n)}
<1>1. 0 \in S
  OBVIOUS
<1>2. ASSUME NEW k \in Nat, k \in S PROVE k + 1 \in S
  <2>1. ASSUME NEW n \in Nat, n < k + 1 PROVE Reads(n)
    <3>1. CASE n < 128
      BY <3>1, ShortRead
    <3>2. CASE ~(n < 128)
      <4>1. n \div 128 \in Nat /\ n \div 128 < n
        BY <3>2
      <4>2. PICK m \in Nat : m = n \div 128 /\ m < k
        BY <2>1, <4>1
      <4>3. Reads(m)
        BY <1>2, <4>2
      <4>4. QED BY <3>2, <4>2, <4>3, LongRead
    <3>3. QED BY <3>1, <3>2
  <2>2. QED BY <2>1
<1>3. Nat \subseteq S
  <2> HIDE DEF S
  <2>1. QED BY <1>1, <1>2, Induct
<1>4. ASSUME NEW n \in Nat PROVE Reads(n)
  <2>1. n + 1 \in Nat /\ n < n + 1
    OBVIOUS
  <2>2. n + 1 \in S
    BY <1>3, <2>1
  <2>3. QED BY <2>1, <2>2
<1>5. QED BY <1>4

-----------------------------------------------------------------------------
(***************************************************************************)
(* Headers of objects.                                                     *)
(***************************************************************************)

\* A header, with the hash of the parent of a delta.
HashOf(type) == IF type = 7 THEN [i \in 1..HashLength |-> 255] ELSE <<>>
HeaderOf(type, n) == HeaderCode(type, n) \o HashOf(type)

\* The hash behind a header.
LEMMA Hashes ==
    ASSUME NEW type \in 0..7
    PROVE  /\ HashOf(type) \in Seq(Byte) /\ Len(HashOf(type)) \in Nat
           /\ Len(HashOf(type)) = IF type = 7 THEN HashLength ELSE 0
<1>1. HashLength \in Nat
  BY LengthAssumption
<1>2. 255 \in Byte
  BY DEF Byte
<1>3. [i \in 1..HashLength |-> 255] \in Seq(Byte) /\ Len([i \in 1..HashLength |-> 255]) = HashLength
  BY <1>1, <1>2
<1>4. QED BY <1>1, <1>3 DEF HashOf

\* A byte before others.
LEMMA Prefixed ==
    ASSUME NEW b \in Byte, NEW d \in Seq(Byte)
    PROVE  /\ <<b>> \o d \in Seq(Byte) /\ Len(d) \in Nat /\ Len(<<b>> \o d) = 1 + Len(d)
           /\ (<<b>> \o d)[1] = b /\ \A i \in 1..Len(d) : (<<b>> \o d)[i + 1] = d[i]
<1>1. <<b>> \in Seq(Byte) /\ Len(<<b>>) = 1 /\ <<b>>[1] = b /\ Len(d) \in Nat
  OBVIOUS
<1>2. PICK a \in Seq(Byte) : a = <<b>>
  BY <1>1
<1>3. /\ a \o d \in Seq(Byte) /\ Len(a \o d) = Len(a) + Len(d)
      /\ \A i \in 1..Len(a) + Len(d) :
            (a \o d)[i] = IF i <= Len(a) THEN a[i] ELSE d[i - Len(a)]
  BY ConcatProperties
<1>4. PICK e : e = a \o d
  OBVIOUS
<1>5. e[1] = b /\ \A i \in 1..Len(d) : e[i + 1] = d[i]
  <2>1. /\ 1 \in 1..1 + Len(d)
        /\ \A i \in 1..Len(d) : i + 1 \in 1..1 + Len(d) /\ ~(i + 1 <= 1) /\ (i + 1) - 1 = i
    BY <1>1
  <2>2. \A i \in 1..1 + Len(d) : e[i] = IF i <= 1 THEN a[i] ELSE d[i - 1]
    BY <1>1, <1>2, <1>3, <1>4
  <2>3. QED BY <1>1, <1>2, <2>1, <2>2
<1>6. QED BY <1>1, <1>2, <1>3, <1>4, <1>5

\* One code behind another.
LEMMA Joined ==
    ASSUME NEW c \in Seq(Byte), NEW d \in Seq(Byte)
    PROVE  /\ c \o d \in Seq(Byte) /\ Len(c) \in Nat /\ Len(d) \in Nat
           /\ Len(c \o d) = Len(c) + Len(d)
           /\ \A i \in 1..Len(c) : (c \o d)[i] = c[i]
           /\ \A i \in 1..Len(d) : (c \o d)[Len(c) + i] = d[i]
<1>1. PICK k \in Nat, l \in Nat : k = Len(c) /\ l = Len(d)
  OBVIOUS
<1>2. PICK e : e = c \o d
  OBVIOUS
<1>3. /\ e \in Seq(Byte) /\ Len(e) = k + l
      /\ \A i \in 1..k + l : e[i] = IF i <= k THEN c[i] ELSE d[i - k]
  BY <1>1, <1>2, ConcatProperties
<1>4. \A i \in 1..k : i \in 1..k + l /\ i <= k
  OBVIOUS
<1>5. \A i \in 1..l : k + i \in 1..k + l /\ ~(k + i <= k) /\ (k + i) - k = i
  OBVIOUS
<1>6. QED BY <1>1, <1>2, <1>3, <1>4, <1>5

\* What is read of a header that begins with a byte.
HeaderRead(type, n, s, total) ==
    /\ HasHeader(s) <=> Len(s) >= total
    /\ HasHeader(s) =>
        /\ Type(s) = type /\ ObjectLength(s) = n
        /\ 1 + LengthBytes(s) + HashBytes(s) = total

\* A header of one byte.
LEMMA ShortHeader ==
    ASSUME NEW type \in 0..7, NEW n \in Nat, n < 16
    PROVE  /\ HeaderOf(type, n) \in Seq(Byte)
           /\ Len(HeaderOf(type, n)) \in Nat /\ Len(HeaderOf(type, n)) >= 1
           /\ \A s \in Seq(Byte) :
                s # <<>> /\ Agrees(s, HeaderOf(type, n)) =>
                    HeaderRead(type, n, s, Len(HeaderOf(type, n)))
<1>1. PICK b \in Nat : b = 16 * type + n /\ b < 128
  OBVIOUS
<1>2. b \div 16 = type /\ type % 8 = type /\ b % 16 = n
  BY <1>1
<1>3. PICK h \in Seq(Byte) : h = HashOf(type)
  BY Hashes
<1>4. PICK l \in Nat : l = Len(h) /\ l = IF type = 7 THEN HashLength ELSE 0
  BY <1>3, Hashes
<1>5. PICK c : c = HeaderOf(type, n)
  OBVIOUS
<1>6. c = <<b>> \o h
  BY <1>1, <1>3, <1>5 DEF HeaderOf, HeaderCode
<1>7. c \in Seq(Byte) /\ Len(c) = 1 + l /\ c[1] = b
  <2>1. b \in Byte
    <3>1. b < 256
      BY <1>1
    <3>2. QED BY <3>1 DEF Byte
  <2>2. QED BY <1>4, <1>6, <2>1, Prefixed
<1>8. ASSUME NEW s \in Seq(Byte), s # <<>>, Agrees(s, c)
      PROVE  HeaderRead(type, n, s, 1 + l)
  <2>1. s[1] = b
    <3>1. 1 \in 1..Len(s) /\ 1 <= Len(c)
      BY <1>7, <1>8
    <3>2. QED BY <1>7, <1>8, <3>1 DEF Agrees
  <2>2. ~IsLong(s) /\ LengthBytes(s) = 0
    BY <1>1, <2>1 DEF IsLong, LengthBytes
  <2>3. Type(s) = type
    BY <1>2, <2>1 DEF Type
  <2>4. HashBytes(s) = l
    BY <1>4, <2>3 DEF HashBytes
  <2>5. ObjectLength(s) = n
    BY <1>2, <2>1, <2>2 DEF ObjectLength
  <2>6. HasHeader(s) <=> Len(s) >= 1 + l
    BY <1>8, <2>2, <2>4 DEF HasHeader
  <2>7. 1 + LengthBytes(s) + HashBytes(s) = 1 + l
    BY <2>2, <2>4
  <2>8. QED BY <2>3, <2>5, <2>6, <2>7 DEF HeaderRead
<1>9. Len(c) \in Nat /\ Len(c) >= 1
  BY <1>7
<1>10. QED BY <1>5, <1>7, <1>8, <1>9

\* A header with the rest of the length behind its first byte.
LEMMA LongHeader ==
    ASSUME NEW type \in 0..7, NEW n \in Nat, ~(n < 16)
    PROVE  /\ HeaderOf(type, n) \in Seq(Byte)
           /\ Len(HeaderOf(type, n)) \in Nat /\ Len(HeaderOf(type, n)) >= 1
           /\ \A s \in Seq(Byte) :
                s # <<>> /\ Agrees(s, HeaderOf(type, n)) =>
                    HeaderRead(type, n, s, Len(HeaderOf(type, n)))
<1>1. PICK m \in Nat, r \in Nat : m = n \div 16 /\ r = n % 16 /\ r < 16 /\ n = 16 * m + r
  OBVIOUS
<1>2. PICK b \in Nat : b = 128 + 16 * type + r /\ b >= 128 /\ b < 256
  BY <1>1
<1>3. (b \div 16) % 8 = type /\ b % 16 = r
  <2>1. b \div 16 = 8 + type
    BY <1>1, <1>2
  <2>2. (8 + type) % 8 = type
    OBVIOUS
  <2>3. b % 16 = r
    BY <1>1, <1>2
  <2>4. QED BY <2>1, <2>2, <2>3
<1>4. PICK d \in Seq(Byte), k \in Nat : d = VarCode[m] /\ k = Len(d) /\ k >= 1
  BY VarCodes, VarRead DEF Reads
<1>5. PICK h \in Seq(Byte) : h = HashOf(type)
  BY Hashes
<1>6. PICK l \in Nat : l = Len(h) /\ l = IF type = 7 THEN HashLength ELSE 0
  BY <1>5, Hashes
<1>7. PICK c : c = HeaderOf(type, n)
  OBVIOUS
<1>8. c = (<<b>> \o d) \o h
  BY <1>1, <1>2, <1>4, <1>5, <1>7 DEF HeaderOf, HeaderCode
<1>9. PICK e \in Seq(Byte) : e = <<b>> \o d /\ Len(e) = 1 + k /\ e[1] = b /\ \A i \in 1..k : e[i + 1] = d[i]
  <2>1. b \in Byte
    BY <1>2 DEF Byte
  <2>2. PICK e : e = <<b>> \o d
    OBVIOUS
  <2>3. e \in Seq(Byte) /\ Len(e) = 1 + k /\ e[1] = b /\ \A i \in 1..k : e[i + 1] = d[i]
    BY <1>4, <2>1, <2>2, Prefixed
  <2>4. QED BY <2>2, <2>3
<1>10. c \in Seq(Byte) /\ Len(c) = 1 + k + l /\ \A i \in 1..1 + k : c[i] = e[i]
  <2>1. c = e \o h
    BY <1>8, <1>9
  <2>2. /\ e \o h \in Seq(Byte) /\ Len(e \o h) = Len(e) + Len(h)
        /\ \A i \in 1..Len(e) : (e \o h)[i] = e[i]
    BY Joined
  <2>3. QED BY <1>6, <1>9, <2>1, <2>2
<1>11. c[1] = b /\ \A i \in 1..k : c[i + 1] = d[i]
  BY <1>9, <1>10
<1>12. ASSUME NEW s \in Seq(Byte), s # <<>>, Agrees(s, c)
       PROVE  HeaderRead(type, n, s, 1 + k + l)
  <2>1. s[1] = b
    <3>1. 1 \in 1..Len(s) /\ 1 <= Len(c)
      BY <1>10, <1>12
    <3>2. QED BY <1>11, <1>12, <3>1 DEF Agrees
  <2>2. IsLong(s)
    BY <1>2, <2>1 DEF IsLong
  <2>3. Agrees(Tail(s), d)
    <3>1. ASSUME NEW i \in 1..Len(Tail(s)), i <= Len(d) PROVE Tail(s)[i] = d[i]
      <4>1. i \in 1..Len(s) - 1 /\ i + 1 \in 1..Len(s) /\ i + 1 <= Len(c) /\ i \in 1..k
        BY <1>4, <1>10, <1>12, <3>1, Rest
      <4>2. Tail(s)[i] = s[i + 1]
        BY <1>12, <4>1, Rest
      <4>3. s[i + 1] = c[i + 1]
        BY <1>12, <4>1 DEF Agrees
      <4>4. QED BY <1>11, <4>1, <4>2, <4>3
    <3>2. QED BY <3>1 DEF Agrees
  <2>4. Tail(s) \in Seq(Byte) /\ Len(Tail(s)) = Len(s) - 1 /\ Len(s) \in Nat
    BY <1>12, Rest
  <2>5. /\ Len(Tail(s)) < k => Ends(Tail(s)) = {}
        /\ Len(Tail(s)) >= k =>
              Ends(Tail(s)) # {} /\ Last(Tail(s)) = k /\ VariableLength(Tail(s)) = m
    BY <1>4, <2>3, <2>4, VarRead DEF Reads
  <2>6. Type(s) = type
    BY <1>3, <2>1 DEF Type
  <2>7. HashBytes(s) = l
    BY <1>6, <2>6 DEF HashBytes
  <2>8. CASE Len(s) - 1 < k
    <3>1. ~HasHeader(s)
      BY <2>2, <2>4, <2>5, <2>8 DEF HasHeader
    <3>2. ~(Len(s) >= 1 + k + l)
      BY <2>4, <2>8
    <3>3. QED BY <3>1, <3>2 DEF HeaderRead
  <2>9. CASE ~(Len(s) - 1 < k)
    <3>1. Ends(Tail(s)) # {} /\ Last(Tail(s)) = k /\ VariableLength(Tail(s)) = m
      <4>1. Len(Tail(s)) >= k
        BY <2>4, <2>9
      <4>2. QED BY <2>5, <4>1
    <3>2. LengthBytes(s) = k
      BY <2>2, <3>1 DEF LengthBytes
    <3>3. HasHeader(s) <=> Len(s) >= 1 + k + l
      BY <1>12, <2>7, <3>1, <3>2 DEF HasHeader
    <3>4. ObjectLength(s) = n
      BY <1>1, <1>3, <2>1, <2>2, <3>1 DEF ObjectLength
    <3>5. 1 + LengthBytes(s) + HashBytes(s) = 1 + k + l
      BY <2>7, <3>2
    <3>6. QED BY <2>6, <3>3, <3>4, <3>5 DEF HeaderRead
  <2>10. QED BY <2>8, <2>9
<1>13. Len(c) \in Nat /\ Len(c) >= 1
  BY <1>10
<1>14. QED BY <1>7, <1>10, <1>12, <1>13

\* A header is read as soon as its last byte has come, as it was written.
LEMMA HeadersRead ==
    ASSUME NEW type \in 0..7, NEW n \in Nat
    PROVE  /\ HeaderOf(type, n) \in Seq(Byte)
           /\ Len(HeaderOf(type, n)) \in Nat /\ Len(HeaderOf(type, n)) >= 1
           /\ \A s \in Seq(Byte) :
                s # <<>> /\ Agrees(s, HeaderOf(type, n)) =>
                    HeaderRead(type, n, s, Len(HeaderOf(type, n)))
<1>1. CASE n < 16
  BY <1>1, ShortHeader
<1>2. CASE ~(n < 16)
  BY <1>2, LongHeader
<1>3. QED BY <1>1, <1>2

-----------------------------------------------------------------------------
(***************************************************************************)
(* Deltas.                                                                 *)
(***************************************************************************)

\* What is cut off from two codes, the second behind the first.
LEMMA Cut ==
    ASSUME NEW c \in Seq(Byte), NEW d \in Seq(Byte), NEW n \in 0..Len(c \o d)
    PROVE  LET s == SubSeq(c \o d, 1, n) IN
           /\ s \in Seq(Byte) /\ Len(s) = n /\ Agrees(s, c)
           /\ n >= Len(c) =>
                /\ n - Len(c) \in 0..Len(d)
                /\ SubSeq(s, Len(c) + 1, Len(s)) = SubSeq(d, 1, n - Len(c))
<1>1. PICK e \in Seq(Byte), k \in Nat, l \in Nat :
        /\ e = c \o d /\ k = Len(c) /\ l = Len(d) /\ Len(e) = k + l
        /\ \A i \in 1..k : e[i] = c[i]
        /\ \A i \in 1..l : e[k + i] = d[i]
  <2>1. PICK e, k, l : e = c \o d /\ k = Len(c) /\ l = Len(d)
    OBVIOUS
  <2>2. /\ e \in Seq(Byte) /\ k \in Nat /\ l \in Nat /\ Len(e) = k + l
        /\ \A i \in 1..k : e[i] = c[i]
        /\ \A i \in 1..l : e[k + i] = d[i]
    BY <2>1, Joined
  <2>3. QED BY <2>1, <2>2
<1>2. n \in Nat /\ n <= k + l
  BY <1>1
<1>3. PICK s : s = SubSeq(e, 1, n)
  OBVIOUS
<1>4. s \in Seq(Byte) /\ Len(s) = n /\ \A i \in 1..n : s[i] = e[i]
  BY <1>1, <1>2, <1>3
<1>5. Agrees(s, c)
  BY <1>1, <1>4 DEF Agrees
<1>6. ASSUME n >= k
      PROVE  n - k \in 0..l /\ SubSeq(s, k + 1, n) = SubSeq(d, 1, n - k)
  <2>1. PICK m \in Nat : m = n - k /\ m <= l /\ n = k + m
    BY <1>2, <1>6
  <2>2. PICK t, u : t = SubSeq(s, k + 1, n) /\ u = SubSeq(d, 1, m)
    OBVIOUS
  <2>3. t \in Seq(Byte) /\ Len(t) = m /\ \A i \in 1..m : t[i] = s[k + i]
    <3>1. \A i \in k + 1..n : s[i] \in Byte
      BY <1>4
    <3>2. k + 1 \in Int /\ n \in Int
      BY <1>2
    <3>3. /\ t \in Seq(Byte)
          /\ Len(t) = IF k + 1 <= n THEN n - (k + 1) + 1 ELSE 0
          /\ \A i \in 1..n - (k + 1) + 1 : t[i] = s[(k + 1) + i - 1]
      BY <2>2, <3>1, <3>2, SubSeqProperties
    <3>4. n - (k + 1) + 1 = m /\ \A i \in 1..m : (k + 1) + i - 1 = k + i
      BY <2>1
    <3>5. Len(t) = m
      BY <2>1, <3>3
    <3>6. QED BY <3>3, <3>4, <3>5
  <2>4. u \in Seq(Byte) /\ Len(u) = m /\ \A i \in 1..m : u[i] = d[i]
    BY <1>1, <2>1, <2>2
  <2>5. \A i \in 1..m : s[k + i] = d[i]
    <3>1. \A i \in 1..m : i \in 1..l /\ k + i \in 1..n
      BY <2>1
    <3>2. QED BY <1>1, <1>4, <3>1
  <2>6. t = u
    <3>1. Len(t) = Len(u) /\ \A i \in 1..Len(t) : t[i] = u[i]
      BY <2>3, <2>4, <2>5
    <3>2. QED BY <2>3, <2>4, <3>1, SeqEqual
  <2>7. QED BY <2>1, <2>2, <2>6
<1>7. QED BY <1>1, <1>3, <1>4, <1>5, <1>6

\* A number that something stands behind is read, and left behind, as soon as
\* its last byte is there.
LEMMA LengthRead ==
    ASSUME NEW m \in Nat, NEW d \in Seq(Byte), NEW n \in 0..Len(VarCode[m] \o d)
    PROVE  LET s == SubSeq(VarCode[m] \o d, 1, n)
               l == Len(VarCode[m])
           IN  /\ l \in Nat /\ Len(VarCode[m] \o d) = l + Len(d)
               /\ n < l => Ends(s) = {}
               /\ n >= l => /\ Ends(s) # {} /\ VariableLength(s) = m
                            /\ n - l \in 0..Len(d)
                            /\ AfterLength(s) = SubSeq(d, 1, n - l)
<1>1. PICK c \in Seq(Byte), l \in Nat : c = VarCode[m] /\ l = Len(c)
  BY VarCodes
<1>2. PICK s : s = SubSeq(c \o d, 1, n)
  OBVIOUS
<1>3. n \in 0..Len(c \o d)
  BY <1>1
<1>4. /\ s \in Seq(Byte) /\ Len(s) = n /\ Agrees(s, c)
      /\ n >= l => n - l \in 0..Len(d) /\ SubSeq(s, l + 1, Len(s)) = SubSeq(d, 1, n - l)
  BY <1>1, <1>2, <1>3, Cut
<1>5. Reads(m)
  BY VarRead
<1>6. /\ n < l => Ends(s) = {}
      /\ n >= l => Ends(s) # {} /\ Last(s) = l /\ VariableLength(s) = m
  BY <1>1, <1>4, <1>5 DEF Reads
<1>7. n >= l => AfterLength(s) = SubSeq(d, 1, n - l)
  BY <1>4, <1>6 DEF AfterLength
<1>8. Len(c \o d) = l + Len(d)
  BY <1>1, Joined
<1>9. QED BY <1>1, <1>2, <1>4, <1>6, <1>7, <1>8

\* What is left of the codes of m pieces begins with the first of them.
NextRead(how, row, m, n) ==
    LET p == row[Len(row) - m + 1]
        s == SubSeq(LastCodes(how, row)[m], 1, n)
        l == 1 + Needs(s)
    IN  /\ m >= 1 /\ p \in Piece /\ l \in Nat /\ Len(s) = n
        /\ Len(LastCodes(how, row)[m]) = l + Len(LastCodes(how, row)[m - 1])
        /\ n >= l => /\ Instruction(s) = p
                     /\ n - l \in 0..Len(LastCodes(how, row)[m - 1])
                     /\ SubSeq(s, 2 + Needs(s), Len(s))
                          = SubSeq(LastCodes(how, row)[m - 1], 1, n - l)

\* The first piece is read as soon as its code is there.
LEMMA NextPiece ==
    ASSUME NEW how, NEW row \in Seq(Piece), NEW m \in 0..Len(row),
           NEW n \in 0..Len(LastCodes(how, row)[m]), n # 0
    PROVE  NextRead(how, row, m, n)
<1>1. PICK size \in Nat : size = Len(row)
  OBVIOUS
<1>2. m \in Nat /\ m <= size /\ m >= 1
  <2>1. m # 0
    <3>1. LastCodes(how, row)[0] = <<>>
      BY CodesFollow
    <3>2. m = 0 => Len(LastCodes(how, row)[m]) = 0
      BY <3>1
    <3>3. QED BY <3>2
  <2>2. QED BY <1>1, <2>1
<1>3. PICK p \in Piece : p = row[size - m + 1]
  <2>1. size - m + 1 \in 1..size
    BY <1>2
  <2>2. QED BY <1>1, <2>1
<1>4. PICK c, d \in Seq(Byte) :
        /\ c = PieceCode(how, p) /\ d = LastCodes(how, row)[m - 1]
        /\ LastCodes(how, row)[m] = c \o d
  <2>1. m \in 1..Len(row) /\ m - 1 \in 0..Len(row)
    BY <1>1, <1>2
  <2>2. /\ LastCodes(how, row)[m - 1] \in Seq(Byte)
        /\ LastCodes(how, row)[m] =
              PieceCode(how, row[Len(row) - m + 1]) \o LastCodes(how, row)[m - 1]
    BY <2>1, CodesFollow
  <2>3. PieceCode(how, p) \in Seq(Byte)
    BY PieceRead
  <2>4. QED BY <1>1, <1>3, <2>2, <2>3
<1>5. PICK s : s = SubSeq(c \o d, 1, n)
  OBVIOUS
<1>6. n \in 0..Len(c \o d) /\ n \in Nat
  BY <1>4
<1>7. PICK l \in Nat : l = Len(c) /\ Len(c \o d) = l + Len(d)
  BY Joined
<1>8. /\ s \in Seq(Byte) /\ Len(s) = n /\ Agrees(s, c)
      /\ n >= l => n - l \in 0..Len(d) /\ SubSeq(s, l + 1, Len(s)) = SubSeq(d, 1, n - l)
  BY <1>5, <1>6, <1>7, Cut
<1>9. s # <<>>
  BY <1>8
<1>10. 1 + Needs(s) = l /\ (n >= l => Instruction(s) = p)
  BY <1>4, <1>7, <1>8, <1>9, PieceRead
<1>11. 2 + Needs(s) = l + 1
  <2>1. Needs(s) \in Nat
    <3>1. CASE s[1] >= 128
      <4>1. Given(s) \in SUBSET (0..6)
        BY DEF Given
      <4>2. PICK k \in 0..7 : k = Cardinality(Given(s))
        BY <4>1, Ranks
      <4>3. QED BY <3>1, <4>2 DEF Needs
    <3>2. CASE ~(s[1] >= 128)
      BY <1>8, <1>9, <3>2, Rest DEF Needs
    <3>3. QED BY <3>1, <3>2
  <2>2. QED BY <1>10, <2>1
<1>12. QED BY <1>1, <1>2, <1>3, <1>4, <1>5, <1>7, <1>8, <1>10, <1>11 DEF NextRead

-----------------------------------------------------------------------------
(***************************************************************************)
(* The steps of PackObject, and its theorems.                              *)
(***************************************************************************)

\* What comes of an object begins with its header.
StreamRead(type, n, sent, stream) ==
    /\ Len(sent) \in Nat /\ Len(sent) >= 1 /\ Len(stream) = Len(sent) + 2
    /\ \A m \in 1..Len(stream) : HeaderRead(type, n, SubSeq(stream, 1, m), Len(sent))
    /\ \A m \in 1..Len(stream) : Len(SubSeq(stream, 1, m)) = m

\* The header is read as soon as it has come, whatever follows.
LEMMA Comes ==
    ASSUME NEW type \in 0..7, NEW n \in Nat
    PROVE  StreamRead(type, n, HeaderOf(type, n), HeaderOf(type, n) \o <<120, 156>>)
<1>1. PICK sent : sent = HeaderOf(type, n)
  OBVIOUS
<1>2. /\ sent \in Seq(Byte) /\ Len(sent) \in Nat /\ Len(sent) >= 1
      /\ \A s \in Seq(Byte) :
            s # <<>> /\ Agrees(s, sent) => HeaderRead(type, n, s, Len(sent))
  BY <1>1, HeadersRead
<1>3. PICK zlib \in Seq(Byte) : zlib = <<120, 156>> /\ Len(zlib) = 2
  <2>1. <<120, 156>> \in Seq(Byte) /\ Len(<<120, 156>>) = 2
    BY DEF Byte
  <2>2. QED BY <2>1
<1>4. Len(sent \o zlib) = Len(sent) + 2
  BY <1>2, <1>3, Joined
<1>5. ASSUME NEW m \in 1..Len(sent \o zlib)
      PROVE  LET s == SubSeq(sent \o zlib, 1, m) IN HeaderRead(type, n, s, Len(sent)) /\ Len(s) = m
  <2>1. PICK s : s = SubSeq(sent \o zlib, 1, m)
    OBVIOUS
  <2>2. m \in 0..Len(sent \o zlib) /\ m \in Nat /\ m # 0
    BY <1>2, <1>4
  <2>3. s \in Seq(Byte) /\ Len(s) = m /\ Agrees(s, sent)
    BY <1>2, <2>1, <2>2, Cut
  <2>4. s # <<>>
    BY <2>2, <2>3
  <2>5. QED BY <1>2, <2>1, <2>3, <2>4
<1>6. StreamRead(type, n, sent, sent \o zlib)
  BY <1>2, <1>4, <1>5 DEF StreamRead
<1>7. QED BY <1>1, <1>3, <1>6

\* The header that is sent, and the stream behind it.
LEMMA SentStream ==
    ASSUME object.type \in 0..7, object.length \in Nat
    PROVE  StreamRead(object.type, object.length, SentHeader, Stream)
<1>1. SentHeader = HeaderOf(object.type, object.length)
  BY DEF SentHeader, HeaderOf, HashOf, IsDelta
<1>2. StreamRead(object.type, object.length, HeaderOf(object.type, object.length),
                 HeaderOf(object.type, object.length) \o <<120, 156>>)
  BY Comes, Zenon
<1>3. QED BY <1>1, <1>2 DEF Stream

\* A delta is its two lengths and the codes of its pieces.
LEMMA Deltas ==
    ASSUME NEW how, NEW size \in Nat, NEW row \in Seq(Piece)
    PROVE  /\ Total(row) \in Nat /\ Codes(how, row) \in Seq(Byte)
           /\ VarCode[Total(row)] \o Codes(how, row) \in Seq(Byte)
           /\ DeltaCode(how, size, row)
                = VarCode[size] \o (VarCode[Total(row)] \o Codes(how, row))
           /\ DeltaCode(how, size, row) \in Seq(Byte)
<1>1. Len(row) \in 0..Len(row)
  OBVIOUS
<1>2. PICK t \in Nat : t = Total(row)
  BY <1>1, LengthsFollow DEF Total
<1>3. PICK c \in Seq(Byte) : c = Codes(how, row)
  BY <1>1, CodesFollow DEF Codes
<1>4. PICK a, b \in Seq(Byte) : a = VarCode[size] /\ b = VarCode[t]
  BY VarCodes
<1>5. b \o c \in Seq(Byte) /\ a \o (b \o c) \in Seq(Byte)
  <2>1. b \o c \in Seq(Byte)
    BY Joined
  <2>2. QED BY <2>1, Joined
<1>6. (a \o b) \o c = a \o (b \o c)
  BY ConcatAssociative
<1>7. DeltaCode(how, size, row) = (a \o b) \o c
  BY <1>2, <1>3, <1>4 DEF DeltaCode
<1>8. QED BY <1>2, <1>3, <1>4, <1>5, <1>6, <1>7

\* The length of the delta.
LEMMA DeltaLength ==
    ASSUME ObjectTypes
    PROVE  Delta \in Seq(Byte) /\ Len(Delta) \in Nat /\ kept \in Nat /\ kept <= Len(Delta)
<1>1. Delta \in Seq(Byte)
  BY Deltas DEF Delta, ObjectTypes
<1>2. Len(Delta) \in Nat
  BY <1>1
<1>3. QED BY <1>1, <1>2 DEF ObjectTypes

\* The invariant holds at first.
LEMMA ObjectStart ==
    ASSUME ObjectInit
    PROVE  ObjectInv
<1>1. parent \in Nat /\ base \in Nat /\ coded \in {"all", "short"}
  BY LengthAssumption DEF ObjectInit
<1>2. script \in Seq(Piece)
  <2>1. <<>> \in Seq(Piece)
    OBVIOUS
  <2>2. script \in Scripts \/ script = <<>>
    BY DEF ObjectInit
  <2>3. QED BY <2>1, <2>2, ScriptAssumption
<1>3. Delta \in Seq(Byte)
  BY <1>1, <1>2, Deltas DEF Delta
<1>4. Len(Delta) \in Nat
  BY <1>3
<1>5. object \in [type : 0..7, length : Nat] /\ (object.type = 7 \/ object.type \in 0..6)
  <2>1. CASE script \in Scripts /\ object = [type |-> 7, length |-> Len(Delta)]
    BY <1>4, <2>1
  <2>2. CASE script = <<>> /\ object \in Plain
    BY <2>2, PlainAssumption
  <2>3. QED BY <2>1, <2>2 DEF ObjectInit
<1>6. Len(SentHeader) \in Nat /\ Len(SentHeader) >= 1 /\ Len(Stream) = Len(SentHeader) + 2
  <2>1. object.type \in 0..7 /\ object.length \in Nat
    BY <1>5
  <2>2. QED BY <2>1, SentStream DEF StreamRead
<1>7. came = 0 /\ kept = 0 /\ stage = "header" /\ pieces = <<>> /\ written = 0
  BY DEF ObjectInit
<1>8. ObjectTypes
  BY <1>1, <1>2, <1>4, <1>5, <1>6, <1>7 DEF ObjectTypes
<1>9. HeaderIsExact
  BY <1>6, <1>7 DEF HeaderIsExact
<1>10. DeltaInv /\ DeltaIsExact
  BY <1>7 DEF DeltaInv, DeltaIsExact
<1>11. QED BY <1>8, <1>9, <1>10 DEF ObjectInv

\* What is sent stays.
LEMMA SentStays ==
    ASSUME UNCHANGED sentVars
    PROVE  /\ object' = object /\ script' = script /\ coded' = coded
           /\ parent' = parent /\ base' = base
           /\ Delta' = Delta /\ SentHeader' = SentHeader /\ Stream' = Stream
           /\ IsDelta' = IsDelta
<1>1. object' = object /\ script' = script /\ coded' = coded /\ parent' = parent /\ base' = base
  BY DEF sentVars
<1>2. Delta' = Delta /\ IsDelta' = IsDelta
  BY <1>1 DEF Delta, IsDelta
<1>3. SentHeader' = SentHeader
  BY <1>1 DEF SentHeader, IsDelta
<1>4. Stream' = Stream
  BY <1>3 DEF Stream
<1>5. QED BY <1>1, <1>2, <1>3, <1>4

\* A header that has come is read.
LEMMA ReceiveHeaderKeeps ==
    ASSUME ObjectInv, ReceiveHeader
    PROVE  ObjectInv'
<1>1. PICK n \in came + 1..Len(Stream) :
        /\ came' = n
        /\ LET s == SubSeq(Stream, 1, n) IN
            IF ~HasHeader(s) THEN UNCHANGED <<read, stage>>
            ELSE IF Type(s) \in {1, 2, 3, 4, 7}
            THEN /\ read' = [type |-> Type(s), length |-> ObjectLength(s),
                             at |-> 1 + LengthBytes(s) + HashBytes(s)]
                 /\ stage' = IF Type(s) = 7 THEN "inflate" ELSE "stored"
            ELSE stage' = "failed" /\ UNCHANGED read
  BY DEF ReceiveHeader
<1>2. UNCHANGED <<sentVars, kept, rest, madeVars>> /\ stage = "header"
  BY DEF ReceiveHeader
<1>3. /\ object' = object /\ script' = script /\ coded' = coded
      /\ parent' = parent /\ base' = base /\ kept' = kept
      /\ Delta' = Delta /\ SentHeader' = SentHeader /\ Stream' = Stream
      /\ IsDelta' = IsDelta
  BY <1>2, SentStays
<1>4. pieces = <<>> /\ written = 0 /\ pieces' = <<>> /\ written' = 0
  BY <1>2 DEF ObjectInv, DeltaInv, madeVars
<1>5. ObjectTypes
  BY DEF ObjectInv
<1>6. PICK h \in Nat :
        /\ h = Len(SentHeader) /\ Len(Stream) = h + 2
        /\ \A m \in 1..Len(Stream) :
             /\ HasHeader(SubSeq(Stream, 1, m)) <=> m >= h
             /\ HasHeader(SubSeq(Stream, 1, m)) =>
                 /\ Type(SubSeq(Stream, 1, m)) = object.type
                 /\ ObjectLength(SubSeq(Stream, 1, m)) = object.length
                 /\ 1 + LengthBytes(SubSeq(Stream, 1, m)) + HashBytes(SubSeq(Stream, 1, m)) = h
  <2>1. object.type \in 0..7 /\ object.length \in Nat
    BY <1>5 DEF ObjectTypes
  <2>2. StreamRead(object.type, object.length, SentHeader, Stream)
    BY <2>1, SentStream
  <2>3. PICK h, stream, type, size :
          h = SentHeader /\ stream = Stream /\ type = object.type /\ size = object.length
    OBVIOUS
  <2>4. StreamRead(type, size, h, stream)
    BY <2>2, <2>3
  <2>5. QED BY <2>3, <2>4 DEF StreamRead, HeaderRead
<1>7. n \in 1..Len(Stream) /\ n \in Nat
  <2>1. came \in Nat
    BY <1>5, <1>6 DEF ObjectTypes
  <2>2. QED BY <1>6, <2>1
<1>8. PICK s : s = SubSeq(Stream, 1, n)
  OBVIOUS
<1>9. /\ HasHeader(s) <=> n >= h
      /\ HasHeader(s) => /\ Type(s) = object.type /\ ObjectLength(s) = object.length
                         /\ 1 + LengthBytes(s) + HashBytes(s) = h
  BY <1>6, <1>7, <1>8
<1>10. came' \in 0..Len(Stream)
  BY <1>1, <1>7
<1>11. CASE ~HasHeader(s)
  <2>1. stage' = "header"
    BY <1>1, <1>2, <1>8, <1>11
  <2>2. ObjectTypes'
    BY <1>3, <1>5, <1>10, <2>1 DEF ObjectTypes
  <2>3. HeaderIsExact'
    <3>1. n < h
      BY <1>7, <1>9, <1>11
    <3>2. QED BY <1>1, <1>3, <1>6, <2>1, <3>1 DEF HeaderIsExact
  <2>4. DeltaInv' /\ DeltaIsExact'
    BY <1>4, <2>1 DEF DeltaInv, DeltaIsExact
  <2>5. QED BY <2>2, <2>3, <2>4 DEF ObjectInv
<1>12. CASE HasHeader(s) /\ object.type \in {1, 2, 3, 4, 7}
  <2>1. /\ read' = [type |-> object.type, length |-> object.length, at |-> h]
        /\ stage' = IF object.type = 7 THEN "inflate" ELSE "stored"
    <3>1. /\ read' = [type |-> Type(s), length |-> ObjectLength(s),
                      at |-> 1 + LengthBytes(s) + HashBytes(s)]
          /\ stage' = IF Type(s) = 7 THEN "inflate" ELSE "stored"
      BY <1>1, <1>8, <1>9, <1>12
    <3>2. QED BY <1>9, <1>12, <3>1
  <2>2. stage' \in {"inflate", "stored"} /\ (stage' = "inflate" => IsDelta')
    BY <1>3, <2>1 DEF IsDelta
  <2>3. ObjectTypes'
    BY <1>3, <1>5, <1>10, <2>2 DEF ObjectTypes
  <2>4. HeaderIsExact'
    <3>1. read'.at = h /\ read'.type = object.type /\ read'.length = object.length
      BY <2>1
    <3>2. came' >= h
      BY <1>1, <1>9, <1>12
    <3>3. QED BY <1>3, <1>6, <2>2, <3>1, <3>2 DEF HeaderIsExact
  <2>5. DeltaInv' /\ DeltaIsExact'
    BY <1>4, <2>2 DEF DeltaInv, DeltaIsExact
  <2>6. QED BY <2>3, <2>4, <2>5 DEF ObjectInv
<1>13. CASE HasHeader(s) /\ object.type \notin {1, 2, 3, 4, 7}
  <2>1. stage' = "failed"
    BY <1>1, <1>8, <1>9, <1>13
  <2>2. ObjectTypes'
    BY <1>3, <1>5, <1>10, <2>1 DEF ObjectTypes
  <2>3. HeaderIsExact'
    BY <1>3, <1>13, <2>1 DEF HeaderIsExact
  <2>4. ~IsDelta'
    BY <1>3, <1>13 DEF IsDelta
  <2>5. DeltaInv' /\ DeltaIsExact'
    BY <2>1, <2>4 DEF DeltaInv, DeltaIsExact
  <2>6. QED BY <2>2, <2>3, <2>5 DEF ObjectInv
<1>14. QED BY <1>11, <1>12, <1>13

\* What the header is read as stays, once it is read.
LEMMA HeaderStays ==
    ASSUME HeaderIsExact, UNCHANGED <<sentVars, came, read>>, IsDelta,
           stage # "header", stage # "failed", stage' # "header"
    PROVE  HeaderIsExact'
<1>1. object' = object /\ SentHeader' = SentHeader /\ IsDelta' = IsDelta
  BY SentStays
<1>2. QED BY <1>1 DEF HeaderIsExact

\* A delta is stored, up to some byte.
LEMMA StoreKeeps ==
    ASSUME ObjectInv, Store
    PROVE  ObjectInv'
<1>1. /\ stage = "inflate" /\ stage' = "lengths" /\ kept' \in 0..Len(Delta)
      /\ rest' = SubSeq(Delta, 1, kept')
      /\ UNCHANGED <<sentVars, came, read, madeVars>>
  BY DEF Store
<1>2. /\ object' = object /\ script' = script /\ coded' = coded
      /\ parent' = parent /\ base' = base
      /\ Delta' = Delta /\ Stream' = Stream /\ IsDelta' = IsDelta
  BY <1>1, SentStays
<1>3. ObjectTypes /\ HeaderIsExact /\ IsDelta /\ pieces = <<>> /\ written = 0
  BY <1>1 DEF ObjectInv, ObjectTypes, DeltaInv
<1>4. ObjectTypes'
  BY <1>1, <1>2, <1>3 DEF ObjectTypes
<1>5. HeaderIsExact'
  BY <1>1, <1>3, HeaderStays
<1>6. LeftOf(Delta)'
  BY <1>1, <1>2 DEF LeftOf
<1>7. pieces' = <<>> /\ written' = 0
  BY <1>1, <1>3 DEF madeVars
<1>8. DeltaInv' /\ DeltaIsExact'
  BY <1>1, <1>6, <1>7 DEF DeltaInv, DeltaIsExact
<1>9. QED BY <1>4, <1>5, <1>8 DEF ObjectInv

\* The lengths that a delta begins with are read, or one is missing.
LEMMA ReadLengthsKeeps ==
    ASSUME ObjectInv, ReadLengths
    PROVE  ObjectInv'
<1>1. /\ stage = "lengths"
      /\ IF Ends(rest) = {} \/ Ends(AfterLength(rest)) = {}
         THEN stage' = "panic" /\ UNCHANGED <<rest, announced>>
         ELSE /\ announced' = VariableLength(AfterLength(rest))
              /\ rest' = AfterLength(AfterLength(rest))
              /\ stage' = "instructions"
      /\ UNCHANGED <<sentVars, came, kept, read, written, pieces>>
  BY DEF ReadLengths
<1>2. /\ object' = object /\ script' = script /\ coded' = coded
      /\ parent' = parent /\ base' = base /\ kept' = kept /\ came' = came
      /\ Delta' = Delta /\ Stream' = Stream /\ IsDelta' = IsDelta
      /\ pieces' = pieces /\ written' = written
  BY <1>1, SentStays
<1>3. /\ ObjectTypes /\ HeaderIsExact /\ IsDelta /\ pieces = <<>> /\ written = 0
      /\ LeftOf(Delta)
  BY <1>1 DEF ObjectInv, ObjectTypes, DeltaInv
<1>4. stage' \in {"panic", "instructions"}
  BY <1>1
<1>5. ObjectTypes'
  BY <1>2, <1>3, <1>4 DEF ObjectTypes
<1>6. HeaderIsExact'
  BY <1>1, <1>3, <1>4, HeaderStays
<1>7. /\ script \in Seq(Piece) /\ parent \in Nat /\ kept \in Nat
      /\ Len(Delta) \in Nat /\ kept <= Len(Delta)
  BY <1>3, DeltaLength DEF ObjectTypes
<1>8. PICK t \in Nat, c \in Seq(Byte), d \in Seq(Byte) :
        /\ t = Total(script) /\ c = Codes(coded, script)
        /\ d = VarCode[t] \o c /\ Delta = VarCode[parent] \o d
  BY <1>7, Deltas DEF Delta
<1>9. PICK n \in 0..Len(Delta) :
        rest = SubSeq(Delta, 1, n) /\ Len(Delta) - n = Len(Delta) - kept
  BY <1>3 DEF LeftOf
<1>10. n = kept /\ n \in Nat
  BY <1>7, <1>9
<1>11. PICK k \in Nat :
        /\ k = Len(VarCode[parent]) /\ Len(Delta) = k + Len(d)
        /\ n < k => Ends(rest) = {}
        /\ n >= k => /\ Ends(rest) # {} /\ n - k \in 0..Len(d)
                     /\ AfterLength(rest) = SubSeq(d, 1, n - k)
  <2>1. n \in 0..Len(VarCode[parent] \o d)
    BY <1>8
  <2>2. LET s == SubSeq(VarCode[parent] \o d, 1, n)
            l == Len(VarCode[parent])
        IN  /\ l \in Nat /\ Len(VarCode[parent] \o d) = l + Len(d)
            /\ n < l => Ends(s) = {}
            /\ n >= l => /\ Ends(s) # {} /\ n - l \in 0..Len(d)
                         /\ AfterLength(s) = SubSeq(d, 1, n - l)
    BY <1>7, <2>1, LengthRead
  <2>3. QED BY <1>8, <1>9, <2>2
<1>12. ASSUME n >= k
       PROVE  \E l \in Nat :
                /\ Len(d) = l + Len(c)
                /\ n - k < l => Ends(AfterLength(rest)) = {}
                /\ n - k >= l =>
                    /\ Ends(AfterLength(rest)) # {}
                    /\ VariableLength(AfterLength(rest)) = t
                    /\ (n - k) - l \in 0..Len(c)
                    /\ AfterLength(AfterLength(rest)) = SubSeq(c, 1, (n - k) - l)
  <2>1. PICK m : m = n - k
    OBVIOUS
  <2>2. m \in 0..Len(VarCode[t] \o c) /\ AfterLength(rest) = SubSeq(VarCode[t] \o c, 1, m)
    BY <1>8, <1>11, <1>12, <2>1
  <2>3. LET s == SubSeq(VarCode[t] \o c, 1, m)
            l == Len(VarCode[t])
        IN  /\ l \in Nat /\ Len(VarCode[t] \o c) = l + Len(c)
            /\ m < l => Ends(s) = {}
            /\ m >= l => /\ Ends(s) # {} /\ VariableLength(s) = t
                         /\ m - l \in 0..Len(c)
                         /\ AfterLength(s) = SubSeq(c, 1, m - l)
    BY <2>2, LengthRead
  <2>4. QED BY <1>8, <2>1, <2>2, <2>3
<1>13. Len(c) \in Nat /\ Len(d) \in Nat
  BY <1>8
<1>14. CASE Ends(rest) = {} \/ Ends(AfterLength(rest)) = {}
  <2>1. stage' = "panic"
    BY <1>1, <1>14
  <2>2. kept < Len(Delta)
    <3>1. CASE n < k
      BY <1>10, <1>11, <1>13, <3>1
    <3>2. CASE n >= k
      <4>1. Ends(AfterLength(rest)) = {}
        BY <1>11, <1>14, <3>2
      <4>2. PICK m : m = n - k
        OBVIOUS
      <4>3. PICK l \in Nat : Len(d) = l + Len(c) /\ ~(m >= l)
        BY <1>12, <3>2, <4>1, <4>2
      <4>4. Len(Delta) = k + Len(d) /\ m \in Int
        BY <1>10, <1>11, <4>2
      <4>5. QED BY <1>10, <1>13, <4>2, <4>3, <4>4
    <3>3. QED BY <1>10, <3>1, <3>2
  <2>3. DeltaInv' /\ DeltaIsExact'
    BY <1>2, <2>1, <2>2 DEF DeltaInv, DeltaIsExact
  <2>4. QED BY <1>5, <1>6, <2>3 DEF ObjectInv
<1>15. CASE ~(Ends(rest) = {} \/ Ends(AfterLength(rest)) = {})
  <2>1. /\ stage' = "instructions" /\ announced' = VariableLength(AfterLength(rest))
        /\ rest' = AfterLength(AfterLength(rest))
    BY <1>1, <1>15
  <2>2. n >= k
    BY <1>10, <1>11, <1>15
  <2>3. PICK l \in Nat :
          /\ Len(d) = l + Len(c) /\ n - k >= l /\ VariableLength(AfterLength(rest)) = t
          /\ (n - k) - l \in 0..Len(c)
          /\ AfterLength(AfterLength(rest)) = SubSeq(c, 1, (n - k) - l)
    BY <1>10, <1>12, <1>15, <2>2
  <2>4. PICK m : m = (n - k) - l
    OBVIOUS
  <2>5. m \in 0..Len(c) /\ rest' = SubSeq(c, 1, m) /\ Len(c) - m = Len(Delta) - kept
    <3>1. Len(Delta) = k + Len(d) /\ Len(d) = l + Len(c)
      BY <1>11, <2>3
    <3>2. Len(c) - ((n - k) - l) = ((k + (l + Len(c))) - n)
      BY <1>10, <1>13
    <3>3. Len(c) - m = Len(Delta) - kept
      BY <1>10, <2>4, <3>1, <3>2
    <3>4. QED BY <2>1, <2>3, <2>4, <3>3
  <2>6. HasMade(0)'
    <3>1. PICK size \in Nat : size = Len(script) /\ size - 0 = size
      BY <1>7
    <3>2. pieces' = SubSeq(script, 1, 0)
      BY <1>2, <1>3, <1>7
    <3>3. LastLengths(script)[size] = t /\ LastCodes(coded, script)[size] = c
      BY <1>8, <3>1 DEF Total, Codes
    <3>4. written' + LastLengths(script)[size] = Total(script)
      BY <1>2, <1>3, <1>8, <3>3
    <3>5. LeftOf(LastCodes(coded, script)[size])'
      BY <1>2, <2>5, <3>3 DEF LeftOf
    <3>6. QED BY <1>2, <1>3, <3>1, <3>2, <3>4, <3>5 DEF HasMade
  <2>7. 0 \in 0..Len(script)
    BY <1>7
  <2>8. announced' = Total(script)
    BY <1>8, <2>1, <2>3
  <2>9. DeltaInv'
    BY <1>2, <2>1, <2>6, <2>7, <2>8 DEF DeltaInv
  <2>10. DeltaIsExact'
    BY <1>2, <2>1, <2>6, <2>7 DEF DeltaIsExact, HasMade
  <2>11. QED BY <1>5, <1>6, <2>9, <2>10 DEF ObjectInv
<1>16. QED BY <1>14, <1>15

\* One more piece is made, or one cannot be made.
LEMMA ApplyKeeps ==
    ASSUME ObjectInv, Apply
    PROVE  ObjectInv'
<1>1. /\ stage = "instructions" /\ rest # <<>>
      /\ IF Len(rest) < 1 + Needs(rest)
         THEN stage' = "panic" /\ UNCHANGED <<rest, written, pieces>>
         ELSE LET p == Instruction(rest) IN
              IF p.from = "parent" /\ p.offset + p.length > base
              THEN stage' = "panic" /\ UNCHANGED <<rest, written, pieces>>
              ELSE /\ pieces' = Append(pieces, p)
                   /\ written' = written + PieceLength(p)
                   /\ rest' = SubSeq(rest, 2 + Needs(rest), Len(rest))
                   /\ UNCHANGED stage
      /\ UNCHANGED <<sentVars, came, kept, read, announced>>
  BY DEF Apply
<1>2. /\ object' = object /\ script' = script /\ coded' = coded
      /\ parent' = parent /\ base' = base /\ kept' = kept /\ came' = came
      /\ Delta' = Delta /\ Stream' = Stream /\ IsDelta' = IsDelta
      /\ announced' = announced
  BY <1>1, SentStays
<1>3. ObjectTypes /\ HeaderIsExact /\ IsDelta /\ announced = Total(script)
  BY <1>1 DEF ObjectInv, ObjectTypes, DeltaInv
<1>4. stage' \in {"panic", "instructions"}
  BY <1>1
<1>5. ObjectTypes'
  BY <1>2, <1>3, <1>4 DEF ObjectTypes
<1>6. HeaderIsExact'
  BY <1>1, <1>3, <1>4, HeaderStays
<1>7. /\ script \in Seq(Piece) /\ kept \in Nat /\ Len(Delta) \in Nat /\ kept <= Len(Delta)
  BY <1>3, DeltaLength DEF ObjectTypes
<1>8. PICK size \in Nat : size = Len(script)
  BY <1>7
<1>9. PICK k \in 0..size : HasMade(k)
  BY <1>1, <1>8 DEF ObjectInv, DeltaInv
<1>10. PICK left \in 0..size : left = size - k /\ k \in Nat /\ left \in Nat
  BY <1>8
<1>11. /\ pieces = SubSeq(script, 1, k) /\ written \in Nat
       /\ written + LastLengths(script)[left] = Total(script)
       /\ LeftOf(LastCodes(coded, script)[left])
  BY <1>8, <1>9, <1>10 DEF HasMade
<1>12. PICK c \in Seq(Byte) : c = LastCodes(coded, script)[left]
  BY <1>7, <1>8, CodesFollow
<1>13. PICK n \in 0..Len(c) : rest = SubSeq(c, 1, n) /\ Len(c) - n = Len(Delta) - kept
  BY <1>11, <1>12 DEF LeftOf
<1>14. n # 0 /\ n \in Nat /\ Len(c) \in Nat
  <2>1. n = 0 => SubSeq(c, 1, n) = <<>>
    BY <1>12
  <2>2. QED BY <1>1, <1>12, <1>13, <2>1
<1>15. PICK p \in Piece, l \in Nat, d \in Seq(Byte) :
         /\ left >= 1 /\ p = script[size - left + 1] /\ l = 1 + Needs(rest)
         /\ Len(rest) = n
         /\ d = LastCodes(coded, script)[left - 1] /\ Len(c) = l + Len(d)
         /\ n >= l => /\ Instruction(rest) = p /\ n - l \in 0..Len(d)
                      /\ SubSeq(rest, 2 + Needs(rest), Len(rest)) = SubSeq(d, 1, n - l)
  <2>1. left \in 0..Len(script) /\ n \in 0..Len(LastCodes(coded, script)[left])
    BY <1>8, <1>12
  <2>2. NextRead(coded, script, left, n)
    BY <1>7, <1>14, <2>1, NextPiece, Zenon
  <2>3. left - 1 \in 0..Len(script)
    BY <1>8, <1>10, <2>2 DEF NextRead
  <2>4. LastCodes(coded, script)[left - 1] \in Seq(Byte)
    BY <1>7, <2>3, CodesFollow
  <2>5. QED BY <1>8, <1>12, <1>13, <2>2, <2>4 DEF NextRead
<1>16. k + 1 \in 1..size /\ size - left + 1 = k + 1 /\ p = script[k + 1]
  BY <1>8, <1>10, <1>15
<1>17. Len(d) \in Nat
  BY <1>15
<1>18. CASE n < l
  <2>1. stage' = "panic"
    BY <1>1, <1>15, <1>18
  <2>2. kept < Len(Delta)
    BY <1>7, <1>13, <1>14, <1>15, <1>17, <1>18
  <2>3. DeltaInv' /\ DeltaIsExact'
    BY <1>2, <2>1, <2>2 DEF DeltaInv, DeltaIsExact
  <2>4. QED BY <1>5, <1>6, <2>3 DEF ObjectInv
<1>19. CASE n >= l /\ p.from = "parent" /\ p.offset + p.length > base
  <2>1. stage' = "panic"
    <3>1. ~(Len(rest) < 1 + Needs(rest)) /\ Instruction(rest) = p
      BY <1>14, <1>15, <1>19
    <3>2. QED BY <1>1, <1>19, <3>1
  <2>2. ~FitsInto(base)
    <3>1. k + 1 \in DOMAIN script
      BY <1>7, <1>8, <1>16
    <3>2. p.offset \in Nat /\ p.length \in Nat /\ base \in Nat
      BY <1>3, <1>19, PieceFacts DEF ObjectTypes
    <3>3. ~(p.offset + p.length <= base)
      BY <1>19, <3>2
    <3>4. QED BY <1>16, <1>19, <3>1, <3>3 DEF FitsInto
  <2>3. ~FitsInto(base)'
    BY <1>2, <2>2 DEF FitsInto
  <2>4. DeltaInv' /\ DeltaIsExact'
    BY <2>1, <2>3 DEF DeltaInv, DeltaIsExact
  <2>5. QED BY <1>5, <1>6, <2>4 DEF ObjectInv
<1>20. CASE n >= l /\ ~(p.from = "parent" /\ p.offset + p.length > base)
  <2>1. /\ pieces' = Append(pieces, p) /\ written' = written + PieceLength(p)
        /\ rest' = SubSeq(d, 1, n - l) /\ stage' = "instructions"
    <3>1. ~(Len(rest) < 1 + Needs(rest)) /\ Instruction(rest) = p
      BY <1>14, <1>15, <1>20
    <3>2. QED BY <1>1, <1>15, <1>20, <3>1
  <2>2. HasMade(k + 1)'
    <3>1. pieces' = SubSeq(script, 1, k + 1)
      <4>1. k + 1 \in 1..Len(script) /\ (k + 1) - 1 = k
        BY <1>8, <1>10, <1>16
      <4>2. Append(SubSeq(script, 1, k), script[k + 1]) = SubSeq(script, 1, k + 1)
        BY <1>7, <1>10, <4>1
      <4>3. QED BY <1>11, <1>16, <2>1, <4>2
    <3>2. written' + LastLengths(script)[left - 1] = Total(script)
      <4>1. left \in 1..Len(script)
        BY <1>8, <1>10, <1>15
      <4>2. /\ LastLengths(script)[left]
                 = PieceLength(script[Len(script) - left + 1]) + LastLengths(script)[left - 1]
            /\ LastLengths(script)[left - 1] \in Nat
        <5>1. left - 1 \in 0..Len(script)
          BY <1>8, <1>10, <4>1
        <5>2. QED BY <1>7, <4>1, <5>1, LengthsFollow
      <4>3. PICK a \in Nat, b \in Nat :
              /\ a = PieceLength(p) /\ b = LastLengths(script)[left - 1]
              /\ LastLengths(script)[left] = a + b
        BY <1>8, <1>15, <4>2, PieceFacts
      <4>4. written + (a + b) = (written + a) + b
        <5>1. written \in Nat
          BY <1>11
        <5>2. QED BY <5>1
      <4>5. QED BY <1>11, <2>1, <4>3, <4>4
    <3>3. LeftOf(LastCodes(coded, script)[left - 1])'
      <4>1. PICK m : m = n - l
        OBVIOUS
      <4>2. m \in 0..Len(d) /\ rest' = SubSeq(d, 1, m) /\ Len(d) - m = Len(Delta) - kept
        <5>1. m \in 0..Len(d) /\ rest' = SubSeq(d, 1, m)
          BY <1>15, <1>20, <2>1, <4>1
        <5>2. Len(c) = l + Len(d) /\ Len(c) - n = Len(Delta) - kept
          BY <1>13, <1>15
        <5>3. Len(d) - (n - l) = (l + Len(d)) - n
          BY <1>14, <1>17
        <5>4. QED BY <4>1, <5>1, <5>2, <5>3
      <4>3. QED BY <1>2, <1>15, <4>2 DEF LeftOf
    <3>4. Len(script) - (k + 1) = left - 1
      BY <1>8, <1>10
    <3>5. written' \in Nat
      <4>1. PICK a \in Nat : a = PieceLength(p)
        BY PieceFacts
      <4>2. QED BY <1>11, <2>1, <4>1
    <3>6. QED BY <1>2, <3>1, <3>2, <3>3, <3>4, <3>5 DEF HasMade
  <2>3. k + 1 \in 0..Len(script)
    BY <1>8, <1>16
  <2>4. DeltaInv'
    BY <1>2, <1>3, <2>1, <2>2, <2>3 DEF DeltaInv
  <2>5. DeltaIsExact'
    BY <1>2, <2>1, <2>2, <2>3 DEF DeltaIsExact, HasMade
  <2>6. QED BY <1>5, <1>6, <2>4, <2>5 DEF ObjectInv
<1>21. QED BY <1>14, <1>15, <1>18, <1>19, <1>20

\* Pieces that are not made yet make something, and have a code.
LEMMA LeftOver ==
    ASSUME NEW how, NEW row \in Seq(Piece), NEW m \in 0..Len(row), m # 0
    PROVE  /\ LastLengths(row)[m] \in Nat /\ LastLengths(row)[m] # 0
           /\ Len(LastCodes(how, row)[m]) \in Nat /\ Len(LastCodes(how, row)[m]) # 0
<1>1. PICK size \in Nat : size = Len(row)
  OBVIOUS
<1>2. m \in 1..Len(row) /\ m - 1 \in 0..Len(row)
  BY <1>1
<1>3. PICK p \in Piece : p = row[Len(row) - m + 1]
  <2>1. size - m + 1 \in 1..size
    BY <1>1, <1>2
  <2>2. QED BY <1>1, <2>1
<1>4. PICK a \in Nat, b \in Nat :
        a # 0 /\ a = PieceLength(p) /\ b = LastLengths(row)[m - 1] /\ LastLengths(row)[m] = a + b
  <2>1. PieceLength(p) \in Nat /\ PieceLength(p) # 0
    BY PieceFacts
  <2>2. /\ LastLengths(row)[m - 1] \in Nat
        /\ LastLengths(row)[m] = PieceLength(p) + LastLengths(row)[m - 1]
    BY <1>2, <1>3, LengthsFollow
  <2>3. QED BY <2>1, <2>2
<1>5. PICK c \in Seq(Byte), d \in Seq(Byte) : LastCodes(how, row)[m] = c \o d /\ Len(c) >= 1
  <2>1. PieceCode(how, p) \in Seq(Byte) /\ Len(PieceCode(how, p)) >= 1
    BY PieceRead
  <2>2. /\ LastCodes(how, row)[m - 1] \in Seq(Byte)
        /\ LastCodes(how, row)[m] = PieceCode(how, p) \o LastCodes(how, row)[m - 1]
    BY <1>2, <1>3, CodesFollow
  <2>3. QED BY <2>1, <2>2
<1>6. Len(c \o d) \in Nat /\ Len(c \o d) # 0
  <2>1. Len(c) \in Nat /\ Len(d) \in Nat /\ Len(c \o d) = Len(c) + Len(d)
    BY Joined
  <2>2. QED BY <1>5, <2>1
<1>7. QED BY <1>4, <1>5, <1>6

\* At the end of what is stored all pieces are made, or it was cut off.
LEMMA EndDeltaKeeps ==
    ASSUME ObjectInv, EndDelta
    PROVE  ObjectInv'
<1>1. /\ stage = "instructions" /\ rest = <<>>
      /\ stage' = IF written = announced THEN "done" ELSE "failed"
      /\ UNCHANGED <<sentVars, came, kept, rest, read, madeVars>>
  BY DEF EndDelta
<1>2. /\ object' = object /\ script' = script /\ coded' = coded
      /\ parent' = parent /\ base' = base /\ kept' = kept /\ came' = came
      /\ Delta' = Delta /\ Stream' = Stream /\ IsDelta' = IsDelta
      /\ pieces' = pieces
  BY <1>1, SentStays DEF madeVars
<1>3. ObjectTypes /\ HeaderIsExact /\ IsDelta /\ announced = Total(script)
  BY <1>1 DEF ObjectInv, ObjectTypes, DeltaInv
<1>4. stage' \in {"done", "failed"}
  BY <1>1
<1>5. ObjectTypes'
  BY <1>2, <1>3, <1>4 DEF ObjectTypes
<1>6. HeaderIsExact'
  BY <1>1, <1>3, <1>4, HeaderStays
<1>7. /\ script \in Seq(Piece) /\ kept \in Nat /\ Len(Delta) \in Nat /\ kept <= Len(Delta)
  BY <1>3, DeltaLength DEF ObjectTypes
<1>8. PICK size \in Nat : size = Len(script)
  BY <1>7
<1>9. PICK k \in 0..size : HasMade(k)
  BY <1>1, <1>8 DEF ObjectInv, DeltaInv
<1>10. PICK left \in 0..size : left = size - k /\ k \in Nat /\ left \in Nat
  BY <1>8
<1>11. /\ pieces = SubSeq(script, 1, k) /\ written \in Nat
       /\ written + LastLengths(script)[left] = Total(script)
       /\ LeftOf(LastCodes(coded, script)[left])
  BY <1>8, <1>9, <1>10 DEF HasMade
<1>12. PICK c \in Seq(Byte) : c = LastCodes(coded, script)[left]
  BY <1>7, <1>8, CodesFollow
<1>13. PICK n \in 0..Len(c) : rest = SubSeq(c, 1, n) /\ Len(c) - n = Len(Delta) - kept
  BY <1>11, <1>12 DEF LeftOf
<1>14. n = 0 /\ Len(c) \in Nat
  <2>1. Len(SubSeq(c, 1, n)) = n
    BY <1>12
  <2>2. QED BY <1>1, <1>12, <1>13, <2>1
<1>15. CASE left = 0
  <2>1. LastLengths(script)[0] = 0
    BY <1>7, LengthsFollow
  <2>2. written = announced
    BY <1>3, <1>11, <1>15, <2>1
  <2>3. stage' = "done"
    BY <1>1, <2>2
  <2>4. k = Len(script)
    BY <1>8, <1>10, <1>15
  <2>5. SubSeq(script, 1, Len(script)) = script
    BY <1>7
  <2>6. pieces' = script'
    BY <1>2, <1>11, <2>4, <2>5
  <2>7. DeltaInv' /\ DeltaIsExact'
    BY <2>3, <2>6 DEF DeltaInv, DeltaIsExact
  <2>8. QED BY <1>5, <1>6, <2>7 DEF ObjectInv
<1>16. CASE left # 0
  <2>1. /\ LastLengths(script)[left] \in Nat /\ LastLengths(script)[left] # 0
        /\ Len(c) # 0
    BY <1>7, <1>8, <1>12, <1>16, LeftOver
  <2>2. written # announced
    BY <1>3, <1>11, <2>1
  <2>3. stage' = "failed"
    BY <1>1, <2>2
  <2>4. kept < Len(Delta)
    BY <1>7, <1>13, <1>14, <2>1
  <2>5. DeltaInv' /\ DeltaIsExact'
    BY <1>2, <2>3, <2>4 DEF DeltaInv, DeltaIsExact
  <2>6. QED BY <1>5, <1>6, <2>5 DEF ObjectInv
<1>17. QED BY <1>15, <1>16

\* Without a step everything stays.
LEMMA ObjectRests ==
    ASSUME ObjectInv, UNCHANGED objectVars
    PROVE  ObjectInv'
<1>1. /\ UNCHANGED sentVars /\ came' = came /\ kept' = kept /\ rest' = rest /\ read' = read
      /\ announced' = announced /\ written' = written /\ pieces' = pieces /\ stage' = stage
  BY DEF objectVars, madeVars
<1>2. /\ object' = object /\ script' = script /\ coded' = coded
      /\ parent' = parent /\ base' = base
      /\ Delta' = Delta /\ SentHeader' = SentHeader /\ Stream' = Stream /\ IsDelta' = IsDelta
  BY <1>1, SentStays
<1>3. ObjectTypes'
  BY <1>1, <1>2 DEF ObjectInv, ObjectTypes
<1>4. HeaderIsExact'
  BY <1>1, <1>2 DEF ObjectInv, HeaderIsExact
<1>5. DeltaInv'
  BY <1>1, <1>2 DEF ObjectInv, DeltaInv, HasMade, LeftOf
<1>6. DeltaIsExact'
  BY <1>1, <1>2 DEF ObjectInv, DeltaIsExact, FitsInto
<1>7. QED BY <1>3, <1>4, <1>5, <1>6 DEF ObjectInv

\* The inductive invariant of an object: what is left of a delta is the codes
\* of the pieces that are not made yet, cut off where the delta was.
THEOREM ObjectInvariant == ObjectSpec => []ObjectInv
<1>1. ObjectInit => ObjectInv
  BY ObjectStart
<1>2. ObjectInv /\ [ObjectNext]_objectVars => ObjectInv'
  <2>1. SUFFICES ASSUME ObjectInv, [ObjectNext]_objectVars PROVE ObjectInv'
    OBVIOUS
  <2>2. CASE ReceiveHeader
    BY <2>1, <2>2, ReceiveHeaderKeeps
  <2>3. CASE Store
    BY <2>1, <2>3, StoreKeeps
  <2>4. CASE ReadLengths
    BY <2>1, <2>4, ReadLengthsKeeps
  <2>5. CASE Apply
    BY <2>1, <2>5, ApplyKeeps
  <2>6. CASE EndDelta
    BY <2>1, <2>6, EndDeltaKeeps
  <2>7. CASE UNCHANGED objectVars
    BY <2>1, <2>7, ObjectRests
  <2>8. QED BY <2>1, <2>2, <2>3, <2>4, <2>5, <2>6, <2>7 DEF ObjectNext
<1>3. QED BY <1>1, <1>2, PTL DEF ObjectSpec

\* A header is read as soon as its last byte has come, as it was sent: for
\* every type, length and place where messages end (pack_file_object_header).
THEOREM HeadersAreExact == ObjectSpec => []HeaderIsExact
<1>1. ObjectInv => HeaderIsExact
  BY DEF ObjectInv
<1>2. QED BY <1>1, ObjectInvariant, PTL

\* A delta makes the pieces it stands for or nothing: for every row of pieces,
\* every parent and every byte that it may be cut off at (delta_instruction and
\* reconstruct).
THEOREM DeltasAreExact == ObjectSpec => []DeltaIsExact
<1>1. ObjectInv => DeltaIsExact
  BY DEF ObjectInv
<1>2. QED BY <1>1, ObjectInvariant, PTL
=============================================================================
