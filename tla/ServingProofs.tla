---------------------------- MODULE ServingProofs ----------------------------
(***************************************************************************)
(* What a shared folder answers, for files of any contents and chunks of   *)
(* any size, while no request names a file of the folder and nothing that  *)
(* is being downloaded is shared.                                          *)
(***************************************************************************)
EXTENDS FileServing, SequenceTheorems, NaturalsInduction,
        WellFoundedInduction, TLAPS

-----------------------------------------------------------------------------
(* Files, and the chunks of metafiles. *)

Byte == UNION {Range(c) : c \in Contents}

\* Chunks as computeFileIndices cuts them: full ones, and a last one that is
\* not empty.
Chunked(m) ==
    /\ m \in Seq(Seq(Byte))
    /\ \A i \in 1 .. Len(m) : Len(m[i]) \in 1 .. CHUNK_SIZE
    /\ \A i \in 1 .. Len(m) : i < Len(m) => Len(m[i]) = CHUNK_SIZE

\* The bytes in the first n chunks of m.
Size(m, n) == IF n = 0 THEN 0 ELSE (n - 1) * CHUNK_SIZE + Len(m[n])

\* f is the first n chunks of m, one after the other.
Assembled(f, m, n) ==
    /\ Len(f) = Size(m, n)
    /\ \A i \in 1 .. n : \A k \in 1 .. Len(m[i]) :
          f[(i - 1) * CHUNK_SIZE + k] = m[i][k]

\* The file of a folder, whole or in part, is a sequence of bytes.
LEMMA FileType ==
    /\ \A c \in Contents : c \in Seq(Byte)
    /\ \A c \in Piece : c \in Seq(Byte) /\ Len(c) <= 2 * MAX_FILE_SIZE
<1>1. ASSUME NEW c \in Contents
      PROVE  c \in Seq(Byte)
  <2>1. c \in Seq(Range(c))
    BY ServingAssumption
  <2>2. Range(c) \subseteq Byte
    BY DEF Byte
  <2> QED
    BY <2>1, <2>2, SeqMonotonic
<1>2. ASSUME NEW c \in Piece
      PROVE  c \in Seq(Byte) /\ Len(c) <= 2 * MAX_FILE_SIZE
  <2>1. PICK k \in 0 .. 2 * MAX_FILE_SIZE : c \in [1 .. k -> Byte]
    BY DEF Piece, Byte
  <2>2. k \in Nat
    BY <2>1, ServingAssumption
  <2> QED
    BY <2>1, <2>2, ServingAssumption
<1> QED
  BY <1>1, <1>2

\* Files that are short enough are Pieces.
LEMMA PieceType ==
    ASSUME NEW c \in Seq(Byte), Len(c) <= MAX_FILE_SIZE
    PROVE  c \in Piece
<1>1. Len(c) \in 0 .. 2 * MAX_FILE_SIZE /\ c \in [1 .. Len(c) -> Byte]
  BY ServingAssumption
<1> QED
  BY <1>1 DEF Piece, Byte

\* The reads reach the end of the file, and none begins there.
LEMMA ReadsBound ==
    ASSUME NEW c \in Seq(Byte)
    PROVE  /\ NbReads(c) \in Nat
           /\ Len(c) <= NbReads(c) * CHUNK_SIZE
           /\ NbReads(c) # 0 => (NbReads(c) - 1) * CHUNK_SIZE < Len(c)
           /\ NbReads(c) = 0 => Len(c) = 0
<1>1. Len(c) \in Nat /\ CHUNK_SIZE \in Nat \ {0}
  BY ServingAssumption
<1> DEFINE n == (Len(c) + CHUNK_SIZE - 1) \div CHUNK_SIZE
<1>2. n \in Nat
  BY <1>1
<1>3. Len(c) <= n * CHUNK_SIZE
  BY <1>1
<1>4. (n - 1) * CHUNK_SIZE < Len(c)
  BY <1>1
<1>5. n = 0 => Len(c) = 0
  BY <1>1, <1>3
<1> QED
  BY <1>2, <1>3, <1>4, <1>5 DEF NbReads

\* Where chunk i of n ends: later chunks begin at or after that.
LEMMA EarlierChunks ==
    ASSUME NEW i \in Nat, NEW n \in Nat, i <= n
    PROVE  /\ i * CHUNK_SIZE \in Nat /\ n * CHUNK_SIZE \in Nat
           /\ i * CHUNK_SIZE <= n * CHUNK_SIZE
           /\ (i + 1) * CHUNK_SIZE = i * CHUNK_SIZE + CHUNK_SIZE
  BY ServingAssumption

\* A chunk of the metafile of c is the part of c at its place.
LEMMA ChunkOfMetafile ==
    ASSUME NEW c \in Seq(Byte), NEW i \in 1 .. NbReads(c)
    PROVE  LET chunk == ComputeMetafile(c)[i]
               alreadyRead == (i - 1) * CHUNK_SIZE
           IN  /\ chunk \in Seq(Byte)
               /\ Len(chunk) \in 1 .. CHUNK_SIZE
               /\ i < NbReads(c) => Len(chunk) = CHUNK_SIZE
               /\ i = NbReads(c) => alreadyRead + Len(chunk) = Len(c)
               /\ \A k \in 1 .. Len(chunk) : chunk[k] = c[alreadyRead + k]
<1> DEFINE alreadyRead == (i - 1) * CHUNK_SIZE
           end == IF alreadyRead + CHUNK_SIZE < Len(c)
                  THEN alreadyRead + CHUNK_SIZE ELSE Len(c)
           chunk == SubSeq(c, alreadyRead + 1, end)
<1>1. /\ Len(c) \in Nat /\ CHUNK_SIZE \in Nat \ {0}
      /\ NbReads(c) \in Nat /\ i \in Nat /\ i >= 1 /\ i <= NbReads(c)
  BY ReadsBound, ServingAssumption
<1>2. alreadyRead \in Nat /\ i * CHUNK_SIZE = alreadyRead + CHUNK_SIZE
  <2>1. i - 1 \in Nat /\ (i - 1) + 1 = i /\ i - 1 <= i
    BY <1>1
  <2> QED
    BY <2>1, <1>1, EarlierChunks
<1>3. i < NbReads(c) => alreadyRead + CHUNK_SIZE < Len(c)
  <2>1. ASSUME i < NbReads(c)
        PROVE  i * CHUNK_SIZE <= (NbReads(c) - 1) * CHUNK_SIZE
    <3>1. NbReads(c) - 1 \in Nat /\ i <= NbReads(c) - 1
      BY <1>1, <2>1
    <3> QED
      BY <1>1, <3>1, EarlierChunks
  <2>2. (NbReads(c) - 1) * CHUNK_SIZE < Len(c) /\ (NbReads(c) - 1) * CHUNK_SIZE \in Int
    BY <1>1, ReadsBound
  <2> QED
    BY <1>1, <1>2, <2>1, <2>2
<1>4. i = NbReads(c) => alreadyRead < Len(c) /\ Len(c) <= alreadyRead + CHUNK_SIZE
  BY <1>1, <1>2, ReadsBound
<1>5. ComputeMetafile(c)[i] = chunk
  BY DEF ComputeMetafile
<1>6. /\ end \in Nat /\ alreadyRead < end /\ end <= Len(c)
      /\ end <= alreadyRead + CHUNK_SIZE
      /\ i < NbReads(c) => end = alreadyRead + CHUNK_SIZE
      /\ i = NbReads(c) => end = Len(c)
  <2>1. i < NbReads(c) \/ i = NbReads(c)
    BY <1>1
  <2> QED
    BY <1>1, <1>2, <1>3, <1>4, <2>1
<1>7. /\ chunk \in Seq(Byte)
      /\ Len(chunk) = end - alreadyRead
      /\ \A k \in 1 .. end - alreadyRead : chunk[k] = c[alreadyRead + k]
  <2> HIDE DEF end
  <2> HIDE DEF alreadyRead
  <2>1. \A k \in alreadyRead + 1 .. end : c[k] \in Byte
    <3>1. \A k \in alreadyRead + 1 .. end : k \in 1 .. Len(c)
      BY <1>1, <1>2, <1>6
    <3> QED
      BY <3>1, ElementOfSeq
  <2>2. /\ chunk \in Seq(Byte)
        /\ Len(chunk) = IF alreadyRead + 1 <= end THEN end - (alreadyRead + 1) + 1 ELSE 0
        /\ \A k \in 1 .. end - (alreadyRead + 1) + 1 :
              chunk[k] = c[alreadyRead + 1 + k - 1]
    <3>1. alreadyRead + 1 \in Int /\ end \in Int
      BY <1>2, <1>6
    <3> HIDE DEF chunk
    <3> QED
      BY <2>1, <3>1, SubSeqProperties DEF chunk
  <2>3. end - (alreadyRead + 1) + 1 = end - alreadyRead /\ alreadyRead + 1 <= end
    BY <1>2, <1>6
  <2>4. \A k \in 1 .. end - alreadyRead : alreadyRead + 1 + k - 1 = alreadyRead + k
    BY <1>2, <1>6
  <2> HIDE DEF chunk
  <2> QED
    BY <2>2, <2>3, <2>4
<1> HIDE DEF chunk
<1>8. Len(chunk) \in 1 .. CHUNK_SIZE
  <2> HIDE DEF end
  <2> HIDE DEF alreadyRead
  <2> QED
    BY <1>1, <1>2, <1>6, <1>7
<1>9. \A k \in 1 .. Len(chunk) : chunk[k] = c[alreadyRead + k]
  BY <1>7
<1>10. /\ i < NbReads(c) => Len(chunk) = CHUNK_SIZE
       /\ i = NbReads(c) => alreadyRead + Len(chunk) = Len(c)
  <2> HIDE DEF end
  <2> HIDE DEF alreadyRead
  <2> QED
    BY <1>1, <1>2, <1>6, <1>7
<1> HIDE DEF alreadyRead
<1> QED
  BY <1>5, <1>7, <1>8, <1>9, <1>10 DEF alreadyRead

\* A part of a file that agrees with s byte by byte is s.
LEMMA SubSeqOfFile ==
    ASSUME NEW c \in Seq(Byte), NEW s \in Seq(Byte), NEW start \in Nat,
           start + Len(s) <= Len(c),
           \A k \in 1 .. Len(s) : c[start + k] = s[k]
    PROVE  SubSeq(c, start + 1, start + Len(s)) = s
<1> DEFINE p == SubSeq(c, start + 1, start + Len(s))
<1>1. Len(s) \in Nat /\ Len(c) \in Nat
  OBVIOUS
<1>2. \A k \in start + 1 .. start + Len(s) : c[k] \in Byte
  <2>1. \A k \in start + 1 .. start + Len(s) : k \in 1 .. Len(c)
    BY <1>1
  <2> QED
    BY <2>1, ElementOfSeq
<1>3. /\ p \in Seq(Byte)
      /\ Len(p) = IF start + 1 <= start + Len(s)
                  THEN start + Len(s) - (start + 1) + 1 ELSE 0
      /\ \A k \in 1 .. start + Len(s) - (start + 1) + 1 :
            p[k] = c[start + 1 + k - 1]
  <2>1. start + 1 \in Int /\ start + Len(s) \in Int
    BY <1>1
  <2> QED
    BY <1>2, <2>1, SubSeqProperties
<1> HIDE DEF p
<1>4. Len(p) = Len(s)
  BY <1>1, <1>3
<1>5. \A k \in 1 .. Len(s) : p[k] = s[k]
  <2>1. \A k \in 1 .. Len(s) : /\ k \in 1 .. start + Len(s) - (start + 1) + 1
                               /\ start + 1 + k - 1 = start + k
    BY <1>1
  <2> QED
    BY <1>3, <2>1
<1> QED
  BY <1>3, <1>4, <1>5, SeqEqual DEF p

\* A metafile is chunked, and its chunks make up the file.
LEMMA MetafileOfFile ==
    ASSUME NEW c \in Seq(Byte)
    PROVE  LET m == ComputeMetafile(c)
           IN  Chunked(m) /\ Assembled(c, m, Len(m))
<1> DEFINE n == NbReads(c)
           m == ComputeMetafile(c)
<1>1. n \in Nat
  BY ReadsBound
<1>2. m \in Seq(Seq(Byte)) /\ Len(m) = n
  <2>1. m \in [1 .. n -> Seq(Byte)]
    <3>1. DOMAIN m = 1 .. n /\ m = [i \in 1 .. n |-> m[i]]
      BY DEF ComputeMetafile
    <3>2. \A i \in 1 .. n : m[i] \in Seq(Byte)
      BY ChunkOfMetafile
    <3> HIDE DEF m
    <3> QED
      BY <3>1, <3>2
  <2> HIDE DEF m
  <2> QED
    BY <1>1, <2>1
<1> HIDE DEF n
<1>3. Chunked(m)
  <2>1. \A i \in 1 .. n : Len(m[i]) \in 1 .. CHUNK_SIZE /\ (i < n => Len(m[i]) = CHUNK_SIZE)
    BY ChunkOfMetafile DEF n
  <2> HIDE DEF m
  <2> QED
    BY <1>2, <2>1 DEF Chunked
<1>4. Len(c) = Size(m, n)
  <2>1. CASE n = 0
    BY <2>1, ReadsBound DEF Size, n
  <2>2. CASE n # 0
    <3>1. n \in 1 .. n
      BY <1>1, <2>2
    <3>2. (n - 1) * CHUNK_SIZE + Len(m[n]) = Len(c)
      BY <3>1, ChunkOfMetafile DEF n
    <3> HIDE DEF m
    <3> QED
      BY <3>2, <2>2 DEF Size
  <2> QED
    BY <2>1, <2>2
<1>5. \A i \in 1 .. n : \A k \in 1 .. Len(m[i]) : c[(i - 1) * CHUNK_SIZE + k] = m[i][k]
  BY ChunkOfMetafile DEF n
<1> HIDE DEF m
<1>6. Assembled(c, m, Len(m))
  BY <1>2, <1>4, <1>5 DEF Assembled
<1> QED
  BY <1>3, <1>6 DEF m

\* The metafiles that the network shares are chunked.
LEMMA MetahashType ==
    ASSUME NEW m \in Metahashes
    PROVE  Chunked(m) /\ m \in Seq(Seq(Byte)) /\ Len(m) \in Nat
<1>1. PICK c \in Contents : m = ComputeMetafile(c)
  BY DEF Metahashes
<1>2. Chunked(m)
  BY <1>1, FileType, MetafileOfFile
<1> QED
  BY <1>2 DEF Chunked

\* With the next chunk at its end a file has one chunk more.
LEMMA AppendChunk ==
    ASSUME NEW m, Chunked(m), NEW n \in Nat, n < Len(m),
           NEW f \in Seq(Byte), Assembled(f, m, n)
    PROVE  /\ f \o m[n + 1] \in Seq(Byte)
           /\ Assembled(f \o m[n + 1], m, n + 1)
           /\ Len(f \o m[n + 1]) <= Len(m) * CHUNK_SIZE
<1> DEFINE chunk == m[n + 1]
           g == f \o chunk
<1>1. /\ CHUNK_SIZE \in Nat \ {0} /\ Len(m) \in Nat
      /\ n + 1 \in 1 .. Len(m) /\ chunk \in Seq(Byte) /\ Len(chunk) \in 1 .. CHUNK_SIZE
  <2>1. Len(m) \in Nat
    BY DEF Chunked
  <2>2. n + 1 \in 1 .. Len(m)
    BY <2>1
  <2> QED
    BY <2>1, <2>2, ServingAssumption DEF Chunked
<1>2. Len(f) = n * CHUNK_SIZE /\ n * CHUNK_SIZE \in Nat
  <2>1. CASE n = 0
    BY <1>1, <2>1 DEF Assembled, Size
  <2>2. CASE n # 0
    <3>1. n \in 1 .. Len(m) /\ Len(m[n]) = CHUNK_SIZE
      <4>1. n \in 1 .. Len(m)
        BY <1>1, <2>2
      <4> QED
        BY <4>1 DEF Chunked
    <3>2. Len(f) = (n - 1) * CHUNK_SIZE + CHUNK_SIZE
      BY <2>2, <3>1 DEF Assembled, Size
    <3>3. n - 1 \in Nat /\ n - 1 <= n /\ (n - 1) + 1 = n
      BY <2>2
    <3> QED
      BY <3>2, <3>3, EarlierChunks
  <2> QED
    BY <2>1, <2>2
<1>3. /\ g \in Seq(Byte) /\ Len(g) = Len(f) + Len(chunk)
      /\ \A k \in 1 .. Len(f) + Len(chunk) :
            g[k] = IF k <= Len(f) THEN f[k] ELSE chunk[k - Len(f)]
  BY <1>1, ConcatProperties
<1> HIDE DEF g
<1>4. Assembled(g, m, n + 1)
  <2>1. Len(g) = Size(m, n + 1)
    <3>1. n + 1 # 0 /\ (n + 1) - 1 = n
      OBVIOUS
    <3> QED
      BY <1>2, <1>3, <3>1 DEF Size
  <2>2. ASSUME NEW i \in 1 .. n + 1, NEW k \in 1 .. Len(m[i])
        PROVE  g[(i - 1) * CHUNK_SIZE + k] = m[i][k]
    <3>1. /\ i \in 1 .. Len(m) /\ Len(m[i]) \in 1 .. CHUNK_SIZE
          /\ i - 1 \in Nat /\ (i - 1) * CHUNK_SIZE \in Nat
          /\ k \in Nat /\ k >= 1 /\ k <= CHUNK_SIZE
      <4>1. i \in 1 .. Len(m) /\ i - 1 \in Nat
        BY <1>1
      <4>2. Len(m[i]) \in 1 .. CHUNK_SIZE
        BY <4>1 DEF Chunked
      <4>3. (i - 1) * CHUNK_SIZE \in Nat
        <5>1. i - 1 <= i - 1
          BY <4>1
        <5> QED
          BY <4>1, <5>1, EarlierChunks
      <4> QED
        BY <1>1, <4>1, <4>2, <4>3
    <3>2. CASE i = n + 1
      <4>1. i - 1 = n /\ m[i] = chunk
        BY <3>2
      <4>2. Len(f) + k \in 1 .. Len(f) + Len(chunk) /\ ~(Len(f) + k <= Len(f))
            /\ (Len(f) + k) - Len(f) = k
        BY <1>1, <1>2, <3>1, <4>1
      <4> QED
        BY <1>2, <1>3, <4>1, <4>2
    <3>3. CASE i # n + 1
      <4>1. i \in 1 .. n
        BY <3>3
      <4>2. (i - 1) * CHUNK_SIZE + CHUNK_SIZE <= n * CHUNK_SIZE
        <5>1. i <= n /\ i \in Nat /\ (i - 1) + 1 = i /\ i - 1 <= i
          BY <4>1
        <5> QED
          BY <3>1, <5>1, EarlierChunks
      <4> DEFINE p == (i - 1) * CHUNK_SIZE
      <4>3. p + k \in 1 .. Len(f) + Len(chunk) /\ p + k <= Len(f)
        <5>1. p \in Nat /\ p + CHUNK_SIZE <= Len(f)
          BY <1>2, <3>1, <4>2
        <5>2. Len(f) \in Nat /\ Len(chunk) \in Nat /\ CHUNK_SIZE \in Nat
          BY <1>1, <1>2
        <5> HIDE DEF p
        <5> HIDE DEF chunk
        <5> QED
          BY <3>1, <5>1, <5>2
      <4>4. f[p + k] = m[i][k]
        BY <4>1 DEF Assembled
      <4> HIDE DEF p
      <4> QED
        BY <1>3, <4>3, <4>4 DEF p
    <3> QED
      BY <3>2, <3>3
  <2> QED
    BY <2>1, <2>2 DEF Assembled
<1>5. Len(g) <= Len(m) * CHUNK_SIZE
  <2>1. (n + 1) * CHUNK_SIZE = n * CHUNK_SIZE + CHUNK_SIZE
        /\ (n + 1) * CHUNK_SIZE <= Len(m) * CHUNK_SIZE
        /\ (n + 1) * CHUNK_SIZE \in Nat /\ Len(m) * CHUNK_SIZE \in Nat
    <3>1. n + 1 \in Nat /\ n <= n + 1 /\ n + 1 <= Len(m)
      BY <1>1
    <3> QED
      BY <1>1, <3>1, EarlierChunks
  <2> HIDE DEF chunk
  <2> QED
    BY <1>1, <1>2, <1>3, <2>1
<1> QED
  BY <1>3, <1>4, <1>5 DEF g

-----------------------------------------------------------------------------
(* What is read from a file. *)

\* A nonempty set of naturals has a least element.
LEMMA HasLeast ==
    ASSUME NEW S \in SUBSET Nat, S # {}
    PROVE  Min(S) \in S /\ \A n \in S : Min(S) <= n
<1> DEFINE R == OpToRel(<, Nat)
<1>1. \A m, n \in Nat : m < n => <<m, n>> \in R
  BY DEF OpToRel
<1>2. PICK m \in S : \A n \in S : ~(<<n, m>> \in R)
  BY NatLessThanWellFounded, WFMin
<1> HIDE DEF R
<1>3. \A n \in S : m <= n
  <2>1. \A n \in S : n \in Nat /\ m \in Nat /\ ~(n < m)
    BY <1>1, <1>2
  <2> QED
    BY <2>1
<1>4. \E x \in S : \A y \in S : x =< y
  BY <1>3
<1> QED
  BY <1>4 DEF Min

\* checkFilesForNextChunk finds the first place of a chunk in a metafile.
LEMMA FirstPlace ==
    ASSUME NEW m \in Seq(Seq(Byte)), NEW h \in Range(m)
    PROVE  LET first == FirstIndex(m, h) + 1
           IN  /\ first \in 1 .. Len(m) /\ FirstIndex(m, h) = first - 1
               /\ m[first] = h
               /\ \A i \in 1 .. Len(m) : m[i] = h => first <= i
<1> DEFINE I == {i \in 1 .. Len(m) : m[i] = h}
<1>1. I \in SUBSET Nat /\ I # {}
  <2>1. DOMAIN m = 1 .. Len(m) /\ Len(m) \in Nat
    OBVIOUS
  <2>2. \E i \in 1 .. Len(m) : m[i] = h
    BY <2>1 DEF Range
  <2>3. \A i \in 1 .. Len(m) : i \in Nat
    BY <2>1
  <2> QED
    BY <2>2, <2>3
<1>2. FirstIndex(m, h) = Min(I) - 1
  BY <1>1 DEF FirstIndex, SelectInSeq
<1>3. Min(I) \in I /\ \A i \in I : Min(I) <= i
  BY <1>1, HasLeast
<1>4. Min(I) \in Nat
  BY <1>1, <1>3
<1>5. FirstIndex(m, h) + 1 = Min(I) /\ FirstIndex(m, h) = (FirstIndex(m, h) + 1) - 1
  BY <1>2, <1>4
<1> QED
  BY <1>3, <1>5

\* The place of a chunk among the first n is within the file.
LEMMA PlaceOfChunk ==
    ASSUME NEW m, Chunked(m), NEW n \in Nat, n <= Len(m), NEW f \in Seq(Byte),
           Assembled(f, m, n), NEW i \in 1 .. n
    PROVE  LET start == (i - 1) * CHUNK_SIZE
           IN  /\ start \in Nat /\ start + Len(m[i]) <= Len(f)
               /\ i < n => Len(m[i]) = CHUNK_SIZE /\ start + CHUNK_SIZE < Len(f)
               /\ i = n => start + Len(m[i]) = Len(f)
<1> DEFINE start == (i - 1) * CHUNK_SIZE
           before == (n - 1) * CHUNK_SIZE
           last == Len(m[n])
<1>1. /\ CHUNK_SIZE \in Nat \ {0} /\ Len(m) \in Nat
      /\ i \in 1 .. Len(m) /\ n \in 1 .. Len(m)
      /\ i - 1 \in Nat /\ n - 1 \in Nat /\ i - 1 <= n - 1
  <2>1. Len(m) \in Nat
    BY DEF Chunked
  <2> QED
    BY <2>1, ServingAssumption
<1>2. /\ Len(m[i]) \in 1 .. CHUNK_SIZE /\ last \in 1 .. CHUNK_SIZE
      /\ i < n => Len(m[i]) = CHUNK_SIZE
  <2>1. i < n => i < Len(m)
    BY <1>1
  <2> QED
    BY <1>1, <2>1 DEF Chunked
<1>3. Len(f) = before + last
  <2>1. n # 0
    BY <1>1
  <2>2. Size(m, n) = before + last
    BY <2>1 DEF Size
  <2> QED
    BY <2>2 DEF Assembled
<1>4. start \in Nat /\ before \in Nat /\ start <= before
  BY <1>1, EarlierChunks
<1>5. i < n => start + CHUNK_SIZE <= before
  <2>1. i < n => i <= n - 1 /\ i \in Nat /\ (i - 1) + 1 = i
    BY <1>1
  <2>2. (i - 1) + 1 = i /\ i - 1 <= i /\ i \in Nat
    BY <1>1
  <2>3. i * CHUNK_SIZE = start + CHUNK_SIZE
    BY <1>1, <2>2, EarlierChunks
  <2>4. i < n => i * CHUNK_SIZE <= before
    BY <1>1, <2>1, EarlierChunks
  <2> QED
    BY <2>3, <2>4
<1>6. i = n => start = before /\ Len(m[i]) = last
  OBVIOUS
<1>7. i < n \/ i = n
  BY <1>1
<1> HIDE DEF start, before, last
<1>8. /\ start \in Nat /\ start + Len(m[i]) <= Len(f)
      /\ i < n => Len(m[i]) = CHUNK_SIZE /\ start + CHUNK_SIZE < Len(f)
      /\ i = n => start + Len(m[i]) = Len(f)
  BY <1>1, <1>2, <1>3, <1>4, <1>5, <1>6, <1>7
<1> QED
  BY <1>8 DEF start

\* Chunk i of a file that has the first n chunks of m is the one that m lists,
\* if the file has got that far, and empty otherwise.
LEMMA ReadChunk ==
    ASSUME NEW m, Chunked(m), NEW n \in Nat, n <= Len(m),
           NEW x \in DOMAIN folder, folder[x] \in Seq(Byte),
           Assembled(folder[x], m, n), NEW i \in 1 .. Len(m)
    PROVE  GetChunkByIndex(x, i - 1) = IF i <= n THEN m[i] ELSE <<>>
<1> DEFINE c == folder[x]
           start == (i - 1) * CHUNK_SIZE
           stop == IF i * CHUNK_SIZE < Len(c) THEN i * CHUNK_SIZE ELSE Len(c)
<1>1. /\ CHUNK_SIZE \in Nat \ {0} /\ Len(m) \in Nat
      /\ i \in Nat /\ i - 1 \in Nat /\ (i - 1) + 1 = i
      /\ m[i] \in Seq(Byte) /\ Len(m[i]) \in 1 .. CHUNK_SIZE /\ Len(c) \in Nat
  <2>1. Len(m) \in Nat /\ m[i] \in Seq(Byte) /\ Len(m[i]) \in 1 .. CHUNK_SIZE
    BY DEF Chunked
  <2> QED
    BY <2>1, ServingAssumption
<1>2. start \in Nat /\ i * CHUNK_SIZE = start + CHUNK_SIZE
  <2>1. i - 1 <= i
    BY <1>1
  <2> QED
    BY <1>1, <2>1, EarlierChunks
<1>3. GetChunkByIndex(x, i - 1) = SubSeq(c, start + 1, stop)
  BY <1>1 DEF GetChunkByIndex
<1>4. n # 0 => /\ n \in 1 .. Len(m) /\ Len(m[n]) \in 1 .. CHUNK_SIZE
               /\ Len(c) = (n - 1) * CHUNK_SIZE + Len(m[n])
               /\ (n - 1) * CHUNK_SIZE \in Nat
               /\ n * CHUNK_SIZE = (n - 1) * CHUNK_SIZE + CHUNK_SIZE
  <2> SUFFICES ASSUME n # 0
               PROVE  /\ n \in 1 .. Len(m) /\ Len(m[n]) \in 1 .. CHUNK_SIZE
                      /\ Len(c) = (n - 1) * CHUNK_SIZE + Len(m[n])
                      /\ (n - 1) * CHUNK_SIZE \in Nat
                      /\ n * CHUNK_SIZE = (n - 1) * CHUNK_SIZE + CHUNK_SIZE
    OBVIOUS
  <2>1. n \in 1 .. Len(m) /\ n - 1 \in Nat /\ n - 1 <= n /\ (n - 1) + 1 = n
    BY <1>1
  <2> QED
    BY <2>1, EarlierChunks DEF Chunked, Assembled, Size
<1>5. CASE i <= n
  <2>1. i \in 1 .. n
    BY <1>1, <1>5
  <2>2. stop = start + Len(m[i]) /\ start + Len(m[i]) <= Len(c)
    <3>1. /\ start + Len(m[i]) <= Len(c)
          /\ i < n => Len(m[i]) = CHUNK_SIZE /\ start + CHUNK_SIZE < Len(c)
          /\ i = n => start + Len(m[i]) = Len(c)
      BY <2>1, PlaceOfChunk
    <3>2. i < n \/ i = n
      BY <2>1
    <3> DEFINE size == i * CHUNK_SIZE
               len == Len(m[i])
               all == Len(c)
    <3>3. /\ CHUNK_SIZE \in Nat /\ start \in Nat /\ all \in Nat
          /\ len \in 1 .. CHUNK_SIZE /\ size = start + CHUNK_SIZE
      BY <1>1, <1>2
    <3>4. /\ start + len <= all
          /\ \/ len = CHUNK_SIZE /\ start + CHUNK_SIZE < all
             \/ start + len = all
      BY <3>1, <3>2
    <3>5. stop = IF size < all THEN size ELSE all
      OBVIOUS
    <3> HIDE DEF c, start, stop, size, len, all
    <3>6. stop = start + len /\ start + len <= all
      BY <3>3, <3>4, <3>5
    <3> QED
      BY <3>6 DEF len, all
  <2>3. \A k \in 1 .. Len(m[i]) : c[start + k] = m[i][k]
    BY <2>1 DEF Assembled
  <2>4. SubSeq(c, start + 1, start + Len(m[i])) = m[i]
    BY <1>1, <1>2, <2>2, <2>3, SubSeqOfFile
  <2> QED
    BY <1>3, <1>5, <2>2, <2>4
<1>6. CASE ~(i <= n)
  <2>1. Len(c) <= start
    <3>1. CASE n = 0
      BY <1>2, <3>1 DEF Assembled, Size
    <3>2. CASE n # 0
      <4>1. n * CHUNK_SIZE <= start /\ n * CHUNK_SIZE \in Nat
        <5>1. n <= i - 1
          BY <1>1, <1>6
        <5> QED
          BY <1>1, <5>1, EarlierChunks
      <4> DEFINE before == (n - 1) * CHUNK_SIZE
                 last == Len(m[n])
                 size == n * CHUNK_SIZE
      <4>2. /\ before \in Nat /\ last \in 1 .. CHUNK_SIZE
            /\ Len(c) = before + last /\ size = before + CHUNK_SIZE
        BY <1>4, <3>2
      <4> HIDE DEF c, start, before, last, size
      <4>3. size <= start
        BY <4>1 DEF size
      <4> QED
        BY <4>2, <4>3, <1>1, <1>2
    <3> QED
      BY <3>1, <3>2
  <2>2. stop = Len(c) /\ stop < start + 1
    <3> HIDE DEF c, start
    <3> QED
      BY <1>1, <1>2, <2>1
  <2>3. SubSeq(c, start + 1, stop) = <<>>
    <3> HIDE DEF stop, start
    <3>1. start + 1 \in Int /\ stop \in Int /\ stop < start + 1
      BY <1>1, <1>2, <2>2
    <3> QED
      BY <3>1, SubSeqEmpty
  <2> QED
    BY <1>3, <1>6, <2>3
<1> QED
  BY <1>5, <1>6

-----------------------------------------------------------------------------
(* The inductive invariant: a file in the index is, as far as it goes, the  *)
(* file its metahash stands for.                                           *)

\* Chunks of m that have come to its file.
Held(m) == IF indexed[m].next = -1 THEN 0 ELSE indexed[m].next

\* What the index says of a file that was shared or that is complete.
WholeInIndex(m) ==
    indexed[m].done /\ indexed[m].metafile = m /\ indexed[m].next = Len(m)

\* What it says of a download, whose file no other entry names.
PartInIndex(m) ==
    /\ ~indexed[m].done /\ indexed[m].next = entries[m].next
    /\ indexed[m].metafile = IF entries[m].next = -1 THEN <<>> ELSE m
    /\ \A d \in DOMAIN indexed \ {m} : indexed[d].name # indexed[m].name
    /\ Len(m) * CHUNK_SIZE \in 1 .. MAX_FILE_SIZE

FileInv(m) ==
    /\ indexed[m].name \in DOMAIN folder
    /\ Assembled(folder[indexed[m].name], m, Held(m))
    /\ m \notin Unfinished => WholeInIndex(m)
    /\ m \in Unfinished => PartInIndex(m)
    /\ m \in DOMAIN entries /\ entries[m].done => entries[m].next # -1

ServingInv == TypeOK /\ \A m \in DOMAIN indexed : FileInv(m)

\* A binding that is added adds its value to the range.
LEMMA WithRange ==
    ASSUME NEW f, NEW x, NEW v, NEW S, Range(f) \subseteq S, v \in S
    PROVE  Range(With(f, x, v)) \subseteq S
  BY DEF With, Range

\* Every file of the folder is a sequence of bytes.
LEMMA FolderType ==
    ASSUME TypeOK, NEW x \in DOMAIN folder
    PROVE  folder[x] \in Seq(Byte)
<1>1. folder[x] \in Piece \cup Contents
  BY DEF TypeOK, Range
<1> QED
  BY <1>1, FileType

\* An entry of the index, from the type invariant.
LEMMA IndexType ==
    ASSUME TypeOK, NEW m \in DOMAIN indexed
    PROVE  m \in Metahashes /\ indexed[m] \in MyFile /\ indexed[m].name \in Names
  BY DEF TypeOK, Range, MyFile

\* A folder with nothing indexed.
LEMMA ServingInit == Init => ServingInv
<1> SUFFICES ASSUME Init
             PROVE  ServingInv
  OBVIOUS
<1>1. PICK present \in SUBSET Names : folder \in [present -> Contents]
  BY DEF Init
<1>2. DOMAIN folder \subseteq Names /\ Range(folder) \subseteq Piece \cup Contents
  BY <1>1 DEF Range
<1>3. DOMAIN indexed = {} /\ Range(indexed) = {} /\ DOMAIN entries = {}
  BY DEF Init, Range
<1> QED
  BY <1>2, <1>3 DEF ServingInv, TypeOK

\* What an action keeps of an entry it leaves alone, with its file.
LEMMA OtherFile ==
    ASSUME TypeOK, NEW m \in DOMAIN indexed, FileInv(m),
           m \in DOMAIN indexed', indexed'[m] = indexed[m],
           indexed[m].name \in DOMAIN folder',
           folder'[indexed[m].name] = folder[indexed[m].name],
           m \in DOMAIN entries' <=> m \in DOMAIN entries,
           m \in DOMAIN entries => entries'[m] = entries[m],
           m \in Unfinished =>
              \A d \in DOMAIN indexed' \ {m} : indexed'[d].name # indexed[m].name
    PROVE  FileInv(m)'
<1>1. Held(m)' = Held(m)
  BY DEF Held
<1>2. m \in Unfinished' <=> m \in Unfinished
  BY DEF Unfinished
<1>3. Assembled(folder[indexed[m].name], m, Held(m))'
  BY <1>1 DEF FileInv, Assembled, Size
<1>4. m \notin Unfinished => WholeInIndex(m)'
  BY DEF FileInv, WholeInIndex
<1>5. m \in Unfinished => PartInIndex(m)'
  BY DEF FileInv, PartInIndex, Unfinished
<1>6. m \in DOMAIN entries' /\ entries'[m].done => entries'[m].next # -1
  BY DEF FileInv
<1> QED
  BY <1>2, <1>3, <1>4, <1>5, <1>6 DEF FileInv

\* A share: its file is whole, and no download has that file or that name.
LEMMA ShareStep ==
    ASSUME ~ShareRequested, ServingInv, NEW x \in Names, Share(x)
    PROVE  ServingInv'
<1>0. PICK m \in Metahashes : m = ComputeMetafile(folder[x])
  BY DEF Share
<1> DEFINE entry == [name |-> x, metafile |-> m, next |-> Len(m), done |-> TRUE]
<1>1. /\ x \in DOMAIN folder /\ m \in Metahashes
      /\ \A d \in Unfinished : d # m /\ indexed[d].name # x
      /\ indexed' = With(indexed, m, entry)
      /\ folder' = folder /\ entries' = entries
  BY <1>0 DEF Share
<1>2. folder[x] \in Seq(Byte)
  BY <1>1, FolderType DEF ServingInv
<1>3. Chunked(m) /\ Assembled(folder[x], m, Len(m)) /\ Len(m) \in Nat
  <2>1. Chunked(m) /\ Assembled(folder[x], m, Len(m))
    BY <1>0, <1>2, MetafileOfFile
  <2> QED
    BY <1>1, <2>1, MetahashType
<1>4. entry \in MyFile
  BY <1>1, <1>3 DEF MyFile
<1>5. /\ DOMAIN indexed' = DOMAIN indexed \cup {m} /\ indexed'[m] = entry
      /\ \A d \in DOMAIN indexed : d # m => indexed'[d] = indexed[d]
  <2> HIDE DEF entry
  <2> QED
    BY <1>1 DEF With
<1>6. TypeOK'
  <2>1. Range(indexed') \subseteq MyFile
    <3> HIDE DEF entry
    <3> QED
      BY <1>1, <1>4, WithRange DEF ServingInv, TypeOK
  <2> QED
    BY <1>1, <1>5, <2>1 DEF ServingInv, TypeOK
<1>7. FileInv(m)'
  <2>1. m \notin Unfinished' /\ Unfinished' = Unfinished
    BY <1>1 DEF Unfinished
  <2>2. WholeInIndex(m)'
    BY <1>5 DEF WholeInIndex
  <2>3. Held(m)' = Len(m)
    BY <1>3, <1>5 DEF Held
  <2>4. Assembled(folder[indexed[m].name], m, Held(m))'
    BY <1>1, <1>3, <1>5, <2>3
  <2>5. m \in DOMAIN entries' /\ entries'[m].done => entries'[m].next # -1
    BY <1>1 DEF ServingInv, TypeOK, FileInv
  <2> QED
    BY <1>1, <1>5, <2>1, <2>2, <2>4, <2>5 DEF FileInv
<1>8. ASSUME NEW d \in DOMAIN indexed, d # m
      PROVE  FileInv(d)'
  <2>1. TypeOK /\ FileInv(d)
    BY DEF ServingInv
  <2>2. d \in Unfinished =>
           \A e \in DOMAIN indexed' \ {d} : indexed'[e].name # indexed[d].name
    <3>1. d \in Unfinished => PartInIndex(d) /\ indexed[d].name # x
      BY <1>1, <2>1 DEF FileInv
    <3> QED
      BY <1>5, <3>1 DEF PartInIndex
  <2> QED
    BY <1>1, <1>5, <1>8, <2>1, <2>2, OtherFile DEF FileInv
<1> QED
  BY <1>5, <1>6, <1>7, <1>8 DEF ServingInv

\* A request: its file is new in the folder, and empty.
LEMMA RequestStep ==
    ASSUME ~Reuse, ServingInv, NEW m \in Metahashes, NEW x \in Names, Request(m, x)
    PROVE  ServingInv'
<1> DEFINE entry == [name |-> x, metafile |-> <<>>, next |-> -1, done |-> FALSE]
           state == [next |-> -1, done |-> FALSE]
<1>1. /\ x \notin DOMAIN folder /\ m \notin DOMAIN indexed /\ m \notin DOMAIN entries
      /\ Len(m) * CHUNK_SIZE \in 1 .. MAX_FILE_SIZE
      /\ indexed' = With(indexed, m, entry)
      /\ entries' = With(entries, m, state)
      /\ folder' = With(folder, x, <<>>)
  BY DEF Request, CreateEmptyFile, ServingInv, TypeOK
<1>2. Chunked(m) /\ Len(m) \in Nat
  BY MetahashType
<1>3. /\ DOMAIN indexed' = DOMAIN indexed \cup {m} /\ indexed'[m] = entry
      /\ \A d \in DOMAIN indexed : d # m => indexed'[d] = indexed[d]
      /\ DOMAIN entries' = DOMAIN entries \cup {m} /\ entries'[m] = state
      /\ \A d \in DOMAIN entries : d # m => entries'[d] = entries[d]
      /\ DOMAIN folder' = DOMAIN folder \cup {x} /\ folder'[x] = <<>>
      /\ \A y \in DOMAIN folder : y # x => folder'[y] = folder[y]
  <2> HIDE DEF entry, state
  <2>1. /\ DOMAIN indexed' = DOMAIN indexed \cup {m} /\ indexed'[m] = entry
        /\ \A d \in DOMAIN indexed : d # m => indexed'[d] = indexed[d]
    BY <1>1 DEF With
  <2>2. /\ DOMAIN entries' = DOMAIN entries \cup {m} /\ entries'[m] = state
        /\ \A d \in DOMAIN entries : d # m => entries'[d] = entries[d]
    BY <1>1 DEF With
  <2>3. /\ DOMAIN folder' = DOMAIN folder \cup {x} /\ folder'[x] = <<>>
        /\ \A y \in DOMAIN folder : y # x => folder'[y] = folder[y]
    BY <1>1 DEF With
  <2> QED
    BY <2>1, <2>2, <2>3
<1>4. TypeOK'
  <2>1. entry \in MyFile
    BY DEF MyFile
  <2>2. Range(indexed') \subseteq MyFile
    <3> HIDE DEF entry
    <3> QED
      BY <1>1, <2>1, WithRange DEF ServingInv, TypeOK
  <2>3. <<>> \in Piece
    <3>1. <<>> \in Seq(Byte) /\ Len(<<>>) <= MAX_FILE_SIZE
      BY EmptySeq, ServingAssumption
    <3> QED
      BY <3>1, PieceType
  <2>4. Range(folder') \subseteq Piece \cup Contents
    BY <1>1, <2>3, WithRange DEF ServingInv, TypeOK
  <2>5. Len(m) >= 1
    BY <1>1, <1>2, ServingAssumption
  <2>6. -1 \in -1 .. Len(m) - 1
    BY <1>2, <2>5
  <2>7. \A d \in DOMAIN entries' :
           /\ d \in DOMAIN indexed'
           /\ entries'[d] \in [next : -1 .. Len(d) - 1, done : BOOLEAN]
    <3>1. ASSUME NEW d \in DOMAIN entries, d # m
          PROVE  /\ d \in DOMAIN indexed
                 /\ entries[d] \in [next : -1 .. Len(d) - 1, done : BOOLEAN]
      BY DEF ServingInv, TypeOK
    <3>2. entries'[m] = state
      BY <1>3
    <3>3. state \in [next : -1 .. Len(m) - 1, done : BOOLEAN]
      BY <2>6
    <3> HIDE DEF state
    <3> QED
      BY <1>3, <3>1, <3>2, <3>3
  <2>8. DOMAIN folder' \subseteq Names /\ DOMAIN indexed' \subseteq Metahashes
        /\ DOMAIN entries' \subseteq Metahashes
    BY <1>3 DEF ServingInv, TypeOK
  <2> QED
    BY <2>2, <2>4, <2>7, <2>8 DEF TypeOK
<1>5. FileInv(m)'
  <2>1. m \in Unfinished'
    BY <1>3 DEF Unfinished
  <2>2. PartInIndex(m)'
    <3>1. \A d \in DOMAIN indexed' \ {m} : indexed'[d].name # x
      <4>1. \A d \in DOMAIN indexed : indexed[d].name # x
        BY <1>1 DEF ServingInv, FileInv
      <4> HIDE DEF entry, state
      <4> QED
        BY <1>3, <4>1
    <3>2. /\ indexed'[m].name = x /\ indexed'[m].metafile = <<>>
          /\ indexed'[m].next = -1 /\ indexed'[m].done = FALSE
          /\ entries'[m].next = -1
      BY <1>3
    <3> QED
      BY <1>1, <3>1, <3>2 DEF PartInIndex
  <2>3. Held(m)' = 0
    BY <1>3 DEF Held
  <2>4. Assembled(folder[indexed[m].name], m, Held(m))'
    BY <1>3, <2>3 DEF Assembled, Size
  <2> QED
    BY <1>3, <2>1, <2>2, <2>4 DEF FileInv
<1>6. ASSUME NEW d \in DOMAIN indexed
      PROVE  FileInv(d)'
  <2>1. d # m /\ TypeOK /\ FileInv(d)
    BY <1>1 DEF ServingInv
  <2>2. indexed[d].name \in DOMAIN folder /\ indexed[d].name # x
    BY <1>1, <2>1 DEF FileInv
  <2>3. d \in Unfinished =>
           \A e \in DOMAIN indexed' \ {d} : indexed'[e].name # indexed[d].name
    BY <1>3, <2>1, <2>2 DEF FileInv, PartInIndex
  <2> QED
    BY <1>3, <2>1, <2>2, <2>3, OtherFile
<1> QED
  BY <1>3, <1>4, <1>5, <1>6 DEF ServingInv

\* A download that waits for its metafile or for a chunk.
LEMMA DownloadInIndex ==
    ASSUME ServingInv, NEW m \in DOMAIN entries, ~entries[m].done
    PROVE  /\ m \in Unfinished /\ m \in DOMAIN indexed /\ PartInIndex(m)
           /\ indexed[m].name \in DOMAIN folder
           /\ Assembled(folder[indexed[m].name], m, Held(m))
           /\ Chunked(m) /\ Len(m) \in Nat /\ Len(m) >= 1
           /\ entries[m].next \in -1 .. Len(m) - 1
<1>1. m \in Unfinished /\ m \in DOMAIN indexed /\ m \in Metahashes
      /\ entries[m].next \in -1 .. Len(m) - 1
  BY DEF ServingInv, TypeOK, Unfinished
<1>2. FileInv(m)
  BY <1>1 DEF ServingInv
<1>3. PartInIndex(m)
  BY <1>1, <1>2 DEF FileInv
<1>4. Chunked(m) /\ Len(m) \in Nat
  BY <1>1, MetahashType
<1>5. Len(m) >= 1
  <2>1. Len(m) * CHUNK_SIZE \in 1 .. MAX_FILE_SIZE
    BY <1>3 DEF PartInIndex
  <2> QED
    BY <1>4, <2>1, ServingAssumption
<1> QED
  BY <1>1, <1>2, <1>3, <1>4, <1>5 DEF FileInv

\* The metafile: the file has no chunk yet.
LEMMA ReceiveMetafileStep ==
    ASSUME ServingInv, NEW m \in Metahashes, ReceiveMetafile(m)
    PROVE  ServingInv'
<1>1. /\ m \in DOMAIN entries /\ entries[m].next = -1
      /\ entries' = [entries EXCEPT ![m].next = 0]
      /\ indexed' = [indexed EXCEPT ![m].metafile = m, ![m].next = 0]
      /\ folder' = folder
  BY DEF ReceiveMetafile
<1>2. ~entries[m].done
  BY <1>1 DEF ServingInv, TypeOK, FileInv
<1>3. /\ m \in Unfinished /\ m \in DOMAIN indexed /\ PartInIndex(m)
      /\ indexed[m].name \in DOMAIN folder
      /\ Assembled(folder[indexed[m].name], m, Held(m))
      /\ Chunked(m) /\ Len(m) \in Nat /\ Len(m) >= 1
  BY <1>1, <1>2, DownloadInIndex
<1>4. m \in Metahashes /\ indexed[m] \in MyFile
  BY <1>3, IndexType DEF ServingInv
<1>5. /\ DOMAIN indexed' = DOMAIN indexed /\ DOMAIN entries' = DOMAIN entries
      /\ \A d \in DOMAIN indexed : d # m => indexed'[d] = indexed[d]
      /\ \A d \in DOMAIN entries : d # m => entries'[d] = entries[d]
  BY <1>1
<1>6. /\ indexed'[m] \in MyFile
      /\ indexed'[m].name = indexed[m].name /\ indexed'[m].done = indexed[m].done
      /\ indexed'[m].metafile = m /\ indexed'[m].next = 0
  BY <1>1, <1>3, <1>4 DEF MyFile
<1>7. /\ entries'[m] \in [next : -1 .. Len(m) - 1, done : BOOLEAN]
      /\ entries'[m].next = 0 /\ entries'[m].done = FALSE
  <2>1. entries[m] \in [next : -1 .. Len(m) - 1, done : BOOLEAN]
    BY <1>1 DEF ServingInv, TypeOK
  <2>2. 0 \in -1 .. Len(m) - 1
    BY <1>3
  <2>3. entries'[m] = [entries[m] EXCEPT !.next = 0]
    BY <1>1
  <2> QED
    BY <1>2, <2>1, <2>2, <2>3
<1>8. TypeOK'
  <2>1. Range(indexed') \subseteq MyFile
    BY <1>5, <1>6 DEF ServingInv, TypeOK, Range
  <2>2. \A d \in DOMAIN entries' :
           /\ d \in DOMAIN indexed'
           /\ entries'[d] \in [next : -1 .. Len(d) - 1, done : BOOLEAN]
    BY <1>5, <1>7 DEF ServingInv, TypeOK
  <2> QED
    BY <1>1, <1>5, <2>1, <2>2 DEF ServingInv, TypeOK
<1>9. FileInv(m)'
  <2>1. m \in Unfinished'
    BY <1>1, <1>5, <1>7 DEF Unfinished
  <2>2. PartInIndex(m)'
    BY <1>3, <1>5, <1>6, <1>7 DEF PartInIndex
  <2>3. Held(m)' = Held(m)
    BY <1>1, <1>3, <1>6 DEF Held, PartInIndex
  <2>4. Assembled(folder[indexed[m].name], m, Held(m))'
    BY <1>1, <1>3, <1>6, <2>3
  <2> QED
    BY <1>1, <1>3, <1>6, <1>7, <2>1, <2>2, <2>4 DEF FileInv
<1>10. ASSUME NEW d \in DOMAIN indexed, d # m
       PROVE  FileInv(d)'
  <2>1. TypeOK /\ FileInv(d)
    BY DEF ServingInv
  <2>2. d \in Unfinished =>
           \A e \in DOMAIN indexed' \ {d} : indexed'[e].name # indexed[d].name
    BY <1>5, <1>6, <2>1 DEF FileInv, PartInIndex
  <2> QED
    BY <1>1, <1>5, <1>10, <2>1, <2>2, OtherFile DEF FileInv
<1> QED
  BY <1>5, <1>8, <1>9, <1>10 DEF ServingInv

\* A chunk: it goes behind those its file has, and no other entry has that file.
LEMMA ReceiveChunkStep ==
    ASSUME ServingInv, NEW m \in Metahashes, ReceiveChunk(m)
    PROVE  ServingInv'
<1> DEFINE i == entries[m].next
           x == indexed[m].name
<1>1. /\ m \in DOMAIN entries /\ i >= 0 /\ ~entries[m].done
      /\ folder' = [folder EXCEPT ![x] = @ \o m[i + 1]]
      /\ indexed' = [indexed EXCEPT ![m].next = @ + 1,
                                    ![m].done = @ \/ i + 1 = Len(m)]
      /\ entries' = IF i + 1 = Len(m) THEN [entries EXCEPT ![m].done = TRUE]
                    ELSE [entries EXCEPT ![m].next = i + 1]
  BY DEF ReceiveChunk, CountChunk, IsLast
<1>2. /\ m \in Unfinished /\ m \in DOMAIN indexed /\ PartInIndex(m)
      /\ x \in DOMAIN folder
      /\ Assembled(folder[x], m, Held(m))
      /\ Chunked(m) /\ Len(m) \in Nat /\ Len(m) >= 1
      /\ i \in -1 .. Len(m) - 1
  BY <1>1, DownloadInIndex
<1>3. /\ i \in Nat /\ i < Len(m) /\ Held(m) = i
      /\ indexed[m].next = i /\ ~indexed[m].done /\ indexed[m].metafile = m
      /\ i + 1 \in Nat /\ i + 1 # -1 /\ i # -1
  BY <1>1, <1>2 DEF Held, PartInIndex
<1>4. indexed[m] \in MyFile /\ folder[x] \in Seq(Byte)
  BY <1>2, IndexType, FolderType DEF ServingInv
<1>5. /\ DOMAIN indexed' = DOMAIN indexed /\ DOMAIN entries' = DOMAIN entries
      /\ DOMAIN folder' = DOMAIN folder
      /\ \A d \in DOMAIN indexed : d # m => indexed'[d] = indexed[d]
      /\ \A d \in DOMAIN entries : d # m => entries'[d] = entries[d]
      /\ \A y \in DOMAIN folder : y # x => folder'[y] = folder[y]
      /\ folder'[x] = folder[x] \o m[i + 1]
  BY <1>1, <1>2
<1>6. /\ indexed'[m] \in MyFile /\ indexed'[m].name = x /\ indexed'[m].metafile = m
      /\ indexed'[m].next = i + 1 /\ indexed'[m].done = (i + 1 = Len(m))
  <2>1. indexed'[m] = [indexed[m] EXCEPT !.next = @ + 1,
                                         !.done = @ \/ i + 1 = Len(m)]
    BY <1>1, <1>2
  <2>2. indexed'[m] = [indexed[m] EXCEPT !.next = i + 1, !.done = (i + 1 = Len(m))]
    BY <2>1, <1>3, <1>4 DEF MyFile
  <2>3. (i + 1 = Len(m)) \in BOOLEAN
    OBVIOUS
  <2> HIDE DEF i
  <2> QED
    BY <1>3, <1>4, <2>2, <2>3 DEF MyFile
<1>7. /\ entries'[m] \in [next : -1 .. Len(m) - 1, done : BOOLEAN]
      /\ entries'[m].done = (i + 1 = Len(m)) /\ entries'[m].next # -1
      /\ ~entries'[m].done => entries'[m].next = i + 1
  <2>1. entries[m] \in [next : -1 .. Len(m) - 1, done : BOOLEAN]
    BY <1>1 DEF ServingInv, TypeOK
  <2>2. CASE i + 1 = Len(m)
    <3>1. entries'[m] = [entries[m] EXCEPT !.done = TRUE]
      BY <1>1, <2>2
    <3> QED
      BY <1>3, <2>1, <2>2, <3>1
  <2>3. CASE i + 1 # Len(m)
    <3>1. entries'[m] = [entries[m] EXCEPT !.next = i + 1]
      BY <1>1, <2>3
    <3>2. i + 1 \in -1 .. Len(m) - 1
      BY <1>2, <1>3, <2>3
    <3> QED
      BY <1>1, <1>3, <2>1, <2>3, <3>1, <3>2
  <2> QED
    BY <2>2, <2>3
<1> HIDE DEF i, x
<1>8. /\ folder'[x] \in Seq(Byte)
      /\ Assembled(folder'[x], m, i + 1)
      /\ folder'[x] \in Piece
  <2>1. /\ folder[x] \o m[i + 1] \in Seq(Byte)
        /\ Assembled(folder[x] \o m[i + 1], m, i + 1)
        /\ Len(folder[x] \o m[i + 1]) <= Len(m) * CHUNK_SIZE
    BY <1>2, <1>3, <1>4, AppendChunk
  <2>2. Len(folder[x] \o m[i + 1]) <= MAX_FILE_SIZE
    <3>1. Len(m) * CHUNK_SIZE \in 1 .. MAX_FILE_SIZE
      BY <1>2 DEF PartInIndex
    <3>2. Len(folder[x] \o m[i + 1]) \in Nat
      BY <2>1, LenProperties
    <3> DEFINE size == Len(m) * CHUNK_SIZE
               length == Len(folder[x] \o m[i + 1])
    <3> HIDE DEF size, length
    <3>3. size \in 1 .. MAX_FILE_SIZE /\ length \in Nat /\ length <= size
      BY <2>1, <3>1, <3>2 DEF size, length
    <3>4. length <= MAX_FILE_SIZE
      BY <3>3, ServingAssumption
    <3> QED
      BY <3>4 DEF length
  <2> QED
    BY <1>5, <2>1, <2>2, PieceType
<1>9. TypeOK'
  <2>1. Range(indexed') \subseteq MyFile
    BY <1>5, <1>6 DEF ServingInv, TypeOK, Range
  <2>2. \A d \in DOMAIN entries' :
           /\ d \in DOMAIN indexed'
           /\ entries'[d] \in [next : -1 .. Len(d) - 1, done : BOOLEAN]
    BY <1>5, <1>7 DEF ServingInv, TypeOK
  <2>3. Range(folder') \subseteq Piece \cup Contents
    BY <1>5, <1>8 DEF ServingInv, TypeOK, Range
  <2> QED
    BY <1>5, <2>1, <2>2, <2>3 DEF ServingInv, TypeOK
<1>10. FileInv(m)'
  <2>1. Held(m)' = i + 1
    BY <1>3, <1>6 DEF Held
  <2>2. Assembled(folder[indexed[m].name], m, Held(m))'
    BY <1>6, <1>8, <2>1
  <2>3. m \in Unfinished' <=> i + 1 # Len(m)
    BY <1>1, <1>5, <1>7 DEF Unfinished
  <2>4. i + 1 = Len(m) => WholeInIndex(m)'
    BY <1>6 DEF WholeInIndex
  <2>5. i + 1 # Len(m) => PartInIndex(m)'
    <3>1. i + 1 # Len(m) => indexed'[m].next = entries'[m].next /\ entries'[m].next # -1
      BY <1>6, <1>7
    <3>2. \A d \in DOMAIN indexed' \ {m} : indexed'[d].name # indexed'[m].name
      BY <1>2, <1>5, <1>6 DEF PartInIndex, x
    <3> QED
      BY <1>2, <1>6, <3>1, <3>2 DEF PartInIndex
  <2> QED
    BY <1>2, <1>5, <1>6, <1>7, <2>2, <2>3, <2>4, <2>5 DEF FileInv
<1>11. ASSUME NEW d \in DOMAIN indexed, d # m
       PROVE  FileInv(d)'
  <2>1. TypeOK /\ FileInv(d)
    BY DEF ServingInv
  <2>2. indexed[d].name # x
    BY <1>2, <1>11 DEF PartInIndex, x
  <2>3. d \in Unfinished =>
           \A e \in DOMAIN indexed' \ {d} : indexed'[e].name # indexed[d].name
    BY <1>5, <1>6, <2>1, <2>2 DEF FileInv, PartInIndex
  <2>4. indexed[d].name \in DOMAIN folder
    BY <2>1 DEF FileInv
  <2> QED
    BY <1>5, <1>11, <2>1, <2>2, <2>3, <2>4, OtherFile
<1> QED
  BY <1>5, <1>9, <1>10, <1>11 DEF ServingInv

-----------------------------------------------------------------------------
(* The theorems. *)

\* A client that requests files under names of their own, and shares nothing
\* that is still on its way.
Orderly == ~Reuse /\ ~ShareRequested

\* Every step keeps the invariant.
LEMMA ServingInvStep == Orderly /\ ServingInv /\ [Next]_vars => ServingInv'
<1> SUFFICES ASSUME Orderly, ServingInv, [Next]_vars
             PROVE  ServingInv'
  OBVIOUS
<1>1. CASE \E x \in Names : Share(x)
  BY <1>1, ShareStep DEF Orderly
<1>2. CASE \E m \in Metahashes, x \in Names : Request(m, x)
  BY <1>2, RequestStep DEF Orderly
<1>3. CASE \E m \in Metahashes : ReceiveMetafile(m)
  BY <1>3, ReceiveMetafileStep
<1>4. CASE \E m \in Metahashes : ReceiveChunk(m)
  BY <1>4, ReceiveChunkStep
<1>5. CASE UNCHANGED vars
  <2>1. folder' = folder /\ indexed' = indexed /\ entries' = entries
    BY <1>5 DEF vars
  <2>2. TypeOK'
    BY <2>1 DEF ServingInv, TypeOK
  <2>3. ASSUME NEW m \in DOMAIN indexed
        PROVE  FileInv(m)'
    <3>1. TypeOK /\ FileInv(m)
      BY DEF ServingInv
    <3> QED
      BY <2>1, <3>1, OtherFile DEF FileInv, PartInIndex
  <2> QED
    BY <2>1, <2>2, <2>3 DEF ServingInv
<1> QED
  BY <1>1, <1>2, <1>3, <1>4, <1>5 DEF Next

\* In every state the files of the index are what their metahashes stand for.
LEMMA ServingInvHolds ==
    ASSUME Orderly
    PROVE  Spec => []ServingInv
<1>1. ServingInv /\ [Next]_vars => ServingInv'
  BY ServingInvStep
<1> QED
  BY <1>1, ServingInit, PTL DEF Spec

\* The index names files of the folder, and no file outgrows the limit.
THEOREM ServingTypeCorrect ==
    ASSUME Orderly
    PROVE  Spec => []TypeOK
<1>1. ServingInv => TypeOK
  BY DEF ServingInv
<1> QED
  BY <1>1, ServingInvHolds, PTL

\* A file of the index answers for chunk h of its metafile with h or with
\* nothing, and with h once it has got as far as a place of h.
LEMMA AnswerOfFile ==
    ASSUME ServingInv, NEW m \in DOMAIN indexed, NEW h \in Range(indexed[m].metafile)
    PROVE  LET answer == GetChunkByIndex(indexed[m].name, FirstIndex(m, h))
           IN  /\ answer \in {h, <<>>}
               /\ \A i \in 1 .. indexed[m].next :
                     i <= Len(m) /\ m[i] = h => answer = h
<1> DEFINE x == indexed[m].name
           i == FirstIndex(m, h) + 1
<1>1. TypeOK /\ FileInv(m)
  BY DEF ServingInv
<1>2. m \in Metahashes /\ indexed[m] \in MyFile
  BY <1>1, IndexType
<1>3. Chunked(m) /\ m \in Seq(Seq(Byte)) /\ Len(m) \in Nat
  BY <1>2, MetahashType
<1>4. h \in Range(m)
  <2>1. m \in Unfinished => PartInIndex(m)
    BY <1>1 DEF FileInv
  <2>2. m \notin Unfinished => WholeInIndex(m)
    BY <1>1 DEF FileInv
  <2>3. indexed[m].metafile \in {<<>>, m}
    BY <2>1, <2>2 DEF PartInIndex, WholeInIndex
  <2>4. Range(<<>>) = {}
    BY DEF Range
  <2> QED
    BY <2>3, <2>4
<1>5. /\ i \in 1 .. Len(m) /\ m[i] = h
      /\ \A j \in 1 .. Len(m) : m[j] = h => i <= j
  BY <1>3, <1>4, FirstPlace
<1>6. Held(m) \in Nat /\ Held(m) <= Len(m)
      /\ \A j \in 1 .. indexed[m].next : j <= Held(m)
  <2>1. CASE m \in Unfinished
    <3>1. PartInIndex(m) /\ entries[m].next \in -1 .. Len(m) - 1
      BY <1>1, <2>1 DEF FileInv, TypeOK, Unfinished
    <3>2. indexed[m].next \in -1 .. Len(m) - 1
      BY <3>1 DEF PartInIndex
    <3> QED
      BY <1>3, <3>2 DEF Held
  <2>2. CASE m \notin Unfinished
    <3>1. indexed[m].next = Len(m)
      BY <1>1, <2>2 DEF FileInv, WholeInIndex
    <3> QED
      BY <1>3, <3>1 DEF Held
  <2> QED
    BY <2>1, <2>2
<1>7. x \in DOMAIN folder /\ Assembled(folder[x], m, Held(m)) /\ folder[x] \in Seq(Byte)
  BY <1>1, FolderType DEF FileInv
<1>8. FirstIndex(m, h) = i - 1
  BY <1>3, <1>4, FirstPlace
<1> HIDE DEF i
<1>9. GetChunkByIndex(x, i - 1) = IF i <= Held(m) THEN m[i] ELSE <<>>
  BY <1>3, <1>5, <1>6, <1>7, ReadChunk
<1>10. \A j \in 1 .. indexed[m].next : j <= Len(m) /\ m[j] = h => i <= Held(m)
  <2>1. ASSUME NEW j \in 1 .. indexed[m].next, j <= Len(m), m[j] = h
        PROVE  i <= Held(m)
    <3>1. j \in 1 .. Len(m) /\ j <= Held(m)
      BY <1>3, <1>6, <2>1
    <3> QED
      BY <1>5, <1>6, <2>1, <3>1
  <2> QED
    BY <2>1
<1> QED
  BY <1>5, <1>8, <1>9, <1>10

\* The data of an answer has the hash that was asked for, or is empty.
THEOREM AnswersAlwaysMatch ==
    ASSUME Orderly
    PROVE  Spec => []AnswersMatch
<1>1. ServingInv => AnswersMatch
  <2> SUFFICES ASSUME ServingInv, NEW h \in Hashes, NEW a \in ChunkAnswers(h)
               PROVE  a \in {h, <<>>}
    BY DEF AnswersMatch
  <2>1. CASE a = <<>>
    BY <2>1
  <2>2. CASE a # <<>>
    <3>1. PICK m \in DOMAIN indexed :
             /\ h \in Range(indexed[m].metafile)
             /\ a = GetChunkByIndex(indexed[m].name, FirstIndex(m, h))
      BY <2>2 DEF ChunkAnswers
    <3> QED
      BY <3>1, AnswerOfFile
  <2> QED
    BY <2>1, <2>2
<1> QED
  BY <1>1, ServingInvHolds, PTL

\* A chunk that search replies offer can be had.
THEOREM OffersCanBeKept ==
    ASSUME Orderly
    PROVE  Spec => []OfferedCanBeHad
<1>1. ServingInv => OfferedCanBeHad
  <2> SUFFICES ASSUME ServingInv, NEW m \in DOMAIN indexed, NEW i \in GetChunkMap(m)
               PROVE  i <= Len(m) /\ m[i] \in ChunkAnswers(m[i])
    BY DEF OfferedCanBeHad
  <2>1. TypeOK /\ FileInv(m) /\ i \in 1 .. indexed[m].next
    BY DEF ServingInv, GetChunkMap
  <2>2. m \in Metahashes /\ indexed[m] \in MyFile
    BY <2>1, IndexType
  <2>3. m \in Seq(Seq(Byte)) /\ Len(m) \in Nat
    BY <2>2, MetahashType
  <2>4. i <= Len(m) /\ indexed[m].metafile = m
    <3>1. CASE m \in Unfinished
      <4>1. PartInIndex(m) /\ entries[m].next \in -1 .. Len(m) - 1
        BY <2>1, <3>1 DEF FileInv, TypeOK, Unfinished
      <4>2. indexed[m].next = entries[m].next
        BY <4>1 DEF PartInIndex
      <4>3. entries[m].next # -1 /\ i <= Len(m)
        BY <2>1, <2>3, <4>1, <4>2
      <4> QED
        BY <4>1, <4>3 DEF PartInIndex
    <3>2. CASE m \notin Unfinished
      BY <2>1, <2>3, <3>2 DEF FileInv, WholeInIndex
    <3> QED
      BY <3>1, <3>2
  <2>5. m[i] \in Range(indexed[m].metafile)
    <3>1. i \in 1 .. Len(m)
      BY <2>1, <2>3, <2>4
    <3> QED
      BY <2>3, <2>4, <3>1 DEF Range
  <2>6. GetChunkByIndex(indexed[m].name, FirstIndex(m, m[i])) = m[i]
    BY <2>1, <2>4, <2>5, AnswerOfFile
  <2>7. GetChunkByIndex(indexed[m].name, FirstIndex(m, m[i])) \in ChunkAnswers(m[i])
    BY <2>5 DEF ChunkAnswers
  <2> QED
    BY <2>4, <2>6, <2>7
<1> QED
  BY <1>1, ServingInvHolds, PTL

\* A file that is done is the one its metahash stands for.
THEOREM DoneStaysWhole ==
    ASSUME Orderly
    PROVE  Spec => []DoneIsWhole
<1>1. ServingInv => DoneIsWhole
  <2> SUFFICES ASSUME ServingInv, NEW m \in DOMAIN indexed, indexed[m].done
               PROVE  IsFileOf(folder[indexed[m].name], m)
    BY DEF DoneIsWhole
  <2> DEFINE f == folder[indexed[m].name]
  <2>1. TypeOK /\ FileInv(m)
    BY DEF ServingInv
  <2>2. m \in Metahashes
    BY <2>1, IndexType
  <2>3. Chunked(m) /\ m \in Seq(Seq(Byte)) /\ Len(m) \in Nat
    BY <2>2, MetahashType
  <2>4. m \notin Unfinished
    BY <2>1 DEF FileInv, PartInIndex
  <2>5. Held(m) = Len(m)
    BY <2>1, <2>3, <2>4 DEF FileInv, WholeInIndex, Held
  <2>6. f \in Seq(Byte) /\ Assembled(f, m, Len(m))
    BY <2>1, <2>5, FolderType DEF FileInv
  <2> HIDE DEF f
  <2>7. Len(f) = IF m = <<>> THEN 0 ELSE (Len(m) - 1) * CHUNK_SIZE + Len(m[Len(m)])
    <3>1. m = <<>> <=> Len(m) = 0
      BY <2>3, EmptySeq
    <3> QED
      BY <2>6, <3>1 DEF Assembled, Size
  <2>8. ASSUME NEW i \in 1 .. Len(m)
        PROVE  SubSeq(f, (i - 1) * CHUNK_SIZE + 1, (i - 1) * CHUNK_SIZE + Len(m[i])) = m[i]
    <3> DEFINE start == (i - 1) * CHUNK_SIZE
    <3>1. m[i] \in Seq(Byte) /\ Len(m[i]) \in 1 .. CHUNK_SIZE
      BY <2>3 DEF Chunked
    <3>2. \A k \in 1 .. Len(m[i]) : f[start + k] = m[i][k]
      BY <2>6 DEF Assembled
    <3>3. start \in Nat /\ start + Len(m[i]) <= Len(f)
      <4>1. Len(m) <= Len(m)
        BY <2>3
      <4> QED
        BY <2>3, <2>6, <4>1, PlaceOfChunk
    <3> HIDE DEF start
    <3>4. SubSeq(f, start + 1, start + Len(m[i])) = m[i]
      BY <2>6, <3>1, <3>2, <3>3, SubSeqOfFile
    <3> QED
      BY <3>4 DEF start
  <2> QED
    BY <2>7, <2>8 DEF IsFileOf, f
<1> QED
  BY <1>1, ServingInvHolds, PTL
=============================================================================
