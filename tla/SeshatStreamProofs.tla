-------------------------- MODULE SeshatStreamProofs -------------------------
(***************************************************************************)
(* What an encrypted file reads back as, and which files are refused, for  *)
(* any sizes of the IV, the MAC and the buffers, and whatever write fails. *)
(***************************************************************************)
EXTENDS SeshatStream, SequenceTheorems, TLAPS

-----------------------------------------------------------------------------
(* Sequences of cells, which have no common type.                          *)

LEMMA SequenceOf == ASSUME NEW S, NEW s \in Seq(S) PROVE IsSequence(s)
  <1>1. Len(s) \in Nat /\ s \in [1 .. Len(s) -> S]
    BY LenProperties
  <1>2. s \in [1 .. Len(s) -> {s[i] : i \in 1 .. Len(s)}]
    BY <1>1
  <1> QED
    BY <1>1, <1>2, SeqDef DEF IsSequence

LEMMA SequenceDomain ==
  ASSUME NEW s, IsSequence(s)
  PROVE  Len(s) \in Nat /\ DOMAIN s = 1 .. Len(s) /\ s = [i \in 1 .. Len(s) |-> s[i]]
  BY LenProperties DEF IsSequence

LEMMA FunctionSequence ==
  ASSUME NEW n \in Nat, NEW f, f = [i \in 1 .. n |-> f[i]]
  PROVE  IsSequence(f) /\ Len(f) = n
  <1>1. f \in [1 .. n -> {f[i] : i \in 1 .. n}]
    OBVIOUS
  <1>2. f \in Seq({f[i] : i \in 1 .. n})
    BY <1>1, SeqDef
  <1>3. Len(f) = n
    BY <1>1, <1>2, LenProperties
  <1> QED
    BY <1>2, <1>3 DEF IsSequence

LEMMA SameSequence ==
  ASSUME NEW s, NEW t, IsSequence(s), IsSequence(t), Len(s) = Len(t),
         \A i \in 1 .. Len(s) : s[i] = t[i]
  PROVE  s = t
  BY SequenceDomain

LEMMA EmptyIsSequence == IsSequence(<<>>) /\ Len(<<>>) = 0
  BY EmptySeq, SequenceOf

LEMMA Concatenated ==
  ASSUME NEW s, NEW t, IsSequence(s), IsSequence(t)
  PROVE  /\ IsSequence(s \o t)
         /\ Len(s \o t) = Len(s) + Len(t)
         /\ \A i \in 1 .. Len(s) : (s \o t)[i] = s[i]
         /\ \A i \in 1 .. Len(t) : (s \o t)[Len(s) + i] = t[i]
  <1> DEFINE S == {s[i] : i \in 1 .. Len(s)}
             T == {t[i] : i \in 1 .. Len(t)}
  <1>1. s \in Seq(S \cup T) /\ t \in Seq(S \cup T)
    <2>1. s \in Seq(S) /\ t \in Seq(T)
      BY DEF IsSequence
    <2> HIDE DEF S, T
    <2> QED
      BY <2>1, SeqMonotonic
  <1>2. Len(s) \in Nat /\ Len(t) \in Nat
    BY SequenceDomain
  <1> HIDE DEF S, T
  <1>3. /\ s \o t \in Seq(S \cup T)
        /\ Len(s \o t) = Len(s) + Len(t)
        /\ \A i \in 1 .. Len(s) + Len(t) : (s \o t)[i] =
                IF i <= Len(s) THEN s[i] ELSE t[i - Len(s)]
    BY <1>1, ConcatProperties
  <1>4. \A i \in 1 .. Len(t) : (s \o t)[Len(s) + i] = t[i]
    <2> TAKE i \in 1 .. Len(t)
    <2>1. Len(s) + i \in 1 .. Len(s) + Len(t) /\ ~(Len(s) + i <= Len(s))
          /\ (Len(s) + i) - Len(s) = i
      BY <1>2
    <2> QED
      BY <1>3, <2>1
  <1>5. \A i \in 1 .. Len(s) : (s \o t)[i] = s[i]
    BY <1>2, <1>3
  <1> QED
    BY <1>3, <1>4, <1>5, SequenceOf

LEMMA Part ==
  ASSUME NEW s, IsSequence(s), NEW m \in Nat \ {0}, NEW n \in Nat, m <= n + 1, n <= Len(s)
  PROVE  /\ IsSequence(SubSeq(s, m, n))
         /\ Len(SubSeq(s, m, n)) = n - m + 1
         /\ \A i \in 1 .. n - m + 1 : SubSeq(s, m, n)[i] = s[m + i - 1]
  <1> DEFINE S == {s[i] : i \in 1 .. Len(s)}
  <1>1. Len(s) \in Nat
    BY SequenceDomain
  <1>2. \A i \in m .. n : s[i] \in S
    BY <1>1
  <1> HIDE DEF S
  <1>3. /\ SubSeq(s, m, n) \in Seq(S)
        /\ Len(SubSeq(s, m, n)) = IF m <= n THEN n - m + 1 ELSE 0
        /\ \A i \in 1 .. n - m + 1 : SubSeq(s, m, n)[i] = s[m + i - 1]
    BY <1>2, SubSeqProperties
  <1>4. Len(SubSeq(s, m, n)) = n - m + 1
    BY <1>3
  <1>5. IsSequence(SubSeq(s, m, n))
    BY <1>3, SequenceOf
  <1> QED
    BY <1>3, <1>4, <1>5

-----------------------------------------------------------------------------
(* The sequences the code makes.                                           *)

LEMMA Encrypted ==
  ASSUME NEW bytes, IsSequence(bytes), NEW at \in Nat
  PROVE  /\ IsSequence(Encrypt(bytes, at)) /\ Len(Encrypt(bytes, at)) = Len(bytes)
         /\ \A i \in 1 .. Len(bytes) : Encrypt(bytes, at)[i] = DataCell(bytes[i], at + i - 1)
  <1>1. Len(bytes) \in Nat
    BY SequenceDomain
  <1> QED
    BY <1>1, FunctionSequence DEF Encrypt

LEMMA Decrypted ==
  ASSUME NEW cells, IsSequence(cells), NEW at
  PROVE  /\ IsSequence(Decrypt(cells, at)) /\ Len(Decrypt(cells, at)) = Len(cells)
         /\ \A i \in 1 .. Len(cells) :
               Decrypt(cells, at)[i] = IF cells[i] = DataCell(cells[i].byte, at + i - 1)
                                       THEN cells[i].byte ELSE Garbage
  <1>1. Len(cells) \in Nat
    BY SequenceDomain
  <1> QED
    BY <1>1, FunctionSequence DEF Decrypt

LEMMA MacCells ==
  ASSUME NEW cells
  PROVE  /\ IsSequence(MacOver(cells)) /\ Len(MacOver(cells)) = MacSize
         /\ \A i \in 1 .. MacSize :
               MacOver(cells)[i] = [kind |-> "mac", byte |-> i, over |-> cells]
  BY MacAssumption, FunctionSequence DEF MacOver

LEMMA IVCells ==
  /\ IsSequence(IV) /\ Len(IV) = IVSize
  /\ \A i \in 1 .. IVSize : IV[i] = [kind |-> "iv", byte |-> i]
  BY IVAssumption, FunctionSequence DEF IV

LEMMA BytesSent ==
  ASSUME TypeOK, NEW n \in Nat
  PROVE  /\ IsSequence(NextBytes(n)) /\ Len(NextBytes(n)) = n
         /\ \A i \in 1 .. n : NextBytes(n)[i] = sent + i
  BY FunctionSequence DEF NextBytes

LEMMA DataCells ==
  ASSUME NEW n \in Nat
  PROVE  /\ IsSequence(FirstCells(n)) /\ Len(FirstCells(n)) = n
         /\ \A i \in 1 .. n : FirstCells(n)[i] = DataCell(i, i - 1)
  BY FunctionSequence DEF FirstCells

-----------------------------------------------------------------------------
(* Writes to the file.                                                     *)

\* The file has become longer by the first k cells.
Extended(cells, k) ==
    /\ IsSequence(file')
    /\ Len(file') = Len(file) + k
    /\ \A i \in 1 .. Len(file) : file'[i] = file[i]
    /\ \A i \in 1 .. k : file'[Len(file) + i] = cells[i]

LEMMA WrittenAll ==
  ASSUME IsSequence(file), NEW cells, IsSequence(cells), WriteAll(cells)
  PROVE  failures' = failures /\ Extended(cells, Len(cells))
  BY Concatenated DEF WriteAll, Extended

LEMMA WrittenInPart ==
  ASSUME IsSequence(file), failures \in 0 .. MaxFailures, NEW cells, IsSequence(cells),
         WriteFails(cells)
  PROVE  /\ failures' \in 1 .. MaxFailures /\ failures' # failures
         /\ \E k \in 0 .. Len(cells) - 1 : Extended(cells, k)
  <1>1. failures' \in 1 .. MaxFailures /\ failures' # failures
    BY BoundsAssumption DEF WriteFails
  <1>2. PICK k \in 0 .. Len(cells) - 1 : file' = file \o SubSeq(cells, 1, k)
    BY DEF WriteFails
  <1>3. Len(cells) \in Nat
    BY SequenceDomain
  <1>4. k \in Nat /\ k <= Len(cells) /\ 1 <= k + 1
    BY <1>3
  <1>5. /\ IsSequence(SubSeq(cells, 1, k))
        /\ Len(SubSeq(cells, 1, k)) = k - 1 + 1
        /\ \A i \in 1 .. k - 1 + 1 : SubSeq(cells, 1, k)[i] = cells[1 + i - 1]
    BY <1>4, Part
  <1>6. /\ Len(SubSeq(cells, 1, k)) = k
        /\ \A i \in 1 .. k : SubSeq(cells, 1, k)[i] = cells[i]
    <2>1. k - 1 + 1 = k /\ \A i \in 1 .. k : 1 + i - 1 = i
      BY <1>4
    <2> QED
      BY <1>5, <2>1
  <1>7. Extended(cells, k)
    BY <1>2, <1>5, <1>6, Concatenated DEF Extended
  <1> QED
    BY <1>1, <1>7

\* Every cell of the longer file is an old one or one of the new ones.
LEMMA OldOrNew ==
  ASSUME IsSequence(file), NEW cells, NEW k \in Nat, Extended(cells, k),
         NEW i \in 1 .. Len(file')
  PROVE  \/ i \in 1 .. Len(file) /\ file'[i] = file[i]
         \/ /\ i - Len(file) \in 1 .. k
            /\ file'[i] = cells[i - Len(file)]
  <1>1. Len(file) \in Nat /\ Len(file') = Len(file) + k
    BY SequenceDomain DEF Extended
  <1>2. CASE i <= Len(file)
    BY <1>1, <1>2 DEF Extended
  <1>3. CASE ~(i <= Len(file))
    <2>1. i - Len(file) \in 1 .. k /\ Len(file) + (i - Len(file)) = i
      BY <1>1, <1>3
    <2> QED
      BY <2>1 DEF Extended
  <1> QED
    BY <1>2, <1>3

\* What encrypt_write does to the file, the keystream and the MAC.
LEMMA EncryptWriteEffect ==
  ASSUME CellsInv, NEW bytes, IsSequence(bytes), EncryptWrite(bytes)
  PROVE  /\ ~finalized /\ ~finalized'
         /\ enc' = enc + Len(bytes)
         /\ failures' \in 0 .. MaxFailures
         /\ failures' = 0 => failures = 0
         /\ \/ /\ failures' = failures
               /\ Extended(Encrypt(bytes, enc), Len(bytes))
               /\ mac' = mac \o Encrypt(bytes, enc)
            \/ /\ failures' # failures /\ failures' # 0
               /\ \E k \in 0 .. Len(bytes) : Extended(Encrypt(bytes, enc), k)
               /\ mac' = mac
  <1>1. /\ IsSequence(file) /\ failures \in 0 .. MaxFailures /\ enc \in Nat
        /\ finalized \in BOOLEAN
    BY DEF CellsInv, Sequences, TypeOK
  <1>2. IsSequence(Encrypt(bytes, enc)) /\ Len(Encrypt(bytes, enc)) = Len(bytes)
    BY <1>1, Encrypted
  <1>3. ~finalized /\ ~finalized' /\ enc' = enc + Len(bytes)
    BY <1>1 DEF EncryptWrite, EncAfter
  <1>4. CASE WriteAll(Encrypt(bytes, enc)) /\ mac' = mac \o Encrypt(bytes, enc)
    BY <1>1, <1>2, <1>3, <1>4, WrittenAll
  <1>5. CASE WriteFails(Encrypt(bytes, enc)) /\ UNCHANGED mac
    <2>1. /\ failures' \in 1 .. MaxFailures /\ failures' # failures
          /\ \E k \in 0 .. Len(Encrypt(bytes, enc)) - 1 : Extended(Encrypt(bytes, enc), k)
      BY <1>1, <1>2, <1>5, WrittenInPart
    <2>2. failures' \in 0 .. MaxFailures /\ failures' # 0
      BY <2>1, BoundsAssumption
    <2>3. Len(bytes) \in Nat
      BY SequenceDomain
    <2>4. \E k \in 0 .. Len(bytes) : Extended(Encrypt(bytes, enc), k)
      BY <1>2, <2>1, <2>3
    <2> QED
      BY <1>3, <1>5, <2>1, <2>2, <2>4
  <1> QED
    BY <1>4, <1>5 DEF EncryptWrite

-----------------------------------------------------------------------------
(* encrypt_write keeps what concerns the file.                             *)

\* The cells an encrypt_write adds are bytes of plain text, past every position
\* that was used.
LEMMA NewCells ==
  ASSUME CellsInv, NEW bytes, IsSequence(bytes), \A i \in 1 .. Len(bytes) : bytes[i] \in Bytes,
         NEW k \in 0 .. Len(bytes), Extended(Encrypt(bytes, enc), k),
         writer \in {"open", "dropping"}
  PROVE  /\ Cells(file)'
         /\ \A i \in 1 .. Len(file') : file'[i].kind = "data" => file'[i].at < enc + Len(bytes)
         /\ KeystreamOnce'
         /\ Unfinished(file) => Unfinished(file)'
  <1> DEFINE cells == Encrypt(bytes, enc)
  <1>1. enc \in Nat /\ IsSequence(file) /\ Cells(file) /\ Ahead /\ KeystreamOnce
    BY DEF CellsInv, Sequences, TypeOK
  <1>2. Len(bytes) \in Nat /\ k \in Nat /\ k <= Len(bytes) /\ Len(file) \in Nat
    BY <1>1, SequenceDomain
  <1>3. \A i \in 1 .. k : cells[i] = DataCell(bytes[i], enc + i - 1)
    BY <1>1, <1>2, Encrypted
  <1>4. \A i \in 1 .. k : /\ cells[i].kind = "data" /\ cells[i].byte \in Bytes
                         /\ cells[i].at = enc + i - 1
    <2> TAKE i \in 1 .. k
    <2>1. bytes[i] \in Bytes
      BY <1>2
    <2>2. cells[i] = [kind |-> "data", byte |-> bytes[i], at |-> enc + i - 1]
      BY <1>3 DEF DataCell
    <2> HIDE DEF cells
    <2> QED
      BY <2>1, <2>2
  <1> HIDE DEF cells
  <1>5. \A i \in 1 .. Len(file') :
           \/ i \in 1 .. Len(file) /\ file'[i] = file[i]
           \/ /\ i - Len(file) \in 1 .. k
              /\ file'[i].kind = "data" /\ file'[i].byte \in Bytes
              /\ file'[i].at = enc + (i - Len(file)) - 1
    <2> TAKE i \in 1 .. Len(file')
    <2>1. \/ i \in 1 .. Len(file) /\ file'[i] = file[i]
          \/ i - Len(file) \in 1 .. k /\ file'[i] = cells[i - Len(file)]
      BY <1>1, <1>2, OldOrNew DEF cells
    <2> QED
      BY <1>4, <2>1
  <1>6. Len(file') = Len(file) + k
    BY DEF Extended
  <1>7. Cells(file)'
    <2> SUFFICES ASSUME NEW i \in 1 .. Len(file')
                 PROVE  \/ file'[i].kind = "iv" /\ file'[i].byte \in 1 .. IVSize
                        \/ file'[i].kind = "data" /\ file'[i].byte \in Bytes /\ file'[i].at \in Nat
                        \/ file'[i].kind = "mac" /\ file'[i].byte \in 1 .. MacSize
      BY DEF Cells, Bytes
    <2>1. CASE i \in 1 .. Len(file) /\ file'[i] = file[i]
      BY <1>1, <2>1 DEF Cells
    <2>2. CASE /\ i - Len(file) \in 1 .. k
               /\ file'[i].kind = "data" /\ file'[i].byte \in Bytes
               /\ file'[i].at = enc + (i - Len(file)) - 1
      <3>1. enc + (i - Len(file)) - 1 \in Nat
        BY <1>1, <1>2, <2>2
      <3> QED
        BY <2>2, <3>1
    <2> QED
      BY <1>5, <2>1, <2>2
  <1>8. \A i \in 1 .. Len(file') : file'[i].kind = "data" => file'[i].at < enc + Len(bytes)
    <2> TAKE i \in 1 .. Len(file')
    <2>1. CASE i \in 1 .. Len(file) /\ file'[i] = file[i]
      <3>1. file[i].kind = "data" => file[i].at < enc /\ file[i].at \in Nat
        BY <1>1, <2>1 DEF Ahead, Cells
      <3>2. \A at \in Nat : at < enc => at < enc + Len(bytes)
        BY <1>1, <1>2
      <3> QED
        BY <2>1, <3>1, <3>2
    <2>2. CASE /\ i - Len(file) \in 1 .. k
               /\ file'[i].at = enc + (i - Len(file)) - 1
      <3>1. enc + (i - Len(file)) - 1 < enc + Len(bytes)
        BY <1>1, <1>2, <2>2
      <3> QED
        BY <2>2, <3>1
    <2> QED
      BY <1>5, <2>1, <2>2
  <1>9. KeystreamOnce'
    <2> SUFFICES ASSUME NEW i \in 1 .. Len(file'), NEW j \in 1 .. Len(file'),
                        file'[i].kind = "data", file'[j].kind = "data", i < j
                 PROVE  file'[i].at # file'[j].at
      <3>1. Len(file') \in Nat
        BY <1>2, <1>6
      <3>2. \A i, j \in 1 .. Len(file') : i # j => i < j \/ j < i
        BY <3>1
      <3> QED
        BY <3>2 DEF KeystreamOnce
    <2>1. i \in Nat /\ j \in Nat
      BY <1>2, <1>6
    <2>2. CASE j \in 1 .. Len(file) /\ file'[j] = file[j]
      <3>1. i \in 1 .. Len(file) /\ i # j
        BY <1>2, <2>1, <2>2
      <3>2. file'[i] = file[i]
        BY <3>1 DEF Extended
      <3> QED
        BY <1>1, <2>2, <3>1, <3>2 DEF KeystreamOnce
    <2>3. CASE j - Len(file) \in 1 .. k /\ file'[j].at = enc + (j - Len(file)) - 1
      <3>1. CASE i \in 1 .. Len(file) /\ file'[i] = file[i]
        <4>1. file[i].at < enc /\ file[i].at \in Nat
          BY <1>1, <3>1 DEF Ahead, Cells
        <4>2. \A at \in Nat : at < enc => at # enc + (j - Len(file)) - 1
          BY <1>1, <1>2, <2>1, <2>3
        <4> QED
          BY <2>3, <3>1, <4>1, <4>2
      <3>2. CASE i - Len(file) \in 1 .. k /\ file'[i].at = enc + (i - Len(file)) - 1
        <4>1. enc + (i - Len(file)) - 1 # enc + (j - Len(file)) - 1
          BY <1>1, <1>2, <2>1
        <4> QED
          BY <2>3, <3>2, <4>1
      <3> QED
        BY <1>5, <3>1, <3>2
    <2> QED
      BY <1>5, <2>2, <2>3
  <1>10. ASSUME Unfinished(file) PROVE Unfinished(file)'
    <2> SUFFICES ASSUME NEW i \in 1 .. Len(file'), file'[i].kind = "mac"
                 PROVE  file'[i].byte # MacSize
      BY DEF Unfinished
    <2>1. i \in 1 .. Len(file) /\ file'[i] = file[i]
      BY <1>5
    <2> QED
      BY <1>10, <2>1 DEF Unfinished
  <1> QED
    BY <1>7, <1>8, <1>9, <1>10

\* The data of the file goes on where it ended.
LEMMA DataGoesOn ==
  ASSUME NEW n \in Nat, NEW bytes, IsSequence(bytes), \A i \in 1 .. Len(bytes) : bytes[i] = n + i
  PROVE  FirstCells(n) \o Encrypt(bytes, n) = FirstCells(n + Len(bytes))
  <1>1. Len(bytes) \in Nat /\ n + Len(bytes) \in Nat
    BY SequenceDomain
  <1>2. /\ IsSequence(FirstCells(n)) /\ Len(FirstCells(n)) = n
        /\ \A i \in 1 .. n : FirstCells(n)[i] = DataCell(i, i - 1)
    BY DataCells
  <1>3. /\ IsSequence(FirstCells(n + Len(bytes))) /\ Len(FirstCells(n + Len(bytes))) = n + Len(bytes)
        /\ \A i \in 1 .. n + Len(bytes) : FirstCells(n + Len(bytes))[i] = DataCell(i, i - 1)
    BY <1>1, DataCells
  <1>4. /\ IsSequence(Encrypt(bytes, n)) /\ Len(Encrypt(bytes, n)) = Len(bytes)
        /\ \A i \in 1 .. Len(bytes) : Encrypt(bytes, n)[i] = DataCell(bytes[i], n + i - 1)
    BY Encrypted
  <1> DEFINE both == FirstCells(n) \o Encrypt(bytes, n)
  <1>5. /\ IsSequence(both) /\ Len(both) = n + Len(bytes)
        /\ \A i \in 1 .. n : both[i] = FirstCells(n)[i]
        /\ \A i \in 1 .. Len(bytes) : both[n + i] = Encrypt(bytes, n)[i]
    <2>1. PICK s : s = FirstCells(n)
      OBVIOUS
    <2>2. PICK t : t = Encrypt(bytes, n)
      OBVIOUS
    <2>3. IsSequence(s) /\ IsSequence(t) /\ Len(s) = n /\ Len(t) = Len(bytes)
      BY <1>2, <1>4, <2>1, <2>2
    <2>4. /\ IsSequence(s \o t) /\ Len(s \o t) = n + Len(bytes)
          /\ \A i \in 1 .. n : (s \o t)[i] = s[i]
          /\ \A i \in 1 .. Len(bytes) : (s \o t)[n + i] = t[i]
      BY <2>3, Concatenated
    <2> QED
      BY <2>1, <2>2, <2>4
  <1> HIDE DEF both
  <1>6. \A i \in 1 .. n + Len(bytes) : both[i] = DataCell(i, i - 1)
    <2> TAKE i \in 1 .. n + Len(bytes)
    <2>1. CASE i <= n
      BY <1>1, <1>2, <1>5, <2>1
    <2>2. CASE ~(i <= n)
      <3>1. i - n \in 1 .. Len(bytes) /\ n + (i - n) = i /\ n + (i - n) - 1 = i - 1
        BY <1>1, <2>2
      <3>2. both[i] = Encrypt(bytes, n)[i - n]
        BY <1>5, <3>1
      <3>3. Encrypt(bytes, n)[i - n] = DataCell(bytes[i - n], n + (i - n) - 1)
        BY <1>4, <3>1
      <3>4. bytes[i - n] = n + (i - n)
        BY <3>1
      <3> QED
        BY <3>1, <3>2, <3>3, <3>4
    <2> QED
      BY <2>1, <2>2
  <1>7. both = FirstCells(n + Len(bytes))
    BY <1>3, <1>5, <1>6, SameSequence
  <1> QED
    BY <1>7 DEF both

LEMMA CellsConcatenated ==
  ASSUME NEW s, NEW t, IsSequence(s), IsSequence(t), Cells(s), Cells(t)
  PROVE  Cells(s \o t)
  <1>1. /\ Len(s \o t) = Len(s) + Len(t) /\ Len(s) \in Nat /\ Len(t) \in Nat
        /\ \A i \in 1 .. Len(s) : (s \o t)[i] = s[i]
        /\ \A i \in 1 .. Len(t) : (s \o t)[Len(s) + i] = t[i]
    BY Concatenated, SequenceDomain
  <1>2. \A i \in 1 .. Len(s \o t) :
           \/ i \in 1 .. Len(s) /\ (s \o t)[i] = s[i]
           \/ i - Len(s) \in 1 .. Len(t) /\ (s \o t)[i] = t[i - Len(s)]
    <2> TAKE i \in 1 .. Len(s \o t)
    <2>1. CASE i <= Len(s)
      BY <1>1, <2>1
    <2>2. CASE ~(i <= Len(s))
      <3>1. i - Len(s) \in 1 .. Len(t) /\ Len(s) + (i - Len(s)) = i
        BY <1>1, <2>2
      <3> QED
        BY <1>1, <3>1
    <2> QED
      BY <2>1, <2>2
  <1> QED
    BY <1>2 DEF Cells

LEMMA EncryptedCells ==
  ASSUME NEW bytes, IsSequence(bytes), \A i \in 1 .. Len(bytes) : bytes[i] \in Bytes,
         NEW at \in Nat
  PROVE  Cells(Encrypt(bytes, at))
  <1>1. Len(bytes) \in Nat
    BY SequenceDomain
  <1>2. /\ Len(Encrypt(bytes, at)) = Len(bytes)
        /\ \A i \in 1 .. Len(bytes) :
              Encrypt(bytes, at)[i] = [kind |-> "data", byte |-> bytes[i], at |-> at + i - 1]
    BY Encrypted DEF DataCell
  <1>3. \A i \in 1 .. Len(bytes) : at + i - 1 \in Nat
    BY <1>1
  <1>4. \A i \in 1 .. Len(bytes) :
           /\ Encrypt(bytes, at)[i].kind = "data"
           /\ Encrypt(bytes, at)[i].byte \in Bytes
           /\ Encrypt(bytes, at)[i].at \in Nat
    <2> TAKE i \in 1 .. Len(bytes)
    <2>1. PICK cell : cell = Encrypt(bytes, at)[i]
      OBVIOUS
    <2>2. cell = [kind |-> "data", byte |-> bytes[i], at |-> at + i - 1]
      BY <1>2, <2>1
    <2>3. cell.kind = "data" /\ cell.byte \in Bytes /\ cell.at \in Nat
      BY <1>3, <2>2
    <2> QED
      BY <2>1, <2>3
  <1> QED
    BY <1>2, <1>4 DEF Cells

\* encrypt_write, called with the bytes that come next.
LEMMA EncryptWriteKeeps ==
  ASSUME CellsInv, writer = "open", NEW bytes, IsSequence(bytes),
         \A i \in 1 .. Len(bytes) : bytes[i] \in Bytes,
         \A i \in 1 .. Len(bytes) : bytes[i] = Written + i,
         EncryptWrite(bytes)
  PROVE  /\ Cells(file)' /\ Cells(mac)' /\ IsSequence(file') /\ IsSequence(mac')
         /\ enc' \in Nat /\ failures' \in 0 .. MaxFailures /\ finalized' = FALSE
         /\ \A i \in 1 .. Len(file') : file'[i].kind = "data" => file'[i].at < enc'
         /\ KeystreamOnce'
         /\ Unfinished(file)' /\ Unfinished(source)
         /\ failures' = 0 =>
               /\ failures' = failures
               /\ Len(file') = IVSize + (Written + Len(bytes))
               /\ \A i \in 1 .. Written + Len(bytes) : file'[IVSize + i] = DataCell(i, i - 1)
               /\ mac' = FirstCells(Written + Len(bytes))
               /\ enc' = Written + Len(bytes)
  <1>1. /\ ~finalized /\ ~finalized'
        /\ enc' = enc + Len(bytes)
        /\ failures' \in 0 .. MaxFailures
        /\ failures' = 0 => failures = 0
        /\ \/ /\ failures' = failures
              /\ Extended(Encrypt(bytes, enc), Len(bytes))
              /\ mac' = mac \o Encrypt(bytes, enc)
           \/ /\ failures' # failures /\ failures' # 0
              /\ \E k \in 0 .. Len(bytes) : Extended(Encrypt(bytes, enc), k)
              /\ mac' = mac
    BY EncryptWriteEffect
  <1>2. /\ enc \in Nat /\ IsSequence(file) /\ IsSequence(mac) /\ Cells(mac) /\ Len(bytes) \in Nat
        /\ Len(file) \in Nat
    BY SequenceDomain DEF CellsInv, Sequences, TypeOK
  <1>3. PICK k \in 0 .. Len(bytes) :
           /\ Extended(Encrypt(bytes, enc), k)
           /\ failures' = failures => k = Len(bytes)
    <2>1. CASE failures' = failures
      <3>1. Len(bytes) \in 0 .. Len(bytes)
        BY <1>2
      <3> QED
        BY <1>1, <2>1, <3>1
    <2>2. CASE failures' # failures
      BY <1>1, <2>2
    <2> QED
      BY <2>1, <2>2
  <1>4. /\ Cells(file)'
        /\ \A i \in 1 .. Len(file') : file'[i].kind = "data" => file'[i].at < enc + Len(bytes)
        /\ KeystreamOnce'
        /\ Unfinished(file) => Unfinished(file)'
    BY <1>3, NewCells
  <1>5. Unfinished(file) /\ Unfinished(source)
    BY <1>1 DEF CellsInv
  <1>6. IsSequence(mac') /\ Cells(mac)'
    <2>1. IsSequence(Encrypt(bytes, enc)) /\ Cells(Encrypt(bytes, enc))
      BY <1>2, Encrypted, EncryptedCells
    <2>2. IsSequence(mac \o Encrypt(bytes, enc)) /\ Cells(mac \o Encrypt(bytes, enc))
      BY <1>2, <2>1, Concatenated, CellsConcatenated
    <2>3. mac' = mac \/ mac' = mac \o Encrypt(bytes, enc)
      BY <1>1
    <2>4. ASSUME NEW m, IsSequence(m), Cells(m), mac' = m PROVE IsSequence(mac') /\ Cells(mac)'
      BY <2>4 DEF Cells, Bytes
    <2> QED
      BY <1>2, <2>2, <2>3, <2>4
  <1>7. IsSequence(file')
    BY <1>3 DEF Extended
  <1>8. ASSUME failures' = 0
        PROVE  /\ failures' = failures
               /\ Len(file') = IVSize + (Written + Len(bytes))
               /\ \A i \in 1 .. Written + Len(bytes) : file'[IVSize + i] = DataCell(i, i - 1)
               /\ mac' = FirstCells(Written + Len(bytes))
               /\ enc' = Written + Len(bytes)
    <2>1. failures = 0 /\ failures' = failures /\ k = Len(bytes)
      BY <1>1, <1>3, <1>8
    <2>2. /\ Len(file) = IVSize + Written
          /\ \A i \in 1 .. Written : file[IVSize + i] = DataCell(i, i - 1)
          /\ mac = FirstCells(Written) /\ enc = Written
      <3>1. Written \in Nat
        BY SequenceDomain DEF CellsInv, Sequences, TypeOK, WriterSound, Written
      <3>2. IVSize + Written + 0 = IVSize + Written
        BY <3>1, IVAssumption
      <3>3. Len(file) = IVSize + Written + (IF finalized THEN MacSize ELSE 0)
        BY <2>1 DEF CellsInv, WrittenWhole
      <3> QED
        BY <1>1, <2>1, <3>2, <3>3 DEF CellsInv, WrittenWhole
    <2>3. mac' = FirstCells(Written + Len(bytes)) /\ enc' = Written + Len(bytes)
      <3>1. mac' = mac \o Encrypt(bytes, enc)
        BY <1>1, <2>1
      <3>2. Written \in Nat
        BY <1>2, <2>2
      <3> QED
        BY <1>1, <2>2, <3>1, <3>2, DataGoesOn
    <2>4. Written \in Nat /\ IVSize \in Nat
      BY <1>2, <2>2, IVAssumption
    <2>5. Len(file') = IVSize + (Written + Len(bytes))
      BY <1>2, <1>3, <2>1, <2>2, <2>4 DEF Extended
    <2>6. \A i \in 1 .. Written + Len(bytes) : file'[IVSize + i] = DataCell(i, i - 1)
      <3> TAKE i \in 1 .. Written + Len(bytes)
      <3>1. CASE i <= Written
        <4>1. i \in 1 .. Written /\ IVSize + i \in 1 .. Len(file)
          BY <1>2, <2>2, <2>4, <3>1
        <4> QED
          BY <1>3, <2>2, <4>1 DEF Extended
      <3>2. CASE ~(i <= Written)
        <4>1. /\ i - Written \in 1 .. Len(bytes)
              /\ Len(file) + (i - Written) = IVSize + i
              /\ Written + (i - Written) = i
              /\ Written + (i - Written) - 1 = i - 1
          BY <1>2, <2>2, <2>4, <3>2
        <4>2. file'[IVSize + i] = Encrypt(bytes, enc)[i - Written]
          BY <1>3, <2>1, <4>1 DEF Extended
        <4>3. Encrypt(bytes, enc)[i - Written] = DataCell(bytes[i - Written], Written + (i - Written) - 1)
          BY <1>2, <2>2, <4>1, Encrypted
        <4>4. bytes[i - Written] = Written + (i - Written)
          BY <4>1
        <4> QED
          BY <4>1, <4>2, <4>3, <4>4
      <3> QED
        BY <3>1, <3>2
    <2> QED
      BY <2>1, <2>3, <2>5, <2>6
  <1>9. enc' \in Nat /\ enc' = enc + Len(bytes)
    BY <1>1, <1>2
  <1>10. finalized' = FALSE
    BY DEF EncryptWrite, CellsInv, TypeOK
  <1> QED
    BY <1>1, <1>4, <1>5, <1>6, <1>7, <1>8, <1>9, <1>10

-----------------------------------------------------------------------------
(* finalize keeps it too.                                                  *)

LEMMA NewMacCells ==
  ASSUME CellsInv, NEW k \in 0 .. MacSize, Extended(MacOver(mac), k),
         writer \in {"open", "dropping"}
  PROVE  /\ Cells(file)'
         /\ \A i \in 1 .. Len(file') : file'[i].kind = "data" => file'[i].at < enc
         /\ KeystreamOnce'
         /\ Unfinished(file) /\ k < MacSize => Unfinished(file)'
  <1>1. IsSequence(file) /\ Cells(file) /\ Ahead /\ KeystreamOnce
    BY DEF CellsInv, Sequences, TypeOK
  <1>2. MacSize \in Nat /\ k \in Nat /\ k <= MacSize /\ Len(file) \in Nat
    BY <1>1, SequenceDomain, MacAssumption
  <1>3. \A i \in 1 .. k : MacOver(mac)[i].kind = "mac" /\ MacOver(mac)[i].byte = i
    <2> TAKE i \in 1 .. k
    <2>1. PICK cell : cell = MacOver(mac)[i]
      OBVIOUS
    <2>2. i \in 1 .. MacSize
      BY <1>2
    <2>3. cell = [kind |-> "mac", byte |-> i, over |-> mac]
      BY <2>1, <2>2, MacCells
    <2>4. cell.kind = "mac" /\ cell.byte = i
      BY <2>3
    <2> QED
      BY <2>1, <2>4
  <1>4. \A i \in 1 .. Len(file') :
           \/ i \in 1 .. Len(file) /\ file'[i] = file[i]
           \/ /\ i - Len(file) \in 1 .. k
              /\ file'[i].kind = "mac" /\ file'[i].byte = i - Len(file)
    <2> TAKE i \in 1 .. Len(file')
    <2>1. \/ i \in 1 .. Len(file) /\ file'[i] = file[i]
          \/ i - Len(file) \in 1 .. k /\ file'[i] = MacOver(mac)[i - Len(file)]
      BY <1>1, <1>2, OldOrNew
    <2> QED
      BY <1>3, <2>1
  <1>5. Cells(file)'
    <2> SUFFICES ASSUME NEW i \in 1 .. Len(file')
                 PROVE  \/ file'[i].kind = "iv" /\ file'[i].byte \in 1 .. IVSize
                        \/ file'[i].kind = "data" /\ file'[i].byte \in Bytes /\ file'[i].at \in Nat
                        \/ file'[i].kind = "mac" /\ file'[i].byte \in 1 .. MacSize
      BY DEF Cells, Bytes
    <2>1. CASE i \in 1 .. Len(file) /\ file'[i] = file[i]
      BY <1>1, <2>1 DEF Cells
    <2>2. CASE /\ i - Len(file) \in 1 .. k
               /\ file'[i].kind = "mac" /\ file'[i].byte = i - Len(file)
      <3>1. i - Len(file) \in 1 .. MacSize
        BY <1>2, <2>2
      <3> QED
        BY <2>2, <3>1
    <2> QED
      BY <1>4, <2>1, <2>2
  <1>6. \A i \in 1 .. Len(file') : file'[i].kind = "data" =>
           i \in 1 .. Len(file) /\ file'[i] = file[i]
    BY <1>4
  <1>7. \A i \in 1 .. Len(file') : file'[i].kind = "data" => file'[i].at < enc
    BY <1>1, <1>6 DEF Ahead
  <1>8. KeystreamOnce'
    BY <1>1, <1>6 DEF KeystreamOnce
  <1>9. ASSUME Unfinished(file), k < MacSize PROVE Unfinished(file)'
    <2> SUFFICES ASSUME NEW i \in 1 .. Len(file'), file'[i].kind = "mac"
                 PROVE  file'[i].byte # MacSize
      BY DEF Unfinished
    <2>1. CASE i \in 1 .. Len(file) /\ file'[i] = file[i]
      BY <1>9, <2>1 DEF Unfinished
    <2>2. CASE i - Len(file) \in 1 .. k /\ file'[i].byte = i - Len(file)
      <3>1. i - Len(file) # MacSize
        BY <1>2, <1>9, <2>2
      <3> QED
        BY <2>2, <3>1
    <2> QED
      BY <1>4, <2>1, <2>2
  <1> QED
    BY <1>5, <1>7, <1>8, <1>9

LEMMA FinalizeKeeps ==
  ASSUME CellsInv, writer \in {"open", "dropping"}, buffer = <<>>, Finalize
  PROVE  /\ Cells(file)' /\ Cells(mac)' /\ IsSequence(file') /\ IsSequence(mac')
         /\ enc' = enc /\ failures' \in 0 .. MaxFailures /\ finalized' \in BOOLEAN
         /\ \A i \in 1 .. Len(file') : file'[i].kind = "data" => file'[i].at < enc
         /\ KeystreamOnce'
         /\ ~finalized' => Unfinished(file)'
         /\ Unfinished(source)
         /\ failures' = 0 =>
               /\ failures = 0 /\ finalized'
               /\ Len(file') = IVSize + Written + MacSize
               /\ \A i \in 1 .. Written : file'[IVSize + i] = DataCell(i, i - 1)
               /\ \A i \in 1 .. MacSize :
                     file'[IVSize + Written + i] = MacOver(FirstCells(Written))[i]
  <1>1. /\ IsSequence(file) /\ failures \in 0 .. MaxFailures /\ finalized \in BOOLEAN
        /\ Len(file) \in Nat
    BY SequenceDomain DEF CellsInv, Sequences, TypeOK
  <1>2. ~finalized /\ mac' = <<>> /\ enc' = enc
    BY DEF Finalize
  <1>3. IsSequence(MacOver(mac)) /\ Len(MacOver(mac)) = MacSize /\ MacSize \in Nat
    BY MacCells, MacAssumption
  <1>4. PICK k \in 0 .. MacSize :
           /\ Extended(MacOver(mac), k)
           /\ failures' \in 0 .. MaxFailures /\ finalized' \in BOOLEAN
           /\ k < MacSize \/ finalized'
           /\ failures' = 0 => k = MacSize /\ failures = 0 /\ finalized'
    <2>1. CASE WriteAll(MacOver(mac)) /\ finalized' = TRUE
      <3>1. failures' = failures /\ Extended(MacOver(mac), MacSize)
        BY <1>1, <1>3, <2>1, WrittenAll
      <3>2. MacSize \in 0 .. MacSize
        BY <1>3
      <3> QED
        BY <1>1, <2>1, <3>1, <3>2
    <2>2. CASE WriteFails(MacOver(mac)) /\ UNCHANGED finalized
      <3>1. /\ failures' \in 1 .. MaxFailures
            /\ \E k \in 0 .. Len(MacOver(mac)) - 1 : Extended(MacOver(mac), k)
        BY <1>1, <1>3, <2>2, WrittenInPart
      <3>2. failures' \in 0 .. MaxFailures /\ failures' # 0
        BY <3>1, BoundsAssumption
      <3>3. PICK k \in 0 .. MacSize - 1 : Extended(MacOver(mac), k)
        BY <1>3, <3>1
      <3>4. k \in 0 .. MacSize /\ k < MacSize
        BY <1>3
      <3> QED
        BY <1>1, <2>2, <3>2, <3>3, <3>4
    <2> QED
      BY <2>1, <2>2 DEF Finalize
  <1>5. /\ Cells(file)'
        /\ \A i \in 1 .. Len(file') : file'[i].kind = "data" => file'[i].at < enc
        /\ KeystreamOnce'
        /\ Unfinished(file) /\ k < MacSize => Unfinished(file)'
    BY <1>4, NewMacCells
  <1>6. Unfinished(file) /\ Unfinished(source)
    BY <1>2 DEF CellsInv
  <1>7. IsSequence(file')
    BY <1>4 DEF Extended
  <1>8. IsSequence(mac') /\ Cells(mac)'
    BY <1>2, EmptyIsSequence DEF Cells
  <1>9. ASSUME failures' = 0
        PROVE  /\ failures = 0 /\ finalized'
               /\ Len(file') = IVSize + Written + MacSize
               /\ \A i \in 1 .. Written : file'[IVSize + i] = DataCell(i, i - 1)
               /\ \A i \in 1 .. MacSize :
                     file'[IVSize + Written + i] = MacOver(FirstCells(Written))[i]
    <2>1. k = MacSize /\ failures = 0 /\ finalized'
      BY <1>4, <1>9
    <2>2. Written \in Nat /\ IVSize \in Nat
      BY SequenceDomain, IVAssumption DEF CellsInv, Sequences, TypeOK, WriterSound, Written
    <2>3. /\ Len(file) = IVSize + Written
          /\ \A i \in 1 .. Written : file[IVSize + i] = DataCell(i, i - 1)
          /\ mac = FirstCells(Written)
      <3>1. Len(file) = IVSize + Written + (IF finalized THEN MacSize ELSE 0)
        BY <2>1 DEF CellsInv, WrittenWhole
      <3>2. IVSize + Written + 0 = IVSize + Written
        BY <2>2
      <3> QED
        BY <1>2, <2>1, <3>1, <3>2 DEF CellsInv, WrittenWhole
    <2>4. Len(file') = IVSize + Written + MacSize
      BY <1>4, <2>1, <2>3 DEF Extended
    <2>5. \A i \in 1 .. Written : file'[IVSize + i] = DataCell(i, i - 1)
      <3> TAKE i \in 1 .. Written
      <3>1. IVSize + i \in 1 .. Len(file)
        BY <1>1, <2>2, <2>3
      <3> QED
        BY <1>4, <2>3, <3>1 DEF Extended
    <2>6. \A i \in 1 .. MacSize :
             file'[IVSize + Written + i] = MacOver(FirstCells(Written))[i]
      BY <1>4, <2>1, <2>3 DEF Extended
    <2> QED
      BY <2>1, <2>4, <2>5, <2>6
  <1> QED
    BY <1>2, <1>4, <1>5, <1>6, <1>7, <1>8, <1>9

-----------------------------------------------------------------------------
(* The invariant in two parts, which share only the file that is read.     *)

WriterPart ==
    /\ Cells(file) /\ Cells(mac)
    /\ IsSequence(file) /\ IsSequence(mac) /\ IsSequence(buffer)
    /\ writer \in {"none", "failed", "open", "dropping", "closed", "panic", "died"}
    /\ sent \in 0 .. MaxBytes /\ Len(buffer) \in 0 .. BufferSize
    /\ enc \in Nat /\ finalized \in BOOLEAN /\ failures \in 0 .. MaxFailures
    /\ torn \in BOOLEAN
    /\ WriterSound /\ Ahead /\ KeystreamOnce /\ WrittenWhole
    /\ ~finalized => Unfinished(file)

ReaderPart ==
    /\ Cells(source) /\ Cells(macRead)
    /\ IsSequence(source) /\ IsSequence(macRead) /\ IsSequence(out)
    /\ reader \in {"none", "verifying", "reading", "refused", "end"}
    /\ reader \in {"verifying", "reading"} => position \in IVSize .. MacStart
    /\ dec \in Nat
    /\ \A i \in 1 .. Len(out) : out[i] \in Bytes \cup {Garbage}
    /\ ReaderSound

LEMMA Parts == CellsInv => WriterPart /\ ReaderPart
  BY DEF CellsInv, TypeOK, Sequences, WriterPart, ReaderPart

LEMMA PartsTogether ==
  (WriterPart /\ ReaderPart /\ (Unfinished(source) \/ (finalized /\ source = file)))'
     => CellsInv'
  BY DEF CellsInv, TypeOK, Sequences, WriterPart, ReaderPart

LEMMA ReaderKept == ASSUME ReaderPart, UNCHANGED reading PROVE ReaderPart'
  <1>1. /\ reader' = reader /\ source' = source /\ position' = position /\ dec' = dec
        /\ macRead' = macRead /\ out' = out
    BY DEF reading
  <1>2. Cells(source)' /\ Cells(macRead)'
    BY <1>1 DEF ReaderPart, Cells, Bytes
  <1>3. IsSequence(source') /\ IsSequence(macRead') /\ IsSequence(out')
    BY <1>1 DEF ReaderPart
  <1>4. MacStart' = MacStart /\ LongEnough(source)' = LongEnough(source)
    BY <1>1 DEF MacStart, LongEnough
  <1>5. Authentic(source)' = Authentic(source)
    BY <1>1 DEF Authentic, MacOver
  <1>6. \A i \in 1 .. Len(out') : out'[i] \in Bytes \cup {Garbage}
    BY <1>1 DEF ReaderPart
  <1>7. ReaderSound'
    BY <1>1, <1>4, <1>5 DEF ReaderPart, ReaderSound, DataCell, Garbage
  <1> QED
    BY <1>1, <1>2, <1>3, <1>4, <1>6, <1>7 DEF ReaderPart, Bytes, Garbage

LEMMA WriterKept == ASSUME WriterPart, UNCHANGED writing PROVE WriterPart'
  <1>1. /\ file' = file /\ writer' = writer /\ sent' = sent /\ buffer' = buffer /\ enc' = enc
        /\ mac' = mac /\ finalized' = finalized /\ failures' = failures /\ torn' = torn
    BY DEF writing
  <1>2. Cells(file)' /\ Cells(mac)'
    BY <1>1 DEF WriterPart, Cells, Bytes
  <1>3. IsSequence(file') /\ IsSequence(mac') /\ IsSequence(buffer')
    BY <1>1 DEF WriterPart
  <1>4. WriterSound' /\ Ahead' /\ KeystreamOnce'
    BY <1>1 DEF WriterPart, WriterSound, Ahead, KeystreamOnce
  <1>5. (~finalized => Unfinished(file))'
    BY <1>1 DEF WriterPart, Unfinished
  <1>6. WrittenWhole'
    BY <1>1 DEF WriterPart, WrittenWhole, Written, FirstCells, MacOver, DataCell
  <1> QED
    BY <1>1, <1>2, <1>3, <1>4, <1>5, <1>6 DEF WriterPart

LEMMA SentBytes == sent \in Nat /\ MaxBytes \in Nat => \A n \in Nat :
                      sent + n <= MaxBytes => \A i \in 1 .. n : sent + i \in Bytes
  BY DEF Bytes

\* A writer action leaves a file that is being read unfinished, or what it was.
LEMMA WriterMoves ==
  ASSUME CellsInv, ~finalized, UNCHANGED reading, WriterPart'
  PROVE  CellsInv'
  <1>1. ReaderPart'
    BY Parts, ReaderKept
  <1>2. Unfinished(source)'
    BY DEF CellsInv, reading, Unfinished
  <1> QED
    BY <1>1, <1>2, PartsTogether

-----------------------------------------------------------------------------
(* The actions of the writer.                                              *)

\* What is left for an action that encrypts: the buffer, and the bytes passed on.
LEMMA AfterEncryptWrite ==
  ASSUME CellsInv, writer = "open", NEW bytes, IsSequence(bytes),
         \A i \in 1 .. Len(bytes) : bytes[i] \in Bytes,
         \A i \in 1 .. Len(bytes) : bytes[i] = Written + i,
         EncryptWrite(bytes),
         writer' \in {"open", "dropping"},
         writer' = "dropping" => buffer' = <<>>,
         sent' \in 0 .. MaxBytes, IsSequence(buffer'),
         Len(buffer') \in 0 .. BufferSize, Len(buffer') <= sent',
         \A i \in 1 .. Len(buffer') : buffer'[i] = sent' - Len(buffer') + i,
         failures' = failures => sent' - Len(buffer') = Written + Len(bytes)
  PROVE  WriterPart'
  <1>1. /\ Cells(file)' /\ Cells(mac)' /\ IsSequence(file') /\ IsSequence(mac')
        /\ enc' \in Nat /\ failures' \in 0 .. MaxFailures /\ finalized' = FALSE
        /\ \A i \in 1 .. Len(file') : file'[i].kind = "data" => file'[i].at < enc'
        /\ KeystreamOnce'
        /\ Unfinished(file)'
        /\ failures' = 0 =>
              /\ failures' = failures
              /\ Len(file') = IVSize + (Written + Len(bytes))
              /\ \A i \in 1 .. Written + Len(bytes) : file'[IVSize + i] = DataCell(i, i - 1)
              /\ mac' = FirstCells(Written + Len(bytes))
              /\ enc' = Written + Len(bytes)
    BY EncryptWriteKeeps
  <1>2. WriterSound'
    BY <1>1 DEF WriterSound
  <1>3. Ahead'
    BY <1>1 DEF Ahead
  <1>4. WrittenWhole'
    <2> SUFFICES ASSUME failures' = 0
                 PROVE  /\ Len(file') = IVSize + Written' + 0
                        /\ \A i \in 1 .. Written' : file'[IVSize + i] = DataCell(i, i - 1)
                        /\ mac' = FirstCells(Written') /\ enc' = Written'
      BY <1>1 DEF WrittenWhole, FirstCells, DataCell
    <2>1. Written' = Written + Len(bytes)
      BY <1>1 DEF Written
    <2>2. Written' \in Nat /\ IVSize \in Nat
      BY <1>1, <2>1, IVAssumption
    <2>3. IVSize + Written' + 0 = IVSize + (Written + Len(bytes))
      BY <2>1, <2>2
    <2> QED
      BY <1>1, <2>1, <2>3
  <1>5. torn' \in BOOLEAN
    BY Parts DEF WriterPart, EncryptWrite
  <1> QED
    BY <1>1, <1>2, <1>3, <1>4, <1>5 DEF WriterPart

LEMMA AfterFinalize ==
  ASSUME CellsInv, writer \in {"open", "dropping"}, buffer = <<>>, Finalize,
         writer' \in {"dropping", "closed", "panic"}, UNCHANGED <<sent, buffer>>
  PROVE  WriterPart'
  <1>1. /\ Cells(file)' /\ Cells(mac)' /\ IsSequence(file') /\ IsSequence(mac')
        /\ enc' = enc /\ failures' \in 0 .. MaxFailures /\ finalized' \in BOOLEAN
        /\ \A i \in 1 .. Len(file') : file'[i].kind = "data" => file'[i].at < enc
        /\ KeystreamOnce'
        /\ ~finalized' => Unfinished(file)'
        /\ failures' = 0 =>
              /\ failures = 0 /\ finalized'
              /\ Len(file') = IVSize + Written + MacSize
              /\ \A i \in 1 .. Written : file'[IVSize + i] = DataCell(i, i - 1)
              /\ \A i \in 1 .. MacSize :
                    file'[IVSize + Written + i] = MacOver(FirstCells(Written))[i]
    BY FinalizeKeeps
  <1>2. WriterPart
    BY Parts
  <1>3. Written' = Written
    BY DEF Written
  <1>4. WriterSound'
    BY <1>1, <1>2 DEF WriterPart, WriterSound
  <1>5. Ahead'
    BY <1>1 DEF Ahead
  <1>6. WrittenWhole'
    BY <1>1, <1>3 DEF WrittenWhole, FirstCells, MacOver, DataCell
  <1>7. IsSequence(buffer')
    BY <1>2 DEF WriterPart
  <1>8. torn' \in BOOLEAN
    BY <1>2 DEF WriterPart, Finalize
  <1> QED
    BY <1>1, <1>2, <1>4, <1>5, <1>6, <1>7, <1>8 DEF WriterPart

LEMMA OpenWriteKeeps == ASSUME CellsInv, OpenWrite PROVE CellsInv'
  <1>1. /\ WriterPart /\ writer = "none" /\ file = <<>> /\ sent = 0 /\ enc = 0 /\ mac = <<>>
        /\ ~finalized /\ buffer = <<>>
    BY Parts DEF OpenWrite, WriterPart, WriterSound
  <1>2. /\ sent' = sent /\ buffer' = buffer /\ enc' = enc /\ mac' = mac /\ finalized' = finalized
        /\ torn' = torn /\ UNCHANGED reading
    BY DEF OpenWrite
  <1>3. IsSequence(IV) /\ Len(IV) = IVSize /\ IVSize \in Nat /\ Len(file) = 0 /\ IsSequence(file)
    BY <1>1, IVCells, IVAssumption, EmptyIsSequence
  <1>4. PICK k \in 0 .. IVSize :
           /\ Extended(IV, k)
           /\ failures' \in 0 .. MaxFailures
           /\ writer' \in {"open", "failed"}
           /\ failures' = 0 => k = IVSize /\ failures = 0
    <2>1. CASE WriteAll(IV) /\ writer' = "open"
      <3>1. failures' = failures /\ Extended(IV, IVSize)
        BY <1>3, <2>1, WrittenAll
      <3>2. IVSize \in 0 .. IVSize
        BY <1>3
      <3> QED
        BY <1>1, <2>1, <3>1, <3>2 DEF WriterPart
    <2>2. CASE WriteFails(IV) /\ writer' = "failed"
      <3>1. /\ failures' \in 1 .. MaxFailures
            /\ \E k \in 0 .. Len(IV) - 1 : Extended(IV, k)
        BY <1>1, <1>3, <2>2, WrittenInPart DEF WriterPart
      <3>2. failures' \in 0 .. MaxFailures /\ failures' # 0
        BY <3>1, BoundsAssumption
      <3>3. PICK k \in 0 .. IVSize - 1 : Extended(IV, k)
        BY <1>3, <3>1
      <3>4. k \in 0 .. IVSize
        BY <1>3
      <3> QED
        BY <2>2, <3>2, <3>3, <3>4
    <2> QED
      BY <2>1, <2>2 DEF OpenWrite
  <1>5. IsSequence(file') /\ Len(file') = k /\ k \in Nat /\ k <= IVSize
    BY <1>3, <1>4 DEF Extended
  <1>6. \A i \in 1 .. Len(file') : file'[i].kind = "iv" /\ file'[i].byte \in 1 .. IVSize
    <2> TAKE i \in 1 .. Len(file')
    <2>1. i \in 1 .. IVSize /\ Len(file) + i = i
      BY <1>3, <1>5
    <2>2. file'[i] = IV[i]
      BY <1>4, <1>5, <2>1 DEF Extended
    <2>3. PICK cell : cell = file'[i]
      OBVIOUS
    <2>4. cell = [kind |-> "iv", byte |-> i]
      BY <2>1, <2>2, <2>3, IVCells
    <2>5. cell.kind = "iv" /\ cell.byte = i
      BY <2>4
    <2> QED
      BY <2>1, <2>3, <2>5
  <1>7. Cells(file)' /\ Unfinished(file)' /\ KeystreamOnce' /\ Ahead'
    <2>1. Cells(file)'
      BY <1>6 DEF Cells, Bytes
    <2>2. \A i \in 1 .. Len(file') : file'[i].kind # "mac" /\ file'[i].kind # "data"
      BY <1>6
    <2>3. Unfinished(file)'
      BY <2>2 DEF Unfinished
    <2>4. KeystreamOnce'
      BY <2>2 DEF KeystreamOnce
    <2>5. Ahead'
      BY <2>2 DEF Ahead
    <2> QED
      BY <2>1, <2>3, <2>4, <2>5
  <1>8. Cells(mac)' /\ IsSequence(mac') /\ IsSequence(buffer') /\ Len(buffer') = 0
    BY <1>1, <1>2, EmptyIsSequence DEF Cells
  <1>9. WriterSound'
    <2>1. \A i \in 1 .. 0 : FALSE
      OBVIOUS
    <2>2. Len(buffer') <= sent'
      BY <1>1, <1>2, <1>8
    <2>3. \A i \in 1 .. Len(buffer') : buffer'[i] = sent' - Len(buffer') + i
      BY <1>8, <2>1
    <2> QED
      BY <1>1, <1>2, <1>4, <2>2, <2>3 DEF WriterSound
  <1>10. WrittenWhole'
    <2>1. Written' = 0
      <3>1. sent' = 0 /\ Len(buffer') = 0
        BY <1>1, <1>2, <1>8
      <3> QED
        BY <3>1 DEF Written
    <2>2. \A i \in 1 .. 0 : FALSE
      OBVIOUS
    <2>3. IsSequence(FirstCells(0)) /\ Len(FirstCells(0)) = 0
      BY DataCells
    <2>4. FirstCells(0) = <<>>
      BY <2>2, <2>3, EmptyIsSequence, SameSequence
    <2>5. failures' = 0 => Len(file') = IVSize + 0 + 0
      BY <1>3, <1>4, <1>5
    <2>6. FirstCells(0)' = <<>>
      BY <2>4 DEF FirstCells, DataCell
    <2> QED
      BY <1>1, <1>2, <2>1, <2>2, <2>4, <2>5 DEF WrittenWhole, FirstCells, DataCell
  <1>11. WriterPart'
    <2>1. sent' \in 0 .. MaxBytes /\ Len(buffer') \in 0 .. BufferSize /\ enc' \in Nat
      BY <1>1, <1>2, <1>8, BoundsAssumption, BufferAssumption
    <2>2. finalized' \in BOOLEAN /\ torn' \in BOOLEAN
      BY <1>1, <1>2 DEF WriterPart
    <2> QED
      BY <1>4, <1>5, <1>7, <1>8, <1>9, <1>10, <2>1, <2>2 DEF WriterPart
  <1> QED
    BY <1>1, <1>2, <1>11, WriterMoves

LEMMA WriteKeeps == ASSUME CellsInv, NEW n \in 1 .. MaxBytes, Write(n) PROVE CellsInv'
  <1>1. WriterPart /\ writer = "open" /\ ~finalized /\ n \in Nat /\ TypeOK
    BY Parts, BoundsAssumption DEF Write, WriterPart, WriterSound, CellsInv
  <1>2. /\ Len(buffer) + n <= BufferSize /\ sent + n <= MaxBytes /\ sent' = sent + n
        /\ buffer' = buffer \o NextBytes(n)
        /\ file' = file /\ writer' = writer /\ enc' = enc /\ mac' = mac
        /\ finalized' = finalized /\ failures' = failures /\ torn' = torn /\ UNCHANGED reading
    BY DEF Write
  <1>3. /\ IsSequence(buffer) /\ Len(buffer) \in Nat /\ sent \in Nat /\ Len(buffer) <= sent
        /\ \A i \in 1 .. Len(buffer) : buffer[i] = sent - Len(buffer) + i
    BY <1>1, SequenceDomain DEF WriterPart, WriterSound
  <1>4. /\ IsSequence(buffer') /\ Len(buffer') = Len(buffer) + n
        /\ \A i \in 1 .. Len(buffer) : buffer'[i] = buffer[i]
        /\ \A i \in 1 .. n : buffer'[Len(buffer) + i] = sent + i
    <2>1. /\ IsSequence(NextBytes(n)) /\ Len(NextBytes(n)) = n
          /\ \A i \in 1 .. n : NextBytes(n)[i] = sent + i
      BY <1>1, BytesSent
    <2>2. PICK bytes : bytes = NextBytes(n)
      OBVIOUS
    <2>3. /\ IsSequence(buffer \o bytes) /\ Len(buffer \o bytes) = Len(buffer) + Len(bytes)
          /\ \A i \in 1 .. Len(buffer) : (buffer \o bytes)[i] = buffer[i]
          /\ \A i \in 1 .. Len(bytes) : (buffer \o bytes)[Len(buffer) + i] = bytes[i]
      BY <1>3, <2>1, <2>2, Concatenated
    <2>4. buffer' = buffer \o bytes
      BY <1>2, <2>2
    <2> QED
      BY <2>1, <2>2, <2>3, <2>4
  <1>5. Written' = Written
    BY <1>1, <1>2, <1>3, <1>4 DEF Written
  <1>6. \A i \in 1 .. Len(buffer') : buffer'[i] = sent' - Len(buffer') + i
    <2> TAKE i \in 1 .. Len(buffer')
    <2>1. CASE i <= Len(buffer)
      BY <1>1, <1>2, <1>3, <1>4, <2>1
    <2>2. CASE ~(i <= Len(buffer))
      <3>1. i - Len(buffer) \in 1 .. n /\ Len(buffer) + (i - Len(buffer)) = i
        BY <1>1, <1>3, <1>4, <2>2
      <3> QED
        BY <1>1, <1>2, <1>3, <1>4, <3>1
    <2> QED
      BY <2>1, <2>2
  <1>7. WriterSound'
    <2>1. Len(buffer') <= sent'
      BY <1>1, <1>2, <1>3, <1>4
    <2> QED
      BY <1>1, <1>2, <1>6, <2>1 DEF WriterSound
  <1>8. /\ sent' \in 0 .. MaxBytes /\ Len(buffer') \in 0 .. BufferSize
    BY <1>1, <1>2, <1>3, <1>4, BoundsAssumption, BufferAssumption
  <1>9. Ahead' /\ KeystreamOnce' /\ (~finalized => Unfinished(file))'
    BY <1>1, <1>2 DEF WriterPart, Ahead, KeystreamOnce, Unfinished
  <1>10. WrittenWhole'
    BY <1>1, <1>2, <1>5 DEF WriterPart, WrittenWhole, FirstCells, MacOver, DataCell
  <1>11. Cells(file)' /\ Cells(mac)'
    BY <1>1, <1>2 DEF WriterPart, Cells, Bytes
  <1>12. WriterPart'
    BY <1>1, <1>2, <1>4, <1>7, <1>8, <1>9, <1>10, <1>11 DEF WriterPart
  <1> QED
    BY <1>1, <1>2, <1>12, WriterMoves

LEMMA WriteThroughKeeps ==
  ASSUME CellsInv, NEW n \in 1 .. MaxBytes, WriteThrough(n) PROVE CellsInv'
  <1>1. WriterPart /\ writer = "open" /\ ~finalized /\ n \in Nat /\ TypeOK /\ sent \in Nat
    BY Parts, BoundsAssumption DEF WriteThrough, WriterPart, WriterSound, CellsInv
  <1>2. /\ buffer = <<>> /\ buffer' = buffer /\ writer' = writer /\ sent' = sent + n
        /\ sent + n <= MaxBytes /\ EncryptWrite(NextBytes(n)) /\ UNCHANGED reading
    BY DEF WriteThrough
  <1>3. /\ IsSequence(NextBytes(n)) /\ Len(NextBytes(n)) = n
        /\ \A i \in 1 .. n : NextBytes(n)[i] = sent + i
    BY <1>1, BytesSent
  <1>4. IsSequence(buffer') /\ Len(buffer') = 0 /\ Len(buffer) = 0
    BY <1>2, EmptyIsSequence
  <1>5. Written = sent
    BY <1>1, <1>4 DEF Written
  <1>6. \A i \in 1 .. Len(NextBytes(n)) : NextBytes(n)[i] \in Bytes
    BY <1>1, <1>2, <1>3, SentBytes, BoundsAssumption
  <1>7. /\ sent' \in 0 .. MaxBytes /\ Len(buffer') \in 0 .. BufferSize /\ Len(buffer') <= sent'
        /\ sent' - Len(buffer') = Written + n
    BY <1>1, <1>2, <1>4, <1>5, BufferAssumption, BoundsAssumption
  <1>8. \A i \in 1 .. Len(buffer') : buffer'[i] = sent' - Len(buffer') + i
    <2>1. \A i \in 1 .. 0 : FALSE
      OBVIOUS
    <2> QED
      BY <1>4, <2>1
  <1>9. \A i \in 1 .. Len(NextBytes(n)) : NextBytes(n)[i] = Written + i
    BY <1>3, <1>5
  <1>10. writer' \in {"open", "dropping"} /\ (writer' = "dropping" => buffer' = <<>>)
    BY <1>1, <1>2
  <1>11. WriterPart'
    BY <1>1, <1>2, <1>3, <1>4, <1>6, <1>7, <1>8, <1>9, <1>10, AfterEncryptWrite
  <1> QED
    BY <1>1, <1>2, <1>11, WriterMoves

\* flush_buf, of an open writer or of one that is dropped.
LEMMA BufferPassedOn ==
  ASSUME CellsInv, writer = "open", EncryptWrite(buffer), UNCHANGED sent,
         \/ writer' = "open" /\ buffer' = IF failures' = failures THEN <<>> ELSE buffer
         \/ writer' = "dropping" /\ buffer' = <<>>
  PROVE  WriterPart'
  <1>1. /\ WriterPart /\ IsSequence(buffer) /\ Len(buffer) \in Nat /\ sent \in Nat
        /\ Len(buffer) <= sent
        /\ \A i \in 1 .. Len(buffer) : buffer[i] = sent - Len(buffer) + i
    BY Parts, SequenceDomain DEF WriterPart, WriterSound
  <1>2. \A i \in 1 .. Len(buffer) : buffer[i] = Written + i
    BY <1>1 DEF Written
  <1>3. \A i \in 1 .. Len(buffer) : buffer[i] \in Bytes
    <2> TAKE i \in 1 .. Len(buffer)
    <2>1. sent - Len(buffer) + i \in 1 .. MaxBytes
      BY <1>1, BoundsAssumption DEF WriterPart
    <2> QED
      BY <1>1, <2>1 DEF Bytes
  <1>4. IsSequence(buffer') /\ (Len(buffer') = 0 \/ buffer' = buffer)
    BY <1>1, EmptyIsSequence
  <1>5. \A i \in 1 .. 0 : FALSE
    OBVIOUS
  <1>6. \A i \in 1 .. Len(buffer') : buffer'[i] = sent' - Len(buffer') + i
    BY <1>1, <1>4, <1>5
  <1>7. /\ sent' \in 0 .. MaxBytes /\ Len(buffer') \in 0 .. BufferSize /\ Len(buffer') <= sent'
    BY <1>1, <1>4, BufferAssumption DEF WriterPart
  <1>8. failures' = failures => sent' - Len(buffer') = Written + Len(buffer)
    <2> SUFFICES ASSUME failures' = failures PROVE sent' - Len(buffer') = Written + Len(buffer)
      OBVIOUS
    <2>1. Len(buffer') = 0
      BY EmptyIsSequence
    <2> QED
      BY <1>1, <2>1 DEF Written
  <1>9. writer' \in {"open", "dropping"} /\ (writer' = "dropping" => buffer' = <<>>)
    OBVIOUS
  <1> QED
    BY <1>1, <1>2, <1>3, <1>4, <1>6, <1>7, <1>8, <1>9, AfterEncryptWrite

LEMMA FlushBufferKeeps == ASSUME CellsInv, FlushBuffer PROVE CellsInv'
  <1>1. writer = "open" /\ ~finalized /\ UNCHANGED reading
    BY Parts DEF FlushBuffer, WriterPart, WriterSound
  <1>2. WriterPart'
    BY <1>1, BufferPassedOn DEF FlushBuffer
  <1> QED
    BY <1>1, <1>2, WriterMoves

LEMMA TerminateKeeps == ASSUME CellsInv, Terminate PROVE CellsInv'
  <1>1. ~finalized /\ UNCHANGED reading
    BY DEF Terminate, Finalize
  <1>2. WriterPart'
    BY AfterFinalize DEF Terminate
  <1> QED
    BY <1>1, <1>2, WriterMoves

\* A step that only ends the writer.
LEMMA WriterEnds ==
  ASSUME CellsInv, writer # "none", writer' \in {"dropping", "closed", "panic", "died"},
         writer' # "died" => buffer = <<>>, writer' = "dropping" => writer = "open",
         UNCHANGED <<file, sent, buffer, enc, mac, finalized, failures, torn>>
  PROVE  WriterPart'
  <1>1. WriterPart
    BY Parts
  <1>2. Cells(file)' /\ Cells(mac)'
    BY <1>1 DEF WriterPart, Cells, Bytes
  <1>3. WriterSound' /\ Ahead' /\ KeystreamOnce'
    BY <1>1 DEF WriterPart, WriterSound, Ahead, KeystreamOnce
  <1>4. (~finalized => Unfinished(file))'
    BY <1>1 DEF WriterPart, Unfinished
  <1>5. WrittenWhole'
    BY <1>1 DEF WriterPart, WrittenWhole, Written, FirstCells, MacOver, DataCell
  <1>6. IsSequence(file') /\ IsSequence(mac') /\ IsSequence(buffer')
    BY <1>1 DEF WriterPart
  <1> QED
    BY <1>1, <1>2, <1>3, <1>4, <1>5, <1>6 DEF WriterPart

\* A step of the writer that leaves the file as it is.
LEMMA FileLeft ==
  ASSUME CellsInv, UNCHANGED <<file, finalized, reading>>, WriterPart' PROVE CellsInv'
  <1>1. ReaderPart'
    BY Parts, ReaderKept
  <1>2. (Unfinished(source) \/ (finalized /\ source = file))'
    BY DEF CellsInv, reading, Unfinished
  <1> QED
    BY <1>1, <1>2, PartsTogether

LEMMA DropBufferKeeps == ASSUME CellsInv, DropBuffer PROVE CellsInv'
  <1>1. writer = "open" /\ ~finalized /\ UNCHANGED reading
    BY Parts DEF DropBuffer, WriterPart, WriterSound
  <1>2. WriterPart'
    <2>1. CASE buffer = <<>> /\ UNCHANGED <<file, enc, mac, finalized, failures, torn>>
      BY <1>1, <2>1, WriterEnds DEF DropBuffer
    <2>2. CASE buffer # <<>> /\ EncryptWrite(buffer)
      BY <1>1, <2>2, BufferPassedOn DEF DropBuffer
    <2> QED
      BY <2>1, <2>2 DEF DropBuffer
  <1> QED
    BY <1>1, <1>2, WriterMoves

LEMMA DropKeeps == ASSUME CellsInv, Drop PROVE CellsInv'
  <1>1. writer = "dropping" /\ buffer = <<>> /\ UNCHANGED <<sent, buffer, reading>>
    BY Parts DEF Drop, WriterPart, WriterSound
  <1>2. writer' \in {"closed", "panic"}
    BY DEF Drop
  <1>3. CASE finalized /\ UNCHANGED <<file, enc, mac, finalized, failures, torn>>
    <2>1. WriterPart'
      BY <1>1, <1>2, <1>3, WriterEnds
    <2> QED
      BY <1>1, <1>3, <2>1, FileLeft
  <1>4. CASE Finalize
    <2>1. WriterPart'
      BY <1>1, <1>2, <1>4, AfterFinalize
    <2> QED
      BY <1>1, <1>4, <2>1, WriterMoves DEF Finalize
  <1> QED
    BY <1>3, <1>4 DEF Drop

LEMMA DieKeeps == ASSUME CellsInv, Die PROVE CellsInv'
  <1>1. WriterPart'
    BY WriterEnds DEF Die
  <1> QED
    BY <1>1, FileLeft DEF Die

\* What atomic_write writes.
Whole(f, n) ==
    /\ IsSequence(f) /\ Len(f) = IVSize + n + MacSize
    /\ \A i \in 1 .. n : f[IVSize + i] = DataCell(i, i - 1)
    /\ \A i \in 1 .. MacSize : f[IVSize + n + i] = MacOver(FirstCells(n))[i]
    /\ \A i \in 1 .. Len(f) :
          \/ f[i].kind = "iv" /\ f[i].byte \in 1 .. IVSize
          \/ f[i].kind = "data" /\ f[i].byte \in Bytes /\ f[i].at = i - IVSize - 1
                /\ i \in IVSize + 1 .. IVSize + n
          \/ f[i].kind = "mac" /\ f[i].byte \in 1 .. MacSize

LEMMA WholeFile ==
  ASSUME NEW n \in 0 .. MaxBytes, NEW f, f = IV \o FirstCells(n) \o MacOver(FirstCells(n))
  PROVE  Whole(f, n)
  <1>1. n \in Nat /\ n <= MaxBytes /\ MaxBytes \in Nat /\ IVSize \in Nat /\ MacSize \in Nat
    BY BoundsAssumption, IVAssumption, MacAssumption
  <1>2. PICK data : data = FirstCells(n)
    OBVIOUS
  <1>3. PICK end : end = MacOver(data)
    OBVIOUS
  <1>4. /\ IsSequence(data) /\ Len(data) = n
        /\ \A i \in 1 .. n : data[i] = DataCell(i, i - 1)
    BY <1>1, <1>2, DataCells
  <1>5. /\ IsSequence(end) /\ Len(end) = MacSize
        /\ \A i \in 1 .. MacSize : end[i] = [kind |-> "mac", byte |-> i, over |-> data]
    BY <1>3, MacCells
  <1>6. PICK start : start = IV \o data
    OBVIOUS
  <1>7. /\ IsSequence(start) /\ Len(start) = IVSize + n
        /\ \A i \in 1 .. IVSize : start[i] = IV[i]
        /\ \A i \in 1 .. n : start[IVSize + i] = data[i]
    <2>1. PICK iv : iv = IV
      OBVIOUS
    <2>2. IsSequence(iv) /\ Len(iv) = IVSize
      BY <2>1, IVCells
    <2>3. /\ IsSequence(iv \o data) /\ Len(iv \o data) = Len(iv) + Len(data)
          /\ \A i \in 1 .. Len(iv) : (iv \o data)[i] = iv[i]
          /\ \A i \in 1 .. Len(data) : (iv \o data)[Len(iv) + i] = data[i]
      <3>1. IsSequence(iv) /\ IsSequence(data)
        BY <1>4, <2>2
      <3> QED
        BY <3>1, Concatenated
    <2>4. start = iv \o data
      BY <1>6, <2>1
    <2> QED
      BY <1>4, <2>1, <2>2, <2>3, <2>4
  <1>8. f = start \o end
    BY <1>2, <1>3, <1>6
  <1>9. /\ IsSequence(f) /\ Len(f) = IVSize + n + MacSize
        /\ \A i \in 1 .. IVSize + n : f[i] = start[i]
        /\ \A i \in 1 .. MacSize : f[IVSize + n + i] = end[i]
    <2>1. /\ IsSequence(start \o end) /\ Len(start \o end) = Len(start) + Len(end)
          /\ \A i \in 1 .. Len(start) : (start \o end)[i] = start[i]
          /\ \A i \in 1 .. Len(end) : (start \o end)[Len(start) + i] = end[i]
      <3>1. IsSequence(start) /\ IsSequence(end)
        BY <1>5, <1>7
      <3> QED
        BY <3>1, Concatenated
    <2> QED
      BY <1>5, <1>7, <1>8, <2>1
  <1>10. \A i \in 1 .. n : f[IVSize + i] = DataCell(i, i - 1)
    <2> TAKE i \in 1 .. n
    <2>1. IVSize + i \in 1 .. IVSize + n
      BY <1>1
    <2> QED
      BY <1>4, <1>7, <1>9, <2>1
  <1>11. \A i \in 1 .. MacSize : f[IVSize + n + i] = MacOver(FirstCells(n))[i]
    BY <1>2, <1>3, <1>9
  <1>12. ASSUME NEW i \in 1 .. Len(f)
         PROVE  \/ f[i].kind = "iv" /\ f[i].byte \in 1 .. IVSize
                \/ f[i].kind = "data" /\ f[i].byte \in Bytes /\ f[i].at = i - IVSize - 1
                      /\ i \in IVSize + 1 .. IVSize + n
                \/ f[i].kind = "mac" /\ f[i].byte \in 1 .. MacSize
    <2>1. PICK cell : cell = f[i]
      OBVIOUS
    <2>2. CASE i <= IVSize
      <3>1. i \in 1 .. IVSize /\ i \in 1 .. IVSize + n
        BY <1>1, <1>9, <2>2
      <3>2. cell = [kind |-> "iv", byte |-> i]
        BY <1>7, <1>9, <2>1, <3>1, IVCells
      <3>3. cell.kind = "iv" /\ cell.byte = i
        BY <3>2
      <3> QED
        BY <2>1, <3>1, <3>3
    <2>3. CASE IVSize < i /\ i <= IVSize + n
      <3>1. /\ i - IVSize \in 1 .. n /\ IVSize + (i - IVSize) = i
            /\ i - IVSize \in Bytes /\ i \in IVSize + 1 .. IVSize + n
        BY <1>1, <1>9, <2>3 DEF Bytes
      <3>2. cell = DataCell(i - IVSize, (i - IVSize) - 1)
        BY <1>10, <2>1, <3>1
      <3>3. cell = [kind |-> "data", byte |-> i - IVSize, at |-> i - IVSize - 1]
        BY <3>2 DEF DataCell
      <3>4. cell.kind = "data" /\ cell.byte = i - IVSize /\ cell.at = i - IVSize - 1
        BY <3>3
      <3> QED
        BY <2>1, <3>1, <3>4
    <2>4. CASE IVSize + n < i
      <3>1. i - (IVSize + n) \in 1 .. MacSize /\ IVSize + n + (i - (IVSize + n)) = i
        BY <1>1, <1>9, <2>4
      <3>2. cell = [kind |-> "mac", byte |-> i - (IVSize + n), over |-> data]
        BY <1>5, <1>9, <2>1, <3>1
      <3>3. cell.kind = "mac" /\ cell.byte = i - (IVSize + n)
        BY <3>2
      <3> QED
        BY <2>1, <3>1, <3>3
    <2>5. i <= IVSize \/ (IVSize < i /\ i <= IVSize + n) \/ IVSize + n < i
      BY <1>1, <1>9
    <2> QED
      BY <2>2, <2>3, <2>4, <2>5
  <1> QED
    BY <1>9, <1>10, <1>11, <1>12 DEF Whole

LEMMA AtomicWriteKeeps ==
  ASSUME CellsInv, NEW n \in 0 .. MaxBytes, AtomicWrite(n) PROVE CellsInv'
  <1>1. /\ WriterPart /\ sent = 0 /\ enc = 0 /\ mac = <<>> /\ ~finalized /\ buffer = <<>>
        /\ TypeOK
    BY Parts DEF AtomicWrite, WriterPart, WriterSound, CellsInv
  <1>2. /\ writer' = "closed" /\ sent' = n /\ finalized' = TRUE /\ buffer' = buffer
        /\ enc' = enc /\ mac' = mac /\ failures' = failures /\ torn' = torn /\ UNCHANGED reading
    BY DEF AtomicWrite
  <1>3. n \in Nat /\ IVSize \in Nat
    BY BoundsAssumption, IVAssumption
  <1>4. Encrypt(NextBytes(n), 0) = FirstCells(n)
    <2>1. PICK bytes : bytes = NextBytes(n)
      OBVIOUS
    <2>2. IsSequence(bytes) /\ Len(bytes) = n /\ \A i \in 1 .. n : bytes[i] = i
      <3>1. \A i \in 1 .. n : sent + i = i
        BY <1>1, <1>3
      <3> QED
        BY <1>1, <1>3, <2>1, <3>1, BytesSent
    <2>3. PICK cells : cells = Encrypt(bytes, 0)
      OBVIOUS
    <2>4. /\ IsSequence(cells) /\ Len(cells) = n
          /\ \A i \in 1 .. n : cells[i] = DataCell(i, i - 1)
      <3>1. /\ IsSequence(cells) /\ Len(cells) = n
            /\ \A i \in 1 .. n : cells[i] = DataCell(bytes[i], 0 + i - 1)
        BY <2>2, <2>3, Encrypted
      <3>2. \A i \in 1 .. n : 0 + i - 1 = i - 1
        BY <1>3
      <3> QED
        BY <2>2, <3>1, <3>2
    <2>5. cells = FirstCells(n)
      BY <1>3, <2>4, DataCells, SameSequence
    <2> QED
      BY <2>1, <2>3, <2>5
  <1>5. /\ IsSequence(file') /\ Len(file') = IVSize + n + MacSize
        /\ \A i \in 1 .. n : file'[IVSize + i] = DataCell(i, i - 1)
        /\ \A i \in 1 .. MacSize : file'[IVSize + n + i] = MacOver(FirstCells(n))[i]
        /\ \A i \in 1 .. Len(file') :
              \/ file'[i].kind = "iv" /\ file'[i].byte \in 1 .. IVSize
              \/ file'[i].kind = "data" /\ file'[i].byte \in Bytes
                    /\ file'[i].at = i - IVSize - 1 /\ i \in IVSize + 1 .. IVSize + n
              \/ file'[i].kind = "mac" /\ file'[i].byte \in 1 .. MacSize
    <2>1. file' = IV \o FirstCells(n) \o MacOver(FirstCells(n))
      BY <1>4 DEF AtomicWrite
    <2>2. PICK f : f = file'
      OBVIOUS
    <2>3. f = IV \o FirstCells(n) \o MacOver(FirstCells(n))
      BY <2>1, <2>2
    <2>4. Whole(f, n)
      BY <2>3, WholeFile
    <2> QED
      BY <2>2, <2>4 DEF Whole
  <1>6. Cells(file)'
    <2>1. \A i \in IVSize + 1 .. IVSize + n : i - IVSize - 1 \in Nat
      BY <1>3
    <2> QED
      BY <1>5, <2>1 DEF Cells, Bytes
  <1>7. KeystreamOnce'
    <2>1. \A i, j \in IVSize + 1 .. IVSize + n : i # j => i - IVSize - 1 # j - IVSize - 1
      BY <1>3
    <2>2. \A i \in 1 .. Len(file') : file'[i].kind = "data" =>
             file'[i].at = i - IVSize - 1 /\ i \in IVSize + 1 .. IVSize + n
      BY <1>5
    <2> QED
      BY <2>1, <2>2 DEF KeystreamOnce
  <1>8. Len(buffer') = 0 /\ IsSequence(buffer') /\ IsSequence(mac') /\ Cells(mac)'
    <2>1. Cells(<<>>)
      BY EmptyIsSequence DEF Cells
    <2> QED
      BY <1>1, <1>2, <2>1, EmptyIsSequence DEF Cells, Bytes
  <1>9. WriterSound' /\ Ahead'
    <2>1. \A i \in 1 .. 0 : FALSE
      OBVIOUS
    <2>2. Len(buffer') <= sent'
      BY <1>2, <1>3, <1>8
    <2>3. buffer' = <<>>
      BY <1>1, <1>2
    <2>4. \A i \in 1 .. Len(buffer') : buffer'[i] = sent' - Len(buffer') + i
      BY <1>8, <2>1
    <2> QED
      BY <1>2, <2>2, <2>3, <2>4 DEF WriterSound, Ahead
  <1>10. WrittenWhole'
    <2>1. Written' = n
      BY <1>2, <1>3, <1>8 DEF Written
    <2> QED
      BY <1>2, <1>5, <2>1 DEF WrittenWhole, FirstCells, MacOver, DataCell
  <1>11. WriterPart'
    <2>1. sent' \in 0 .. MaxBytes /\ Len(buffer') \in 0 .. BufferSize /\ enc' \in Nat
      BY <1>1, <1>2, <1>8, BufferAssumption
    <2>2. failures' \in 0 .. MaxFailures /\ torn' \in BOOLEAN
      BY <1>1, <1>2 DEF WriterPart
    <2> QED
      BY <1>2, <1>5, <1>6, <1>7, <1>8, <1>9, <1>10, <2>1, <2>2 DEF WriterPart
  <1> QED
    BY <1>1, <1>2, <1>11, WriterMoves

-----------------------------------------------------------------------------
(* The actions of the reader.                                              *)

\* Two parts of a sequence that meet are one part.
LEMMA PartsMeet ==
  ASSUME NEW s, IsSequence(s), NEW m \in Nat \ {0}, NEW k \in Nat, NEW n \in Nat,
         m <= k + 1, k <= n, n <= Len(s)
  PROVE  SubSeq(s, m, k) \o SubSeq(s, k + 1, n) = SubSeq(s, m, n)
  <1>1. PICK left : left = SubSeq(s, m, k)
    OBVIOUS
  <1>2. PICK right : right = SubSeq(s, k + 1, n)
    OBVIOUS
  <1>3. PICK all : all = SubSeq(s, m, n)
    OBVIOUS
  <1>4. Len(s) \in Nat /\ k <= Len(s) /\ m <= n + 1 /\ k + 1 \in Nat \ {0} /\ k + 1 <= n + 1
    BY SequenceDomain
  <1>5. /\ IsSequence(left) /\ Len(left) = k - m + 1
        /\ \A i \in 1 .. k - m + 1 : left[i] = s[m + i - 1]
    BY <1>1, <1>4, Part
  <1>6. /\ IsSequence(right) /\ Len(right) = n - (k + 1) + 1
        /\ \A i \in 1 .. n - (k + 1) + 1 : right[i] = s[k + 1 + i - 1]
    BY <1>2, <1>4, Part
  <1>7. /\ IsSequence(all) /\ Len(all) = n - m + 1
        /\ \A i \in 1 .. n - m + 1 : all[i] = s[m + i - 1]
    BY <1>3, <1>4, Part
  <1>8. PICK both : both = left \o right
    OBVIOUS
  <1>9. /\ IsSequence(both) /\ Len(both) = Len(left) + Len(right)
        /\ \A i \in 1 .. Len(left) : both[i] = left[i]
        /\ \A i \in 1 .. Len(right) : both[Len(left) + i] = right[i]
    BY <1>5, <1>6, <1>8, Concatenated
  <1>10. Len(both) = Len(all)
    BY <1>5, <1>6, <1>7, <1>9
  <1>11. \A i \in 1 .. Len(both) : both[i] = all[i]
    <2> TAKE i \in 1 .. Len(both)
    <2>1. CASE i <= Len(left)
      <3>1. i \in 1 .. Len(left) /\ i \in 1 .. k - m + 1 /\ i \in 1 .. n - m + 1
        BY <1>4, <1>5, <1>7, <1>10, <2>1
      <3> QED
        BY <1>5, <1>7, <1>9, <3>1
    <2>2. CASE ~(i <= Len(left))
      <3>1. PICK j : j = i - Len(left)
        OBVIOUS
      <3>2. /\ j \in 1 .. Len(right) /\ Len(left) + j = i /\ j \in 1 .. n - (k + 1) + 1
            /\ k + 1 + j - 1 = m + i - 1 /\ i \in 1 .. n - m + 1
        BY <1>4, <1>5, <1>6, <1>7, <1>10, <2>2, <3>1
      <3> QED
        BY <1>6, <1>7, <1>9, <3>2
    <2> QED
      BY <2>1, <2>2
  <1>12. both = all
    BY <1>7, <1>9, <1>10, <1>11, SameSequence
  <1> QED
    BY <1>1, <1>2, <1>3, <1>8, <1>12

LEMMA PartCells ==
  ASSUME NEW s, IsSequence(s), Cells(s), NEW m \in Nat \ {0}, NEW n \in Nat,
         m <= n + 1, n <= Len(s)
  PROVE  Cells(SubSeq(s, m, n))
  <1>1. Len(s) \in Nat
    BY SequenceDomain
  <1>2. PICK part : part = SubSeq(s, m, n)
    OBVIOUS
  <1>3. Len(part) = n - m + 1 /\ \A i \in 1 .. n - m + 1 : part[i] = s[m + i - 1]
    BY <1>2, Part
  <1>4. \A i \in 1 .. n - m + 1 : m + i - 1 \in 1 .. Len(s)
    BY <1>1
  <1>5. Cells(part)
    BY <1>3, <1>4 DEF Cells
  <1> QED
    BY <1>2, <1>5

\* A reader action: the writer's part, and the file that is read, stay.
LEMMA ReaderMoves ==
  ASSUME CellsInv, UNCHANGED writing, ReaderPart',
         source' \in {source, file} \/ Len(source') = 0
  PROVE  CellsInv'
  <1>1. WriterPart'
    BY Parts, WriterKept
  <1>2. finalized' = finalized /\ file' = file
    BY DEF writing
  <1>3. \A i \in 1 .. 0 : FALSE
    OBVIOUS
  <1>4. Unfinished(source)' \/ (finalized /\ source = file)'
    <2>1. CASE source' = source
      BY <1>2, <2>1 DEF CellsInv, Unfinished
    <2>2. CASE source' = file
      <3>1. finalized \/ Unfinished(file)
        BY DEF CellsInv
      <3> QED
        BY <1>2, <2>2, <3>1 DEF Unfinished
    <2>3. CASE Len(source') = 0
      BY <1>3, <2>3 DEF Unfinished
    <2> QED
      BY <2>1, <2>2, <2>3
  <1> QED
    BY <1>1, <1>4, PartsTogether

LEMMA OpenReadKeeps == ASSUME CellsInv, OpenRead PROVE CellsInv'
  <1>1. /\ IsSequence(file) /\ Cells(file) /\ reader = "none"
        /\ dec = 0 /\ macRead = <<>> /\ out = <<>>
    BY Parts DEF OpenRead, WriterPart, ReaderPart, ReaderSound
  <1>2. /\ source' = file /\ position' = IVSize /\ dec' = dec /\ macRead' = macRead /\ out' = out
        /\ reader' = IF LongEnough(file) THEN "verifying" ELSE "refused"
    BY DEF OpenRead
  <1>3. Len(file) \in Nat /\ IVSize \in Nat /\ MacSize \in Nat /\ MacStart' = Len(file) - MacSize
    BY <1>1, <1>2, SequenceDomain, IVAssumption, MacAssumption DEF MacStart
  <1>4. LongEnough(file) => position' \in IVSize .. MacStart' /\ IVSize <= Len(file)
    BY <1>2, <1>3 DEF LongEnough
  <1>5. LongEnough(source)' = LongEnough(file)
    BY <1>2 DEF LongEnough
  <1>6. LongEnough(file) => macRead' = SubSeq(source', IVSize + 1, position')
    <2> SUFFICES ASSUME LongEnough(file) PROVE <<>> = SubSeq(file, IVSize + 1, IVSize)
      BY <1>1, <1>2
    <2>1. PICK part : part = SubSeq(file, IVSize + 1, IVSize)
      OBVIOUS
    <2>2. IsSequence(part) /\ Len(part) = IVSize - (IVSize + 1) + 1
      BY <1>1, <1>3, <1>4, <2>1, Part
    <2>3. Len(part) = 0
      BY <1>3, <2>2
    <2>4. \A i \in 1 .. 0 : FALSE
      OBVIOUS
    <2>5. part = <<>>
      BY <2>2, <2>3, <2>4, EmptyIsSequence, SameSequence
    <2> QED
      BY <2>1, <2>5
  <1>7. ReaderSound'
    BY <1>1, <1>2, <1>4, <1>5, <1>6 DEF ReaderSound
  <1>8. Cells(source)' /\ Cells(macRead)'
    <2>1. Cells(<<>>)
      BY EmptyIsSequence DEF Cells
    <2> QED
      BY <1>1, <1>2, <2>1 DEF Cells, Bytes
  <1>9. \A i \in 1 .. Len(out') : out'[i] \in Bytes \cup {Garbage}
    <2>1. Len(out') = 0 /\ \A i \in 1 .. 0 : FALSE
      BY <1>1, <1>2, EmptyIsSequence
    <2> QED
      BY <2>1
  <1>10. IsSequence(source') /\ IsSequence(macRead') /\ IsSequence(out') /\ dec' \in Nat
    BY <1>1, <1>2, EmptyIsSequence
  <1>11. ReaderPart'
    BY <1>2, <1>4, <1>7, <1>8, <1>9, <1>10 DEF ReaderPart, Bytes, Garbage
  <1> QED
    BY <1>2, <1>11, ReaderMoves DEF OpenRead

\* How far a call reads: to its size or to the MAC, and nothing only at the MAC.
LEMMA ReadSize ==
  ASSUME ReaderPart, position \in IVSize .. MacStart, NEW n \in Nat \ {0}
  PROVE  /\ position \in Nat /\ MacStart \in Nat /\ Len(source) \in Nat
         /\ MacStart <= Len(source) /\ MacStart + MacSize = Len(source) /\ IVSize <= position
         /\ ReadUntilMac(n) \in 0 .. n
         /\ position + ReadUntilMac(n) <= MacStart
         /\ ReadUntilMac(n) = 0 => position = MacStart
         /\ position + ReadUntilMac(n) < MacStart => ReadUntilMac(n) = n
  <1>1. Len(source) \in Nat /\ MacStart = Len(source) - MacSize /\ MacSize \in Nat /\ IVSize \in Nat
    BY SequenceDomain, MacAssumption, IVAssumption DEF ReaderPart, MacStart
  <1>2. /\ position \in Nat /\ MacStart \in Nat /\ MacStart <= Len(source)
        /\ IVSize <= position /\ position <= MacStart
    BY <1>1
  <1>3. CASE position >= MacStart
    BY <1>1, <1>2, <1>3 DEF ReadUntilMac
  <1>4. CASE ~(position >= MacStart)
    BY <1>1, <1>2, <1>4 DEF ReadUntilMac
  <1> QED
    BY <1>3, <1>4

LEMMA VerifyKeeps == ASSUME CellsInv, Verify PROVE CellsInv'
  <1>1. /\ ReaderPart /\ IsSequence(source) /\ Cells(source) /\ IsSequence(macRead)
        /\ Cells(macRead)
        /\ reader = "verifying" /\ position \in IVSize .. MacStart /\ LongEnough(source)
        /\ macRead = SubSeq(source, IVSize + 1, position) /\ out = <<>> /\ dec = 0
    BY Parts DEF Verify, ReaderPart, ReaderSound
  <1>2. PICK read : read = ReadUntilMac(ChunkSize)
    OBVIOUS
  <1>3. /\ position \in Nat /\ MacStart \in Nat /\ Len(source) \in Nat /\ read \in Nat
        /\ MacStart <= Len(source) /\ IVSize <= position /\ position + read <= MacStart
        /\ read = 0 => position = MacStart
        /\ IVSize \in Nat /\ MacStart + MacSize = Len(source) /\ MacSize \in Nat
    BY <1>1, <1>2, ReadSize, BufferAssumption, IVAssumption, MacAssumption
  <1>4. /\ source' = source /\ dec' = dec /\ out' = out /\ UNCHANGED writing
        /\ MacStart' = MacStart
        /\ LongEnough(source)' = LongEnough(source)
        /\ Authentic(source)' = Authentic(source)
    BY DEF Verify, MacStart, LongEnough, Authentic, MacOver
  <1>5. Cells(source)' /\ IsSequence(source') /\ IsSequence(out') /\ dec' \in Nat
        /\ Len(out') = 0 /\ out' = <<>> /\ dec' = 0
    BY <1>1, <1>4, EmptyIsSequence DEF Cells, Bytes
  <1>6. \A i \in 1 .. 0 : FALSE
    OBVIOUS
  <1>7. \A i \in 1 .. Len(out') : out'[i] \in Bytes \cup {Garbage}
    BY <1>5, <1>6
  <1>8. CASE /\ read > 0
             /\ macRead' = macRead \o Chunk(read)
             /\ position' = position + read
             /\ reader' = reader
    <2>1. macRead' = SubSeq(source, IVSize + 1, position + read)
      <3>1. /\ IVSize + 1 \in Nat \ {0} /\ position + read \in Nat /\ IVSize + 1 <= position + 1
            /\ position <= position + read /\ position + read <= Len(source)
        BY <1>3
      <3>2. SubSeq(source, IVSize + 1, position) \o SubSeq(source, position + 1, position + read)
               = SubSeq(source, IVSize + 1, position + read)
        BY <1>1, <1>3, <3>1, PartsMeet
      <3> QED
        BY <1>1, <1>8, <3>2 DEF Chunk
    <2>2. IsSequence(macRead') /\ Cells(macRead)'
      <3>1. /\ IVSize + 1 \in Nat \ {0} /\ position + read \in Nat
            /\ IVSize + 1 <= position + read + 1 /\ position + read <= Len(source)
        BY <1>3
      <3>2. PICK part : part = SubSeq(source, IVSize + 1, position + read)
        OBVIOUS
      <3>3. IsSequence(part) /\ Cells(part)
        BY <1>1, <3>1, <3>2, Part, PartCells
      <3>4. macRead' = part
        BY <2>1, <3>2
      <3> QED
        BY <3>3, <3>4 DEF Cells, Bytes
    <2>3. reader' = "verifying" /\ position' \in IVSize .. MacStart'
      BY <1>1, <1>3, <1>4, <1>8
    <2>4. macRead' = SubSeq(source', IVSize + 1, position')
      BY <1>4, <1>8, <2>1
    <2>5. ReaderSound'
      BY <1>1, <1>4, <1>5, <2>3, <2>4 DEF ReaderSound
    <2>6. ReaderPart'
      BY <1>5, <1>7, <2>2, <2>3, <2>5 DEF ReaderPart, Bytes, Garbage
    <2> QED
      BY <1>4, <2>6, ReaderMoves
  <1>9. CASE /\ read = 0
             /\ reader' = IF ExpectedMac THEN "reading" ELSE "refused"
             /\ position' = IVSize
             /\ macRead' = macRead
    <2>1. ExpectedMac <=> Authentic(source)
      <3>1. macRead = SubSeq(source, IVSize + 1, MacStart)
        BY <1>1, <1>3, <1>9
      <3> QED
        BY <3>1 DEF ExpectedMac, Authentic, MacStart
    <2>2. position' \in IVSize .. MacStart' /\ position' - IVSize = 0
      BY <1>3, <1>4, <1>9
    <2>3. IsSequence(macRead') /\ Cells(macRead)'
      BY <1>1, <1>9 DEF Cells, Bytes
    <2>4. \/ reader' = "reading" /\ Authentic(source)'
          \/ reader' = "refused" /\ ~Authentic(source)'
      BY <1>4, <1>9, <2>1
    <2>5. \A i \in 1 .. Len(out') :
             out'[i] = IF source'[IVSize + i] = DataCell(source'[IVSize + i].byte, i - 1)
                       THEN source'[IVSize + i].byte ELSE Garbage
      BY <1>5, <1>6
    <2>6. ReaderSound'
      BY <1>1, <1>4, <1>5, <2>2, <2>4, <2>5 DEF ReaderSound, DataCell, Garbage
    <2>7. ReaderPart'
      BY <1>5, <1>7, <2>2, <2>3, <2>4, <2>6 DEF ReaderPart, Bytes, Garbage
    <2> QED
      BY <1>4, <2>7, ReaderMoves
  <1> QED
    BY <1>2, <1>8, <1>9 DEF Verify

LEMMA ReadDecryptKeeps ==
  ASSUME CellsInv, NEW n \in ReadSizes, ReadDecrypt(n) PROVE CellsInv'
  <1>1. /\ ReaderPart /\ IsSequence(source) /\ Cells(source) /\ IsSequence(macRead)
        /\ Cells(macRead) /\ IsSequence(out) /\ dec \in Nat
        /\ reader = "reading" /\ position \in IVSize .. MacStart /\ LongEnough(source)
        /\ Authentic(source) /\ Len(out) = position - IVSize
        /\ \A i \in 1 .. Len(out) :
              out[i] = IF source[IVSize + i] = DataCell(source[IVSize + i].byte, i - 1)
                       THEN source[IVSize + i].byte ELSE Garbage
        /\ position < MacStart => dec = Len(out)
    BY Parts DEF ReadDecrypt, ReaderPart, ReaderSound
  <1>2. n \in Nat \ {0}
    BY ReadAssumption
  <1>3. PICK read : read = ReadUntilMac(n)
    OBVIOUS
  <1>4. /\ position \in Nat /\ MacStart \in Nat /\ Len(source) \in Nat /\ read \in Nat
        /\ MacStart <= Len(source) /\ IVSize <= position /\ position + read <= MacStart
        /\ read = 0 => position = MacStart
        /\ position + read < MacStart => read = n
        /\ IVSize \in Nat
    BY <1>1, <1>2, <1>3, ReadSize, IVAssumption
  <1>5. /\ source' = source /\ macRead' = macRead /\ UNCHANGED writing
        /\ position' = position + read /\ dec' = dec + n
        /\ reader' = IF read = 0 THEN "end" ELSE "reading"
        /\ out' = out \o Decrypt(Chunk(read), dec)
        /\ MacStart' = MacStart
        /\ LongEnough(source)' = LongEnough(source)
        /\ Authentic(source)' = Authentic(source)
    BY <1>3 DEF ReadDecrypt, MacStart, LongEnough, Authentic, MacOver
  <1>6. PICK chunk : chunk = Chunk(read)
    OBVIOUS
  <1>7. /\ IsSequence(chunk) /\ Len(chunk) = read
        /\ \A j \in 1 .. read : chunk[j] = source[position + j]
    <2>1. /\ position + 1 \in Nat \ {0} /\ position + read \in Nat
          /\ position + 1 <= position + read + 1 /\ position + read <= Len(source)
      BY <1>4
    <2>2. PICK m : m = position + 1
      OBVIOUS
    <2>3. PICK k : k = position + read
      OBVIOUS
    <2>4. m \in Nat \ {0} /\ k \in Nat /\ m <= k + 1 /\ k <= Len(source)
      BY <2>1, <2>2, <2>3
    <2>5. /\ IsSequence(SubSeq(source, m, k)) /\ Len(SubSeq(source, m, k)) = k - m + 1
          /\ \A j \in 1 .. k - m + 1 : SubSeq(source, m, k)[j] = source[m + j - 1]
      BY <1>1, <2>4, Part
    <2>6. chunk = SubSeq(source, m, k)
      BY <1>6, <2>2, <2>3 DEF Chunk
    <2>7. k - m + 1 = read /\ \A j \in 1 .. read : m + j - 1 = position + j
      BY <1>4, <2>2, <2>3
    <2> QED
      BY <2>5, <2>6, <2>7
  <1>8. PICK plain : plain = Decrypt(chunk, dec)
    OBVIOUS
  <1>9. /\ IsSequence(plain) /\ Len(plain) = read
        /\ \A j \in 1 .. read :
              plain[j] = IF source[position + j] = DataCell(source[position + j].byte, dec + j - 1)
                         THEN source[position + j].byte ELSE Garbage
    <2>1. /\ IsSequence(plain) /\ Len(plain) = Len(chunk)
          /\ \A j \in 1 .. Len(chunk) :
                plain[j] = IF chunk[j] = DataCell(chunk[j].byte, dec + j - 1)
                           THEN chunk[j].byte ELSE Garbage
      BY <1>7, <1>8, Decrypted
    <2> QED
      BY <1>7, <2>1
  <1>10. /\ IsSequence(out') /\ Len(out') = Len(out) + read
         /\ \A i \in 1 .. Len(out) : out'[i] = out[i]
         /\ \A j \in 1 .. read : out'[Len(out) + j] = plain[j]
    <2>1. /\ IsSequence(out \o plain) /\ Len(out \o plain) = Len(out) + Len(plain)
          /\ \A i \in 1 .. Len(out) : (out \o plain)[i] = out[i]
          /\ \A j \in 1 .. Len(plain) : (out \o plain)[Len(out) + j] = plain[j]
      <3>1. IsSequence(out) /\ IsSequence(plain)
        BY <1>1, <1>9
      <3> QED
        BY <3>1, Concatenated
    <2>2. out' = out \o plain
      BY <1>5, <1>6, <1>8
    <2> QED
      BY <1>9, <2>1, <2>2
  <1>11. Len(out') = position' - IVSize /\ position' \in IVSize .. MacStart'
    BY <1>1, <1>4, <1>5, <1>10
  <1>12. ASSUME NEW i \in 1 .. Len(out')
         PROVE  out'[i] = IF source[IVSize + i] = DataCell(source[IVSize + i].byte, i - 1)
                          THEN source[IVSize + i].byte ELSE Garbage
    <2>1. CASE i <= Len(out)
      <3>1. i \in 1 .. Len(out)
        BY <1>1, <1>4, <1>10, <2>1
      <3> QED
        BY <1>1, <1>10, <3>1
    <2>2. CASE ~(i <= Len(out))
      <3>1. PICK j : j = i - Len(out)
        OBVIOUS
      <3>2. j \in 1 .. read /\ Len(out) + j = i /\ position + j = IVSize + i
        BY <1>1, <1>4, <1>10, <2>2, <3>1
      <3>3. dec = Len(out)
        BY <1>1, <1>4, <3>2
      <3>4. dec + j - 1 = i - 1
        BY <1>1, <1>4, <3>2, <3>3
      <3> QED
        BY <1>9, <1>10, <3>2, <3>4
    <2> QED
      BY <2>1, <2>2
  <1>13. \A i \in 1 .. Len(out') : out'[i] \in Bytes \cup {Garbage}
    <2> TAKE i \in 1 .. Len(out')
    <2>1. IVSize + i \in 1 .. Len(source)
      BY <1>4, <1>5, <1>11
    <2>2. PICK cell : cell = source[IVSize + i]
      OBVIOUS
    <2>3. CASE cell = DataCell(cell.byte, i - 1)
      <3>1. PICK byte : byte = cell.byte
        OBVIOUS
      <3>2. cell = [kind |-> "data", byte |-> byte, at |-> i - 1]
        BY <2>3, <3>1 DEF DataCell
      <3>3. cell.kind = "data"
        BY <3>2
      <3>4. cell.byte \in Bytes
        BY <1>1, <2>1, <2>2, <3>3 DEF Cells
      <3> QED
        BY <1>12, <2>2, <2>3, <3>4
    <2>4. CASE cell # DataCell(cell.byte, i - 1)
      BY <1>12, <2>2, <2>4
    <2> QED
      BY <2>3, <2>4
  <1>14. /\ reader' = "reading" /\ position' < MacStart' => dec' = Len(out')
         /\ reader' = "end" => position' = MacStart'
    <2>1. position' < MacStart' => dec' = Len(out')
      BY <1>1, <1>2, <1>4, <1>5, <1>10
    <2>2. reader' = "end" => position' = MacStart'
      BY <1>4, <1>5
    <2> QED
      BY <2>1, <2>2
  <1>15. reader' \in {"reading", "end"} /\ dec' \in Nat
    BY <1>1, <1>2, <1>5
  <1>16. ReaderSound'
    BY <1>1, <1>5, <1>11, <1>12, <1>14, <1>15 DEF ReaderSound, DataCell, Garbage
  <1>17. Cells(source)' /\ Cells(macRead)' /\ IsSequence(source') /\ IsSequence(macRead')
    BY <1>1, <1>5 DEF Cells, Bytes
  <1>18. ReaderPart'
    BY <1>10, <1>11, <1>13, <1>15, <1>16, <1>17 DEF ReaderPart, Bytes, Garbage
  <1> QED
    BY <1>5, <1>18, ReaderMoves

LEMMA CloseReadKeeps == ASSUME CellsInv, CloseRead PROVE CellsInv'
  <1>1. /\ reader' = "none" /\ source' = <<>> /\ dec' = 0 /\ macRead' = <<>> /\ out' = <<>>
        /\ UNCHANGED writing
    BY DEF CloseRead
  <1>2. \A i \in 1 .. 0 : FALSE
    OBVIOUS
  <1>3. Len(source') = 0 /\ Len(macRead') = 0 /\ Len(out') = 0
    BY <1>1, EmptyIsSequence
  <1>4. Cells(source)' /\ Cells(macRead)'
    BY <1>2, <1>3 DEF Cells
  <1>5. \A i \in 1 .. Len(out') : out'[i] \in Bytes \cup {Garbage}
    BY <1>2, <1>3
  <1>6. ReaderSound'
    BY <1>1 DEF ReaderSound
  <1>7. ReaderPart'
    BY <1>1, <1>4, <1>5, <1>6, EmptyIsSequence DEF ReaderPart, Bytes, Garbage
  <1> QED
    BY <1>1, <1>3, <1>7, ReaderMoves

-----------------------------------------------------------------------------
(* The invariant.                                                          *)

LEMMA StreamStarts == Init => CellsInv
  <1> SUFFICES ASSUME Init PROVE CellsInv
    OBVIOUS
  <1> USE DEF Init
  <1>1. IsSequence(<<>>) /\ Len(<<>>) = 0 /\ \A i \in 1 .. 0 : FALSE
    BY EmptyIsSequence
  <1>2. Cells(<<>>) /\ Unfinished(<<>>)
    BY <1>1 DEF Cells, Unfinished
  <1>3. TypeOK
    <2>1. sent \in 0 .. MaxBytes /\ failures \in 0 .. MaxFailures
      BY BoundsAssumption
    <2>2. Len(buffer) \in 0 .. BufferSize /\ dec \in Nat /\ enc \in Nat
      BY <1>1, BufferAssumption
    <2>3. \A i \in 1 .. Len(out) : out[i] \in Bytes \cup {Garbage}
      BY <1>1
    <2> QED
      BY <1>2, <2>1, <2>2, <2>3 DEF TypeOK
  <1>4. Sequences
    BY <1>1 DEF Sequences
  <1>5. WriterSound /\ Ahead /\ KeystreamOnce
    BY <1>1 DEF WriterSound, Ahead, KeystreamOnce
  <1>6. WrittenWhole /\ ReaderSound
    BY DEF WrittenWhole, ReaderSound
  <1> QED
    BY <1>2, <1>3, <1>4, <1>5, <1>6 DEF CellsInv

LEMMA StreamStep == CellsInv /\ [Next]_vars => CellsInv'
  <1> SUFFICES ASSUME CellsInv, [Next]_vars PROVE CellsInv'
    OBVIOUS
  <1>1. CASE OpenWrite
    BY <1>1, OpenWriteKeeps
  <1>2. CASE \E n \in 1 .. MaxBytes : Write(n) \/ WriteThrough(n)
    BY <1>2, WriteKeeps, WriteThroughKeeps
  <1>3. CASE FlushBuffer
    BY <1>3, FlushBufferKeeps
  <1>4. CASE Terminate
    BY <1>4, TerminateKeeps
  <1>5. CASE DropBuffer
    BY <1>5, DropBufferKeeps
  <1>6. CASE Drop
    BY <1>6, DropKeeps
  <1>7. CASE Die
    BY <1>7, DieKeeps
  <1>8. CASE \E n \in 0 .. MaxBytes : AtomicWrite(n)
    BY <1>8, AtomicWriteKeeps
  <1>9. CASE OpenRead
    BY <1>9, OpenReadKeeps
  <1>10. CASE Verify
    BY <1>10, VerifyKeeps
  <1>11. CASE \E n \in ReadSizes : ReadDecrypt(n)
    BY <1>11, ReadDecryptKeeps
  <1>12. CASE CloseRead
    BY <1>12, CloseReadKeeps
  <1>13. CASE UNCHANGED vars
    <2>1. WriterPart' /\ UNCHANGED writing /\ UNCHANGED reading
      BY <1>13, Parts, WriterKept DEF vars
    <2> QED
      BY <2>1, FileLeft DEF writing
  <1> QED
    BY <1>1, <1>2, <1>3, <1>4, <1>5, <1>6, <1>7, <1>8, <1>9, <1>10, <1>11, <1>12, <1>13 DEF Next

-----------------------------------------------------------------------------
(* What a failed write leaves under no MAC.                                *)

\* encrypt_write either takes what it writes under the MAC, or leaves a piece that
\* is not, or nothing at all.
LEMMA EncryptWriteTorn ==
  ASSUME CellsInv, TornOpen, writer = "open", NEW bytes, IsSequence(bytes), EncryptWrite(bytes)
  PROVE  /\ ~finalized'
         /\ Len(file') >= IVSize + Len(mac')
         /\ torn' => Len(file') > IVSize + Len(mac')
  <1>1. /\ IsSequence(file) /\ IsSequence(mac) /\ enc \in Nat /\ torn \in BOOLEAN
        /\ failures \in 0 .. MaxFailures /\ finalized \in BOOLEAN
    BY DEF CellsInv, Sequences, TypeOK
  <1>2. PICK cells : cells = Encrypt(bytes, enc)
    OBVIOUS
  <1>3. /\ IsSequence(cells) /\ Len(cells) = Len(bytes) /\ Len(cells) \in Nat
        /\ Len(file) \in Nat /\ Len(mac) \in Nat /\ IVSize \in Nat
    BY <1>1, <1>2, Encrypted, SequenceDomain, IVAssumption
  <1>4. ~finalized /\ ~finalized'
    BY <1>1 DEF EncryptWrite
  <1>5. Len(file) >= IVSize + Len(mac) /\ (torn => Len(file) > IVSize + Len(mac))
    BY <1>4 DEF TornOpen
  <1>6. CASE WriteAll(cells) /\ mac' = mac \o cells /\ UNCHANGED torn
    <2>1. Len(file') = Len(file) + Len(cells)
      BY <1>1, <1>3, <1>6, WrittenAll DEF Extended
    <2>2. Len(mac') = Len(mac) + Len(cells)
      BY <1>1, <1>3, <1>6, Concatenated
    <2> QED
      BY <1>3, <1>4, <1>5, <1>6, <2>1, <2>2
  <1>7. CASE WriteFails(cells) /\ UNCHANGED mac /\ torn' = (torn \/ file' # file)
    <2>1. PICK k \in 0 .. Len(cells) - 1 : Extended(cells, k)
      BY <1>1, <1>3, <1>7, WrittenInPart
    <2>2. IsSequence(file') /\ Len(file') = Len(file) + k /\ k \in Nat
      BY <1>3, <2>1 DEF Extended
    <2>3. k = 0 => file' = file
      BY <1>1, <1>3, <2>1, <2>2, SameSequence DEF Extended
    <2>4. torn' => torn \/ file' # file
      BY <1>7
    <2>5. file' # file => k > 0
      BY <1>3, <2>2, <2>3
    <2> QED
      BY <1>3, <1>4, <1>5, <1>7, <2>2, <2>4, <2>5
  <1> QED
    BY <1>2, <1>6, <1>7 DEF EncryptWrite

\* A MAC over fewer cells than there are between the IV and it is not accepted.
LEMMA ShortMacRefused ==
  ASSUME NEW f, IsSequence(f), NEW m, IsSequence(m), Len(f) > IVSize + Len(m)
  PROVE  ~Authentic(f \o MacOver(m))
  <1>1. /\ Len(f) \in Nat /\ Len(m) \in Nat /\ IVSize \in Nat /\ MacSize \in Nat \ {0}
    BY SequenceDomain, IVAssumption, MacAssumption
  <1>2. PICK g : g = f \o MacOver(m)
    OBVIOUS
  <1>3. /\ IsSequence(g) /\ Len(g) = Len(f) + MacSize
        /\ \A i \in 1 .. MacSize : g[Len(f) + i] = MacOver(m)[i]
    <2>1. PICK t : t = MacOver(m)
      OBVIOUS
    <2>2. IsSequence(t) /\ Len(t) = MacSize
      BY <2>1, MacCells
    <2>3. g = f \o t
      BY <1>2, <2>1
    <2>4. /\ IsSequence(f \o t) /\ Len(f \o t) = Len(f) + Len(t)
          /\ \A i \in 1 .. Len(t) : (f \o t)[Len(f) + i] = t[i]
      BY <2>2, Concatenated
    <2> QED
      BY <2>1, <2>2, <2>3, <2>4
  <1>4. Len(g) - MacSize = Len(f) /\ Len(g) - MacSize + 1 = Len(f) + 1 /\ Len(g) \in Nat
    BY <1>1, <1>3
  <1>5. PICK data : data = SubSeq(g, IVSize + 1, Len(f))
    OBVIOUS
  <1>6. Len(data) = Len(f) - (IVSize + 1) + 1
    BY <1>1, <1>3, <1>5, Part
  <1>7. data # m
    BY <1>1, <1>6
  <1>8. PICK end : end = SubSeq(g, Len(f) + 1, Len(g))
    OBVIOUS
  <1>9. end[1] = g[Len(f) + 1]
    <2>1. \A i \in 1 .. Len(g) - (Len(f) + 1) + 1 : end[i] = g[(Len(f) + 1) + i - 1]
      <3>1. Len(f) + 1 \in Nat \ {0} /\ Len(f) + 1 <= Len(g) + 1 /\ Len(g) <= Len(g)
        BY <1>1, <1>3, <1>4
      <3> QED
        BY <1>3, <1>4, <1>8, <3>1, Part
    <2>2. 1 \in 1 .. Len(g) - (Len(f) + 1) + 1 /\ (Len(f) + 1) + 1 - 1 = Len(f) + 1
      BY <1>1, <1>3
    <2> QED
      BY <2>1, <2>2
  <1>10. 1 \in 1 .. MacSize
    BY <1>1
  <1>11. end[1] = [kind |-> "mac", byte |-> 1, over |-> m]
    BY <1>3, <1>9, <1>10, MacCells
  <1>12. MacOver(data)[1] = [kind |-> "mac", byte |-> 1, over |-> data]
    BY <1>10, MacCells
  <1>13. end # MacOver(data)
    <2>1. end[1].over = m /\ MacOver(data)[1].over = data
      BY <1>11, <1>12
    <2> QED
      BY <1>7, <2>1
  <1> QED
    BY <1>2, <1>4, <1>5, <1>8, <1>13 DEF Authentic

\* finalize seals what is under the MAC, and restarts the MAC when it fails.
LEMMA FinalizeTorn ==
  ASSUME CellsInv, TornOpen, writer \in {"open", "dropping"}, Finalize
  PROVE  /\ ~finalized' =>
               /\ Len(file') >= IVSize + Len(mac')
               /\ torn' => Len(file') > IVSize + Len(mac')
         /\ TornRefused'
  <1>1. /\ IsSequence(file) /\ IsSequence(mac) /\ torn \in BOOLEAN
        /\ failures \in 0 .. MaxFailures /\ finalized \in BOOLEAN
        /\ Len(file) \in Nat /\ Len(mac) \in Nat /\ IVSize \in Nat
    BY SequenceDomain, IVAssumption DEF CellsInv, Sequences, TypeOK
  <1>2. ~finalized /\ mac' = <<>> /\ Len(mac') = 0
    BY EmptyIsSequence DEF Finalize
  <1>3. Len(file) >= IVSize + Len(mac) /\ (torn => Len(file) > IVSize + Len(mac))
    BY <1>2 DEF TornOpen
  <1>4. CASE WriteAll(MacOver(mac)) /\ finalized' = TRUE /\ UNCHANGED torn
    <2>1. file' = file \o MacOver(mac)
      BY <1>4 DEF WriteAll
    <2>2. torn => ~Authentic(file')
      BY <1>1, <1>3, <2>1, ShortMacRefused
    <2>3. Authentic(file)' <=> Authentic(file')
      BY DEF Authentic, MacOver
    <2> QED
      BY <1>4, <2>2, <2>3 DEF TornRefused
  <1>5. CASE /\ WriteFails(MacOver(mac)) /\ UNCHANGED finalized
             /\ torn' = (torn \/ file' # file \/ mac # <<>>)
    <2>1. PICK k \in 0 .. Len(MacOver(mac)) - 1 : Extended(MacOver(mac), k)
      BY <1>1, <1>5, MacCells, WrittenInPart
    <2>2. IsSequence(file') /\ Len(file') = Len(file) + k /\ k \in Nat
      BY <2>1, MacCells, MacAssumption DEF Extended
    <2>3. k = 0 => file' = file
      BY <1>1, <2>1, <2>2, SameSequence DEF Extended
    <2>4. Len(mac) = 0 => mac = <<>>
      BY <1>1, EmptyIsSequence, SameSequence
    <2>5. torn' => torn \/ k > 0 \/ Len(mac) > 0
      BY <1>1, <1>5, <2>2, <2>3, <2>4
    <2>6. Len(file') >= IVSize + Len(mac') /\ (torn' => Len(file') > IVSize + Len(mac'))
      BY <1>1, <1>2, <1>3, <2>2, <2>5
    <2> QED
      BY <1>2, <1>5, <2>6 DEF TornRefused
  <1> QED
    BY <1>4, <1>5 DEF Finalize

\* A step that leaves the file and the MAC alone.
LEMMA TornLeft ==
  ASSUME TornOpen, TornRefused, UNCHANGED <<file, mac, finalized, torn>>,
         writer' = "none" => writer = "none",
         writer' \in {"open", "dropping"} => writer \in {"open", "dropping"}
  PROVE  TornOpen' /\ TornRefused'
  <1>1. Authentic(file)' = Authentic(file)
    BY DEF Authentic, MacOver
  <1> QED
    BY <1>1 DEF TornOpen, TornRefused

LEMMA TornStep ==
  ASSUME CellsInv, TornOpen, TornRefused, [Next]_vars
  PROVE  TornOpen' /\ TornRefused'
  <1>1. /\ IsSequence(buffer) /\ IsSequence(mac) /\ TypeOK /\ WriterSound
    BY DEF CellsInv, Sequences
  <1>2. ASSUME NEW bytes, IsSequence(bytes), writer = "open", EncryptWrite(bytes),
               writer' \in {"open", "dropping"}
        PROVE  TornOpen' /\ TornRefused'
    BY <1>2, EncryptWriteTorn DEF TornOpen, TornRefused
  <1>3. ASSUME writer \in {"open", "dropping"}, Finalize, writer' # "none"
        PROVE  TornOpen' /\ TornRefused'
    BY <1>3, FinalizeTorn DEF TornOpen
  <1>4. CASE OpenWrite
    <2>1. /\ file = <<>> /\ mac = <<>> /\ ~finalized /\ ~torn
          /\ mac' = mac /\ finalized' = finalized /\ torn' = torn
          /\ writer' \in {"open", "failed"}
      BY <1>1, <1>4 DEF OpenWrite, WriterSound, TornOpen
    <2>2. Len(mac') = 0 /\ IsSequence(file)
      BY <2>1, EmptyIsSequence
    <2>3. writer' = "open" => Len(file') = IVSize /\ IVSize \in Nat
      <3>1. writer' = "open" => WriteAll(IV)
        BY <1>4 DEF OpenWrite
      <3>2. WriteAll(IV) => Len(file') = Len(file) + IVSize
        BY <2>2, IVCells, WrittenAll DEF Extended
      <3>3. Len(file) = 0
        BY <2>1, EmptyIsSequence
      <3> QED
        BY <3>1, <3>2, <3>3, IVAssumption
    <2> QED
      BY <2>1, <2>2, <2>3 DEF TornOpen, TornRefused
  <1>5. ASSUME NEW n \in 1 .. MaxBytes, Write(n) PROVE TornOpen' /\ TornRefused'
    BY <1>5, TornLeft DEF Write
  <1>6. ASSUME NEW n \in 1 .. MaxBytes, WriteThrough(n) PROVE TornOpen' /\ TornRefused'
    <2>1. IsSequence(NextBytes(n))
      BY <1>1, BytesSent, BoundsAssumption
    <2> QED
      BY <1>2, <1>6, <2>1 DEF WriteThrough
  <1>7. CASE FlushBuffer
    BY <1>1, <1>2, <1>7 DEF FlushBuffer
  <1>8. CASE Terminate
    BY <1>3, <1>8 DEF Terminate
  <1>9. CASE DropBuffer
    <2>1. CASE buffer = <<>> /\ UNCHANGED <<file, enc, mac, finalized, failures, torn>>
      BY <1>9, <2>1, TornLeft DEF DropBuffer
    <2>2. CASE buffer # <<>> /\ EncryptWrite(buffer)
      BY <1>1, <1>2, <1>9, <2>2 DEF DropBuffer
    <2> QED
      BY <1>9, <2>1, <2>2 DEF DropBuffer
  <1>10. CASE Drop
    <2>1. writer = "dropping" /\ writer' \in {"closed", "panic"}
      BY <1>10 DEF Drop
    <2>2. CASE finalized /\ UNCHANGED <<file, enc, mac, finalized, failures, torn>>
      BY <2>1, <2>2, TornLeft
    <2>3. CASE Finalize
      BY <1>3, <2>1, <2>3
    <2> QED
      BY <1>10, <2>2, <2>3 DEF Drop
  <1>11. CASE Die
    BY <1>11, TornLeft DEF Die
  <1>12. ASSUME NEW n \in 0 .. MaxBytes, AtomicWrite(n) PROVE TornOpen' /\ TornRefused'
    BY <1>12 DEF AtomicWrite, TornOpen, TornRefused
  <1>13. CASE UNCHANGED writing
    BY <1>13, TornLeft DEF writing
  <1>14. ASSUME OpenRead \/ Verify \/ (\E n \in ReadSizes : ReadDecrypt(n)) \/ CloseRead
                \/ UNCHANGED vars
         PROVE  UNCHANGED writing
    BY <1>14 DEF OpenRead, Verify, ReadDecrypt, CloseRead, vars
  <1> QED
    BY <1>4, <1>5, <1>6, <1>7, <1>8, <1>9, <1>10, <1>11, <1>12, <1>13, <1>14 DEF Next

\* The invariant of the writer and the reader: the encryptor is past what it has
\* used, the last byte of the MAC is there only when the file is finalized, what
\* AesWriter wrote and AesReader has read is, byte for byte, as it should be, and
\* what a failed write left in the file is under no MAC.
THEOREM StreamInvariant == Spec => []StreamInv
  <1>1. Init => StreamInv
    BY StreamStarts DEF Init, StreamInv, TornOpen, TornRefused
  <1>2. StreamInv /\ [Next]_vars => StreamInv'
    BY StreamStep, TornStep DEF StreamInv
  <1> QED
    BY <1>1, <1>2, PTL DEF Spec

-----------------------------------------------------------------------------
(* What follows.                                                           *)

LEMMA ReadsBack == CellsInv => ReadBack
  <1> SUFFICES ASSUME CellsInv, finalized, failures = 0, source = file
               PROVE  /\ reader # "refused"
                      /\ reader \in {"reading", "end"} => \A i \in 1 .. Len(out) : out[i] = i
                      /\ reader = "end" => Len(out) = sent
    BY DEF ReadBack
  <1>1. /\ WriterPart /\ ReaderPart /\ ReaderSound /\ IsSequence(file) /\ buffer = <<>>
        /\ writer # "none" /\ sent \in Nat
    BY Parts, BoundsAssumption DEF WriterPart, ReaderPart, WriterSound
  <1>2. Written = sent /\ IVSize \in Nat /\ MacSize \in Nat \ {0} /\ Len(file) \in Nat
    BY <1>1, EmptyIsSequence, IVAssumption, MacAssumption, SequenceDomain DEF Written
  <1>3. /\ Len(file) = IVSize + sent + MacSize
        /\ \A i \in 1 .. sent : file[IVSize + i] = DataCell(i, i - 1)
        /\ \A i \in 1 .. MacSize : file[IVSize + sent + i] = MacOver(FirstCells(sent))[i]
    BY <1>1, <1>2 DEF WriterPart, WrittenWhole
  <1>4. /\ IVSize + 1 \in Nat \ {0} /\ IVSize + sent \in Nat /\ IVSize + sent + 1 \in Nat \ {0}
        /\ Len(file) - MacSize = IVSize + sent /\ IVSize + 1 <= IVSize + sent + 1
        /\ IVSize + sent <= Len(file) /\ IVSize + sent + 1 <= Len(file) + 1
        /\ MacStart = IVSize + sent
    <2>1. sent \in Nat /\ IVSize \in Nat /\ MacSize \in Nat \ {0} /\ Len(file) \in Nat
      BY <1>1, <1>2
    <2>2. Len(file) = IVSize + sent + MacSize
      BY <1>3
    <2>3. /\ IVSize + 1 \in Nat \ {0} /\ IVSize + sent \in Nat
          /\ IVSize + sent + 1 \in Nat \ {0} /\ IVSize + 1 <= IVSize + sent + 1
      BY <2>1
    <2>4. /\ Len(file) - MacSize = IVSize + sent
          /\ IVSize + sent <= Len(file) /\ IVSize + sent + 1 <= Len(file) + 1
      BY <2>1, <2>2
    <2>5. MacStart = IVSize + sent
      BY <2>4 DEF MacStart
    <2> QED
      BY <2>3, <2>4, <2>5
  <1>5. SubSeq(file, IVSize + 1, IVSize + sent) = FirstCells(sent)
    <2>1. PICK part : part = SubSeq(file, IVSize + 1, IVSize + sent)
      OBVIOUS
    <2>2. PICK cells : cells = FirstCells(sent)
      OBVIOUS
    <2>3. IsSequence(cells) /\ Len(cells) = sent /\ \A i \in 1 .. sent : cells[i] = DataCell(i, i - 1)
      BY <1>1, <2>2, DataCells
    <2>4. PICK m : m = IVSize + 1
      OBVIOUS
    <2>5. PICK k : k = IVSize + sent
      OBVIOUS
    <2>6. m \in Nat \ {0} /\ k \in Nat /\ m <= k + 1 /\ k <= Len(file)
      BY <1>4, <2>4, <2>5
    <2>7. /\ IsSequence(SubSeq(file, m, k)) /\ Len(SubSeq(file, m, k)) = k - m + 1
          /\ \A i \in 1 .. k - m + 1 : SubSeq(file, m, k)[i] = file[m + i - 1]
      BY <1>1, <2>6, Part
    <2>8. part = SubSeq(file, m, k)
      BY <2>1, <2>4, <2>5
    <2>9. k - m + 1 = sent /\ \A i \in 1 .. sent : m + i - 1 = IVSize + i
      BY <1>1, <1>2, <2>4, <2>5
    <2>10. /\ IsSequence(part) /\ Len(part) = sent
           /\ \A i \in 1 .. sent : part[i] = file[IVSize + i]
      BY <2>7, <2>8, <2>9
    <2>11. \A i \in 1 .. sent : part[i] = cells[i]
      BY <1>3, <2>3, <2>10
    <2>12. part = cells
      BY <2>3, <2>10, <2>11, SameSequence
    <2> QED
      BY <2>1, <2>2, <2>12
  <1>6. SubSeq(file, IVSize + sent + 1, Len(file)) = MacOver(FirstCells(sent))
    <2>1. PICK part : part = SubSeq(file, IVSize + sent + 1, Len(file))
      OBVIOUS
    <2>2. PICK cells : cells = MacOver(FirstCells(sent))
      OBVIOUS
    <2>3. IsSequence(cells) /\ Len(cells) = MacSize
      BY <2>2, MacCells
    <2>4. PICK m : m = IVSize + sent + 1
      OBVIOUS
    <2>5. /\ IsSequence(part) /\ Len(part) = Len(file) - m + 1
          /\ \A i \in 1 .. Len(file) - m + 1 : part[i] = file[m + i - 1]
      <3>1. m \in Nat \ {0} /\ m <= Len(file) + 1 /\ Len(file) <= Len(file)
        BY <1>2, <1>4, <2>4
      <3>2. part = SubSeq(file, m, Len(file))
        BY <2>1, <2>4
      <3> QED
        BY <1>1, <1>2, <3>1, <3>2, Part
    <2>6. /\ Len(file) - m + 1 = MacSize
          /\ \A i \in 1 .. MacSize : m + i - 1 = IVSize + sent + i
      BY <1>1, <1>2, <1>3, <2>4
    <2>7. Len(part) = MacSize /\ \A i \in 1 .. MacSize : part[i] = cells[i]
      BY <1>3, <2>2, <2>5, <2>6
    <2>8. part = cells
      BY <2>3, <2>5, <2>7, SameSequence
    <2> QED
      BY <2>1, <2>2, <2>8
  <1>7. Authentic(file)
    BY <1>4, <1>5, <1>6 DEF Authentic
  <1>8. LongEnough(file)
    BY <1>1, <1>2, <1>3 DEF LongEnough
  <1>9. reader # "refused"
    BY <1>1, <1>7, <1>8 DEF ReaderSound
  <1>10. ASSUME reader \in {"reading", "end"}
         PROVE  (\A i \in 1 .. Len(out) : out[i] = i) /\ (reader = "end" => Len(out) = sent)
    <2>1. /\ Len(out) = position - IVSize /\ position \in IVSize .. MacStart
          /\ \A i \in 1 .. Len(out) :
                out[i] = IF source[IVSize + i] = DataCell(source[IVSize + i].byte, i - 1)
                         THEN source[IVSize + i].byte ELSE Garbage
          /\ reader = "end" => position = MacStart
      BY <1>1, <1>10 DEF ReaderSound
    <2>2. Len(out) \in Nat /\ Len(out) <= sent /\ (reader = "end" => Len(out) = sent)
      <3>1. PICK size : size = Len(out)
        OBVIOUS
      <3>2. /\ size = position - IVSize /\ position \in IVSize .. IVSize + sent
            /\ reader = "end" => position = IVSize + sent
        BY <1>4, <2>1, <3>1
      <3>3. size \in Nat /\ size <= sent
        BY <1>1, <1>2, <3>2
      <3>4. reader = "end" => size = sent
        BY <1>1, <1>2, <3>2
      <3> QED
        BY <3>1, <3>3, <3>4
    <2>3. ASSUME NEW i \in 1 .. Len(out) PROVE out[i] = i
      <3>1. i \in 1 .. sent
        BY <1>1, <2>2
      <3>2. PICK cell : cell = source[IVSize + i]
        OBVIOUS
      <3>3. cell = DataCell(i, i - 1)
        BY <1>3, <3>1, <3>2
      <3>4. cell.byte = i
        BY <3>3 DEF DataCell
      <3>5. out[i] = IF cell = DataCell(cell.byte, i - 1) THEN cell.byte ELSE Garbage
        BY <2>1, <3>2
      <3> QED
        BY <3>3, <3>4, <3>5
    <2> QED
      BY <2>2, <2>3
  <1> QED
    BY <1>9, <1>10

LEMMA MacIsLast ==
  ASSUME CellsInv, reader \in {"reading", "end"} PROVE finalized /\ source = file
  <1>1. IsSequence(source) /\ LongEnough(source) /\ Authentic(source)
    BY Parts DEF ReaderPart, ReaderSound
  <1>2. Len(source) \in Nat /\ IVSize \in Nat /\ MacSize \in Nat \ {0} /\ MacSize <= Len(source)
    BY <1>1, SequenceDomain, IVAssumption, MacAssumption DEF LongEnough
  <1>3. PICK m : m = Len(source) - MacSize + 1
    OBVIOUS
  <1>4. /\ m \in Nat \ {0} /\ m <= Len(source) + 1
        /\ MacSize \in 1 .. Len(source) - m + 1 /\ m + MacSize - 1 = Len(source)
        /\ Len(source) \in 1 .. Len(source) /\ MacSize \in 1 .. MacSize
    BY <1>2, <1>3
  <1>5. SubSeq(source, m, Len(source))[MacSize] = source[Len(source)]
    <2>1. \A i \in 1 .. Len(source) - m + 1 :
             SubSeq(source, m, Len(source))[i] = source[m + i - 1]
      <3>1. Len(source) <= Len(source)
        BY <1>2
      <3> QED
        BY <1>1, <1>2, <1>4, <3>1, Part
    <2> QED
      BY <1>4, <2>1
  <1>6. PICK data : data = SubSeq(source, IVSize + 1, Len(source) - MacSize)
    OBVIOUS
  <1>7. SubSeq(source, m, Len(source)) = MacOver(data)
    BY <1>1, <1>3, <1>6 DEF Authentic
  <1>8. PICK cell : cell = source[Len(source)]
    OBVIOUS
  <1>9. cell = [kind |-> "mac", byte |-> MacSize, over |-> data]
    BY <1>4, <1>5, <1>7, <1>8, MacCells
  <1>10. cell.kind = "mac" /\ cell.byte = MacSize
    BY <1>9
  <1>11. ~Unfinished(source)
    BY <1>4, <1>8, <1>10 DEF Unfinished
  <1> QED
    BY <1>11 DEF CellsInv

\* A file that AesWriter finalized without a failing write is accepted by
\* AesReader::new, and read_decrypt gives back the plain text, whatever the sizes of
\* the buffers of the writer and of the reader, of the IV and of the MAC.
THEOREM FilesReadBack == Spec => []ReadBack
  <1>1. StreamInv => ReadBack
    BY ReadsBack DEF StreamInv
  <1> QED
    BY <1>1, StreamInvariant, PTL

\* AesReader::new accepts only a file that a finalize has sealed, as it is now, and
\* refuses one that holds a piece of a write that failed, for any lengths and any
\* number of failures.  What the drop of an AesWriter has sealed may be less than
\* the writer was given.
THEOREM OnlySealedFilesRead == Spec => []OnlySealedFiles
  <1>1. ASSUME StreamInv, reader \in {"reading", "end"} PROVE finalized /\ source = file /\ ~torn
    <2>1. finalized /\ source = file
      BY <1>1, MacIsLast DEF StreamInv
    <2>2. Authentic(source)
      BY <1>1, Parts DEF StreamInv, ReaderPart, ReaderSound
    <2> QED
      BY <1>1, <2>1, <2>2 DEF StreamInv, TornRefused
  <1>2. StreamInv => OnlySealedFiles
    BY <1>1 DEF OnlySealedFiles
  <1> QED
    BY <1>2, StreamInvariant, PTL

\* encrypt_write never applies a position of the keystream twice, also when
\* write_all fails in the middle and the BufWriter passes its bytes on again.
THEOREM KeystreamNeverReused == Spec => []KeystreamOnce
  <1>1. StreamInv => KeystreamOnce
    BY DEF StreamInv, CellsInv
  <1> QED
    BY <1>1, StreamInvariant, PTL
=============================================================================
