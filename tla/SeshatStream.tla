---------------------------- MODULE SeshatStream ----------------------------
(***************************************************************************)
(* One file of the encrypted index directory: AesWriter behind the         *)
(* BufWriter that open_write returns, and AesReader, which open_read and   *)
(* atomic_read drain.  A byte of the file is a cell that says what it is:  *)
(* a byte of the IV, a byte of plain text with the keystream position it   *)
(* was encrypted at, or a byte of a MAC with what the MAC is over.         *)
(***************************************************************************)
EXTENDS Sequences, Integers

CONSTANTS
    IVSize,       \* IV_SIZE
    MacSize,      \* MAC_LENGTH
    ChunkSize,    \* BUFFER_SIZE
    BufferSize,   \* the capacity of the BufWriter
    ReadSizes,    \* the sizes of the buffers that read is called with
    MaxBytes,     \* bound of the model: bytes of plain text that are written
    MaxFailures   \* bound of the model: writes to the file that fail

ASSUME IVAssumption == IVSize \in Nat
ASSUME MacAssumption == MacSize \in Nat \ {0}
ASSUME BufferAssumption == ChunkSize \in Nat \ {0} /\ BufferSize \in Nat \ {0}
ASSUME ReadAssumption == ReadSizes \subseteq Nat \ {0}
ASSUME BoundsAssumption == MaxBytes \in Nat /\ MaxFailures \in Nat

VARIABLES
    file,       \* the cells of the file
    \* the writer: a BufWriter, and the AesWriter behind it
    writer,     \* "none", "open", "dropping", or how it ended
    sent,       \* the bytes of plain text handed to it so far are 1 .. sent
    buffer,     \* what the BufWriter has not passed on
    enc,        \* the position of the encryptor in the keystream
    mac,        \* the cells the MAC was updated with
    finalized,
    failures,
    torn,       \* a failed write left its beginning in the file, or the MAC restarted
    \* the reader
    reader,     \* "none", "verifying", "reading", "refused" or "end"
    source,     \* the file as it was when the reader was made
    position,   \* the position in source
    dec,        \* the position of the decryptor in the keystream
    macRead,    \* the cells that the MAC of the file was compared over
    out         \* what the reader has returned

writing == <<file, writer, sent, buffer, enc, mac, finalized, failures, torn>>
reading == <<reader, source, position, dec, macRead, out>>
vars == <<writing, reading>>

-----------------------------------------------------------------------------
(* The cells.                                                                *)

IV == [i \in 1 .. IVSize |-> [kind |-> "iv", byte |-> i]]

DataCell(byte, at) == [kind |-> "data", byte |-> byte, at |-> at]

\* The keystream applied to bytes, from a position on.
Encrypt(bytes, at) == [i \in 1 .. Len(bytes) |-> DataCell(bytes[i], at + i - 1)]

\* The keystream applied to cells: only at its own position a byte comes back.
Garbage == 0
Decrypt(cells, at) ==
    [i \in 1 .. Len(cells) |->
        IF cells[i] = DataCell(cells[i].byte, at + i - 1) THEN cells[i].byte ELSE Garbage]

\* Two MACs are the same only if they are over the same cells.
MacOver(cells) == [i \in 1 .. MacSize |-> [kind |-> "mac", byte |-> i, over |-> cells]]

-----------------------------------------------------------------------------
(* The writer.                                                               *)

\* write_all: all of the cells reach the file, ...
WriteAll(cells) ==
    /\ file' = file \o cells
    /\ UNCHANGED failures

\* ... or an error after some of them.
WriteFails(cells) ==
    /\ failures < MaxFailures
    /\ failures' = failures + 1
    /\ \E i \in 0 .. Len(cells) - 1 : file' = file \o SubSeq(cells, 1, i)

\* open_write with AesWriter::new: the IV comes first.
OpenWrite ==
    /\ writer = "none"
    /\ \/ WriteAll(IV) /\ writer' = "open"
       \/ WriteFails(IV) /\ writer' = "failed"
    /\ UNCHANGED <<sent, buffer, enc, mac, finalized, torn, reading>>

\* Mutant: a failed write takes the keystream back.
EncTakenBack(n) == IF failures' = failures THEN enc + n ELSE enc

\* try_apply_keystream comes before the write, whatever becomes of that.
EncAfter(n) == enc + n

\* encrypt_write: keystream, write_all, MAC.
EncryptWrite(bytes) ==
    LET cells == Encrypt(bytes, enc) IN
    /\ ~finalized
    /\ \/ WriteAll(cells) /\ mac' = mac \o cells /\ UNCHANGED torn
       \/ WriteFails(cells) /\ UNCHANGED mac /\ torn' = (torn \/ file' # file)
    /\ enc' = EncAfter(Len(bytes))
    /\ UNCHANGED finalized

\* finalize: the MAC, which is reset even when it cannot be written.
Finalize ==
    /\ ~finalized
    /\ \/ WriteAll(MacOver(mac)) /\ finalized' = TRUE /\ UNCHANGED torn
       \/ /\ WriteFails(MacOver(mac)) /\ UNCHANGED finalized
          /\ torn' = (torn \/ file' # file \/ mac # <<>>)
    /\ mac' = <<>>
    /\ UNCHANGED enc

NextBytes(n) == [i \in 1 .. n |-> sent + i]

\* BufWriter::write, into the buffer.
Write(n) ==
    /\ writer = "open"
    /\ n < BufferSize
    /\ Len(buffer) + n <= BufferSize
    /\ sent + n <= MaxBytes
    /\ sent' = sent + n
    /\ buffer' = buffer \o NextBytes(n)
    /\ UNCHANGED <<file, writer, enc, mac, finalized, failures, torn, reading>>

\* BufWriter::write of what is not smaller than the buffer: past it.
WriteThrough(n) ==
    /\ writer = "open"
    /\ n >= BufferSize
    /\ buffer = <<>>
    /\ sent + n <= MaxBytes
    /\ sent' = sent + n
    /\ EncryptWrite(NextBytes(n))
    /\ UNCHANGED <<writer, buffer, reading>>

\* BufWriter::flush_buf, before a write that does not fit and before the end;
\* an error leaves the buffer as it is.
FlushBuffer ==
    /\ writer = "open"
    /\ buffer # <<>>
    /\ EncryptWrite(buffer)
    /\ buffer' = IF failures' = failures THEN <<>> ELSE buffer
    /\ UNCHANGED <<writer, sent, reading>>

\* terminate_ref, which the BufWriter calls when it is flushed; the writer is
\* consumed, whether it succeeds or not.
Terminate ==
    /\ writer = "open"
    /\ buffer = <<>>
    /\ Finalize
    /\ writer' = "dropping"
    /\ UNCHANGED <<sent, buffer, reading>>

\* The drop of the BufWriter: flush_buf again, its error is ignored.
DropBuffer ==
    /\ writer = "open"
    /\ writer' = "dropping"
    /\ \/ buffer = <<>> /\ UNCHANGED <<file, enc, mac, finalized, failures, torn>>
       \/ buffer # <<>> /\ EncryptWrite(buffer)
    /\ buffer' = <<>>
    /\ UNCHANGED <<sent, reading>>

\* The drop of the AesWriter, early or in a panic too: finalize, which seals what
\* has reached the file, and a panic when it fails.
Drop ==
    /\ writer = "dropping"
    /\ \/ finalized /\ UNCHANGED <<file, enc, mac, finalized, failures, torn>>
       \/ Finalize
    /\ writer' = IF finalized' THEN "closed" ELSE "panic"
    /\ UNCHANGED <<sent, buffer, reading>>

\* The process dies: the file keeps what was written.
Die ==
    /\ writer \in {"open", "dropping"}
    /\ writer' = "died"
    /\ UNCHANGED <<file, sent, buffer, enc, mac, finalized, failures, torn, reading>>

\* atomic_write: the file is encrypted in memory and its writer dropped before
\* the directory puts it in place.
AtomicWrite(n) ==
    LET cells == Encrypt(NextBytes(n), 0) IN
    /\ writer = "none"
    /\ file' = IV \o cells \o MacOver(cells)
    /\ writer' = "closed"
    /\ sent' = n
    /\ finalized' = TRUE
    /\ UNCHANGED <<buffer, enc, mac, failures, torn, reading>>

-----------------------------------------------------------------------------
(* The reader.                                                               *)

\* Mutant: the length of the IV is forgotten.
LongEnoughForMac(cells) == Len(cells) >= MacSize

LongEnough(cells) == Len(cells) >= IVSize + MacSize

\* open_read and atomic_read: AesReader::new up to its loop.
OpenRead ==
    /\ reader = "none"
    /\ writer # "none"
    /\ source' = file
    /\ position' = IVSize
    /\ reader' = IF LongEnough(file) THEN "verifying" ELSE "refused"
    /\ UNCHANGED <<dec, macRead, out, writing>>

MacStart == Len(source) - MacSize

\* Mutant: a reader that may read less than was asked for.
ReadShort(n) ==
    IF position >= MacStart THEN 0
    ELSE IF n <= MacStart - position THEN (n + 1) \div 2 ELSE 1

\* read_until_mac: how many bytes it reads into a buffer of n.  The Cursor below
\* gives all that are asked for.
ReadUntilMac(n) ==
    IF position >= MacStart THEN 0
    ELSE IF n <= MacStart - position THEN n ELSE MacStart - position

Chunk(read) == SubSeq(source, position + 1, position + read)

\* Mutant: the MAC is not looked at.
AnyMac == TRUE

ExpectedMac == SubSeq(source, MacStart + 1, Len(source)) = MacOver(macRead)

\* The loop of AesReader::new; at its end the MAC, and back to the data.
Verify ==
    /\ reader = "verifying"
    /\ LET read == ReadUntilMac(ChunkSize) IN
       \/ /\ read > 0
          /\ macRead' = macRead \o Chunk(read)
          /\ position' = position + read
          /\ UNCHANGED reader
       \/ /\ read = 0
          /\ reader' = IF ExpectedMac THEN "reading" ELSE "refused"
          /\ position' = IVSize
          /\ UNCHANGED macRead
    /\ UNCHANGED <<source, dec, out, writing>>

\* read_decrypt, which read_to_end calls with buffers of any size: the keystream
\* is applied to the whole buffer, filled or not.
ReadDecrypt(n) ==
    /\ reader = "reading"
    /\ LET read == ReadUntilMac(n) IN
       /\ out' = out \o Decrypt(Chunk(read), dec)
       /\ position' = position + read
       /\ reader' = IF read = 0 THEN "end" ELSE "reading"
    /\ dec' = dec + n
    /\ UNCHANGED <<source, macRead, writing>>

\* The reader is dropped; the file can be read again.
CloseRead ==
    /\ reader \in {"refused", "end"}
    /\ reader' = "none"
    /\ source' = <<>>
    /\ position' = 0
    /\ dec' = 0
    /\ macRead' = <<>>
    /\ out' = <<>>
    /\ UNCHANGED writing

-----------------------------------------------------------------------------
Init ==
    /\ file = <<>>
    /\ writer = "none"
    /\ sent = 0
    /\ buffer = <<>>
    /\ enc = 0
    /\ mac = <<>>
    /\ finalized = FALSE
    /\ failures = 0
    /\ torn = FALSE
    /\ reader = "none"
    /\ source = <<>>
    /\ position = 0
    /\ dec = 0
    /\ macRead = <<>>
    /\ out = <<>>

Next ==
    \/ OpenWrite
    \/ \E n \in 1 .. MaxBytes : Write(n) \/ WriteThrough(n)
    \/ FlushBuffer
    \/ Terminate
    \/ DropBuffer
    \/ Drop
    \/ Die
    \/ \E n \in 0 .. MaxBytes : AtomicWrite(n)
    \/ OpenRead
    \/ Verify
    \/ \E n \in ReadSizes : ReadDecrypt(n)
    \/ CloseRead

Spec == Init /\ [][Next]_vars

-----------------------------------------------------------------------------
(* Properties.                                                               *)

Bytes == 1 .. MaxBytes
Cells(cells) ==
    \A i \in 1 .. Len(cells) :
        \/ cells[i].kind = "iv" /\ cells[i].byte \in 1 .. IVSize
        \/ cells[i].kind = "data" /\ cells[i].byte \in Bytes /\ cells[i].at \in Nat
        \/ cells[i].kind = "mac" /\ cells[i].byte \in 1 .. MacSize

TypeOK ==
    /\ Cells(file) /\ Cells(mac) /\ Cells(source) /\ Cells(macRead)
    /\ writer \in {"none", "failed", "open", "dropping", "closed", "panic", "died"}
    /\ sent \in 0 .. MaxBytes
    /\ Len(buffer) \in 0 .. BufferSize
    /\ enc \in Nat
    /\ finalized \in BOOLEAN
    /\ failures \in 0 .. MaxFailures
    /\ torn \in BOOLEAN
    /\ reader \in {"none", "verifying", "reading", "refused", "end"}
    /\ reader \in {"verifying", "reading"} => position \in IVSize .. MacStart
    /\ dec \in Nat
    /\ \A i \in 1 .. Len(out) : out[i] \in Bytes \cup {Garbage}

\* A file that was finalized, none of whose writes failed, is never refused, and
\* read back in buffers of any sizes it is the plain text: no byte of the IV or
\* of the MAC in it, none lost at the end of a buffer.
ReadBack ==
    finalized /\ failures = 0 /\ source = file =>
        /\ reader # "refused"
        /\ reader \in {"reading", "end"} =>
              \A i \in 1 .. Len(out) : out[i] = i
        /\ reader = "end" => Len(out) = sent

\* A reader returns data only of a file that was finalized, as it is now, and
\* that holds no piece of a write that failed on the way: it refuses what a crash
\* cut off, also in the MAC, and a file whose MAC was tried twice over data.  It
\* does not say that everything the writer was given is there: the drop of an
\* AesWriter seals what has reached the file, so that a writer which is dropped
\* early, in a panic or after a flush that failed before its first byte leaves a
\* shorter file that is accepted.
OnlySealedFiles ==
    reader \in {"reading", "end"} =>
        /\ finalized
        /\ source = file
        /\ ~torn

\* No position of the keystream encrypts two bytes of a file, also when a write
\* fails and the BufWriter tries again.
KeystreamOnce ==
    \A i, j \in 1 .. Len(file) :
        file[i].kind = "data" /\ file[j].kind = "data" /\ i # j => file[i].at # file[j].at

-----------------------------------------------------------------------------
(* The inductive invariant behind them.                                      *)

IsSequence(s) == s \in Seq({s[i] : i \in 1 .. Len(s)})

Sequences ==
    /\ IsSequence(file) /\ IsSequence(mac) /\ IsSequence(buffer)
    /\ IsSequence(source) /\ IsSequence(macRead) /\ IsSequence(out)

\* Before it is opened there is nothing, and only an open writer has a buffer, the
\* last bytes that were sent; a finalized file has them all.
WriterSound ==
    /\ writer = "none" => file = <<>> /\ sent = 0 /\ enc = 0 /\ mac = <<>> /\ ~finalized
    /\ writer \notin {"open", "died"} => buffer = <<>>
    /\ writer = "open" => ~finalized
    /\ finalized => buffer = <<>>
    /\ Len(buffer) <= sent
    /\ \A i \in 1 .. Len(buffer) : buffer[i] = sent - Len(buffer) + i

\* The encryptor is past every position it has used.
Ahead ==
    writer \in {"open", "dropping"} =>
        \A i \in 1 .. Len(file) : file[i].kind = "data" => file[i].at < enc

\* The last byte of a MAC is written when the file is finalized, and never before.
Unfinished(cells) == \A i \in 1 .. Len(cells) : cells[i].kind = "mac" => cells[i].byte # MacSize

\* The bytes that were passed on by the buffer.
Written == sent - Len(buffer)

FirstCells(n) == [i \in 1 .. n |-> DataCell(i, i - 1)]

\* Without failing writes the file is the IV, the data and, at the end, the MAC.
WrittenWhole ==
    writer # "none" /\ failures = 0 =>
        /\ Len(file) = IVSize + Written + (IF finalized THEN MacSize ELSE 0)
        /\ \A i \in 1 .. Written : file[IVSize + i] = DataCell(i, i - 1)
        /\ finalized => \A i \in 1 .. MacSize :
                           file[IVSize + Written + i] = MacOver(FirstCells(Written))[i]
        /\ ~finalized => mac = FirstCells(Written) /\ enc = Written

\* What AesReader::new accepts.
Authentic(cells) ==
    SubSeq(cells, Len(cells) - MacSize + 1, Len(cells))
        = MacOver(SubSeq(cells, IVSize + 1, Len(cells) - MacSize))

\* A reader has read, in order, what lies between the IV and its position; the
\* decryptor is in step until the data ends.
ReaderSound ==
    /\ reader = "none" => source = <<>> /\ dec = 0 /\ macRead = <<>> /\ out = <<>>
    /\ reader = "refused" => ~LongEnough(source) \/ ~Authentic(source)
    /\ reader \in {"verifying", "reading", "end"} =>
          LongEnough(source) /\ position \in IVSize .. MacStart
    /\ reader = "verifying" =>
          /\ macRead = SubSeq(source, IVSize + 1, position)
          /\ out = <<>> /\ dec = 0
    /\ reader \in {"reading", "end"} =>
          /\ Authentic(source)
          /\ Len(out) = position - IVSize
          /\ \A i \in 1 .. Len(out) :
                out[i] = IF source[IVSize + i] = DataCell(source[IVSize + i].byte, i - 1)
                         THEN source[IVSize + i].byte ELSE Garbage
          /\ reader = "reading" /\ position < MacStart => dec = Len(out)
          /\ reader = "end" => position = MacStart

\* What the encrypted file holds, byte for byte.
CellsInv ==
    /\ TypeOK
    /\ Sequences
    /\ WriterSound
    /\ Ahead
    /\ KeystreamOnce
    /\ ~finalized => Unfinished(file)
    /\ Unfinished(source) \/ (finalized /\ source = file)
    /\ WrittenWhole
    /\ ReaderSound

\* The MAC is over less than the file has as soon as a piece of a failed write is
\* in it, and stays so: such a file gets a MAC that no reader accepts.
TornOpen ==
    /\ writer = "none" => ~torn
    /\ writer \in {"open", "dropping"} /\ ~finalized =>
          /\ Len(file) >= IVSize + Len(mac)
          /\ torn => Len(file) > IVSize + Len(mac)

TornRefused == finalized /\ torn => ~Authentic(file)

StreamInv == CellsInv /\ TornOpen /\ TornRefused
=============================================================================
