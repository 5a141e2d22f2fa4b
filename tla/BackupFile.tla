------------------------------ MODULE BackupFile ------------------------------
(* The encrypted form of a backup (pkg/backupfile/backupfile.go): a header, *)
(* then chunks, each sealed under its index and whether it is the last.     *)
(* AES-GCM is ideal: a block opens when it is exactly what was sealed under *)
(* that index, that marker and that header.  A byte of the file is named    *)
(* after where it came from, so that the file can be cut anywhere.          *)
EXTENDS Naturals, Sequences, FiniteSets

CONSTANTS ChunkSize, TagSize, HeaderSize, MaxPlain

ASSUME BackupFileAssumption ==
  {ChunkSize, TagSize, HeaderSize} \subseteq Nat \ {0} /\ MaxPlain \in Nat

VARIABLES
  fpc,       \* "write", "closed", "read", "eof" or "error"
  plain,     \* bytes written so far
  buf,       \* bytes in the Writer's buffer
  chunks,    \* what was sealed: a sequence of [len, last]
  cut,       \* how many bytes of the file are left to read from, header included
  chunkNo,   \* Reader.index
  out        \* bytes handed out

fileVars == <<fpc, plain, buf, chunks, cut, chunkNo, out>>

FileInit ==
  /\ fpc = "write" /\ plain = 0 /\ buf = 0 /\ chunks = <<>>
  /\ cut = 0 /\ chunkNo = 0 /\ out = 0

Seal(last) == Append(chunks, [len |-> buf, last |-> last])

(* Writer.Write, a byte at a time: however the bytes are grouped, the loop  *)
(* fills the buffer, and seals a full one only when more arrives.           *)
Write ==
  /\ fpc = "write" /\ plain < MaxPlain
  /\ plain' = plain + 1
  /\ IF buf = ChunkSize THEN chunks' = Seal(FALSE) /\ buf' = 1
     ELSE buf' = buf + 1 /\ UNCHANGED chunks
  /\ UNCHANGED <<fpc, cut, chunkNo, out>>

(* Writer.Close: what is left is the last chunk, even when it is nothing.   *)
Close ==
  /\ fpc = "write" /\ fpc' = "closed" /\ chunks' = Seal(TRUE) /\ buf' = 0
  /\ UNCHANGED <<plain, cut, chunkNo, out>>

SumOf[k \in Nat] == IF k = 0 THEN 0 ELSE SumOf[k - 1] + IF k \in DOMAIN chunks THEN chunks[k].len + TagSize ELSE 0
FileSize == HeaderSize + SumOf[Len(chunks)]

(* NewReader on the file, whole or cut anywhere; without a header it does   *)
(* not begin.                                                               *)
OpenFile ==
  /\ fpc = "closed" /\ cut' \in 0..FileSize
  /\ fpc' = IF cut' < HeaderSize THEN "error" ELSE "read"
  /\ UNCHANGED <<plain, buf, chunks, chunkNo, out>>

(* The bytes are a chunk: its index, its length and its marker.             *)
SealedAs(i, n, last) == i <= Len(chunks) /\ chunks[i] = [len |-> n - TagSize, last |-> last]

(* Reader.open: as much as a chunk takes, the last one if the file ends     *)
(* with it.                                                                 *)
ReadChunk ==
  /\ fpc = "read"
  /\ LET from == HeaderSize + SumOf[chunkNo]
         there == IF cut < from THEN 0 ELSE cut - from
         n == IF there < ChunkSize + TagSize THEN there ELSE ChunkSize + TagSize
         last == there <= ChunkSize + TagSize
     IN IF n >= TagSize /\ SealedAs(chunkNo + 1, n, last)
        THEN /\ out' = out + n - TagSize /\ chunkNo' = chunkNo + 1
             /\ fpc' = IF last THEN "eof" ELSE "read"
        ELSE fpc' = "error" /\ UNCHANGED <<out, chunkNo>>
  /\ UNCHANGED <<plain, buf, chunks, cut>>

(* PlainSize; NoSize for its second result.                                 *)
NoSize == MaxPlain + 1
PlainSize(size) ==
  IF size < HeaderSize + TagSize THEN NoSize
  ELSE LET body == size - HeaderSize
           full == body \div (ChunkSize + TagSize)
           rest == body % (ChunkSize + TagSize)
       IN IF rest = 0 THEN full * ChunkSize
          ELSE IF rest < TagSize \/ (rest = TagSize /\ full > 0) THEN NoSize
          ELSE full * ChunkSize + rest - TagSize

FileNext == Write \/ Close \/ OpenFile \/ ReadChunk
FileSpec == FileInit /\ [][FileNext]_fileVars

(* A caller that reads to the end without an error has read everything that *)
(* was written, wherever the file was cut; whole files do not fail.         *)
ReadsEverything ==
  /\ fpc = "eof" => out = plain
  /\ fpc = "error" => cut < FileSize

(* The size of a file says how much it holds, for every file the Writer     *)
(* writes, and a cut file never passes for a whole one of another size      *)
(* holding as much.                                                         *)
SizeSaysIt ==
  fpc # "write" =>
    /\ PlainSize(FileSize) = plain
    /\ \A s \in 0..(FileSize - 1) : PlainSize(s) \in 0..(plain - 1) \cup {NoSize}

(* A file of a backup is read to its end or fails, and its size says what  *)
(* it holds (Writer, Reader, PlainSize).                                   *)
FileSafe == ReadsEverything /\ SizeSaysIt
=============================================================================
