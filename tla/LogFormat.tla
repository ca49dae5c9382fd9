------------------------------ MODULE LogFormat ------------------------------
(***************************************************************************)
(* The record format of the write-ahead log and of the MANIFEST:           *)
(* log::Writer (db/log_writer.cc), log::Reader (db/log_reader.cc) and the  *)
(* file between them, byte by byte, with small blocks.                     *)
(*                                                                         *)
(* The writer's machine may crash and cut the file, after which the log is *)
(* opened again for appending (reuse_logs); a write may fail after a part; *)
(* and a byte may be damaged.  Then the file is read.                      *)
(*                                                                         *)
(* A byte of a header says which header it is a part of and a byte of a    *)
(* payload which record it belongs to.  A checksum is taken to detect      *)
(* whatever is not what the writer wrote.                                  *)
(***************************************************************************)
EXTENDS Integers, Sequences, FiniteSets, SequencesExt

CONSTANTS
  kBlockSize, kHeaderSize,
  Lengths,     \* lengths of records
  MaxRecords,  \* bound: records added to the log
  MaxFaults    \* bound: crashes, failed writes and damaged bytes

ASSUME LogAssumption ==
  /\ kHeaderSize \in Nat \ {0} /\ kBlockSize \in Nat /\ kHeaderSize < kBlockSize
  /\ Lengths \subseteq Nat /\ MaxRecords \in Nat /\ MaxFaults \in Nat

VARIABLES
  file,          \* the bytes of the file
  block_offset,  \* block_offset_ of the Writer
  adding,        \* what AddRecord still has to write, Nothing between calls
  added,         \* added[r]: [length, start, end, ok] of the r-th record
  lost,          \* the positions of the file behind a fault up to where it ends
  faults,        \* number of faults so far
  rd             \* the Reader, and the ReadRecord it is executing

vars == <<file, block_offset, adding, added, lost, faults, rd>>
writer == <<block_offset, adding, added, lost, faults>>

Nothing == [left |-> -1, begin |-> FALSE]

Zero == [kind |-> "zero"]
Junk == [kind |-> "junk"]

\* The physical record of type t with the bytes from + 1 .. from + length of
\* record r.
Payload(r, from, length) == [i \in 1..length |-> [kind |-> "data", rec |-> r, i |-> from + i]]

PhysicalRecord(t, r, from, length) ==
  [i \in 1..kHeaderSize |->
     [kind |-> "head", i |-> i, type |-> t, rec |-> r, from |-> from, length |-> length]]
  \o Payload(r, from, length)

BlockEnd(pos) == (pos \div kBlockSize + 1) * kBlockSize

-----------------------------------------------------------------------------
(* Writer *)

\* AddRecord is called.
AddRecord(n) ==
  /\ rd.pc = "closed" /\ adding = Nothing
  /\ Len(added) < MaxRecords
  /\ adding' = [left |-> n, begin |-> TRUE]
  /\ added' = Append(added, [length |-> n, start |-> 0, end |-> 0, ok |-> FALSE])
  /\ UNCHANGED <<file, block_offset, lost, faults, rd>>

\* What one round of the loop of AddRecord writes.
Leftover == kBlockSize - block_offset
Trailer == IF Leftover < kHeaderSize THEN [i \in 1..Leftover |-> Zero] ELSE << >>
FragmentOffset == IF Leftover < kHeaderSize THEN 0 ELSE block_offset
FragmentLength == Min({adding.left, kBlockSize - FragmentOffset - kHeaderSize})
FragmentType ==
  LET end == adding.left = FragmentLength
  IN CASE adding.begin /\ end -> "full"
       [] adding.begin /\ ~end -> "first"
       [] ~adding.begin /\ end -> "last"
       [] OTHER -> "middle"
Fragment ==
  LET r == Len(added)
  IN PhysicalRecord(FragmentType, r, added[r].length - adding.left, FragmentLength)

\* A round of the loop, with EmitPhysicalRecord.
EmitPhysicalRecord ==
  LET r == Len(added)
      left == adding.left - FragmentLength
  IN /\ rd.pc = "closed" /\ adding # Nothing
     /\ file' = file \o Trailer \o Fragment
     /\ block_offset' = FragmentOffset + kHeaderSize + FragmentLength
     /\ adding' = IF left > 0 THEN [left |-> left, begin |-> FALSE] ELSE Nothing
     /\ added' = [added EXCEPT ![r].start = IF adding.begin THEN Len(file) + Len(Trailer) ELSE @,
                               ![r].end = Len(file'),
                               ![r].ok = left = 0]
     /\ UNCHANGED <<lost, faults, rd>>

\* The flush at the end of EmitPhysicalRecord fails when only a part is in the
\* file.  block_offset_ does not know of it.
EmitFails ==
  /\ rd.pc = "closed" /\ adding # Nothing /\ faults < MaxFaults
  /\ \E n \in 0..Len(Trailer \o Fragment) - 1 :
       file' = file \o SubSeq(Trailer \o Fragment, 1, n)
  /\ block_offset' = FragmentOffset + kHeaderSize + FragmentLength
  /\ adding' = Nothing
  /\ lost' = lost \cup (Len(file)..MaxRecords * BlockEnd(BlockEnd(Max(Lengths))))
  /\ faults' = faults + 1
  /\ UNCHANGED <<added, rd>>

\* The machine fails and only n bytes reach the disk; the log is opened again
\* with Writer(dest, dest_length).  The rest of the block is in doubt if n is
\* within a physical record.
CrashAndReopen(n) ==
  LET torn == \E i \in 1..Len(file) : /\ file[i].kind = "head" /\ file[i].i = 1
                                      /\ i <= n /\ n < i - 1 + kHeaderSize + file[i].length
  IN /\ rd.pc = "closed" /\ faults < MaxFaults
     /\ file' = SubSeq(file, 1, n)
     /\ block_offset' = n % kBlockSize
     /\ adding' = Nothing
     /\ added' = [r \in DOMAIN added |-> [added[r] EXCEPT !.ok = @ /\ added[r].end <= n]]
     /\ lost' = lost \cup (IF torn THEN n..BlockEnd(n) - 1 ELSE {})
     /\ faults' = faults + 1
     /\ UNCHANGED rd

Damage(i) ==
  /\ rd.pc = "closed" /\ faults < MaxFaults /\ adding = Nothing
  /\ file' = [file EXCEPT ![i] = Junk]
  /\ lost' = lost \cup (i - 1..BlockEnd(i - 1) - 1)
  /\ faults' = faults + 1
  /\ UNCHANGED <<block_offset, adding, added, rd>>

-----------------------------------------------------------------------------
(* Reader.  The buffer is the bytes of the file from rd.pos + 1 to           *)
(* rd.end_of_buffer, as is scratch a sequence of bytes.                      *)

Size == rd.end_of_buffer - rd.pos

\* Mutant: a block is skipped although an empty fragment may begin at the offset.
InitialBlockTooFar(offset) ==
  LET in_block == offset % kBlockSize
  IN offset - in_block + (IF in_block >= kBlockSize - kHeaderSize THEN kBlockSize ELSE 0)

\* SkipToInitialBlock, as the first ReadRecord calls it.
InitialBlock(offset) ==
  LET in_block == offset % kBlockSize
  IN offset - in_block + (IF in_block > kBlockSize - (kHeaderSize - 1) THEN kBlockSize ELSE 0)

Skipped(offset) ==
  [rd EXCEPT !.initial = offset, !.resyncing = offset > 0,
             !.pos = InitialBlock(offset), !.end_of_buffer = InitialBlock(offset)]

\* ReadRecord is called for the first time.
StartRead(offset) ==
  /\ rd.pc = "closed" /\ adding = Nothing
  /\ rd' = [Skipped(offset) EXCEPT !.pc = "read"]
  /\ UNCHANGED <<file, writer>>

\* ReportDrop.  The difference is unsigned: a negative one is large.
Reported(r, bytes) ==
  [r EXCEPT !.reports = IF r.pos - bytes \in 0..r.initial - 1 THEN @ ELSE @ + 1]

\* Skip fails, and the first ReadRecord returns false.
SkipFails(offset) ==
  /\ rd.pc = "closed" /\ adding = Nothing /\ faults < MaxFaults
  /\ InitialBlock(offset) > 0
  /\ rd' = [Reported(Skipped(offset), InitialBlock(offset)) EXCEPT !.pc = "failed"]
  /\ faults' = faults + 1
  /\ UNCHANGED <<file, block_offset, adding, added, lost>>

\* ReadPhysicalRecord reads the next block, and skips what is left of this one.
ReadBlock ==
  LET n == Max({0, Min({kBlockSize, Len(file) - rd.end_of_buffer})})
  IN /\ rd.pc = "read" /\ Size < kHeaderSize /\ ~rd.eof
     /\ rd' = [rd EXCEPT !.pos = rd.end_of_buffer, !.end_of_buffer = @ + n,
                         !.eof = n < kBlockSize]
     /\ UNCHANGED <<file, writer>>

\* Mutant: a record without an end is reported.
EndOfFileReports ==
  /\ rd.pc = "read" /\ Size < kHeaderSize /\ rd.eof
  /\ rd' = [rd EXCEPT !.pc = "done", !.scratch = << >>,
                      !.reports = IF rd.fragmented THEN @ + 1 ELSE @]
  /\ UNCHANGED <<file, writer>>

\* Read fails: it counts as the end of the file, and a block is reported missing.
ReadFails ==
  /\ rd.pc = "read" /\ Size < kHeaderSize /\ ~rd.eof /\ faults < MaxFaults
  /\ rd' = [Reported([rd EXCEPT !.pos = rd.end_of_buffer], kBlockSize) EXCEPT
              !.pc = "failed", !.eof = TRUE]
  /\ faults' = faults + 1
  /\ UNCHANGED <<file, block_offset, adding, added, lost>>

\* ReadRecord returns false.
EndOfFile ==
  /\ rd.pc = "read" /\ Size < kHeaderSize /\ rd.eof
  /\ rd' = [rd EXCEPT !.pc = "done", !.scratch = << >>]
  /\ UNCHANGED <<file, writer>>

\* What ReadRecord does with each kind of physical record; p is its position.
Returned(r, bytes, at) ==
  [r EXCEPT !.out = Append(@, [bytes |-> bytes, at |-> at]),
            !.scratch = << >>, !.fragmented = FALSE]

Dropped(r, bytes) == IF r.fragmented /\ r.scratch # << >> THEN Reported(r, bytes) ELSE r

\* Mutant: a bad physical record does not end the record that was begun.
DispatchKeepsScratch(r, type, fragment, p) ==
  CASE type = "full" -> Returned(r, fragment, p)
    [] type = "first" -> [r EXCEPT !.scratch = fragment, !.fragmented = TRUE, !.prospective = p]
    [] type = "middle" /\ r.fragmented -> [r EXCEPT !.scratch = @ \o fragment]
    [] type = "last" /\ r.fragmented -> Returned(r, r.scratch \o fragment, r.prospective)
    [] OTHER -> r

Dispatch(r, type, fragment, p) ==
  CASE r.resyncing /\ type = "middle" -> r
    [] r.resyncing /\ type = "last" -> [r EXCEPT !.resyncing = FALSE]
    [] OTHER ->
       LET q == [r EXCEPT !.resyncing = FALSE]
       IN CASE type = "full" -> Returned(Dropped(q, Len(q.scratch)), fragment, p)
            [] type = "first" ->
                 [Dropped(q, Len(q.scratch)) EXCEPT
                    !.scratch = fragment, !.fragmented = TRUE, !.prospective = p]
            [] type \in {"middle", "last"} /\ ~q.fragmented -> Reported(q, Len(fragment))
            [] type = "middle" /\ q.fragmented -> [q EXCEPT !.scratch = @ \o fragment]
            [] type = "last" /\ q.fragmented ->
                 Returned(q, q.scratch \o fragment, q.prospective)
            [] type = "bad" ->
                 [(IF q.fragmented THEN Reported(q, Len(q.scratch)) ELSE q) EXCEPT
                    !.fragmented = FALSE, !.scratch = << >>]

\* The header at the start of the buffer, if one is there whole
Header == SubSeq(file, rd.pos + 1, rd.pos + kHeaderSize)
IsHeader == \A i \in 1..kHeaderSize :
              Header[i].kind = "head" /\ Header[i] = [Header[1] EXCEPT !.i = i]

Cleared == [rd EXCEPT !.pos = rd.end_of_buffer]

\* ReadPhysicalRecord finds a header of the writer.
ReadFragment ==
  LET h == Header[1]
      n == kHeaderSize + h.length
      bytes == SubSeq(file, rd.pos + kHeaderSize + 1, rd.pos + n)
      next == [rd EXCEPT !.pos = @ + n]
  IN /\ rd.pc = "read" /\ Size >= kHeaderSize /\ IsHeader
     /\ rd' = CASE n > Size /\ rd.eof -> [Cleared EXCEPT !.pc = "done", !.scratch = << >>]
                [] n > Size /\ ~rd.eof -> Dispatch(Reported(Cleared, Size), "bad", << >>, 0)
                [] n <= Size /\ bytes # Payload(h.rec, h.from, h.length) ->
                     Dispatch(Reported(Cleared, Size), "bad", << >>, 0)
                [] n <= Size /\ bytes = Payload(h.rec, h.from, h.length) ->
                     IF rd.pos < rd.initial THEN Dispatch(next, "bad", << >>, 0)
                     ELSE Dispatch(next, h.type, bytes, rd.pos)
     /\ UNCHANGED <<file, writer>>

\* It finds something else: zeros are skipped, and a length that is not one is too
\* large or comes with a wrong checksum.
ReadGarbage ==
  /\ rd.pc = "read" /\ Size >= kHeaderSize /\ ~IsHeader
  /\ \/ rd' = Dispatch(Cleared, "bad", << >>, 0)
     \/ /\ \E i \in 1..kHeaderSize : Header[i] # Zero
        /\ rd' = Dispatch(Reported(Cleared, Size), "bad", << >>, 0)
     \/ /\ \E i \in 1..kHeaderSize : Header[i] # Zero
        /\ rd.eof
        /\ rd' = [Cleared EXCEPT !.pc = "done", !.scratch = << >>]
  /\ UNCHANGED <<file, writer>>

-----------------------------------------------------------------------------
Init ==
  /\ file = << >> /\ block_offset = 0 /\ adding = Nothing /\ added = << >>
  /\ lost = {} /\ faults = 0
  /\ rd = [pc |-> "closed", pos |-> 0, end_of_buffer |-> 0, eof |-> FALSE, initial |-> 0,
           resyncing |-> FALSE, fragmented |-> FALSE, scratch |-> << >>, prospective |-> 0,
           out |-> << >>, reports |-> 0]

\* The program reads with an initial offset of 0; any other is for an intact file.
Next ==
  \/ \E n \in Lengths : AddRecord(n)
  \/ EmitPhysicalRecord \/ EmitFails
  \/ \E n \in 0..Len(file) : CrashAndReopen(n)
  \/ \E i \in 1..Len(file) : Damage(i)
  \/ \E offset \in 0..(IF faults = 0 THEN Len(file) ELSE 0) :
       StartRead(offset) \/ SkipFails(offset)
  \/ ReadBlock \/ ReadFails \/ EndOfFile \/ ReadFragment \/ ReadGarbage

Spec == Init /\ [][Next]_vars

-----------------------------------------------------------------------------
(* Properties *)

IsRecord(o, r) ==
  /\ o.bytes = Payload(r, 0, added[r].length)
  /\ o.at = added[r].start

\* Whatever happened to the file, ReadRecord returns whole records that were
\* added, in their order and none twice, and LastRecordOffset is where they are:
\* fragments of different records are never put together.
OnlyWholeRecords ==
  \E f \in [1..Len(rd.out) -> 1..Len(added)] :
    \A i \in 1..Len(rd.out) :
      /\ IsRecord(rd.out[i], f[i])
      /\ i > 1 => f[i - 1] < f[i]

\* A damaged byte or a cut costs the rest of its block and no more: every record
\* that is whole and touches no position there is returned, if it is not before
\* the initial offset.  A failed write, after which block_offset_ is wrong, may
\* cost everything behind it, but nothing before it.
DamageIsLocal ==
  rd.pc = "done" =>
    \A r \in 1..Len(added) :
      LET a == added[r]
      IN a.ok /\ a.start >= rd.initial /\ (a.start..a.end - 1) \cap lost = {}
           => \E i \in 1..Len(rd.out) : IsRecord(rd.out[i], r)

\* The comments at kEof: a log that ends in the middle of a record, because the
\* writer died, is read without reporting a corruption.  (A write that failed
\* half way and was the last leaves the same bytes as a cut.)
CutIsSilent ==
  (/\ rd.initial = 0 /\ rd.pc # "failed"
   /\ \A p \in lost : p >= Len(file)
   /\ \A r \in 1..Len(added) - 1 : added[r].ok)
  => rd.reports = 0

\* The comment on Reporter in db/log_reader.h: it is told of data dropped "due to
\* a detected corruption", so an intact file gives no report.
NoFalseReports == faults = 0 => rd.reports = 0
=============================================================================
