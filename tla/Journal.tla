------------------------------ MODULE Journal -------------------------------
(***************************************************************************)
(* The flight recorder: one Writer filling a bundle (core/journal/         *)
(* writer.cpp), the disk below it, and a Reader that seeks in the closed   *)
(* bundle (core/journal/reader.cpp).                                       *)
(*                                                                         *)
(* The compressed stream is a sequence of blocks.  A block is known by the *)
(* number of records that can be decoded once it is there, and by whether  *)
(* it ends a zstd frame; an offset is a number of blocks, or of records    *)
(* for the plain text.  The compressor holds records back, stdio holds     *)
(* blocks back, and any write may fail.  An index of which only a part was *)
(* written counts as missing: no proper prefix of its object parses, so    *)
(* the reader refuses both.                                                *)
(***************************************************************************)
EXTENDS Naturals, Sequences

CONSTANTS
  Tier,        \* the tiers of records
  Enabled,     \* those the header enables
  Stride,      \* index_stride_ticks
  MaxTick,     \* bound on ticks
  MaxRecords   \* bound on submissions

ASSUME JournalAssumption ==
  /\ Enabled \subseteq Tier
  /\ Stride \in Nat \ {0} /\ MaxTick \in Nat /\ MaxRecords \in Nat

VARIABLES
  next_id, last_tick, next_index_tick,  \* State, of the same names
  frame_open, entries, closed, error,
  content,   \* the records handed to the compressor
  blocks,    \* the compressed stream, as far as the compressor gave it out
  on_disk,   \* how many of its blocks reached the disk
  indexed,   \* index.json is there, whole, and holds the entries
  crashed,   \* the process died
  flushed,   \* for the properties: the records the last good flush covered
  reader     \* the Reader of the bundle

writerVars == <<next_id, last_tick, next_index_tick, frame_open, entries, closed, error>>
diskVars == <<content, blocks, on_disk, indexed>>
journalVars == <<writerVars, diskVars, crashed, flushed, reader>>

Tick == 0 .. MaxTick
NotOpen == [state |-> "closed", block |-> 0, reset |-> TRUE, line |-> 0, decoded |-> 0,
            skip_below |-> 0, last |-> 0]

JournalInit ==
  /\ next_id = 1 /\ last_tick = 0 /\ next_index_tick = 0
  /\ frame_open = FALSE /\ entries = <<>> /\ closed = FALSE /\ error = FALSE
  /\ content = <<>> /\ blocks = <<>> /\ on_disk = 0 /\ indexed = FALSE
  /\ crashed = FALSE /\ flushed = 0
  /\ reader = NotOpen

Block(upto, ends) == [upto |-> upto, ends |-> ends]

\* The records that can be decoded from the first n blocks.
Decoded(n) == IF n = 0 THEN 0 ELSE blocks[n].upto

-----------------------------------------------------------------------------
Up == ~crashed /\ reader.state = "closed"
Accepts(tick, cause) == tick >= last_tick /\ cause < next_id

\* record() after close(), out of tick order, or citing an id nobody has: the
\* first failure is sticky.  A poisoned writer refuses and changes nothing.
record_refused(tick, cause) ==
  /\ Up /\ ~error
  /\ closed \/ ~Accepts(tick, cause)
  /\ error' = TRUE
  /\ UNCHANGED <<next_id, last_tick, next_index_tick, frame_open, entries, closed,
                 diskVars, crashed, flushed, reader>>

Accepted(tick, cause) ==
  /\ Up /\ ~closed /\ ~error /\ next_id <= MaxRecords
  /\ Accepts(tick, cause)
  /\ next_id' = next_id + 1 /\ last_tick' = tick

\* A tier that is off consumes its id and writes nothing.
record_filtered(tick, tier, cause) ==
  /\ Accepted(tick, cause) /\ tier \notin Enabled
  /\ UNCHANGED <<next_index_tick, frame_open, entries, closed, error,
                 diskVars, crashed, flushed, reader>>

CutsFrame(tick) == entries = <<>> \/ tick >= next_index_tick

\* end_frame: the compressor gives out everything, and the frame ends.
\* Mutant: the last block only flushes.
AfterEndFrame_flush == IF frame_open THEN Append(blocks, Block(Len(content), FALSE)) ELSE blocks

AfterEndFrame == IF frame_open THEN Append(blocks, Block(Len(content), TRUE)) ELSE blocks

\* An index entry and a frame per stride of ticks, then the record itself, of
\* which the compressor gives out as much as it likes.
record_written(tick, tier, cause) ==
  /\ Accepted(tick, cause) /\ tier \in Enabled
  /\ LET stream == IF CutsFrame(tick) THEN AfterEndFrame ELSE blocks
         entry == [tick |-> tick, record_id |-> next_id,
                   offset |-> Len(content), frame_offset |-> Len(stream)] IN
     /\ IF CutsFrame(tick)
          THEN entries' = Append(entries, entry) /\ next_index_tick' = tick + Stride
          ELSE UNCHANGED <<entries, next_index_tick>>
     /\ frame_open' = TRUE
     /\ content' = Append(content, [id |-> next_id, tick |-> tick])
     /\ \/ blocks' = stream
        \/ \E upto \in 1 .. Len(content') :
             /\ stream # <<>> => stream[Len(stream)].upto < upto
             /\ blocks' = Append(stream, Block(upto, FALSE))
  /\ UNCHANGED <<closed, error, on_disk, indexed, crashed, flushed, reader>>

\* The write fails: the id is consumed, and nothing behind the last good block
\* matters to anyone.
record_fails(tick, tier, cause) ==
  /\ Accepted(tick, cause) /\ tier \in Enabled
  /\ error' = TRUE
  /\ UNCHANGED <<next_index_tick, frame_open, entries, closed, diskVars, crashed, flushed, reader>>

\* stdio writes out what it likes, when it likes, the rest with fclose.
stdio_drains ==
  /\ Up
  /\ \E n \in on_disk .. Len(blocks) : on_disk' = n
  /\ UNCHANGED <<writerVars, content, blocks, indexed, crashed, flushed, reader>>

\* The compressor gives out what it holds back, if anything.
Flushed ==
  IF Decoded(Len(blocks)) < Len(content) THEN Append(blocks, Block(Len(content), FALSE)) ELSE blocks

\* Mutant: stdio is not flushed.
flush_compressor ==
  /\ Up /\ ~closed /\ ~error
  /\ blocks' = Flushed
  /\ flushed' = Len(content)
  /\ UNCHANGED <<writerVars, content, on_disk, indexed, crashed, reader>>

flush ==
  /\ Up /\ ~closed /\ ~error
  /\ blocks' = Flushed
  /\ on_disk' = Len(blocks')
  /\ flushed' = Len(content)
  /\ UNCHANGED <<writerVars, content, indexed, crashed, reader>>

flush_fails ==
  /\ Up /\ ~closed /\ ~error
  /\ error' = TRUE
  /\ UNCHANGED <<next_id, last_tick, next_index_tick, frame_open, entries, closed,
                 diskVars, crashed, flushed, reader>>

\* close: the frame ends, the stream closes, and then the index is written.
close ==
  /\ Up /\ ~closed /\ ~error
  /\ closed' = TRUE /\ frame_open' = FALSE
  /\ blocks' = AfterEndFrame
  /\ on_disk' = Len(blocks')
  /\ indexed' = TRUE
  /\ UNCHANGED <<next_id, last_tick, next_index_tick, entries, error, content, crashed, flushed, reader>>

\* A poisoned bundle gets no index, be it poisoned before or in close().
close_poisoned ==
  /\ Up /\ ~closed
  /\ closed' = TRUE /\ frame_open' = FALSE
  /\ error' = TRUE
  /\ UNCHANGED <<next_id, last_tick, next_index_tick, entries, diskVars, crashed, flushed, reader>>

\* The process dies: what stdio held back is lost.
crash ==
  /\ Up
  /\ crashed' = TRUE
  /\ blocks' = SubSeq(blocks, 1, on_disk)
  /\ UNCHANGED <<writerVars, content, on_disk, indexed, flushed, reader>>

-----------------------------------------------------------------------------
\* The reader opens a bundle that has an index which is strictly increasing.
StrictlyIncreasing(list) ==
  \A i, j \in 1 .. Len(list) : i < j =>
    /\ list[i].tick < list[j].tick /\ list[i].record_id < list[j].record_id
    /\ list[i].offset < list[j].offset /\ list[i].frame_offset < list[j].frame_offset

\* A reader whose next line comes from block `block` + 1, with the decoder
\* reset: the lines up to `decoded` are in its buffer, those up to `line` are
\* handed out or skipped.
At(block, tick) ==
  [state |-> "idle", block |-> block, reset |-> TRUE, line |-> Decoded(block),
   decoded |-> Decoded(block), skip_below |-> tick, last |-> 0]

open_reader ==
  /\ reader.state = "closed" /\ (closed \/ crashed) /\ indexed
  /\ reader' = IF StrictlyIncreasing(entries) THEN At(0, 0) ELSE [At(0, 0) EXCEPT !.state = "failed"]
  /\ UNCHANGED <<writerVars, diskVars, crashed, flushed>>

Idle == reader.state = "idle"
Reading == reader.state = "reading"

\* Mutant: the frame after the tick.
SeekFrame_after(tick) ==
  IF \E k \in DOMAIN entries : entries[k].tick >= tick
    THEN entries[CHOOSE k \in DOMAIN entries :
                 entries[k].tick >= tick /\ \A j \in 1 .. k - 1 : entries[j].tick < tick].frame_offset
    ELSE 0

\* The last frame that starts at or before the tick.
SeekFrame(tick) ==
  IF \E k \in DOMAIN entries : entries[k].tick <= tick
    THEN entries[CHOOSE k \in DOMAIN entries :
                 entries[k].tick <= tick /\ \A j \in k + 1 .. Len(entries) : entries[j].tick > tick].frame_offset
    ELSE 0

seek_to_tick(tick) ==
  /\ Idle
  /\ reader' = At(SeekFrame(tick), tick)
  /\ UNCHANGED <<writerVars, diskVars, crashed, flushed>>

next ==
  /\ Idle
  /\ reader' = [reader EXCEPT !.state = "reading"]
  /\ UNCHANGED <<writerVars, diskVars, crashed, flushed>>

\* The next complete line: skipped below the tick sought, else the answer.
take_line ==
  /\ Reading /\ reader.line < reader.decoded
  /\ LET k == reader.line + 1 IN
     reader' = IF content[k].tick < reader.skip_below
                 THEN [reader EXCEPT !.line = k]
                 ELSE [reader EXCEPT !.line = k, !.last = k, !.state = "idle"]
  /\ UNCHANGED <<writerVars, diskVars, crashed, flushed>>

\* A reset decoder needs the first block of a frame.
decode_block ==
  /\ Reading /\ reader.line = reader.decoded /\ reader.block < on_disk
  /\ reader' = IF reader.reset /\ reader.block # 0 /\ ~blocks[reader.block].ends
                 THEN [reader EXCEPT !.state = "failed"]
                 ELSE [reader EXCEPT !.block = @ + 1, !.reset = FALSE,
                                     !.decoded = blocks[reader.block + 1].upto]
  /\ UNCHANGED <<writerVars, diskVars, crashed, flushed>>

at_end ==
  /\ Reading /\ reader.line = reader.decoded /\ reader.block = on_disk
  /\ reader' = IF ~reader.reset /\ ~blocks[reader.block].ends
                 THEN [reader EXCEPT !.state = "failed"]
                 ELSE [reader EXCEPT !.state = "idle"]
  /\ UNCHANGED <<writerVars, diskVars, crashed, flushed>>

-----------------------------------------------------------------------------
Writing ==
  \/ \E tick \in Tick, cause \in {0, next_id} :
       \/ record_refused(tick, cause)
       \/ \E tier \in Tier :
            \/ record_filtered(tick, tier, cause) \/ record_written(tick, tier, cause)
            \/ record_fails(tick, tier, cause)
  \/ stdio_drains \/ flush \/ flush_fails \/ close \/ close_poisoned \/ crash

ReadingBack ==
  \/ open_reader \/ next \/ take_line \/ decode_block \/ at_end
  \/ \E tick \in Tick : seek_to_tick(tick)

JournalNext == Writing \/ ReadingBack

JournalSpec == JournalInit /\ [][JournalNext]_journalVars

-----------------------------------------------------------------------------
\* What a flush that succeeded covered is on the disk from then on, whatever
\* fails or dies later: flush makes "everything submitted so far decompressible
\* on disk (crash durability)" (writer.h), through two buffers.
FlushedSurvives == flushed <= Decoded(on_disk)

\* A frame starts behind block n.
FrameStart(n) == n = 0 \/ blocks[n].ends

\* Each entry is a seek point: a frame starts there, with just this record.
SeekPoint(entry) ==
  /\ FrameStart(entry.frame_offset)
  /\ Decoded(entry.frame_offset) = entry.offset
  /\ content[entry.offset + 1] = [id |-> entry.record_id, tick |-> entry.tick]

\* A bundle that has an index is whole: all of the stream is on the disk and its
\* last frame is complete, and the index is one the reader accepts whose entries
\* are seek points ("a poisoned bundle gets no index", writer.cpp; IndexEntry,
\* bundle.h).
BundleWhole ==
  indexed =>
    /\ on_disk = Len(blocks) /\ FrameStart(on_disk) /\ Decoded(on_disk) = Len(content)
    /\ StrictlyIncreasing(entries)
    /\ \A k \in DOMAIN entries : SeekPoint(entries[k])

\* The reader of a bundle never fails, and each next() gives the first record
\* behind the last one given that is not below the tick sought, or the end
\* when there is none (seek_to_tick, reader.h).
Skipped(from, to) == \A k \in from + 1 .. to : content[k].tick < reader.skip_below
NextIsExact ==
  [][Reading =>
       /\ reader'.state # "failed"
       /\ reader'.last # reader.last =>
            /\ reader'.last > reader.last /\ content[reader'.last].tick >= reader.skip_below
            /\ Skipped(reader.last, reader'.last - 1)
       /\ at_end => Skipped(reader.last, Len(content))]_journalVars
=============================================================================
