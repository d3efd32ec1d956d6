---------------------------- MODULE TimelineProofs ----------------------------
(***************************************************************************)
(* Two things that are written in the order of ticks.                      *)
(*                                                                         *)
(* The journal: its writer keeps what it flushed and indexes only whole    *)
(* bundles, and its reader gives every record that was asked for, in       *)
(* order, for every choice of tiers, every stride and every bound.         *)
(*                                                                         *)
(* The sheet of a sequence: for every authored sheet its items fire in     *)
(* order, each once, and its spans are open where the playhead is.         *)
(*                                                                         *)
(* The two modules have nothing in common but this file.                   *)
(***************************************************************************)
EXTENDS Journal, Sequence, SublistProofs

-----------------------------------------------------------------------------
\* The journal.

Entry == [tick : Nat, record_id : Nat, offset : Nat, frame_offset : Nat]
BlockType == [upto : Nat, ends : BOOLEAN]

JournalTypeOK ==
  /\ next_id \in Nat /\ last_tick \in Nat /\ next_index_tick \in Nat
  /\ frame_open \in BOOLEAN /\ closed \in BOOLEAN /\ error \in BOOLEAN
  /\ indexed \in BOOLEAN /\ crashed \in BOOLEAN
  /\ entries \in Seq(Entry)
  /\ content \in Seq([id : Nat, tick : Nat])
  /\ on_disk \in 0 .. Len(blocks) /\ flushed \in Nat

\* A stream of blocks that decodes more and more, and never more than n.
Stream(s, n) ==
  /\ s \in Seq(BlockType)
  /\ \A i, j \in 1 .. Len(s) : i <= j => s[i].upto <= s[j].upto
  /\ \A i \in 1 .. Len(s) : s[i].upto <= n

\* The stream s goes on where blocks ends.
Continues(s) ==
  /\ Len(blocks) <= Len(s)
  /\ \A i \in 1 .. Len(blocks) : s[i] = blocks[i]

\* A frame is open from the first record to close, and before it there is
\* nothing.
FirstRecordOpens ==
  /\ ~closed => (frame_open <=> entries # <<>>)
  /\ ~crashed /\ entries = <<>> => content = <<>> /\ blocks = <<>>

\* Whatever entry comes next is above all the others in every field.
EntryBelow(entry) ==
  /\ entry.tick < next_index_tick /\ entry.record_id < next_id
  /\ entry.offset < Len(content) /\ entry.frame_offset <= Len(blocks)

EntriesSeek ==
  /\ StrictlyIncreasing(entries)
  /\ \A k \in DOMAIN entries : EntryBelow(entries[k]) /\ SeekPoint(entries[k])

JournalInv ==
  /\ JournalTypeOK /\ Stream(blocks, Len(content)) /\ FirstRecordOpens
  /\ ~crashed => EntriesSeek
  /\ FlushedSurvives
  /\ indexed => closed
  /\ BundleWhole

-----------------------------------------------------------------------------
\* The blocks of a stream.
LEMMA StreamElements ==
  ASSUME NEW s, NEW n, Stream(s, n)
  PROVE  /\ s \in Seq(BlockType) /\ Len(s) \in Nat
         /\ \A i \in 1 .. Len(s) : s[i] \in BlockType /\ s[i].upto \in Nat /\ s[i].upto <= n
<1>1. s \in Seq(BlockType) /\ Len(s) \in Nat
  BY DEF Stream
<1>2. \A i \in 1 .. Len(s) : s[i] \in BlockType
  BY <1>1, ElementOfSeq
<1>3. \A b \in BlockType : b.upto \in Nat
  BY DEF BlockType
<1>. QED BY <1>1, <1>2, <1>3 DEF Stream

\* One more block.
LEMMA AppendStream ==
  ASSUME NEW m \in Nat, NEW n \in Nat, m <= n, NEW s, Stream(s, m),
         NEW b \in BlockType, b.upto <= n, \A i \in 1 .. Len(s) : s[i].upto <= b.upto
  PROVE  /\ Stream(Append(s, b), n)
         /\ Len(Append(s, b)) = Len(s) + 1
         /\ \A i \in 1 .. Len(s) : Append(s, b)[i] = s[i]
         /\ Append(s, b)[Len(s) + 1] = b
<1> DEFINE t == Append(s, b)
<1>1. /\ s \in Seq(BlockType) /\ Len(s) \in Nat
      /\ \A i \in 1 .. Len(s) : s[i] \in BlockType /\ s[i].upto \in Nat
      /\ b.upto \in Nat
  BY StreamElements DEF BlockType
<1>2. /\ t \in Seq(BlockType) /\ Len(t) = Len(s) + 1
      /\ \A i \in 1 .. Len(s) : t[i] = s[i]
      /\ t[Len(s) + 1] = b
  BY <1>1
<1>. HIDE DEF t
<1>3. ASSUME NEW i \in 1 .. Len(t), NEW j \in 1 .. Len(t), i <= j
      PROVE  t[i].upto <= t[j].upto
  <2>1. CASE j \in 1 .. Len(s)
    BY <2>1, <1>1, <1>2, <1>3 DEF Stream
  <2>2. CASE j = Len(s) + 1 /\ i \in 1 .. Len(s)
    BY <2>2, <1>1, <1>2
  <2>3. CASE j = Len(s) + 1 /\ i = Len(s) + 1
    BY <2>3, <1>1, <1>2
  <2>. QED BY <2>1, <2>2, <2>3, <1>1, <1>2
<1>4. ASSUME NEW i \in 1 .. Len(t) PROVE t[i].upto <= n
  <2>1. CASE i \in 1 .. Len(s)
    <3>1. t[i].upto = s[i].upto /\ s[i].upto <= m /\ s[i].upto \in Nat
      BY <2>1, <1>1, <1>2 DEF Stream
    <3>. QED BY <3>1
  <2>2. CASE i = Len(s) + 1
    BY <2>2, <1>2
  <2>. QED BY <2>1, <2>2, <1>1, <1>2
<1>. QED BY <1>2, <1>3, <1>4 DEF t, Stream

\* What end_frame leaves: everything submitted is decoded, and a frame may
\* start behind it.
LEMMA EndFrameWhole ==
  ASSUME JournalInv, ~crashed, ~closed
  PROVE  /\ Stream(AfterEndFrame, Len(content)) /\ Continues(AfterEndFrame)
         /\ frame_open => Len(AfterEndFrame) = Len(blocks) + 1
         /\ Len(AfterEndFrame) = 0 => content = <<>>
         /\ Len(AfterEndFrame) # 0 => /\ AfterEndFrame[Len(AfterEndFrame)].ends
                                      /\ AfterEndFrame[Len(AfterEndFrame)].upto = Len(content)
<1>1. /\ Stream(blocks, Len(content)) /\ Len(content) \in Nat /\ Len(blocks) \in Nat
      /\ frame_open \in BOOLEAN
      /\ ~frame_open => blocks = <<>> /\ content = <<>> /\ Len(blocks) = 0
  BY DEF JournalInv, JournalTypeOK, FirstRecordOpens, Stream
<1>2. CASE frame_open
  <2> DEFINE b == Block(Len(content), TRUE)
  <2>1. b \in BlockType /\ b.upto = Len(content) /\ b.ends
    BY <1>1 DEF Block, BlockType
  <2>2. AfterEndFrame = Append(blocks, b)
    BY <1>2 DEF AfterEndFrame
  <2>. HIDE DEF b
  <2>3. /\ Stream(AfterEndFrame, Len(content))
        /\ Len(AfterEndFrame) = Len(blocks) + 1
        /\ \A i \in 1 .. Len(blocks) : AfterEndFrame[i] = blocks[i]
        /\ AfterEndFrame[Len(blocks) + 1] = b
    <3>1. \A i \in 1 .. Len(blocks) : blocks[i].upto <= b.upto
      BY <1>1, <2>1 DEF Stream
    <3>. QED BY <1>1, <2>1, <2>2, <3>1, AppendStream
  <2>. QED BY <1>1, <1>2, <2>1, <2>3 DEF Continues
<1>3. CASE ~frame_open
  <2>1. AfterEndFrame = blocks
    BY <1>3 DEF AfterEndFrame
  <2>. QED BY <1>1, <1>3, <2>1 DEF Continues
<1>. QED BY <1>1, <1>2, <1>3

\* What flush leaves: everything submitted is decoded.
LEMMA FlushedWhole ==
  ASSUME JournalInv
  PROVE  /\ Stream(Flushed, Len(content)) /\ Continues(Flushed)
         /\ Len(content) = IF Len(Flushed) = 0 THEN 0 ELSE Flushed[Len(Flushed)].upto
<1>1. /\ Stream(blocks, Len(content)) /\ Len(content) \in Nat /\ Len(blocks) \in Nat
      /\ \A i \in 1 .. Len(blocks) : blocks[i].upto \in Nat
  BY StreamElements DEF JournalInv, JournalTypeOK
<1>2. CASE Decoded(Len(blocks)) < Len(content)
  <2> DEFINE b == Block(Len(content), FALSE)
  <2>1. b \in BlockType /\ b.upto = Len(content)
    BY <1>1 DEF Block, BlockType
  <2>2. Flushed = Append(blocks, b)
    BY <1>2 DEF Flushed
  <2>. HIDE DEF b
  <2>3. /\ Stream(Flushed, Len(content))
        /\ Len(Flushed) = Len(blocks) + 1
        /\ \A i \in 1 .. Len(blocks) : Flushed[i] = blocks[i]
        /\ Flushed[Len(blocks) + 1] = b
    <3>1. \A i \in 1 .. Len(blocks) : blocks[i].upto <= b.upto
      BY <1>1, <2>1 DEF Stream
    <3>. QED BY <1>1, <2>1, <2>2, <3>1, AppendStream
  <2>. QED BY <1>1, <2>1, <2>3 DEF Continues
<1>3. CASE ~(Decoded(Len(blocks)) < Len(content))
  <2>1. Flushed = blocks
    BY <1>3 DEF Flushed
  <2>2. Len(content) = Decoded(Len(blocks))
    BY <1>1, <1>3 DEF Decoded, Stream
  <2>. QED BY <1>1, <2>1, <2>2 DEF Continues, Decoded
<1>. QED BY <1>2, <1>3

\* What the blocks and the records there are say, they say still when more
\* are added.
LEMMA GrowthKeeps ==
  ASSUME JournalInv, Continues(blocks'), blocks' \in Seq(BlockType),
         content' \in Seq([id : Nat, tick : Nat]), Len(content) <= Len(content'),
         \A k \in 1 .. Len(content) : content'[k] = content[k]
  PROVE  /\ \A n \in 0 .. Len(blocks) :
              /\ Decoded(n)' = Decoded(n)
              /\ FrameStart(n)' = FrameStart(n)
         /\ \A entry \in Entry :
              entry.offset < Len(content) /\ entry.frame_offset <= Len(blocks) /\ SeekPoint(entry)
                => SeekPoint(entry)'
<1>1. /\ Len(blocks) \in Nat /\ Len(content) \in Nat /\ Len(blocks') \in Nat
      /\ Len(blocks) <= Len(blocks')
      /\ \A i \in 1 .. Len(blocks) : blocks'[i] = blocks[i]
  BY StreamElements DEF JournalInv, JournalTypeOK, Continues
<1>2. ASSUME NEW n \in 0 .. Len(blocks)
      PROVE  Decoded(n)' = Decoded(n) /\ FrameStart(n)' = FrameStart(n)
  <2>1. n # 0 => blocks'[n] = blocks[n]
    BY <1>1
  <2>. QED BY <2>1 DEF Decoded, FrameStart
<1>3. ASSUME NEW entry \in Entry, entry.offset < Len(content), entry.frame_offset <= Len(blocks),
             SeekPoint(entry)
      PROVE  SeekPoint(entry)'
  <2>1. entry.offset \in Nat /\ entry.frame_offset \in Nat
    BY DEF Entry
  <2>2. entry.frame_offset \in 0 .. Len(blocks) /\ entry.offset + 1 \in 1 .. Len(content)
    BY <2>1, <1>1, <1>3, SMTT(30)
  <2>3. content'[entry.offset + 1] = content[entry.offset + 1]
    BY <2>2
  <2>. QED BY <2>2, <2>3, <1>2, <1>3 DEF SeekPoint
<1>. QED BY <1>2, <1>3

\* A step that leaves the stream, the entries and the disk alone.
LEMMA RestKeeps ==
  ASSUME JournalInv,
         UNCHANGED <<next_index_tick, frame_open, entries, content, blocks, on_disk,
                     indexed, crashed, flushed>>,
         next_id' \in Nat, next_id <= next_id', last_tick' \in Nat,
         error' \in BOOLEAN, closed' = closed
  PROVE  JournalInv'
<1>1. JournalTypeOK'
  BY DEF JournalInv, JournalTypeOK
<1>2. ASSUME ~crashed PROVE EntriesSeek'
  <2>1. EntriesSeek
    BY <1>2 DEF JournalInv
  <2>2. ASSUME NEW k \in DOMAIN entries PROVE EntryBelow(entries[k])'
    <3>1. entries[k] \in Entry
      BY ElementOfSeq DEF JournalInv, JournalTypeOK
    <3>2. entries[k].record_id \in Nat /\ next_id \in Nat
      BY <3>1 DEF JournalInv, JournalTypeOK, Entry
    <3>. QED BY <2>1, <3>2 DEF EntriesSeek, EntryBelow
  <2>3. StrictlyIncreasing(entries)' /\ \A k \in DOMAIN entries : SeekPoint(entries[k])'
    BY <2>1 DEF EntriesSeek, StrictlyIncreasing, SeekPoint, FrameStart, Decoded
  <2>. QED BY <2>2, <2>3 DEF EntriesSeek
<1>3. /\ Stream(blocks, Len(content))' /\ FirstRecordOpens' /\ FlushedSurvives'
      /\ (indexed => closed)'
  BY DEF JournalInv, Stream, FirstRecordOpens, FlushedSurvives, Decoded
<1>4. BundleWhole'
  BY DEF JournalInv, BundleWhole, FrameStart, Decoded, StrictlyIncreasing, SeekPoint
<1>. QED BY <1>1, <1>2, <1>3, <1>4 DEF JournalInv

-----------------------------------------------------------------------------
\* A record that is written, with the entry and the frame it may begin.
LEMMA WrittenKeeps ==
  ASSUME JournalInv, NEW tick \in Tick, NEW tier \in Tier, NEW cause \in Nat,
         record_written(tick, tier, cause)
  PROVE  JournalInv'
<1> DEFINE n == Len(content)
           stream == IF CutsFrame(tick) THEN AfterEndFrame ELSE blocks
           entry == [tick |-> tick, record_id |-> next_id, offset |-> n, frame_offset |-> Len(stream)]
           rec == [id |-> next_id, tick |-> tick]
<1>1. /\ ~crashed /\ ~closed /\ ~error /\ tick \in Nat
      /\ next_id' = next_id + 1 /\ last_tick' = tick
      /\ frame_open' = TRUE /\ content' = Append(content, rec)
      /\ UNCHANGED <<closed, error, on_disk, indexed, crashed, flushed>>
  BY DEF record_written, Accepted, Up, Tick
<1>2. /\ JournalTypeOK /\ EntriesSeek /\ FirstRecordOpens /\ Stream(blocks, n)
      /\ n \in Nat /\ Len(blocks) \in Nat /\ next_id \in Nat /\ next_index_tick \in Nat
      /\ ~indexed /\ Stride \in Nat \ {0}
  BY <1>1, JournalAssumption DEF JournalInv, JournalTypeOK, Stream
<1>3. Stream(stream, n) /\ Continues(stream) /\ Len(stream) \in Nat
  BY <1>1, <1>2, EndFrameWhole, StreamElements DEF Continues
<1>4. /\ CutsFrame(tick) => entries' = Append(entries, entry) /\ next_index_tick' = tick + Stride
      /\ ~CutsFrame(tick) => UNCHANGED <<entries, next_index_tick>>
  BY DEF record_written
<1>5. \/ blocks' = stream
      \/ \E upto \in 1 .. Len(content') :
           /\ stream # <<>> => stream[Len(stream)].upto < upto
           /\ blocks' = Append(stream, Block(upto, FALSE))
  BY DEF record_written
<1>6. /\ CutsFrame(tick) /\ frame_open => Len(stream) = Len(blocks) + 1
      /\ CutsFrame(tick) /\ Len(stream) = 0 => content = <<>>
      /\ CutsFrame(tick) /\ Len(stream) # 0 =>
           stream[Len(stream)].ends /\ stream[Len(stream)].upto = n
  BY <1>1, EndFrameWhole
<1>. HIDE DEF stream
<1>7. /\ content' \in Seq([id : Nat, tick : Nat]) /\ Len(content') = n + 1
      /\ \A k \in 1 .. n : content'[k] = content[k]
      /\ content'[n + 1] = rec
  <2>1. rec \in [id : Nat, tick : Nat] /\ content \in Seq([id : Nat, tick : Nat])
    BY <1>1, <1>2 DEF JournalTypeOK
  <2>. QED BY <1>1, <2>1
<1>8. /\ Stream(blocks', n + 1) /\ Len(stream) <= Len(blocks')
      /\ \A i \in 1 .. Len(stream) : blocks'[i] = stream[i]
  <2>1. CASE blocks' = stream
    <3>1. \A i \in 1 .. Len(stream) : stream[i].upto <= n + 1
      BY <1>2, <1>3, StreamElements
    <3>. QED BY <2>1, <1>3, <3>1 DEF Stream
  <2>2. ASSUME NEW upto \in 1 .. Len(content'),
               stream # <<>> => stream[Len(stream)].upto < upto,
               blocks' = Append(stream, Block(upto, FALSE))
        PROVE  /\ Stream(blocks', n + 1) /\ Len(stream) <= Len(blocks')
               /\ \A i \in 1 .. Len(stream) : blocks'[i] = stream[i]
    <3> DEFINE b == Block(upto, FALSE)
    <3>1. b \in BlockType /\ b.upto = upto /\ upto \in Nat /\ upto <= n + 1
      BY <1>2, <1>7 DEF Block, BlockType
    <3>2. \A i \in 1 .. Len(stream) : stream[i].upto <= upto
      <4>1. Len(stream) # 0 => stream # <<>> /\ stream[Len(stream)].upto \in Nat
        BY <1>3, StreamElements
      <4>2. \A i \in 1 .. Len(stream) : stream[i].upto \in Nat /\ stream[i].upto <= stream[Len(stream)].upto
        BY <1>3, StreamElements DEF Stream
      <4>. QED BY <4>1, <4>2, <1>3, <2>2, <3>1
    <3>3. blocks' = Append(stream, b)
      BY <2>2
    <3>. HIDE DEF b
    <3>4. /\ Stream(Append(stream, b), n + 1) /\ Len(Append(stream, b)) = Len(stream) + 1
          /\ \A i \in 1 .. Len(stream) : Append(stream, b)[i] = stream[i]
      BY <1>2, <1>3, <3>1, <3>2, AppendStream
    <3>. QED BY <3>3, <3>4, <1>3
  <2>. QED BY <1>5, <2>1, <2>2
<1>9. blocks' \in Seq(BlockType) /\ Continues(blocks') /\ Len(blocks') \in Nat
  BY <1>2, <1>3, <1>8, StreamElements DEF Continues
<1>10. /\ \A m \in 0 .. Len(blocks) : Decoded(m)' = Decoded(m) /\ FrameStart(m)' = FrameStart(m)
       /\ \A e \in Entry :
            e.offset < Len(content) /\ e.frame_offset <= Len(blocks) /\ SeekPoint(e) => SeekPoint(e)'
  <2>1. Len(content) <= Len(content')
    BY <1>2, <1>7
  <2>. QED BY <1>7, <1>9, <2>1, GrowthKeeps
<1>11. entry \in Entry
  BY <1>1, <1>2, <1>3 DEF Entry
<1>12. JournalTypeOK'
  <2>1. entries' \in Seq(Entry) /\ next_index_tick' \in Nat
    <3>1. entries \in Seq(Entry)
      BY <1>2 DEF JournalTypeOK
    <3>. HIDE DEF entry
    <3>2. Append(entries, entry) \in Seq(Entry) /\ tick + Stride \in Nat
      BY <1>1, <1>2, <1>11, <3>1
    <3>. QED BY <1>2, <1>4, <3>1, <3>2
  <2>2. on_disk' \in 0 .. Len(blocks')
    BY <1>1, <1>2, <1>9 DEF JournalTypeOK, Continues
  <2>. QED BY <1>1, <1>2, <1>7, <2>1, <2>2 DEF JournalTypeOK
<1>13. FirstRecordOpens'
  <2>1. entries' # <<>>
    BY <1>2, <1>4, <1>11 DEF CutsFrame, JournalTypeOK
  <2>. QED BY <1>1, <2>1 DEF FirstRecordOpens
<1>14. \A k \in DOMAIN entries :
         /\ entries[k] \in Entry /\ EntryBelow(entries[k]) /\ SeekPoint(entries[k])
         /\ entries[k].tick \in Nat /\ entries[k].record_id \in Nat
         /\ entries[k].offset \in Nat /\ entries[k].frame_offset \in Nat
  <2>1. \A k \in DOMAIN entries : entries[k] \in Entry
    BY <1>2, ElementOfSeq DEF JournalTypeOK
  <2>2. \A e \in Entry : e.tick \in Nat /\ e.record_id \in Nat /\ e.offset \in Nat /\ e.frame_offset \in Nat
    BY DEF Entry
  <2>. QED BY <1>2, <2>1, <2>2 DEF EntriesSeek
<1>15. ASSUME NEW e \in Entry, EntryBelow(e), SeekPoint(e)
       PROVE  /\ SeekPoint(e)'
              /\ next_index_tick <= next_index_tick' => EntryBelow(e)'
  <2>1. /\ e.tick \in Nat /\ e.record_id \in Nat /\ e.offset \in Nat /\ e.frame_offset \in Nat
        /\ next_index_tick' \in Nat
    BY <1>12 DEF Entry, JournalTypeOK
  <2>2. SeekPoint(e)'
    BY <1>10, <1>15, <2>1 DEF EntryBelow
  <2>3. ASSUME next_index_tick <= next_index_tick'
        PROVE  /\ e.tick < next_index_tick' /\ e.record_id < next_id'
               /\ e.offset < Len(content') /\ e.frame_offset <= Len(blocks')
    <3>1. /\ e.tick < next_index_tick /\ e.record_id < next_id
          /\ e.offset < Len(content) /\ e.frame_offset <= Len(blocks)
      BY <1>15 DEF EntryBelow
    <3>2. e.tick < next_index_tick'
      BY <1>2, <2>1, <2>3, <3>1
    <3>3. e.record_id < next_id'
      BY <1>1, <1>2, <2>1, <3>1
    <3>4. e.offset < Len(content')
      BY <1>2, <1>7, <2>1, <3>1
    <3>5. e.frame_offset <= Len(blocks')
      BY <1>2, <1>9, <2>1, <3>1 DEF Continues
    <3>. QED BY <3>2, <3>3, <3>4, <3>5
  <2>. QED BY <2>2, <2>3 DEF EntryBelow
<1>16. EntriesSeek'
  <2>1. CASE ~CutsFrame(tick)
    <3>1. entries' = entries /\ next_index_tick' = next_index_tick
      BY <1>4, <2>1
    <3>2. ASSUME NEW k \in DOMAIN entries
          PROVE  \E e \in Entry : e = entries[k] /\ EntryBelow(e)' /\ SeekPoint(e)'
      BY <1>2, <1>14, <1>15, <3>1
    <3>. QED BY <1>2, <3>1, <3>2 DEF EntriesSeek, StrictlyIncreasing
  <2>2. CASE CutsFrame(tick)
    <3>1. /\ entries' = Append(entries, entry) /\ next_index_tick' = tick + Stride
          /\ entries \in Seq(Entry) /\ Len(entries) \in Nat
      BY <1>4, <1>2, <2>2 DEF JournalTypeOK
    <3>. PICK new \in Entry : new = entry
      BY <1>11
    <3>2. /\ Len(entries') = Len(entries) + 1 /\ entries'[Len(entries) + 1] = new
          /\ \A k \in 1 .. Len(entries) : entries'[k] = entries[k]
          /\ DOMAIN entries = 1 .. Len(entries) /\ DOMAIN entries' = 1 .. Len(entries) + 1
      <4>. HIDE DEF entry
      <4>. QED BY <3>1
    <3>3. /\ new.tick = tick /\ new.record_id = next_id
          /\ new.offset = n /\ new.frame_offset = Len(stream)
      OBVIOUS
    <3>. HIDE DEF entry, n, rec
    <3>4. entries # <<>> => next_index_tick <= tick /\ Len(stream) = Len(blocks) + 1
      BY <1>1, <1>2, <1>6, <2>2 DEF CutsFrame, FirstRecordOpens
    <3>5. SeekPoint(new)' /\ EntryBelow(new)'
      <4>1. new.tick < next_index_tick' /\ new.record_id < next_id'
        BY <1>1, <1>2, <3>1, <3>3
      <4>2. new.offset < Len(content') /\ new.frame_offset <= Len(blocks')
        BY <1>2, <1>7, <1>8, <3>3
      <4>3. FrameStart(new.frame_offset)' /\ Decoded(new.frame_offset)' = new.offset
        <5>1. CASE Len(stream) = 0
          <6>1. n = 0
            BY <5>1, <1>6, <2>2 DEF n
          <6>. QED BY <5>1, <6>1, <3>3 DEF FrameStart, Decoded
        <5>2. CASE Len(stream) # 0
          <6>1. blocks'[Len(stream)] = stream[Len(stream)]
            BY <1>3, <1>8, <5>2
          <6>. QED BY <5>2, <6>1, <1>6, <2>2, <3>3 DEF FrameStart, Decoded
        <5>. QED BY <5>1, <5>2
      <4>4. content'[new.offset + 1] = [id |-> new.record_id, tick |-> new.tick]
        BY <1>7, <3>3 DEF rec
      <4>. QED BY <4>1, <4>2, <4>3, <4>4 DEF SeekPoint, EntryBelow
    <3>6. ASSUME NEW k \in 1 .. Len(entries)
          PROVE  /\ entries[k].tick < new.tick /\ entries[k].record_id < new.record_id
                 /\ entries[k].offset < new.offset /\ entries[k].frame_offset < new.frame_offset
                 /\ \E e \in Entry : e = entries[k] /\ EntryBelow(e)' /\ SeekPoint(e)'
      <4>1. entries # <<>> /\ k \in DOMAIN entries
        BY <3>1, <3>2
      <4>2. next_index_tick <= tick /\ Len(stream) = Len(blocks) + 1
        BY <3>4, <4>1
      <4>3. \E e \in Entry : e = entries[k] /\ EntryBelow(e)' /\ SeekPoint(e)'
        BY <1>1, <1>2, <1>14, <1>15, <3>1, <4>1, <4>2
      <4>. QED BY <1>1, <1>2, <1>14, <3>3, <4>1, <4>2, <4>3, SMTT(30) DEF EntryBelow, n
    <3>7. ASSUME NEW k \in 1 .. Len(entries) + 1
          PROVE  \E e \in Entry : e = entries'[k] /\ EntryBelow(e)' /\ SeekPoint(e)'
      BY <3>1, <3>2, <3>5, <3>6
    <3>8. StrictlyIncreasing(entries')
      <4>1. ASSUME NEW i \in 1 .. Len(entries'), NEW j \in 1 .. Len(entries'), i < j
            PROVE  /\ entries'[i].tick < entries'[j].tick
                   /\ entries'[i].record_id < entries'[j].record_id
                   /\ entries'[i].offset < entries'[j].offset
                   /\ entries'[i].frame_offset < entries'[j].frame_offset
        <5>1. i \in 1 .. Len(entries)
          BY <3>1, <3>2, <4>1
        <5>2. CASE j \in 1 .. Len(entries)
          BY <5>1, <5>2, <1>2, <3>2, <4>1 DEF EntriesSeek, StrictlyIncreasing
        <5>3. CASE j = Len(entries) + 1
          BY <5>1, <5>3, <3>2, <3>6
        <5>. QED BY <5>2, <5>3, <3>1, <3>2
      <4>. QED BY <4>1 DEF StrictlyIncreasing
    <3>. QED BY <3>2, <3>7, <3>8 DEF EntriesSeek, StrictlyIncreasing
  <2>. QED BY <2>1, <2>2
<1>17. FlushedSurvives'
  BY <1>1, <1>2, <1>10 DEF JournalInv, JournalTypeOK, FlushedSurvives
<1>. QED BY <1>1, <1>2, <1>7, <1>8, <1>12, <1>13, <1>16, <1>17 DEF JournalInv, BundleWhole

-----------------------------------------------------------------------------
\* stdio writes more of the stream out.
LEMMA DrainKeeps == JournalInv /\ stdio_drains => JournalInv'
<1> SUFFICES ASSUME JournalInv, stdio_drains PROVE JournalInv'
  OBVIOUS
<1>1. /\ on_disk' \in on_disk .. Len(blocks)
      /\ UNCHANGED <<next_id, last_tick, next_index_tick, frame_open, entries, closed, error,
                     content, blocks, indexed, crashed, flushed>>
  BY DEF stdio_drains, writerVars
<1>2. /\ JournalTypeOK /\ Stream(blocks, Len(content)) /\ Len(blocks) \in Nat
      /\ \A i \in 1 .. Len(blocks) : blocks[i].upto \in Nat
  BY StreamElements DEF JournalInv
<1>3. JournalTypeOK'
  BY <1>1, <1>2 DEF JournalTypeOK
<1>4. /\ Stream(blocks, Len(content))' /\ FirstRecordOpens' /\ (~crashed => EntriesSeek)'
      /\ (indexed => closed)'
  BY <1>1 DEF JournalInv, Stream, FirstRecordOpens, EntriesSeek, EntryBelow, StrictlyIncreasing,
              SeekPoint, FrameStart, Decoded
<1>5. FlushedSurvives'
  <2>1. on_disk \in Nat /\ on_disk' \in Nat /\ on_disk <= on_disk' /\ on_disk' <= Len(blocks)
    BY <1>1, <1>2 DEF JournalTypeOK
  <2>2. Decoded(on_disk) <= Decoded(on_disk')
    BY <1>2, <2>1 DEF Decoded, Stream
  <2>3. Decoded(on_disk) \in Nat /\ Decoded(on_disk') \in Nat /\ flushed \in Nat
    BY <1>2, <2>1 DEF Decoded, JournalTypeOK
  <2>4. flushed <= Decoded(on_disk')
    BY <2>2, <2>3 DEF JournalInv, FlushedSurvives
  <2>. QED BY <1>1, <2>4 DEF FlushedSurvives, Decoded
<1>6. BundleWhole'
  <2>1. indexed => on_disk = Len(blocks) /\ on_disk' = on_disk
    BY <1>1, <1>2 DEF JournalInv, BundleWhole
  <2>. QED BY <1>1, <2>1 DEF JournalInv, BundleWhole, StrictlyIncreasing, SeekPoint, FrameStart, Decoded
<1>. QED BY <1>3, <1>4, <1>5, <1>6 DEF JournalInv

\* A step that adds to the stream, if anything, and nothing else, and leaves
\* all of it on the disk.
LEMMA SyncKeeps ==
  ASSUME JournalInv, ~crashed,
         Stream(blocks', Len(content)), Continues(blocks'), on_disk' = Len(blocks'),
         frame_open' \in BOOLEAN, closed' \in BOOLEAN, flushed' \in Nat, indexed' \in BOOLEAN,
         UNCHANGED <<next_id, last_tick, next_index_tick, entries, error, content, crashed>>,
         entries = <<>> => blocks' = <<>>
  PROVE  /\ JournalTypeOK' /\ Stream(blocks, Len(content))' /\ EntriesSeek'
         /\ (~crashed /\ entries = <<>> => content = <<>> /\ blocks = <<>>)'
<1>1. /\ JournalTypeOK /\ EntriesSeek /\ Len(blocks) \in Nat /\ Len(blocks') \in Nat
      /\ blocks' \in Seq(BlockType) /\ Len(blocks) <= Len(blocks')
  BY StreamElements DEF JournalInv, Continues
<1>2. JournalTypeOK'
  BY <1>1 DEF JournalTypeOK
<1>3. \A e \in Entry :
        e.offset < Len(content) /\ e.frame_offset <= Len(blocks) /\ SeekPoint(e) => SeekPoint(e)'
  BY <1>1, GrowthKeeps DEF JournalTypeOK
<1>4. ASSUME NEW k \in DOMAIN entries
      PROVE  \E e \in Entry : e = entries[k] /\ EntryBelow(e)' /\ SeekPoint(e)'
  <2>. PICK e \in Entry : e = entries[k]
    BY <1>1, ElementOfSeq DEF JournalTypeOK
  <2>1. EntryBelow(e) /\ SeekPoint(e) /\ e.frame_offset \in Nat
    BY <1>1 DEF EntriesSeek, Entry
  <2>2. SeekPoint(e)'
    BY <1>3, <2>1 DEF EntryBelow
  <2>3. EntryBelow(e)'
    BY <1>1, <2>1 DEF EntryBelow
  <2>. QED BY <2>2, <2>3
<1>5. EntriesSeek'
  BY <1>1, <1>4 DEF EntriesSeek, StrictlyIncreasing
<1>6. Stream(blocks, Len(content))'
  BY DEF Stream
<1>. QED BY <1>2, <1>5, <1>6 DEF JournalInv, FirstRecordOpens

\* A flush that succeeds.
LEMMA FlushKeeps == JournalInv /\ flush => JournalInv'
<1> SUFFICES ASSUME JournalInv, flush PROVE JournalInv'
  OBVIOUS
<1>1. /\ ~crashed /\ ~closed /\ blocks' = Flushed /\ on_disk' = Len(blocks')
      /\ flushed' = Len(content)
      /\ UNCHANGED <<next_id, last_tick, next_index_tick, frame_open, entries, closed, error,
                     content, indexed, crashed>>
  BY DEF flush, Up, writerVars
<1>2. /\ JournalTypeOK /\ FirstRecordOpens /\ ~indexed /\ Len(content) \in Nat
  BY <1>1 DEF JournalInv, JournalTypeOK
<1>3. /\ Stream(blocks', Len(content)) /\ Continues(blocks')
      /\ Len(content) = IF Len(blocks') = 0 THEN 0 ELSE blocks'[Len(blocks')].upto
  BY <1>1, FlushedWhole
<1>4. entries = <<>> => blocks' = <<>>
  <2> SUFFICES ASSUME entries = <<>> PROVE Flushed = <<>>
    BY <1>1
  <2>1. blocks = <<>> /\ content = <<>>
    BY <1>1, <1>2 DEF FirstRecordOpens
  <2>2. Len(content) = 0 /\ Decoded(Len(blocks)) = 0
    BY <2>1 DEF Decoded
  <2>3. ~(Decoded(Len(blocks)) < Len(content))
    BY <2>2
  <2>. QED BY <2>1, <2>3 DEF Flushed
<1>5. /\ JournalTypeOK' /\ Stream(blocks, Len(content))' /\ EntriesSeek'
      /\ (~crashed /\ entries = <<>> => content = <<>> /\ blocks = <<>>)'
  BY <1>1, <1>2, <1>3, <1>4, SyncKeeps DEF JournalTypeOK
<1>6. FirstRecordOpens' /\ (indexed => closed)'
  BY <1>1, <1>2, <1>5 DEF FirstRecordOpens
<1>7. FlushedSurvives'
  <2>1. flushed' = Decoded(on_disk)'
    BY <1>1, <1>3 DEF Decoded
  <2>. QED BY <1>1, <1>2, <2>1 DEF FlushedSurvives
<1>8. BundleWhole'
  BY <1>1, <1>2 DEF BundleWhole
<1>. QED BY <1>5, <1>6, <1>7, <1>8 DEF JournalInv

\* close, when nothing fails.
LEMMA CloseKeeps == JournalInv /\ close => JournalInv'
<1> SUFFICES ASSUME JournalInv, close PROVE JournalInv'
  OBVIOUS
<1>1. /\ ~crashed /\ ~closed /\ blocks' = AfterEndFrame /\ on_disk' = Len(blocks')
      /\ closed' = TRUE /\ frame_open' = FALSE /\ indexed' = TRUE
      /\ UNCHANGED <<next_id, last_tick, next_index_tick, entries, error, content, crashed, flushed>>
  BY DEF close, Up
<1>2. /\ JournalTypeOK /\ FirstRecordOpens /\ Len(content) \in Nat
      /\ content = <<>> => Len(content) = 0
  BY DEF JournalInv, JournalTypeOK
<1>3. /\ Stream(blocks', Len(content)) /\ Continues(blocks')
      /\ Len(blocks') = 0 => content = <<>>
      /\ Len(blocks') # 0 => blocks'[Len(blocks')].ends /\ blocks'[Len(blocks')].upto = Len(content)
  BY <1>1, EndFrameWhole
<1>4. entries = <<>> => blocks' = <<>>
  BY <1>1, <1>2 DEF FirstRecordOpens, AfterEndFrame
<1>5. /\ JournalTypeOK' /\ Stream(blocks, Len(content))' /\ EntriesSeek'
      /\ (~crashed /\ entries = <<>> => content = <<>> /\ blocks = <<>>)'
  BY <1>1, <1>2, <1>3, <1>4, SyncKeeps DEF JournalTypeOK
<1>6. Decoded(on_disk)' = Len(content) /\ FrameStart(on_disk)'
  BY <1>1, <1>2, <1>3 DEF Decoded, FrameStart
<1>7. FlushedSurvives'
  <2>0. \A i \in 1 .. Len(blocks) : blocks[i].upto \in Nat /\ blocks[i].upto <= Len(content)
    BY StreamElements DEF JournalInv
  <2>1. Decoded(on_disk) <= Len(content) /\ Decoded(on_disk) \in Nat
    BY <1>2, <2>0 DEF Decoded, JournalTypeOK
  <2>2. flushed <= Len(content)
    BY <1>2, <2>1 DEF JournalInv, FlushedSurvives, JournalTypeOK
  <2>. QED BY <1>1, <1>6, <2>2 DEF FlushedSurvives
<1>8. BundleWhole'
  BY <1>1, <1>5, <1>6 DEF BundleWhole, EntriesSeek
<1>. QED BY <1>1, <1>5, <1>7, <1>8 DEF JournalInv, FirstRecordOpens

\* close of a poisoned writer, and the failure of close itself.
LEMMA PoisonedKeeps == JournalInv /\ close_poisoned => JournalInv'
<1> SUFFICES ASSUME JournalInv, close_poisoned PROVE JournalInv'
  OBVIOUS
<1>1. /\ ~closed /\ closed' = TRUE /\ frame_open' = FALSE /\ error' = TRUE
      /\ UNCHANGED <<next_id, last_tick, next_index_tick, entries, content, blocks, on_disk,
                     indexed, crashed, flushed>>
  BY DEF close_poisoned, diskVars
<1>2. ~indexed
  BY <1>1 DEF JournalInv
<1>3. JournalTypeOK'
  BY <1>1 DEF JournalInv, JournalTypeOK
<1>. QED BY <1>1, <1>2, <1>3 DEF JournalInv, Stream, FirstRecordOpens, EntriesSeek, EntryBelow,
              StrictlyIncreasing, SeekPoint, FrameStart, Decoded, FlushedSurvives, BundleWhole

\* A crash cuts the stream down to what is on the disk.
LEMMA CrashKeeps == JournalInv /\ crash => JournalInv'
<1> SUFFICES ASSUME JournalInv, crash PROVE JournalInv'
  OBVIOUS
<1>1. /\ ~crashed /\ crashed' = TRUE /\ blocks' = SubSeq(blocks, 1, on_disk)
      /\ UNCHANGED <<next_id, last_tick, next_index_tick, frame_open, entries, closed, error,
                     content, on_disk, indexed, flushed>>
  BY DEF crash, Up, writerVars
<1>2. /\ JournalTypeOK /\ Stream(blocks, Len(content)) /\ blocks \in Seq(BlockType)
      /\ Len(blocks) \in Nat /\ on_disk \in 0 .. Len(blocks)
  BY StreamElements DEF JournalInv, JournalTypeOK
<1>3. /\ blocks' \in Seq(BlockType) /\ Len(blocks') = on_disk
      /\ \A i \in 1 .. on_disk : blocks'[i] = blocks[i]
  BY <1>1, <1>2
<1>4. JournalTypeOK'
  BY <1>1, <1>2, <1>3 DEF JournalTypeOK
<1>5. Stream(blocks, Len(content))'
  BY <1>1, <1>2, <1>3 DEF Stream
<1>6. Decoded(on_disk)' = Decoded(on_disk)
  BY <1>1, <1>2, <1>3 DEF Decoded
<1>7. BundleWhole'
  <2>1. indexed => blocks' = blocks
    BY <1>1, <1>2 DEF JournalInv, BundleWhole
  <2>. QED BY <1>1, <2>1 DEF JournalInv, BundleWhole, StrictlyIncreasing, SeekPoint, FrameStart, Decoded
<1>8. FirstRecordOpens' /\ FlushedSurvives' /\ (indexed => closed)'
  BY <1>1, <1>6 DEF JournalInv, FirstRecordOpens, FlushedSurvives
<1>. QED BY <1>1, <1>4, <1>5, <1>7, <1>8 DEF JournalInv

-----------------------------------------------------------------------------
\* The invariant holds at first.
LEMMA JournalInit_Inv == JournalInit => JournalInv
<1> SUFFICES ASSUME JournalInit PROVE JournalInv
  OBVIOUS
<1>1. JournalTypeOK /\ Stream(blocks, Len(content)) /\ FirstRecordOpens
  <2>1. entries = <<>> /\ content = <<>> /\ blocks = <<>> /\ on_disk = 0
    BY DEF JournalInit
  <2>2. /\ entries \in Seq(Entry) /\ content \in Seq([id : Nat, tick : Nat])
        /\ Len(blocks) = 0 /\ on_disk \in 0 .. Len(blocks)
    BY <2>1
  <2>3. Stream(blocks, Len(content))
    BY <2>1 DEF Stream
  <2>. QED BY <2>1, <2>2, <2>3 DEF JournalInit, JournalTypeOK, FirstRecordOpens
<1>2. EntriesSeek /\ FlushedSurvives /\ BundleWhole /\ ~indexed
  BY DEF JournalInit, EntriesSeek, StrictlyIncreasing, FlushedSurvives, BundleWhole, Decoded
<1>. QED BY <1>1, <1>2 DEF JournalInv

\* Every step keeps it.
LEMMA JournalStep == JournalInv /\ [JournalNext]_journalVars => JournalInv'
<1> SUFFICES ASSUME JournalInv, [JournalNext]_journalVars PROVE JournalInv'
  OBVIOUS
<1>. /\ next_id \in Nat /\ last_tick \in Nat /\ error \in BOOLEAN
  BY DEF JournalInv, JournalTypeOK
<1>. USE DEF writerVars, diskVars
<1>1. ASSUME NEW tick \in Tick, NEW cause \in {0, next_id}, record_refused(tick, cause)
      PROVE  JournalInv'
  BY <1>1, RestKeeps DEF record_refused
<1>2. ASSUME NEW tick \in Tick, NEW cause \in {0, next_id}, NEW tier \in Tier
      PROVE  /\ record_filtered(tick, tier, cause) => JournalInv'
             /\ record_written(tick, tier, cause) => JournalInv'
             /\ record_fails(tick, tier, cause) => JournalInv'
  <2>1. tick \in Nat /\ cause \in Nat
    BY DEF Tick
  <2>2. record_filtered(tick, tier, cause) => JournalInv'
    BY <2>1, RestKeeps DEF record_filtered, Accepted
  <2>3. record_fails(tick, tier, cause) => JournalInv'
    BY <2>1, RestKeeps DEF record_fails, Accepted
  <2>. QED BY <2>1, <2>2, <2>3, WrittenKeeps
<1>3. CASE stdio_drains \/ flush \/ close \/ close_poisoned \/ crash
  BY <1>3, DrainKeeps, FlushKeeps, CloseKeeps, PoisonedKeeps, CrashKeeps
<1>4. CASE flush_fails
  BY <1>4, RestKeeps DEF flush_fails
<1>5. CASE ReadingBack
  BY <1>5, RestKeeps DEF ReadingBack, open_reader, next, take_line, decode_block, at_end, seek_to_tick
<1>6. CASE UNCHANGED journalVars
  BY <1>6, RestKeeps DEF journalVars
<1>. QED BY <1>1, <1>2, <1>3, <1>4, <1>5, <1>6 DEF JournalNext, Writing

\* The inductive invariant of the writer and its disk, in every reachable state.
THEOREM JournalInvariant == JournalSpec => []JournalInv
  BY JournalInit_Inv, JournalStep, PTL DEF JournalSpec

\* What a successful flush covered stays on the disk, whatever fails or dies.
THEOREM FlushedStays == JournalSpec => []FlushedSurvives
<1>1. JournalInv => FlushedSurvives
  BY DEF JournalInv
<1>. QED BY <1>1, JournalInvariant, PTL

\* A bundle with an index is whole, and each entry of the index is a seek
\* point.
THEOREM BundlesWhole == JournalSpec => []BundleWhole
<1>1. JournalInv => BundleWhole
  BY DEF JournalInv
<1>. QED BY <1>1, JournalInvariant, PTL

-----------------------------------------------------------------------------
\* The reader.  What was recorded before an entry is of an earlier tick, and
\* what was recorded before the next entry will be; an index is of frames that
\* are on the disk.
TicksRise ==
  /\ \A j \in DOMAIN content : content[j].tick < next_index_tick
  /\ \A k \in DOMAIN entries :
       /\ entries[k].offset < Len(content)
       /\ \A j \in 1 .. entries[k].offset : content[j].tick < entries[k].tick
  /\ indexed => \A k \in DOMAIN entries : entries[k].frame_offset <= on_disk

Cursor == [state : {"closed", "idle", "reading", "failed"}, block : Nat, reset : BOOLEAN, line : Nat,
           decoded : Nat, skip_below : Nat, last : Nat]

\* The decoder is at the start of a frame or inside the stream, and nothing
\* between the last answer and the line the reader is at was to be given.
ReaderRight ==
  /\ reader \in Cursor
  /\ reader.state \in {"idle", "reading"} /\ indexed /\ closed
  /\ reader.block \in 0 .. on_disk /\ reader.decoded = Decoded(reader.block)
  /\ reader.line \in 0 .. reader.decoded /\ reader.last \in 0 .. reader.line
  /\ reader.reset \in BOOLEAN
  /\ reader.reset => FrameStart(reader.block)
  /\ ~reader.reset => reader.block # 0
  /\ reader.skip_below \in Nat
  /\ Skipped(reader.last, reader.line)

ReaderInv == JournalInv /\ TicksRise /\ (reader.state = "closed" \/ ReaderRight)

\* A record that is written.
LEMMA WrittenRises ==
  ASSUME JournalInv, TicksRise, NEW tick \in Tick, NEW tier \in Tier, NEW cause,
         record_written(tick, tier, cause)
  PROVE  TicksRise'
<1> DEFINE rec == [id |-> next_id, tick |-> tick]
<1>1. /\ ~crashed /\ ~closed /\ content' = Append(content, rec) /\ tick \in Nat /\ indexed' = indexed
  BY DEF record_written, Accepted, Up, Tick
<1>2. /\ content \in Seq([id : Nat, tick : Nat]) /\ entries \in Seq(Entry) /\ next_index_tick \in Nat
      /\ next_id \in Nat /\ ~indexed /\ Stride \in Nat \ {0} /\ Len(content) \in Nat
      /\ (entries = <<>> => content = <<>>)
  BY <1>1, JournalAssumption DEF JournalInv, JournalTypeOK, FirstRecordOpens
<1>3. rec \in [id : Nat, tick : Nat] /\ rec.tick = tick
  BY <1>1, <1>2
<1>. HIDE DEF rec
<1>4. /\ Len(content') = Len(content) + 1 /\ DOMAIN content' = 1 .. Len(content) + 1 /\ DOMAIN content = 1 .. Len(content)
      /\ \A j \in 1 .. Len(content) : content'[j] = content[j] /\ content[j].tick \in Nat
      /\ content'[Len(content) + 1] = rec
  <2>1. ASSUME NEW j \in 1 .. Len(content) PROVE content[j].tick \in Nat
    <3>1. content[j] \in [id : Nat, tick : Nat]
      BY <1>2, <2>1, ElementOfSeq
    <3>. QED BY <3>1
  <2>2. /\ Len(content') = Len(content) + 1 /\ DOMAIN content' = 1 .. Len(content) + 1 /\ DOMAIN content = 1 .. Len(content)
        /\ \A j \in 1 .. Len(content) : content'[j] = content[j]
        /\ content'[Len(content) + 1] = rec
    BY <1>1, <1>2, <1>3
  <2>. QED BY <2>1, <2>2
<1>5. CASE CutsFrame(tick)
  <2>1. PICK e \in Entry : /\ entries' = Append(entries, e) /\ e.tick = tick /\ e.offset = Len(content)
                           /\ next_index_tick' = tick + Stride
    <3> DEFINE stream == IF CutsFrame(tick) THEN AfterEndFrame ELSE blocks
               e == [tick |-> tick, record_id |-> next_id, offset |-> Len(content), frame_offset |-> Len(stream)]
    <3>1. entries' = Append(entries, e) /\ next_index_tick' = tick + Stride
      BY <1>5 DEF record_written
    <3>2. Len(stream) \in Nat
      BY <1>1, <1>2, <1>5, EndFrameWhole, StreamElements DEF JournalInv
    <3>. HIDE DEF stream
    <3>3. e \in Entry /\ e.tick = tick /\ e.offset = Len(content)
      BY <1>1, <1>2, <3>2 DEF Entry
    <3>. QED BY <3>1, <3>3
  <2>2. \A j \in 1 .. Len(content) : content[j].tick < tick
    <3>1. CASE entries = <<>>
      <4>1. Len(content) = 0
        BY <1>2, <3>1
      <4>. QED BY <4>1
    <3>2. CASE tick >= next_index_tick
      <4>1. \A j \in 1 .. Len(content) : content[j].tick < next_index_tick /\ content[j].tick \in Nat
        BY <1>4 DEF TicksRise
      <4>. QED BY <1>1, <1>2, <3>2, <4>1
    <3>. QED BY <1>5, <3>1, <3>2 DEF CutsFrame
  <2>3. \A j \in DOMAIN content' : content'[j].tick < next_index_tick'
    BY <1>1, <1>2, <1>3, <1>4, <2>1, <2>2
  <2>4. ASSUME NEW k \in DOMAIN entries'
        PROVE  /\ entries'[k].offset < Len(content')
               /\ \A j \in 1 .. entries'[k].offset : content'[j].tick < entries'[k].tick
    <3>1. (k \in DOMAIN entries /\ entries'[k] = entries[k]) \/ entries'[k] = e
      BY <1>2, <2>1
    <3>2. CASE entries'[k] = e
      BY <1>2, <1>4, <2>1, <2>2, <3>2
    <3>3. CASE k \in DOMAIN entries /\ entries'[k] = entries[k]
      <4>1. entries[k] \in Entry
        BY <1>2, <3>3, ElementOfSeq
      <4>2. entries[k].offset \in Nat
        BY <4>1 DEF Entry
      <4>3. entries[k].offset < Len(content) /\ \A j \in 1 .. entries[k].offset : content[j].tick < entries[k].tick
        BY <3>3 DEF TicksRise
      <4>4. \A j \in 1 .. entries[k].offset : j \in 1 .. Len(content)
        BY <1>2, <4>2, <4>3
      <4>. QED BY <1>2, <1>4, <3>3, <4>2, <4>3, <4>4
    <3>. QED BY <3>1, <3>2, <3>3
  <2>. QED BY <1>1, <1>2, <2>3, <2>4 DEF TicksRise
<1>6. CASE ~CutsFrame(tick)
  <2>1. entries' = entries /\ next_index_tick' = next_index_tick /\ tick < next_index_tick
    BY <1>1, <1>2, <1>6 DEF record_written, CutsFrame
  <2>2. \A j \in DOMAIN content' : content'[j].tick < next_index_tick'
    BY <1>3, <1>4, <2>1 DEF TicksRise
  <2>3. ASSUME NEW k \in DOMAIN entries
        PROVE  /\ entries[k].offset < Len(content')
               /\ \A j \in 1 .. entries[k].offset : content'[j].tick < entries[k].tick
    <3>1. entries[k] \in Entry
      BY <1>2, <2>3, ElementOfSeq
    <3>2. entries[k].offset \in Nat
      BY <3>1 DEF Entry
    <3>. QED BY <1>2, <1>4, <3>2 DEF TicksRise
  <2>. QED BY <1>1, <1>2, <2>1, <2>2, <2>3 DEF TicksRise
<1>. QED BY <1>5, <1>6

\* The bundle is closed: what its entries point at is on the disk.
LEMMA CloseRises ==
  ASSUME JournalInv, TicksRise, close
  PROVE  TicksRise'
<1>1. /\ ~crashed /\ ~closed /\ on_disk' = Len(blocks') /\ blocks' = AfterEndFrame
      /\ UNCHANGED <<content, entries, next_index_tick>>
  BY DEF close, Up
<1>2. Len(blocks) \in Nat /\ Len(blocks') \in Nat /\ Len(blocks) <= Len(blocks')
  BY <1>1, EndFrameWhole, StreamElements DEF JournalInv, Continues
<1>3. \A k \in DOMAIN entries : entries[k].frame_offset <= on_disk'
  <2>1. ASSUME NEW k \in DOMAIN entries PROVE entries[k].frame_offset \in Nat /\ entries[k].frame_offset <= Len(blocks)
    <3>1. entries[k] \in Entry /\ EntryBelow(entries[k])
      BY <1>1, <2>1, ElementOfSeq DEF JournalInv, JournalTypeOK, EntriesSeek
    <3>. QED BY <3>1 DEF Entry, EntryBelow
  <2>. QED BY <1>1, <1>2, <2>1
<1>. QED BY <1>1, <1>3 DEF TicksRise

\* Every other step of the writer and its disk.
LEMMA WritingRises ==
  ASSUME JournalInv, TicksRise, Writing
  PROVE  TicksRise'
<1>. USE DEF writerVars, diskVars
<1>1. ASSUME NEW tick \in Tick, NEW cause \in {0, next_id}, NEW tier \in Tier, record_written(tick, tier, cause)
      PROVE  TicksRise'
  BY <1>1, WrittenRises
<1>2. CASE UNCHANGED <<content, entries, next_index_tick, on_disk, indexed>>
  BY <1>2 DEF TicksRise
<1>3. CASE close
  BY <1>3, CloseRises
<1>4. CASE stdio_drains
  <2>1. on_disk \in Nat /\ on_disk' \in Nat /\ on_disk <= on_disk'
    BY <1>4 DEF stdio_drains, JournalInv, JournalTypeOK
  <2>2. ASSUME NEW k \in DOMAIN entries, indexed PROVE entries[k].frame_offset <= on_disk'
    <3>1. entries[k] \in Entry
      BY <2>2, ElementOfSeq DEF JournalInv, JournalTypeOK
    <3>2. entries[k].frame_offset \in Nat
      BY <3>1 DEF Entry
    <3>. QED BY <2>1, <2>2, <3>2 DEF TicksRise
  <2>3. UNCHANGED <<content, entries, next_index_tick, indexed>>
    BY <1>4 DEF stdio_drains
  <2>. QED BY <2>2, <2>3 DEF TicksRise
<1>5. CASE flush
  <2>1. ~indexed /\ UNCHANGED <<content, entries, next_index_tick, indexed>>
    BY <1>5 DEF flush, JournalInv
  <2>. QED BY <2>1 DEF TicksRise
<1>6. CASE flush_fails \/ close_poisoned \/ crash
  BY <1>2, <1>6 DEF flush_fails, close_poisoned, crash
<1>7. ASSUME NEW tick \in Tick, NEW cause \in {0, next_id}
      PROVE  /\ record_refused(tick, cause) => TicksRise'
             /\ \A tier \in Tier : record_filtered(tick, tier, cause) \/ record_fails(tick, tier, cause) => TicksRise'
  BY <1>2 DEF record_refused, record_filtered, record_fails
<1>. QED BY <1>1, <1>3, <1>4, <1>5, <1>6, <1>7 DEF Writing

\* The reader's own steps leave the rest alone.
LEMMA BackRises ==
  ASSUME TicksRise, ReadingBack
  PROVE  TicksRise' /\ UNCHANGED <<content, blocks, on_disk, indexed, closed, entries>>
<1>1. UNCHANGED <<content, blocks, on_disk, indexed, closed, entries, next_index_tick>>
  BY DEF ReadingBack, open_reader, next, take_line, decode_block, at_end, seek_to_tick, writerVars, diskVars
<1>. QED BY <1>1 DEF TicksRise

\* How far each block of a whole bundle decodes.
LEMMA DecodedFacts ==
  ASSUME JournalInv, indexed
  PROVE  /\ on_disk \in Nat /\ Len(blocks) = on_disk /\ Len(content) \in Nat
         /\ Decoded(0) = 0 /\ Decoded(on_disk) = Len(content) /\ FrameStart(on_disk)
         /\ \A n \in 0 .. on_disk : Decoded(n) \in Nat /\ Decoded(n) <= Len(content)
         /\ \A n \in 0 .. on_disk : n < on_disk => Decoded(n) <= Decoded(n + 1)
         /\ \A k \in DOMAIN content : content[k].tick \in Nat
<1>1. /\ on_disk \in Nat /\ Len(blocks) = on_disk /\ Len(content) \in Nat
      /\ Decoded(on_disk) = Len(content) /\ FrameStart(on_disk)
  BY DEF JournalInv, JournalTypeOK, BundleWhole
<1>2. /\ \A i \in 1 .. on_disk : blocks[i].upto \in Nat /\ blocks[i].upto <= Len(content)
      /\ \A i, j \in 1 .. on_disk : i <= j => blocks[i].upto <= blocks[j].upto
  BY <1>1, StreamElements DEF JournalInv, Stream
<1>3. \A n \in 0 .. on_disk : Decoded(n) \in Nat /\ Decoded(n) <= Len(content)
  BY <1>1, <1>2 DEF Decoded
<1>4. ASSUME NEW n \in 0 .. on_disk, n < on_disk PROVE Decoded(n) <= Decoded(n + 1)
  <2>1. PICK m \in 1 .. on_disk : m = n + 1
    <3>1. n + 1 \in 1 .. on_disk
      BY <1>1, <1>4
    <3>. QED BY <3>1
  <2>2. Decoded(m) = blocks[m].upto /\ blocks[m].upto \in Nat
    BY <1>2, <2>1 DEF Decoded
  <2>3. CASE n = 0
    BY <2>1, <2>2, <2>3 DEF Decoded
  <2>4. CASE n # 0
    <3>1. n \in 1 .. on_disk /\ n <= m
      BY <1>1, <2>1, <2>4
    <3>2. Decoded(n) = blocks[n].upto
      BY <2>4 DEF Decoded
    <3>3. blocks[n].upto <= blocks[m].upto
      BY <1>2, <2>1, <3>1
    <3>. QED BY <2>1, <2>2, <3>2, <3>3
  <2>. QED BY <2>3, <2>4
<1>5. ASSUME NEW k \in DOMAIN content PROVE content[k].tick \in Nat
  <2>1. content \in Seq([id : Nat, tick : Nat])
    BY DEF JournalInv, JournalTypeOK
  <2>2. k \in 1 .. Len(content)
    BY <1>5, <2>1
  <2>3. content[k] \in [id : Nat, tick : Nat]
    BY <2>1, <2>2, ElementOfSeq
  <2>. QED BY <2>3
<1>. QED BY <1>1, <1>3, <1>4, <1>5 DEF Decoded

\* A seek lands at the start of a frame, behind records of earlier ticks only.
LEMMA SeekLands ==
  ASSUME JournalInv, TicksRise, indexed, NEW tick \in Nat
  PROVE  /\ SeekFrame(tick) \in 0 .. on_disk /\ FrameStart(SeekFrame(tick))
         /\ \A j \in 1 .. Decoded(SeekFrame(tick)) : content[j].tick < tick
<1>1. on_disk \in Nat /\ Decoded(0) = 0
  BY DecodedFacts
<1>2. CASE ~\E k \in DOMAIN entries : entries[k].tick <= tick
  <2>1. SeekFrame(tick) = 0
    BY <1>2, Zenon DEF SeekFrame
  <2>. QED BY <1>1, <2>1 DEF FrameStart
<1>3. CASE \E k \in DOMAIN entries : entries[k].tick <= tick
  <2>1. /\ entries \in Seq(Entry) /\ Len(entries) \in Nat /\ DOMAIN entries = 1 .. Len(entries)
        /\ \A k \in DOMAIN entries : entries[k].tick \in Nat
    <3>1. entries \in Seq(Entry)
      BY DEF JournalInv, JournalTypeOK
    <3>2. ASSUME NEW k \in DOMAIN entries PROVE entries[k].tick \in Nat
      <4>1. entries[k] \in Entry
        BY <3>1, <3>2, ElementOfSeq
      <4>. QED BY <4>1 DEF Entry
    <3>. QED BY <3>1, <3>2
  <2>2. \E k \in DOMAIN entries : entries[k].tick <= tick /\ \A j \in k + 1 .. Len(entries) : entries[j].tick > tick
    <3> DEFINE S == {n \in 0 .. Len(entries) : \A j \in n + 1 .. Len(entries) : entries[j].tick > tick}
    <3>1. PICK n \in S : \A m \in S : n <= m
      <4>1. S \in SUBSET Nat /\ Len(entries) \in S
        BY <2>1
      <4>. QED BY <4>1, LeastOf
    <3>2. n # 0
      BY <1>3, <2>1, <3>1
    <3>3. n \in DOMAIN entries /\ n - 1 \in 0 .. Len(entries) /\ n - 1 \notin S
      <4>1. n \in 0 .. Len(entries)
        BY <3>1
      <4>2. n \in DOMAIN entries /\ n - 1 \in 0 .. Len(entries) /\ ~(n <= n - 1)
        BY <2>1, <3>2, <4>1
      <4>. HIDE DEF S
      <4>. QED BY <3>1, <4>2
    <3>4. PICK j \in n .. Len(entries) : ~(entries[j].tick > tick)
      BY <2>1, <3>1, <3>3
    <3>5. j = n
      BY <2>1, <3>1, <3>3, <3>4
    <3>6. entries[n].tick <= tick
      BY <2>1, <3>3, <3>4, <3>5
    <3>. QED BY <3>1, <3>3, <3>6
  <2> DEFINE last == CHOOSE k \in DOMAIN entries :
                       entries[k].tick <= tick /\ \A j \in k + 1 .. Len(entries) : entries[j].tick > tick
  <2>3. last \in DOMAIN entries /\ entries[last].tick <= tick
    BY <2>2, Zenon
  <2>4. SeekFrame(tick) = entries[last].frame_offset
    BY <1>3, Zenon DEF SeekFrame
  <2>. HIDE DEF last
  <2>5. PICK e \in Entry : e = entries[last]
    BY <2>1, <2>3, ElementOfSeq
  <2>6. FrameStart(e.frame_offset) /\ Decoded(e.frame_offset) = e.offset
    BY <2>3, <2>5 DEF JournalInv, BundleWhole, SeekPoint
  <2>7. /\ e.frame_offset \in Nat /\ e.frame_offset <= on_disk /\ e.offset \in Nat /\ e.tick \in Nat
        /\ e.tick <= tick /\ e.offset < Len(content)
        /\ \A j \in 1 .. e.offset : content[j].tick < e.tick
    BY <2>3, <2>5 DEF Entry, TicksRise
  <2>8. \A j \in 1 .. e.offset : j \in DOMAIN content /\ content[j].tick \in Nat
    <3>1. \A j \in 1 .. e.offset : j \in DOMAIN content
      BY <2>7 DEF JournalInv, JournalTypeOK
    <3>. QED BY <3>1, DecodedFacts
  <2>9. \A j \in 1 .. e.offset : content[j].tick < tick
    BY <2>7, <2>8
  <2>. QED BY <1>1, <2>4, <2>5, <2>6, <2>7, <2>9
<1>. QED BY <1>2, <1>3

\* What makes the next position of the reader right.
LEMMA CursorMoves ==
  ASSUME indexed, closed, UNCHANGED <<content, blocks, on_disk, indexed, closed>>,
         reader' \in Cursor, reader'.state \in {"idle", "reading"},
         reader'.block \in 0 .. on_disk, reader'.decoded = Decoded(reader'.block),
         reader'.line \in 0 .. reader'.decoded, reader'.last \in 0 .. reader'.line,
         reader'.reset => FrameStart(reader'.block), ~reader'.reset => reader'.block # 0,
         \A k \in reader'.last + 1 .. reader'.line : content[k].tick < reader'.skip_below
  PROVE  ReaderRight'
<1>1. Skipped(reader.last, reader.line)' <=>
        \A k \in reader'.last + 1 .. reader'.line : content'[k].tick < reader'.skip_below
  BY DEF Skipped
<1>2. Decoded(reader.block)' = Decoded(reader'.block) /\ (FrameStart(reader.block)' <=> FrameStart(reader'.block))
  BY DEF Decoded, FrameStart
<1>3. reader'.reset \in BOOLEAN /\ reader'.skip_below \in Nat
  BY DEF Cursor
<1>. QED BY <1>1, <1>2, <1>3 DEF ReaderRight

\* A reader that is placed at the start of a frame.
LEMMA Placed ==
  ASSUME JournalInv, indexed, closed, NEW n \in 0 .. on_disk, FrameStart(n), NEW tick \in Nat,
         \A j \in 1 .. Decoded(n) : content[j].tick < tick,
         reader' = At(n, tick), UNCHANGED <<content, blocks, on_disk, indexed, closed>>
  PROVE  ReaderRight'
<1>1. Decoded(n) \in Nat /\ on_disk \in Nat
  BY DecodedFacts
<1>2. /\ reader'.state = "idle" /\ reader'.block = n /\ reader'.reset = TRUE /\ reader'.line = Decoded(n)
      /\ reader'.decoded = Decoded(n) /\ reader'.skip_below = tick /\ reader'.last = 0
  BY DEF At
<1>3. reader' \in Cursor
  BY <1>1 DEF At, Cursor
<1>4. \A k \in reader'.last + 1 .. reader'.line : content[k].tick < reader'.skip_below
  <2>1. \A k \in 0 + 1 .. Decoded(n) : content[k].tick < tick
    BY <1>1
  <2>. QED BY <1>2, <2>1
<1>5. reader'.decoded = Decoded(reader'.block) /\ FrameStart(reader'.block)
  BY <1>2
<1>. QED BY <1>1, <1>2, <1>3, <1>4, <1>5, CursorMoves

\* The steps of an open reader, and what each answer is.
LEMMA ReadStep ==
  ASSUME JournalInv, TicksRise, ReaderRight, ReadingBack
  PROVE  /\ ReaderRight'
         /\ Reading =>
              /\ reader'.state # "failed"
              /\ reader'.last # reader.last =>
                   /\ reader'.last > reader.last /\ content[reader'.last].tick >= reader.skip_below
                   /\ Skipped(reader.last, reader'.last - 1)
              /\ at_end => Skipped(reader.last, Len(content))
<1>1. /\ on_disk \in Nat /\ Len(blocks) = on_disk /\ Len(content) \in Nat
      /\ Decoded(on_disk) = Len(content) /\ FrameStart(on_disk)
      /\ \A n \in 0 .. on_disk : Decoded(n) \in Nat /\ Decoded(n) <= Len(content)
      /\ \A n \in 0 .. on_disk : n < on_disk => Decoded(n) <= Decoded(n + 1)
      /\ \A k \in DOMAIN content : content[k].tick \in Nat
  BY DecodedFacts DEF ReaderRight
<1>2. /\ reader.state \in {"idle", "reading"} /\ indexed /\ closed
      /\ reader.block \in 0 .. on_disk /\ reader.decoded = Decoded(reader.block)
      /\ reader.line \in 0 .. reader.decoded /\ reader.last \in 0 .. reader.line
      /\ reader.reset \in BOOLEAN /\ reader.reset => FrameStart(reader.block)
      /\ ~reader.reset => reader.block # 0
      /\ reader.skip_below \in Nat /\ Skipped(reader.last, reader.line)
  BY DEF ReaderRight
<1>3. /\ UNCHANGED <<content, blocks, on_disk, indexed, closed, entries>>
      /\ \A n : Decoded(n)' = Decoded(n) /\ FrameStart(n)' = FrameStart(n)
  BY BackRises DEF Decoded, FrameStart
<1>4. CASE open_reader
  BY <1>2, <1>4 DEF open_reader
<1>5. ASSUME NEW tick \in Tick, seek_to_tick(tick)
      PROVE  ReaderRight' /\ ~Reading
  <2>1. tick \in Nat /\ ~Reading /\ reader' = At(SeekFrame(tick), tick)
    BY <1>5 DEF Tick, seek_to_tick, Idle, Reading
  <2>2. PICK n \in 0 .. on_disk : /\ n = SeekFrame(tick) /\ FrameStart(n)
                                 /\ \A j \in 1 .. Decoded(n) : content[j].tick < tick
    BY <1>2, <2>1, SeekLands
  <2>. QED BY <1>2, <1>3, <2>1, <2>2, Placed
<1>6. reader \in Cursor
  BY DEF ReaderRight
<1>7. CASE next
  <2>1. ~Reading /\ reader' = [reader EXCEPT !.state = "reading"]
    BY <1>7 DEF next, Idle, Reading
  <2>2. /\ reader' \in Cursor /\ reader'.state = "reading"
        /\ reader'.block = reader.block /\ reader'.reset = reader.reset /\ reader'.line = reader.line
        /\ reader'.decoded = reader.decoded /\ reader'.skip_below = reader.skip_below
        /\ reader'.last = reader.last
    BY <1>6, <2>1 DEF Cursor
  <2>3. \A k \in reader'.last + 1 .. reader'.line : content[k].tick < reader'.skip_below
    BY <1>2, <2>2 DEF Skipped
  <2>4. ReaderRight'
    BY <1>2, <1>3, <2>2, <2>3, CursorMoves
  <2>. QED BY <2>1, <2>4
<1>8. CASE take_line
  <2>1. PICK k : k = reader.line + 1
    OBVIOUS
  <2>2. /\ Reading /\ reader.line < reader.decoded
        /\ reader' = IF content[k].tick < reader.skip_below
                       THEN [reader EXCEPT !.line = k]
                       ELSE [reader EXCEPT !.line = k, !.last = k, !.state = "idle"]
    BY <1>8, <2>1 DEF take_line
  <2>3. /\ k \in Nat /\ k \in 1 .. reader.decoded /\ k \in DOMAIN content /\ content[k].tick \in Nat
        /\ reader.last < k /\ k - 1 = reader.line
    <3>1. reader.decoded \in Nat /\ reader.decoded <= Len(content) /\ reader.line \in Nat /\ reader.last \in Nat
      BY <1>1, <1>2
    <3>2. k \in Nat /\ k \in 1 .. reader.decoded /\ k \in 1 .. Len(content) /\ reader.last < k /\ k - 1 = reader.line
      <4>1. PICK l \in Nat, d \in Nat, m \in Nat, a \in Nat :
              l = reader.line /\ d = reader.decoded /\ m = Len(content) /\ a = reader.last
        BY <1>1, <3>1
      <4>2. l < d /\ d <= m /\ a <= l
        BY <1>2, <2>2, <3>1, <4>1
      <4>3. l + 1 \in Nat /\ l + 1 \in 1 .. d /\ l + 1 \in 1 .. m /\ a < l + 1 /\ (l + 1) - 1 = l
        BY <4>2
      <4>. QED BY <2>1, <4>1, <4>3
    <3>3. DOMAIN content = 1 .. Len(content)
      BY DEF JournalInv, JournalTypeOK
    <3>. QED BY <1>1, <3>2, <3>3
  <2>4. /\ reader' \in Cursor /\ reader'.state \in {"idle", "reading"}
        /\ reader'.block = reader.block /\ reader'.reset = reader.reset /\ reader'.line = k
        /\ reader'.decoded = reader.decoded /\ reader'.skip_below = reader.skip_below
        /\ \/ content[k].tick < reader.skip_below /\ reader'.last = reader.last
           \/ ~(content[k].tick < reader.skip_below) /\ reader'.last = k
    <3>1. CASE content[k].tick < reader.skip_below
      BY <1>2, <1>6, <2>2, <2>3, <3>1 DEF Cursor
    <3>2. CASE ~(content[k].tick < reader.skip_below)
      BY <1>2, <1>6, <2>2, <2>3, <3>2 DEF Cursor
    <3>. QED BY <3>1, <3>2
  <2>5. \A j \in reader.last + 1 .. k - 1 : content[j].tick < reader.skip_below
    BY <1>2, <2>3 DEF Skipped
  <2>6. \A j \in reader'.last + 1 .. reader'.line : content[j].tick < reader'.skip_below
    <3>1. CASE content[k].tick < reader.skip_below /\ reader'.last = reader.last
      <4>1. \A j \in reader.last + 1 .. k : j = k \/ j \in reader.last + 1 .. k - 1
        BY <1>1, <1>2, <2>3
      <4>. QED BY <2>4, <2>5, <3>1, <4>1
    <3>2. CASE reader'.last = k
      BY <2>3, <2>4, <3>2
    <3>. QED BY <2>4, <3>1, <3>2
  <2>7. reader'.line \in 0 .. reader'.decoded /\ reader'.last \in 0 .. reader'.line
    <3>1. reader.decoded \in Nat /\ reader.last \in Nat
      BY <1>1, <1>2
    <3>. QED BY <2>3, <2>4, <3>1
  <2>8. ReaderRight'
    BY <1>2, <1>3, <2>4, <2>6, <2>7, CursorMoves
  <2>9. reader'.last # reader.last =>
          /\ reader'.last > reader.last /\ content[reader'.last].tick >= reader.skip_below
          /\ Skipped(reader.last, reader'.last - 1)
    <3>. SUFFICES ASSUME reader'.last # reader.last
                  PROVE  /\ k > reader.last /\ content[k].tick >= reader.skip_below
                         /\ Skipped(reader.last, k - 1)
      BY <2>4
    <3>1. ~(content[k].tick < reader.skip_below) /\ reader.last \in Nat
      BY <1>1, <1>2, <2>4
    <3>. QED BY <1>2, <2>3, <2>5, <3>1 DEF Skipped
  <2>10. ~at_end
    <3>1. reader.line \in Nat /\ reader.decoded \in Nat
      BY <1>1, <1>2
    <3>. QED BY <2>2, <3>1 DEF at_end
  <2>. QED BY <2>4, <2>8, <2>9, <2>10
<1>9. CASE decode_block
  <2>1. PICK n : n = reader.block + 1
    OBVIOUS
  <2>2. /\ Reading /\ reader.line = reader.decoded /\ reader.block < on_disk
        /\ n \in 1 .. on_disk /\ Decoded(n) = blocks[n].upto /\ Decoded(reader.block) <= Decoded(n)
        /\ Decoded(n) \in Nat
    BY <1>1, <1>2, <1>9, <2>1 DEF decode_block, Decoded
  <2>3. ~(reader.reset /\ reader.block # 0 /\ ~blocks[reader.block].ends)
    BY <1>2 DEF FrameStart
  <2>4. reader' = [reader EXCEPT !.block = n, !.reset = FALSE, !.decoded = Decoded(n)]
    <3>1. reader' = [reader EXCEPT !.block = reader.block + 1, !.reset = FALSE, !.decoded = blocks[reader.block + 1].upto]
      BY <1>9, <2>3, Zenon DEF decode_block
    <3>. QED BY <2>1, <2>2, <3>1
  <2>5. /\ reader' \in Cursor /\ reader'.state = "reading" /\ reader'.block = n /\ reader'.reset = FALSE
        /\ reader'.line = reader.line /\ reader'.decoded = Decoded(n)
        /\ reader'.skip_below = reader.skip_below /\ reader'.last = reader.last
    <3>1. n \in Nat /\ Decoded(n) \in Nat /\ reader.state = "reading"
      BY <1>1, <2>2 DEF Reading
    <3>2. PICK d \in Nat : d = Decoded(n)
      BY <3>1
    <3>3. reader' = [reader EXCEPT !.block = n, !.reset = FALSE, !.decoded = d]
      BY <2>4, <3>2
    <3>4. /\ reader' \in Cursor /\ reader'.state = "reading" /\ reader'.block = n /\ reader'.reset = FALSE
          /\ reader'.line = reader.line /\ reader'.decoded = d
          /\ reader'.skip_below = reader.skip_below /\ reader'.last = reader.last
      BY <1>6, <3>1, <3>3 DEF Cursor
    <3>. QED BY <3>2, <3>4
  <2>6. \A k \in reader'.last + 1 .. reader'.line : content[k].tick < reader'.skip_below
    BY <1>2, <2>5 DEF Skipped
  <2>7. /\ reader'.block \in 0 .. on_disk /\ reader'.decoded = Decoded(reader'.block) /\ reader'.block # 0
        /\ reader'.line \in 0 .. reader'.decoded /\ reader'.last \in 0 .. reader'.line
    BY <1>1, <1>2, <2>2, <2>5
  <2>8. ReaderRight'
    BY <1>2, <1>3, <2>5, <2>6, <2>7, CursorMoves
  <2>9. ~at_end
    BY <1>1, <1>2, <2>2 DEF at_end
  <2>. QED BY <2>5, <2>8, <2>9
<1>10. CASE at_end
  <2>1. /\ Reading /\ reader.line = reader.decoded /\ reader.block = on_disk
        /\ reader' = IF ~reader.reset /\ ~blocks[reader.block].ends
                       THEN [reader EXCEPT !.state = "failed"]
                       ELSE [reader EXCEPT !.state = "idle"]
    BY <1>10 DEF at_end
  <2>2. ~(~reader.reset /\ ~blocks[reader.block].ends)
    BY <1>1, <1>2, <2>1 DEF FrameStart
  <2>3. reader' = [reader EXCEPT !.state = "idle"]
    BY <2>1, <2>2, Zenon
  <2>4. /\ reader' \in Cursor /\ reader'.state = "idle"
        /\ reader'.block = reader.block /\ reader'.reset = reader.reset /\ reader'.line = reader.line
        /\ reader'.decoded = reader.decoded /\ reader'.skip_below = reader.skip_below
        /\ reader'.last = reader.last
    BY <1>6, <2>3 DEF Cursor
  <2>5. \A k \in reader'.last + 1 .. reader'.line : content[k].tick < reader'.skip_below
    BY <1>2, <2>4 DEF Skipped
  <2>6. ReaderRight'
    BY <1>2, <1>3, <2>4, <2>5, CursorMoves
  <2>7. Skipped(reader.last, Len(content))
    BY <1>1, <1>2, <2>1
  <2>. QED BY <2>4, <2>6, <2>7
<1>. QED BY <1>4, <1>5, <1>7, <1>8, <1>9, <1>10 DEF ReadingBack

\* The invariant of the bundle and its reader.
LEMMA ReaderStep ==
  ASSUME ReaderInv, [JournalNext]_journalVars
  PROVE  ReaderInv'
<1>1. JournalInv /\ JournalInv' /\ TicksRise
  BY JournalStep DEF ReaderInv
<1>2. CASE Writing
  <2>1. reader' = reader /\ reader.state = "closed"
    BY <1>2 DEF Writing, record_refused, record_filtered, record_written, record_fails, stdio_drains, flush,
         flush_fails, close, close_poisoned, crash, Accepted, Up
  <2>. QED BY <1>1, <1>2, <2>1, WritingRises DEF ReaderInv
<1>3. CASE ReadingBack /\ reader.state # "closed"
  BY <1>1, <1>3, BackRises, ReadStep DEF ReaderInv
<1>4. CASE ReadingBack /\ reader.state = "closed"
  <2>1. open_reader
    BY <1>4 DEF ReadingBack, next, take_line, decode_block, at_end, seek_to_tick, Idle, Reading
  <2>2. TicksRise' /\ UNCHANGED <<content, blocks, on_disk, indexed, closed, entries>>
    BY <1>1, <1>4, BackRises
  <2>3. indexed /\ closed /\ StrictlyIncreasing(entries)
    BY <1>1, <2>1 DEF open_reader, JournalInv, BundleWhole
  <2>4. reader' = At(0, 0)
    BY <2>1, <2>3 DEF open_reader
  <2>5. on_disk \in Nat /\ Decoded(0) = 0 /\ FrameStart(0)
    BY <1>1, <2>3, DecodedFacts DEF FrameStart
  <2>6. ReaderRight'
    BY <1>1, <2>2, <2>3, <2>4, <2>5, Placed
  <2>. QED BY <1>1, <2>2, <2>6 DEF ReaderInv
<1>5. CASE UNCHANGED journalVars
  <2>1. UNCHANGED <<content, blocks, on_disk, indexed, closed, entries, next_index_tick, reader>>
    BY <1>5 DEF journalVars, writerVars, diskVars
  <2>2. ReaderRight => ReaderRight'
    BY <2>1 DEF ReaderRight, Decoded, FrameStart, Skipped
  <2>. QED BY <1>1, <2>1, <2>2 DEF ReaderInv, TicksRise
<1>. QED BY <1>2, <1>3, <1>4, <1>5 DEF JournalNext

\* The reader of a bundle never fails, and each next() gives the first record
\* behind the last one given that is not below the tick sought, or the end when
\* there is none (seek_to_tick and next, reader.h): what lies before the frame
\* of a seek is of earlier ticks, and what is skipped is below the tick.
THEOREM NextGivesTheNext == JournalSpec => NextIsExact
<1>1. JournalInit => ReaderInv
  <2>. SUFFICES ASSUME JournalInit PROVE ReaderInv
    OBVIOUS
  <2>1. DOMAIN content = {} /\ DOMAIN entries = {} /\ reader.state = "closed"
    BY DEF JournalInit, NotOpen
  <2>. QED BY <2>1, JournalInit_Inv DEF ReaderInv, TicksRise
<1>2. ReaderInv /\ [JournalNext]_journalVars => ReaderInv'
  BY ReaderStep
<1>3. ReaderInv /\ [JournalNext]_journalVars =>
        [Reading =>
           /\ reader'.state # "failed"
           /\ reader'.last # reader.last =>
                /\ reader'.last > reader.last /\ content[reader'.last].tick >= reader.skip_below
                /\ Skipped(reader.last, reader'.last - 1)
           /\ at_end => Skipped(reader.last, Len(content))]_journalVars
  <2>. SUFFICES ASSUME ReaderInv, JournalNext, Reading
                PROVE  /\ reader'.state # "failed"
                       /\ reader'.last # reader.last =>
                            /\ reader'.last > reader.last /\ content[reader'.last].tick >= reader.skip_below
                            /\ Skipped(reader.last, reader'.last - 1)
                       /\ at_end => Skipped(reader.last, Len(content))
    OBVIOUS
  <2>1. ReaderRight /\ JournalInv /\ TicksRise
    BY DEF ReaderInv, Reading
  <2>2. ~Writing
    BY DEF Reading, Writing, record_refused, record_filtered, record_written, record_fails, stdio_drains, flush,
         flush_fails, close, close_poisoned, crash, Accepted, Up
  <2>. QED BY <2>1, <2>2, ReadStep DEF JournalNext
<1>. QED BY <1>1, <1>2, <1>3, PTL DEF JournalSpec, NextIsExact

-----------------------------------------------------------------------------
\* The sheet.

\* What its variables hold.
SheetType ==
  [playhead : Nat, pass : Nat, done : BOOLEAN, cursor : Nat, epoch : Nat, entered : BOOLEAN,
   saved : BOOLEAN, saved_playhead : Nat, saved_pass : Nat, saved_done : BOOLEAN]

TodoFrame == [do : {"batch", "cascade", "sheet_end"}, epoch : Nat]

SequenceTypeOK ==
  /\ desc \in Sheets
  /\ life \in {"instantiated", "live", "dead"} /\ phase \in {"before", "after"}
  /\ marked \in BOOLEAN /\ dormant \in BOOLEAN /\ active \in BOOLEAN
  /\ sheet \in SheetType /\ todo \in Seq(TodoFrame)
  /\ open \subseteq DOMAIN desc.spans
  /\ fired \in Seq(Nat) /\ cut \subseteq Nat

\* The compiled timeline: sorted by tick, inside the duration, with the two
\* ends of every span once, the opening in front.
Timeline ==
  /\ items \in Seq(Item)
  /\ \A i, j \in 1 .. Len(items) : i < j => items[i].tick <= items[j].tick
  /\ \A i \in 1 .. Len(items) :
       /\ items[i].tick <= desc.duration
       /\ items[i].kind = SpanOpen =>
            items[i].ref \in DOMAIN desc.spans /\ items[i].tick = desc.spans[items[i].ref].begin
       /\ items[i].kind = SpanClose =>
            items[i].ref \in DOMAIN desc.spans /\ items[i].tick = desc.spans[items[i].ref].end
  /\ \A k \in DOMAIN desc.spans :
       /\ \E i \in 1 .. Len(items) : items[i].kind = SpanOpen /\ items[i].ref = k
       /\ \E i \in 1 .. Len(items) : items[i].kind = SpanClose /\ items[i].ref = k
  /\ \A i, j \in 1 .. Len(items) :
       /\ items[i].kind = items[j].kind /\ items[i].ref = items[j].ref => i = j
       /\ items[i].kind = SpanOpen /\ items[j].kind = SpanClose /\ items[i].ref = items[j].ref => i < j

\* What fired lies behind the cursor, and the cursor behind the playhead.
CursorRight ==
  /\ sheet.cursor \in 1 .. Len(items) + 1
  /\ \A k \in 1 .. Len(items) : k < sheet.cursor => items[k].tick <= sheet.playhead

\* An item that is due has a batch of this activation to fire it; the end of
\* the sheet waits below everything.
CaughtUp == \A k \in 1 .. Len(items) : items[k].tick <= sheet.playhead => k < sheet.cursor
StackRight ==
  /\ todo # <<>> => life = "live"
  /\ \A n \in 1 .. Len(todo) : n < Len(todo) => todo[n].do # "sheet_end"
  /\ life = "live" /\ active /\ ~CaughtUp =>
       \E n \in 1 .. Len(todo) : todo[n].do = "batch" /\ todo[n].epoch = sheet.epoch

\* Before the initial entry nothing has happened, and a state that left under
\* history knows where.
SavedRight ==
  /\ life = "instantiated" => active /\ ~sheet.saved /\ open = {} /\ fired = <<>> /\ cut = {}
  /\ life = "dead" => ~active
  /\ ~desc.history => ~sheet.saved
  /\ life = "live" /\ ~active /\ desc.history =>
       sheet.saved /\ sheet.saved_playhead = sheet.playhead

\* Every item behind the cursor fired once or was cut off.
FiredRight ==
  /\ \A a \in 1 .. Len(fired) : fired[a] \in 1 .. Len(items) /\ fired[a] < sheet.cursor
  /\ \A a, b \in 1 .. Len(fired) : a < b => fired[a] < fired[b]
  /\ life = "live" /\ active => Range(fired) \cup cut = 1 .. sheet.cursor - 1
  /\ life = "live" /\ ~active /\ desc.history =>
       Range(fired) \cup cut = {k \in 1 .. Len(items) : items[k].tick <= sheet.playhead}

\* The spans whose opening lies before position c and whose closing does not.
OpenAt(c) ==
  {k \in DOMAIN desc.spans :
     /\ \E i \in 1 .. Len(items) : i < c /\ items[i].kind = SpanOpen /\ items[i].ref = k
     /\ ~ \E i \in 1 .. Len(items) : i < c /\ items[i].kind = SpanClose /\ items[i].ref = k}
OpenRight ==
  /\ life = "live" /\ active => open = OpenAt(sheet.cursor)
  /\ ~active => open = {}

\* The inductive invariant of a sheet.
SequenceInv ==
  SequenceTypeOK /\ Timeline /\ CursorRight /\ StackRight /\ SavedRight /\ FiredRight /\ OpenRight

-----------------------------------------------------------------------------
\* The sort.  Timeline order is a strict total order on items.
LEMMA BeforeOrders ==
  /\ \A a \in Item : ~Before(a, a)
  /\ \A a, b, c \in Item : Before(a, b) /\ Before(b, c) => Before(a, c)
  /\ \A a, b \in Item : a = b \/ Before(a, b) \/ Before(b, a)
<1>0. \A a \in Item : a.tick \in Nat /\ a.kind \in 0 .. 2 /\ a.ref \in Nat
  BY DEF Item, Trigger, SpanOpen, SpanClose
<1>1. \A a \in Item : ~Before(a, a)
  BY <1>0 DEF Before
<1>2. \A a, b, c \in Item : Before(a, b) /\ Before(b, c) => Before(a, c)
  BY <1>0 DEF Before
<1>3. ASSUME NEW a \in Item, NEW b \in Item, ~Before(a, b), ~Before(b, a)
      PROVE  a = b
  <2>1. a.tick = b.tick /\ a.kind = b.kind /\ a.ref = b.ref
    BY <1>0, <1>3 DEF Before
  <2>. QED BY <2>1 DEF Item
<1>. QED BY <1>1, <1>2, <1>3

\* The elements of a list.
LEMMA Elements ==
  ASSUME NEW T, NEW s \in Seq(T)
  PROVE  \A k \in DOMAIN s : k \in Nat /\ k >= 1 /\ k <= Len(s) /\ s[k] \in T
  OBVIOUS

\* compile_sequence, of any set of items.
Arranged(S) ==
  [k \in 1 .. Cardinality(S) |-> CHOOSE x \in S : Cardinality({y \in S : Before(y, x)}) + 1 = k]

\* The list that puts each item behind as many as come before it is sorted and
\* holds every item.
LEMMA PlacesSort ==
  ASSUME NEW S \in SUBSET Item, IsFiniteSet(S), NEW list, list = Arranged(S)
  PROVE  /\ Cardinality(S) \in Nat /\ list \in Seq(S) /\ Len(list) = Cardinality(S)
         /\ \A i, j \in 1 .. Len(list) : i < j => Before(list[i], list[j])
         /\ \A x \in S : \E i \in 1 .. Len(list) : list[i] = x
<1> DEFINE ahead(x) == {y \in S : Before(y, x)}
           place == [x \in S |-> Cardinality(ahead(x)) + 1]
           N == Cardinality(S)
<1>1. N \in Nat
  BY FS_CardinalityType
<1>2. ASSUME NEW x \in S
      PROVE  IsFiniteSet(ahead(x)) /\ Cardinality(ahead(x)) \in Nat /\ Cardinality(ahead(x)) < N
  <2>1. ahead(x) \in SUBSET S /\ x \notin ahead(x) /\ ahead(x) # S
    BY BeforeOrders
  <2>2. IsFiniteSet(ahead(x)) /\ Cardinality(ahead(x)) <= N /\ Cardinality(ahead(x)) # N
    BY <2>1, FS_Subset
  <2>3. Cardinality(ahead(x)) \in Nat
    BY <2>2, FS_CardinalityType
  <2>. QED BY <1>1, <2>2, <2>3
<1>3. ASSUME NEW x \in S, NEW y \in S, Before(x, y)
      PROVE  Cardinality(ahead(x)) < Cardinality(ahead(y))
  <2>1. ahead(x) \in SUBSET ahead(y) /\ x \in ahead(y) /\ x \notin ahead(x)
    BY <1>3, BeforeOrders
  <2>2. IsFiniteSet(ahead(y)) /\ Cardinality(ahead(x)) \in Nat /\ Cardinality(ahead(y)) \in Nat
    BY <1>2
  <2>. HIDE DEF ahead
  <2>3. Cardinality(ahead(x)) <= Cardinality(ahead(y)) /\ Cardinality(ahead(x)) # Cardinality(ahead(y))
    BY <2>1, <2>2, FS_Subset
  <2>. QED BY <2>2, <2>3
<1>4. \A x \in S : place[x] = Cardinality(ahead(x)) + 1
  OBVIOUS
<1>5. DOMAIN place = S
  OBVIOUS
<1>. HIDE DEF place, ahead
<1>6. place \in [S -> 1 .. N]
  <2>1. \A x \in S : place[x] \in 1 .. N
    <3>. TAKE x \in S
    <3>. PICK c \in Nat : c = Cardinality(ahead(x))
      BY <1>2
    <3>. QED BY <1>1, <1>2, <1>4
  <2>2. place = [x \in S |-> place[x]]
    BY DEF place
  <2>. QED BY <2>1, <2>2
<1>7. \A x, y \in S : Before(x, y) => place[x] < place[y]
  <2>. TAKE x, y \in S
  <2>. HAVE Before(x, y)
  <2>1. Cardinality(ahead(x)) < Cardinality(ahead(y))
    BY <1>3
  <2>2. Cardinality(ahead(x)) \in Nat /\ Cardinality(ahead(y)) \in Nat
    BY <1>2
  <2>. QED BY <1>4, <2>1, <2>2
<1>8. \A x, y \in S : place[x] = place[y] => x = y
  <2>1. \A x \in S : place[x] \in Nat
    BY <1>6
  <2>. QED BY <1>7, <2>1, BeforeOrders
<1>9. \A k \in 1 .. N : \E x \in S : place[x] = k
  <2>1. place \in Injection(S, 1 .. N)
    BY <1>6, <1>8 DEF Injection, IsInjective
  <2>2. IsFiniteSet(1 .. N) /\ Cardinality(1 .. N) = N
    BY <1>1, FS_Interval
  <2>3. place \in Surjection(S, 1 .. N)
    BY <2>1, <2>2, FS_Injection
  <2>. QED BY <2>3 DEF Surjection
<1>10. ASSUME NEW k \in 1 .. N
       PROVE  list[k] \in S /\ place[list[k]] = k
  <2>1. list[k] = CHOOSE x \in S : Cardinality({y \in S : Before(y, x)}) + 1 = k
    BY DEF Arranged
  <2>2. \E x \in S : Cardinality({y \in S : Before(y, x)}) + 1 = k
    BY <1>4, <1>9 DEF ahead
  <2>3. list[k] \in S /\ Cardinality({y \in S : Before(y, list[k])}) + 1 = k
    BY <2>1, <2>2
  <2>. QED BY <1>4, <2>3 DEF ahead
<1>11. list \in Seq(S) /\ Len(list) = N
  <2>1. list \in [1 .. N -> S]
    BY <1>10 DEF Arranged
  <2>2. list \in Seq(S)
    BY <1>1, <2>1, SeqDef
  <2>3. DOMAIN list = 1 .. N /\ DOMAIN list = 1 .. Len(list) /\ Len(list) \in Nat
    BY <2>1, <2>2, LenProperties
  <2>. QED BY <1>1, <2>2, <2>3
<1>12. ASSUME NEW i \in 1 .. N, NEW j \in 1 .. N, i < j
       PROVE  Before(list[i], list[j])
  <2>1. list[i] \in S /\ list[j] \in S /\ place[list[i]] = i /\ place[list[j]] = j
    BY <1>10
  <2>2. list[i] # list[j]
    BY <1>12, <2>1
  <2>3. ~Before(list[j], list[i])
    <3>1. Before(list[j], list[i]) => j < i
      BY <1>7, <2>1
    <3>. QED BY <1>12, <3>1
  <2>. QED BY <2>1, <2>2, <2>3, BeforeOrders
<1>13. ASSUME NEW x \in S PROVE \E i \in 1 .. N : list[i] = x
  <2>1. place[x] \in 1 .. N
    BY <1>6
  <2>2. list[place[x]] \in S /\ place[list[place[x]]] = place[x]
    BY <1>10, <2>1
  <2>. QED BY <1>8, <2>1, <2>2
<1>. QED BY <1>1, <1>11, <1>12, <1>13

\* The elements of a list, numbered, are finitely many.
LEMMA NumberedFinite ==
  ASSUME NEW T, NEW list \in Seq(T), NEW f, NEW S,
         S = {f[k] : k \in DOMAIN list}
  PROVE  IsFiniteSet(S)
<1> DEFINE g == [k \in 1 .. Len(list) |-> f[k]]
<1>1. DOMAIN list = 1 .. Len(list) /\ Len(list) \in Nat
  OBVIOUS
<1>2. g \in Surjection(1 .. Len(list), S)
  <2>1. g \in [1 .. Len(list) -> S]
    BY <1>1
  <2>2. \A s \in S : \E k \in 1 .. Len(list) : g[k] = s
    BY <1>1
  <2>. QED BY <2>1, <2>2 DEF Surjection
<1>3. IsFiniteSet(1 .. Len(list))
  BY <1>1, FS_Interval
<1>. QED BY <1>2, <1>3, FS_Surjection

\* What an item is made of.
LEMMA ItemOf ==
  ASSUME NEW n \in Nat, NEW what \in {Trigger, SpanOpen, SpanClose}, NEW k \in Nat
  PROVE  [tick |-> n, kind |-> what, ref |-> k] \in Item
  BY DEF Item

\* The items of a sheet that compiles.
LEMMA ItemsFinite ==
  ASSUME NEW d \in Sheets
  PROVE  ItemsOf(d) \in SUBSET Item /\ IsFiniteSet(ItemsOf(d))
<1> DEFINE t == [k \in DOMAIN d.triggers |-> [tick |-> d.triggers[k], kind |-> Trigger, ref |-> k]]
           o == [k \in DOMAIN d.spans |-> [tick |-> d.spans[k].begin, kind |-> SpanOpen, ref |-> k]]
           c == [k \in DOMAIN d.spans |-> [tick |-> d.spans[k].end, kind |-> SpanClose, ref |-> k]]
           T == {t[k] : k \in DOMAIN d.triggers}
           O == {o[k] : k \in DOMAIN d.spans}
           C == {c[k] : k \in DOMAIN d.spans}
<1>1. d.triggers \in Seq(Nat) /\ d.spans \in Seq([begin : Nat, end : Nat])
  BY SheetsAssumption
<1>2. ItemsOf(d) = T \cup O \cup C
  BY DEF ItemsOf
<1>3. T \subseteq Item
  <2>1. \A k \in DOMAIN d.triggers : k \in Nat /\ d.triggers[k] \in Nat
    <3>1. PICK s \in Seq(Nat) : s = d.triggers
      BY ONLY <1>1
    <3>2. \A k \in DOMAIN s : k \in Nat /\ s[k] \in Nat
      OBVIOUS
    <3>. QED BY ONLY <3>1, <3>2
  <2>2. \A k \in DOMAIN d.triggers : t[k] = [tick |-> d.triggers[k], kind |-> Trigger, ref |-> k]
    OBVIOUS
  <2>. HIDE DEF t
  <2>3. ASSUME NEW k \in DOMAIN d.triggers PROVE t[k] \in Item
    <3>1. k \in Nat /\ d.triggers[k] \in Nat /\ t[k] = [tick |-> d.triggers[k], kind |-> Trigger, ref |-> k]
      BY ONLY <2>1, <2>2, <2>3
    <3>. QED BY ONLY <3>1, ItemOf
  <2>. QED BY <2>3
<1>4. O \subseteq Item /\ C \subseteq Item
  <2>1. \A k \in DOMAIN d.spans : k \in Nat /\ d.spans[k] \in [begin : Nat, end : Nat]
    BY <1>1, Elements
  <2>2. \A k \in DOMAIN d.spans : k \in Nat /\ d.spans[k].begin \in Nat /\ d.spans[k].end \in Nat
    BY <2>1
  <2>3. \A k \in DOMAIN d.spans :
          /\ o[k] = [tick |-> d.spans[k].begin, kind |-> SpanOpen, ref |-> k]
          /\ c[k] = [tick |-> d.spans[k].end, kind |-> SpanClose, ref |-> k]
    OBVIOUS
  <2>. HIDE DEF o, c
  <2>4. ASSUME NEW k \in DOMAIN d.spans PROVE o[k] \in Item /\ c[k] \in Item
    <3>1. /\ k \in Nat /\ d.spans[k].begin \in Nat /\ d.spans[k].end \in Nat
          /\ o[k] = [tick |-> d.spans[k].begin, kind |-> SpanOpen, ref |-> k]
          /\ c[k] = [tick |-> d.spans[k].end, kind |-> SpanClose, ref |-> k]
      BY ONLY <2>2, <2>3, <2>4
    <3>2. o[k] \in Item
      BY ONLY <3>1, ItemOf
    <3>3. c[k] \in Item
      BY ONLY <3>1, ItemOf
    <3>. QED BY ONLY <3>2, <3>3
  <2>. QED BY <2>4
<1>. HIDE DEF t, o, c
<1>5. IsFiniteSet(T) /\ IsFiniteSet(O) /\ IsFiniteSet(C)
  BY <1>1, NumberedFinite
<1>. HIDE DEF T, O, C
<1>6. IsFiniteSet(T \cup O)
  BY <1>5, FS_Union
<1>7. IsFiniteSet(T \cup O \cup C)
  BY <1>5, <1>6, FS_Union
<1>. QED BY <1>2, <1>3, <1>4, <1>7

\* What compile_sequence makes of a sheet it accepts is a timeline.
LEMMA CompiledTimeline ==
  ASSUME desc \in Sheets, Compiles(desc), items = compile_sequence(desc)
  PROVE  Timeline
<1> DEFINE S == ItemsOf(desc)
<1>1. S \in SUBSET Item /\ IsFiniteSet(S)
  BY ItemsFinite
<1>2. items = Arranged(S)
  BY DEF compile_sequence, Arranged
<1>3. desc.triggers \in Seq(Nat) /\ desc.spans \in Seq([begin : Nat, end : Nat])
  BY SheetsAssumption
<1>4. \A k \in DOMAIN desc.spans :
        /\ k \in Nat /\ desc.spans[k].begin \in Nat /\ desc.spans[k].end \in Nat
        /\ desc.spans[k].begin <= desc.spans[k].end /\ desc.spans[k].end <= desc.duration
  <2>1. \A k \in DOMAIN desc.spans : k \in Nat /\ desc.spans[k] \in [begin : Nat, end : Nat]
    BY <1>3, Elements
  <2>2. \A k \in DOMAIN desc.spans : desc.spans[k] \in Range(desc.spans)
    BY DEF Range
  <2>. QED BY <2>1, <2>2 DEF Compiles
<1>5. \A k \in DOMAIN desc.triggers : desc.triggers[k] \in Nat /\ desc.triggers[k] <= desc.duration
  <2>1. \A k \in DOMAIN desc.triggers : desc.triggers[k] \in Range(desc.triggers)
    BY DEF Range
  <2>. QED BY <1>3, <2>1 DEF Compiles
<1>6. desc.duration \in Nat
  BY SheetsAssumption
<1>7. \A x \in S :
        /\ x.tick \in Nat /\ x.tick <= desc.duration
        /\ x.kind = SpanOpen => x.ref \in DOMAIN desc.spans /\ x.tick = desc.spans[x.ref].begin
        /\ x.kind = SpanClose => x.ref \in DOMAIN desc.spans /\ x.tick = desc.spans[x.ref].end
  <2>1. ASSUME NEW k \in DOMAIN desc.triggers, NEW x,
               x = [tick |-> desc.triggers[k], kind |-> Trigger, ref |-> k]
        PROVE  x.tick \in Nat /\ x.tick <= desc.duration /\ x.kind = 0
    BY <1>5, <2>1 DEF Trigger
  <2>2. ASSUME NEW k \in DOMAIN desc.spans, NEW x,
               x = [tick |-> desc.spans[k].begin, kind |-> SpanOpen, ref |-> k]
        PROVE  x.tick = desc.spans[k].begin /\ x.kind = 1 /\ x.ref = k
    BY <2>2 DEF SpanOpen
  <2>3. ASSUME NEW k \in DOMAIN desc.spans, NEW x,
               x = [tick |-> desc.spans[k].end, kind |-> SpanClose, ref |-> k]
        PROVE  x.tick = desc.spans[k].end /\ x.kind = 2 /\ x.ref = k
    BY <2>3 DEF SpanClose
  <2>4. ASSUME NEW x \in S
        PROVE  \/ x.tick \in Nat /\ x.tick <= desc.duration /\ x.kind = 0
               \/ \E k \in DOMAIN desc.spans : x.tick = desc.spans[k].begin /\ x.kind = 1 /\ x.ref = k
               \/ \E k \in DOMAIN desc.spans : x.tick = desc.spans[k].end /\ x.kind = 2 /\ x.ref = k
    BY <2>1, <2>2, <2>3, <2>4 DEF ItemsOf
  <2>. HIDE DEF S
  <2>. QED BY <1>4, <1>6, <2>4 DEF SpanOpen, SpanClose
<1>8. \A k \in DOMAIN desc.spans :
        /\ \E x \in S : x.kind = SpanOpen /\ x.ref = k
        /\ \E x \in S : x.kind = SpanClose /\ x.ref = k
  <2>1. ASSUME NEW k \in DOMAIN desc.spans
        PROVE  /\ [tick |-> desc.spans[k].begin, kind |-> SpanOpen, ref |-> k] \in S
               /\ [tick |-> desc.spans[k].end, kind |-> SpanClose, ref |-> k] \in S
    BY DEF ItemsOf
  <2>. QED BY <2>1
<1>9. \A x, y \in S : (x.kind = SpanOpen \/ x.kind = SpanClose) /\ x.kind = y.kind /\ x.ref = y.ref => x = y
  <2>1. \A x, y \in S : (x.kind = SpanOpen \/ x.kind = SpanClose) /\ x.kind = y.kind /\ x.ref = y.ref => x.tick = y.tick
    BY <1>7
  <2>2. \A x, y \in Item : x.tick = y.tick /\ x.kind = y.kind /\ x.ref = y.ref => x = y
    BY DEF Item
  <2>. QED BY <1>1, <2>1, <2>2
<1>10. \A x, y \in S : x.kind = Trigger /\ y.kind = Trigger /\ x.ref = y.ref => x = y
  <2>1. ASSUME NEW x \in S, x.kind = Trigger
        PROVE  x.ref \in DOMAIN desc.triggers /\ x = [tick |-> desc.triggers[x.ref], kind |-> Trigger, ref |-> x.ref]
    BY <2>1 DEF ItemsOf, Trigger, SpanOpen, SpanClose
  <2>. QED BY <2>1
<1>11. \A x, y \in S : x.kind = y.kind /\ x.ref = y.ref => x = y
  <2>1. \A x \in S : x.kind \in {Trigger, SpanOpen, SpanClose}
    BY <1>1 DEF Item
  <2>. HIDE DEF S
  <2>. QED BY <1>9, <1>10, <2>1
<1>12. \A x, y \in S : x.kind = SpanOpen /\ y.kind = SpanClose /\ x.ref = y.ref => Before(x, y)
  <2>1. \A x, y \in S : x.kind = SpanOpen /\ y.kind = SpanClose /\ x.ref = y.ref =>
          x.tick \in Nat /\ y.tick \in Nat /\ x.tick <= y.tick
    BY <1>4, <1>7
  <2>. QED BY <2>1 DEF Before, SpanOpen, SpanClose
<1>. HIDE DEF S
<1>13. /\ items \in Seq(S) /\ Len(items) \in Nat
       /\ \A i, j \in 1 .. Len(items) : i < j => Before(items[i], items[j])
       /\ \A x \in S : \E i \in 1 .. Len(items) : items[i] = x
  BY <1>1, <1>2, PlacesSort
<1>14. \A i \in 1 .. Len(items) : items[i] \in S
  BY <1>13
<1>15. items \in Seq(Item)
  BY <1>1, <1>13
<1>16. \A i, j \in 1 .. Len(items) : i < j => items[i].tick <= items[j].tick
  <2>1. \A x, y \in S : Before(x, y) => x.tick <= y.tick
    BY <1>7 DEF Before
  <2>. QED BY <1>13, <1>14, <2>1
<1>17. \A i, j \in 1 .. Len(items) : items[i] = items[j] => i = j
  <2>1. \A i, j \in 1 .. Len(items) : i < j => items[i] # items[j]
    BY <1>1, <1>13, <1>14, BeforeOrders
  <2>. QED BY <2>1
<1>18. \A i, j \in 1 .. Len(items) :
         items[i].kind = SpanOpen /\ items[j].kind = SpanClose /\ items[i].ref = items[j].ref => i < j
  <2>1. ASSUME NEW i \in 1 .. Len(items), NEW j \in 1 .. Len(items),
               items[i].kind = SpanOpen, items[j].kind = SpanClose, items[i].ref = items[j].ref
        PROVE  i < j
    <3>1. Before(items[i], items[j]) /\ items[i] \in Item /\ items[j] \in Item
      BY <1>1, <1>12, <1>14, <2>1
    <3>2. items[i] # items[j] /\ ~Before(items[j], items[i])
      BY <3>1, BeforeOrders
    <3>3. ~(j < i) /\ i # j
      BY <1>13, <3>2
    <3>. QED BY <3>3
  <2>. QED BY <2>1
<1>. QED
  <2>1. \A i \in 1 .. Len(items) :
          /\ items[i].tick <= desc.duration
          /\ items[i].kind = SpanOpen =>
               items[i].ref \in DOMAIN desc.spans /\ items[i].tick = desc.spans[items[i].ref].begin
          /\ items[i].kind = SpanClose =>
               items[i].ref \in DOMAIN desc.spans /\ items[i].tick = desc.spans[items[i].ref].end
    BY <1>7, <1>14
  <2>2. \A k \in DOMAIN desc.spans :
          /\ \E i \in 1 .. Len(items) : items[i].kind = SpanOpen /\ items[i].ref = k
          /\ \E i \in 1 .. Len(items) : items[i].kind = SpanClose /\ items[i].ref = k
    BY <1>8, <1>13
  <2>3. \A i, j \in 1 .. Len(items) : items[i].kind = items[j].kind /\ items[i].ref = items[j].ref => i = j
    BY <1>11, <1>14, <1>17
  <2>4. \A i, j \in 1 .. Len(items) :
          /\ items[i].kind = items[j].kind /\ items[i].ref = items[j].ref => i = j
          /\ items[i].kind = SpanOpen /\ items[j].kind = SpanClose /\ items[i].ref = items[j].ref => i < j
    BY <1>18, <2>3, Zenon
  <2>. QED BY <1>15, <1>16, <2>1, <2>2, <2>4, Zenon DEF Timeline

-----------------------------------------------------------------------------
\* The elements of the timeline.
LEMMA ItemsType ==
  ASSUME Timeline
  PROVE  /\ DOMAIN items = 1 .. Len(items) /\ Len(items) \in Nat
         /\ \A k \in 1 .. Len(items) : items[k] \in Item /\ items[k].tick \in Nat
<1>1. items \in Seq(Item)
  BY DEF Timeline
<1>2. DOMAIN items = 1 .. Len(items) /\ Len(items) \in Nat /\ \A k \in 1 .. Len(items) : items[k] \in Item
  BY <1>1
<1>3. \A x \in Item : x.tick \in Nat
  BY DEF Item
<1>. QED BY <1>2, <1>3

\* The cursor a resume seeks is behind exactly what is not after the position.
LEMMA SoughtRight ==
  ASSUME Timeline, NEW p \in Nat
  PROVE  /\ Sought(p) \in 1 .. Len(items) + 1
         /\ \A k \in 1 .. Len(items) : items[k].tick <= p <=> k < Sought(p)
<1> DEFINE D == {k \in DOMAIN items : items[k].tick <= p}
<1>1. /\ DOMAIN items = 1 .. Len(items) /\ Len(items) \in Nat
      /\ \A k \in 1 .. Len(items) : items[k].tick \in Nat
  BY ItemsType
<1>2. \E m \in 1 .. Len(items) + 1 : D = 1 .. m - 1
  <2>1. CASE D = 1 .. Len(items)
    <3>1. Len(items) + 1 - 1 = Len(items)
      BY <1>1
    <3>. QED BY <1>1, <2>1, <3>1
  <2>2. CASE D # 1 .. Len(items)
    <3> DEFINE R == (1 .. Len(items)) \ D
    <3>1. R \in SUBSET Nat /\ R # {}
      BY <1>1, <2>2
    <3>2. PICK m \in R : \A k \in R : m <= k
      BY <3>1, LeastOf
    <3>3. \A k \in 1 .. Len(items) : k < m => k \in D
      BY <1>1, <3>2
    <3>4. \A k \in 1 .. Len(items) : k >= m => k \notin D
      <4>1. ASSUME NEW k \in 1 .. Len(items), k > m PROVE items[m].tick <= items[k].tick
        BY <3>2, <4>1 DEF Timeline
      <4>2. ~(items[m].tick <= p)
        BY <1>1, <3>2
      <4>. QED BY <1>1, <3>2, <4>1, <4>2
    <3>5. D \subseteq 1 .. Len(items)
      BY <1>1
    <3>6. m \in 1 .. Len(items)
      BY <3>2
    <3>. HIDE DEF D, R
    <3>7. \A k : k \in D <=> k \in 1 .. m - 1
      <4>1. \A k \in D : k \in 1 .. m - 1
        BY <1>1, <3>4, <3>5, <3>6
      <4>2. \A k \in 1 .. m - 1 : k \in D
        BY <1>1, <3>3, <3>6
      <4>. QED BY <4>1, <4>2
    <3>8. D = 1 .. m - 1
      BY <3>7
    <3>. QED BY <1>1, <3>6, <3>8
  <2>. QED BY <2>1, <2>2
<1>3. PICK m \in 1 .. Len(items) + 1 : D = 1 .. m - 1
  BY <1>2
<1>4. Cardinality(1 .. m - 1) = m - 1
  BY <1>1, FS_Interval
<1>5. Sought(p) = m
  <2>1. Sought(p) = Cardinality(D) + 1
    BY DEF Sought
  <2>. HIDE DEF D
  <2>. QED BY <1>1, <1>3, <1>4, <2>1
<1>6. \A k \in 1 .. Len(items) : k \in D <=> k < m
  <2>. HIDE DEF D
  <2>. QED BY <1>1, <1>3
<1>. QED BY <1>1, <1>5, <1>6

\* The spans of a sheet.
LEMMA SpanTimes ==
  ASSUME desc \in Sheets
  PROVE  \A k \in DOMAIN desc.spans : desc.spans[k].begin \in Nat /\ desc.spans[k].end \in Nat
<1>1. desc.spans \in Seq([begin : Nat, end : Nat])
  BY SheetsAssumption
<1>2. \A k \in DOMAIN desc.spans : desc.spans[k] \in [begin : Nat, end : Nat]
  BY <1>1, Elements
<1>. QED BY <1>2

\* Where nothing is due, the open spans are those around the playhead.
LEMMA OpenCovers ==
  ASSUME desc \in Sheets, Timeline, NEW p \in Nat, NEW c \in Nat,
         \A k \in 1 .. Len(items) : items[k].tick <= p <=> k < c
  PROVE  OpenAt(c) = Covering(p)
<1>1. ASSUME NEW k \in DOMAIN desc.spans
      PROVE  /\ (\E i \in 1 .. Len(items) : i < c /\ items[i].kind = SpanOpen /\ items[i].ref = k)
                  <=> desc.spans[k].begin <= p
             /\ (\E i \in 1 .. Len(items) : i < c /\ items[i].kind = SpanClose /\ items[i].ref = k)
                  <=> desc.spans[k].end <= p
  <2>1. PICK i \in 1 .. Len(items) : items[i].kind = SpanOpen /\ items[i].ref = k
    BY DEF Timeline
  <2>2. PICK j \in 1 .. Len(items) : items[j].kind = SpanClose /\ items[j].ref = k
    BY DEF Timeline
  <2>3. items[i].tick = desc.spans[k].begin /\ items[j].tick = desc.spans[k].end
    BY <2>1, <2>2 DEF Timeline
  <2>4. \A n \in 1 .. Len(items) :
          /\ items[n].kind = SpanOpen /\ items[n].ref = k => n = i
          /\ items[n].kind = SpanClose /\ items[n].ref = k => n = j
    BY <2>1, <2>2 DEF Timeline
  <2>5. (i < c <=> desc.spans[k].begin <= p) /\ (j < c <=> desc.spans[k].end <= p)
    BY <2>3
  <2>6. (\E n \in 1 .. Len(items) : n < c /\ items[n].kind = SpanOpen /\ items[n].ref = k) <=> i < c
    <3>1. ASSUME NEW n \in 1 .. Len(items), n < c, items[n].kind = SpanOpen, items[n].ref = k
          PROVE  i < c
      <4>1. n = i
        BY <2>4, <3>1
      <4>. QED BY <3>1, <4>1
    <3>. QED BY <2>1, <3>1
  <2>7. (\E n \in 1 .. Len(items) : n < c /\ items[n].kind = SpanClose /\ items[n].ref = k) <=> j < c
    <3>1. ASSUME NEW n \in 1 .. Len(items), n < c, items[n].kind = SpanClose, items[n].ref = k
          PROVE  j < c
      <4>1. n = j
        BY <2>4, <3>1
      <4>. QED BY <3>1, <4>1
    <3>. QED BY <2>2, <3>1
  <2>. QED BY <2>5, <2>6, <2>7
<1>2. \A k \in DOMAIN desc.spans : p < desc.spans[k].end <=> ~(desc.spans[k].end <= p)
  BY SpanTimes
<1>. QED BY <1>1, <1>2 DEF OpenAt, Covering

\* Firing an opening opens its span, firing a closing closes it.
LEMMA OpenNext ==
  ASSUME Timeline, NEW c \in 1 .. Len(items)
  PROVE  OpenAt(c + 1) = IF items[c].kind = SpanOpen THEN OpenAt(c) \cup {items[c].ref}
                         ELSE IF items[c].kind = SpanClose THEN OpenAt(c) \ {items[c].ref}
                         ELSE OpenAt(c)
<1> DEFINE Past(what, n, k) == \E i \in 1 .. Len(items) : i < n /\ items[i].kind = what /\ items[i].ref = k
<1>0. Len(items) \in Nat /\ SpanOpen # SpanClose
  BY DEF Timeline, SpanOpen, SpanClose
<1>1. ASSUME NEW what, NEW k
      PROVE  Past(what, c + 1, k) <=> Past(what, c, k) \/ (items[c].kind = what /\ items[c].ref = k)
  <2>1. \A i \in 1 .. Len(items) : i < c + 1 <=> i < c \/ i = c
    BY <1>0
  <2>. QED BY <2>1
<1>2. \A n : OpenAt(n) = {k \in DOMAIN desc.spans : Past(SpanOpen, n, k) /\ ~Past(SpanClose, n, k)}
  BY DEF OpenAt
<1>3. ASSUME items[c].kind = SpanOpen
      PROVE  items[c].ref \in DOMAIN desc.spans /\ ~Past(SpanClose, c, items[c].ref)
  <2>1. ASSUME NEW j \in 1 .. Len(items), items[j].kind = SpanClose, items[j].ref = items[c].ref
        PROVE  c < j
    BY <1>3, <2>1 DEF Timeline
  <2>2. \A j \in 1 .. Len(items) : c < j => ~(j < c)
    BY <1>0
  <2>3. items[c].ref \in DOMAIN desc.spans
    BY <1>3 DEF Timeline
  <2>. QED BY <2>1, <2>2, <2>3
<1>. HIDE DEF Past
<1>4. CASE items[c].kind = SpanOpen
  BY <1>0, <1>1, <1>2, <1>3, <1>4
<1>5. CASE items[c].kind = SpanClose
  BY <1>0, <1>1, <1>2, <1>5
<1>6. CASE items[c].kind # SpanOpen /\ items[c].kind # SpanClose
  BY <1>1, <1>2, <1>6
<1>. QED BY <1>4, <1>5, <1>6, <1>0

\* No span is open before the first item, and none behind the last.
LEMMA OpenEnds ==
  ASSUME Timeline
  PROVE  OpenAt(1) = {} /\ OpenAt(Len(items) + 1) = {}
<1>1. \A i \in 1 .. Len(items) : ~(i < 1) /\ i < Len(items) + 1
  BY DEF Timeline
<1>2. OpenAt(1) = {}
  BY <1>1 DEF OpenAt
<1>3. \A k \in DOMAIN desc.spans : \E i \in 1 .. Len(items) : items[i].kind = SpanClose /\ items[i].ref = k
  BY DEF Timeline
<1>. QED BY <1>1, <1>2, <1>3 DEF OpenAt

\* Updates of a sheet keep its type.
LEMMA SheetUpdates ==
  ASSUME NEW s \in SheetType, NEW playhead \in Nat, NEW pass \in Nat, NEW done \in BOOLEAN,
         NEW saved \in BOOLEAN, NEW cursor \in Nat, NEW epoch \in Nat, NEW entered \in BOOLEAN
  PROVE  /\ [s EXCEPT !.playhead = playhead, !.pass = pass, !.done = done, !.saved = saved,
                      !.cursor = cursor, !.epoch = epoch, !.entered = entered] \in SheetType
         /\ [s EXCEPT !.saved = saved, !.saved_playhead = playhead, !.saved_pass = pass,
                      !.saved_done = done, !.epoch = epoch] \in SheetType
         /\ [s EXCEPT !.entered = entered, !.epoch = epoch] \in SheetType
         /\ [s EXCEPT !.done = done] \in SheetType
  BY DEF SheetType

\* The fields of a sheet that leaves, and of one that enters.
LEMMA SettledFields ==
  ASSUME NEW s \in SheetType
  PROVE  /\ Settled(s) \in SheetType
         /\ Settled(s).playhead = s.playhead /\ Settled(s).cursor = s.cursor
         /\ Settled(s).epoch = s.epoch + 1
         /\ desc.history => Settled(s).saved /\ Settled(s).saved_playhead = s.playhead
         /\ ~desc.history => Settled(s).saved = s.saved
<1> DEFINE t == [s EXCEPT !.saved = TRUE, !.saved_playhead = s.playhead, !.saved_pass = s.pass,
                          !.saved_done = s.done, !.epoch = @ + 1]
           u == [s EXCEPT !.epoch = @ + 1]
<1>0. /\ s.playhead \in Nat /\ s.pass \in Nat /\ s.done \in BOOLEAN /\ s.epoch + 1 \in Nat
      /\ s.saved_playhead \in Nat /\ s.saved_pass \in Nat /\ s.saved_done \in BOOLEAN
  BY DEF SheetType
<1>1. t \in SheetType
  <2>. PICK b \in BOOLEAN : b = s.done
    BY <1>0
  <2>. PICK k \in Nat : k = s.epoch + 1
    BY <1>0
  <2>. PICK yes \in BOOLEAN : yes = TRUE
    OBVIOUS
  <2>. PICK p \in Nat : p = s.playhead
    BY <1>0
  <2>. PICK q \in Nat : q = s.pass
    BY <1>0
  <2>1. [s EXCEPT !.saved = yes, !.saved_playhead = p, !.saved_pass = q,
                  !.saved_done = b, !.epoch = k] \in SheetType
    BY DEF SheetType
  <2>. QED BY <2>1
<1>2. /\ t.playhead = s.playhead /\ t.cursor = s.cursor /\ t.epoch = s.epoch + 1
      /\ t.saved = TRUE /\ t.saved_playhead = s.playhead
  BY DEF SheetType
<1>3. u \in SheetType
  BY DEF SheetType
<1>4. u.playhead = s.playhead /\ u.cursor = s.cursor /\ u.epoch = s.epoch + 1 /\ u.saved = s.saved
  BY DEF SheetType
<1>5. Settled(s) = IF desc.history THEN t ELSE u
  BY Zenon DEF Settled
<1>. HIDE DEF t, u
<1>. QED BY <1>1, <1>2, <1>3, <1>4, <1>5

\* What sheet_start sets.
LEMMA StartedFields ==
  ASSUME Timeline, NEW s \in SheetType
  PROVE  /\ Started(s) \in SheetType /\ Started(s).saved = FALSE /\ Started(s).epoch = s.epoch + 1
         /\ Resumes(s) => /\ Started(s).playhead = s.saved_playhead
                          /\ Started(s).cursor = Sought(s.saved_playhead)
         /\ ~Resumes(s) => Started(s).playhead = 0 /\ Started(s).cursor = 1
<1> DEFINE c == Sought(s.saved_playhead)
           t == [s EXCEPT !.playhead = s.saved_playhead, !.pass = s.saved_pass, !.done = s.saved_done,
                          !.saved = FALSE, !.cursor = c, !.epoch = @ + 1, !.entered = TRUE]
           u == [s EXCEPT !.playhead = 0, !.pass = 0, !.done = FALSE, !.saved = FALSE,
                          !.cursor = 1, !.epoch = @ + 1, !.entered = TRUE]
<1>1. c \in Nat
  <2>1. s.saved_playhead \in Nat
    BY DEF SheetType
  <2>2. c \in 1 .. Len(items) + 1
    BY <2>1, SoughtRight
  <2>. QED BY <2>2, ItemsType
<1>2. Started(s) = IF Resumes(s) THEN t ELSE u
  BY Zenon DEF Started
<1>. HIDE DEF c
<1>0. /\ s.epoch + 1 \in Nat /\ s.saved_playhead \in Nat /\ s.saved_pass \in Nat
      /\ s.saved_done \in BOOLEAN
  BY DEF SheetType
<1>3. t \in SheetType
  <2>. PICK b \in BOOLEAN : b = s.saved_done
    BY <1>0
  <2>. PICK k \in Nat : k = s.epoch + 1
    BY <1>0
  <2>. PICK no \in BOOLEAN : no = FALSE
    OBVIOUS
  <2>. PICK yes \in BOOLEAN : yes = TRUE
    OBVIOUS
  <2>. PICK p \in Nat : p = s.saved_playhead
    BY <1>0
  <2>. PICK q \in Nat : q = s.saved_pass
    BY <1>0
  <2>. PICK d \in Nat : d = c
    BY <1>1
  <2>1. [s EXCEPT !.playhead = p, !.pass = q, !.done = b,
                  !.saved = no, !.cursor = d, !.epoch = k, !.entered = yes] \in SheetType
    BY ZenonT(30) DEF SheetType
  <2>. QED BY <2>1
<1>4. t.playhead = s.saved_playhead /\ t.cursor = c /\ t.epoch = s.epoch + 1 /\ t.saved = FALSE
  BY DEF SheetType
<1>5. u \in SheetType
  BY <1>0, SheetUpdates
<1>6. u.playhead = 0 /\ u.cursor = 1 /\ u.epoch = s.epoch + 1 /\ u.saved = FALSE
  BY DEF SheetType
<1>. HIDE DEF t, u
<1>. QED BY <1>2, <1>3, <1>4, <1>5, <1>6 DEF c

\* The stack with a frame pushed, and popped.
LEMMA StackMoves ==
  ASSUME NEW s \in Seq(TodoFrame)
  PROVE  /\ Len(s) \in Nat
         /\ \A f \in TodoFrame :
              /\ <<f>> \o s \in Seq(TodoFrame) /\ Len(<<f>> \o s) = Len(s) + 1 /\ (<<f>> \o s)[1] = f
              /\ \A n \in 1 .. Len(s) : (<<f>> \o s)[n + 1] = s[n]
         /\ s # <<>> => /\ Tail(s) \in Seq(TodoFrame) /\ Len(Tail(s)) = Len(s) - 1
                        /\ Head(s) = s[1] /\ Len(s) >= 1
                        /\ \A n \in 1 .. Len(s) - 1 : Tail(s)[n] = s[n + 1]
<1>1. Len(s) \in Nat
  OBVIOUS
<1>2. ASSUME NEW f \in TodoFrame
      PROVE  /\ <<f>> \o s \in Seq(TodoFrame) /\ Len(<<f>> \o s) = Len(s) + 1 /\ (<<f>> \o s)[1] = f
             /\ \A n \in 1 .. Len(s) : (<<f>> \o s)[n + 1] = s[n]
  OBVIOUS
<1>3. ASSUME s # <<>>
      PROVE  /\ Tail(s) \in Seq(TodoFrame) /\ Len(Tail(s)) = Len(s) - 1
             /\ Head(s) = s[1] /\ Len(s) >= 1
             /\ \A n \in 1 .. Len(s) - 1 : Tail(s)[n] = s[n + 1]
  BY <1>3
<1>. QED BY <1>1, <1>2, <1>3

-----------------------------------------------------------------------------
\* The timeline of a sheet never changes.
LEMMA TimelineKept ==
  ASSUME SequenceInv, desc' = desc, items' = items
  PROVE  Timeline'
  BY DEF SequenceInv, Timeline

\* What a step has to show, with the timeline as it was.
LEMMA Shown ==
  ASSUME SequenceInv, desc' = desc, items' = items,
         SequenceTypeOK', CursorRight', StackRight', SavedRight', FiredRight',
         life' = "live" /\ active' => open' = OpenAt(sheet'.cursor),
         ~active' => open' = {}
  PROVE  SequenceInv'
<1>1. OpenRight'
  BY DEF OpenRight, OpenAt
<1>. QED BY <1>1, TimelineKept DEF SequenceInv

\* A state enters: afresh with its items all ahead, or where it was, and then
\* with all behind it that the position covers.
LEMMA EnterStep ==
  ASSUME SequenceInv, NEW left \in SheetType, Entered(left),
         desc' = desc, items' = items, life' = "live",
         phase' \in {"before", "after"}, marked' \in BOOLEAN, dormant' \in BOOLEAN, cut' \subseteq Nat,
         Resumes(left) =>
           /\ \A a \in 1 .. Len(fired) : items[fired[a]].tick <= left.saved_playhead
           /\ Range(fired) \cup cut' = {k \in 1 .. Len(items) : items[k].tick <= left.saved_playhead},
         ~Resumes(left) => cut' = {}
  PROVE  SequenceInv'
<1> DEFINE p == left.saved_playhead
           s == Started(left)
<1>1. /\ Timeline /\ desc \in Sheets /\ todo \in Seq(TodoFrame) /\ fired \in Seq(Nat) /\ p \in Nat
      /\ \A n \in 1 .. Len(todo) : n < Len(todo) => todo[n].do # "sheet_end"
      /\ \A a \in 1 .. Len(fired) : fired[a] \in 1 .. Len(items)
      /\ \A a, b \in 1 .. Len(fired) : a < b => fired[a] < fired[b]
  BY DEF SequenceInv, SequenceTypeOK, StackRight, FiredRight, SheetType
<1>2. active' = TRUE /\ sheet' = s
  BY DEF Entered
<1>3. s \in SheetType /\ s.saved = FALSE
  BY <1>1, StartedFields
<1>4. Len(items) \in Nat /\ \A k \in 1 .. Len(items) : items[k].tick \in Nat
  BY <1>1, ItemsType
<1>5. CASE Resumes(left)
  <2>1. /\ todo' = todo /\ fired' = fired /\ open' = Covering(p)
        /\ s.playhead = p /\ s.cursor = Sought(p)
    BY <1>1, <1>5, StartedFields DEF Entered
  <2>2. /\ Sought(p) \in 1 .. Len(items) + 1
        /\ \A k \in 1 .. Len(items) : items[k].tick <= p <=> k < Sought(p)
    BY <1>1, SoughtRight
  <2>3. OpenAt(Sought(p)) = Covering(p)
    <3>. PICK c \in Nat : c = Sought(p)
      BY <1>4, <2>2
    <3>. HIDE DEF p
    <3>1. \A k \in 1 .. Len(items) : items[k].tick <= p <=> k < c
      BY <2>2
    <3>. QED BY <1>1, <3>1, OpenCovers
  <2>4. Covering(p) \subseteq DOMAIN desc.spans
    BY DEF Covering
  <2>. HIDE DEF s, p
  <2>5. SequenceTypeOK'
    BY <1>1, <1>2, <1>3, <2>1, <2>4 DEF SequenceTypeOK
  <2>6. CursorRight'
    BY <1>2, <2>1, <2>2 DEF CursorRight
  <2>7. StackRight'
    BY <1>1, <1>2, <2>1, <2>2 DEF StackRight, CaughtUp
  <2>8. SavedRight'
    BY <1>2, <1>3 DEF SavedRight
  <2>9. FiredRight'
    <3>1. \A a \in 1 .. Len(fired) : items[fired[a]].tick <= p
      BY <1>5 DEF p
    <3>2. \A a \in 1 .. Len(fired) : fired[a] < Sought(p)
      BY <1>1, <2>2, <3>1
    <3>3. Range(fired) \cup cut' = {k \in 1 .. Len(items) : items[k].tick <= p}
      BY <1>5 DEF p
    <3>4. {k \in 1 .. Len(items) : items[k].tick <= p} = 1 .. Sought(p) - 1
      <4>. HIDE DEF Sought
      <4>1. \A k \in 1 .. Sought(p) - 1 : k \in 1 .. Len(items) /\ k < Sought(p)
        BY <1>4, <2>2
      <4>2. \A k \in 1 .. Len(items) : k < Sought(p) => k \in 1 .. Sought(p) - 1
        BY <1>4, <2>2
      <4>. QED BY <2>2, <4>1, <4>2
    <3>. QED BY <1>1, <1>2, <2>1, <3>2, <3>3, <3>4 DEF FiredRight, Range
  <2>10. open' = OpenAt(sheet'.cursor)
    BY <1>2, <2>1, <2>3
  <2>. QED BY <1>2, <2>5, <2>6, <2>7, <2>8, <2>9, <2>10, Shown
<1>6. CASE ~Resumes(left)
  <2> DEFINE f == Batch(s)
  <2>1. /\ todo' = <<f>> \o todo /\ fired' = <<>> /\ open' = {} /\ cut' = {}
        /\ s.playhead = 0 /\ s.cursor = 1
    BY <1>1, <1>6, StartedFields DEF Entered
  <2>2. f \in TodoFrame /\ f.do = "batch" /\ f.epoch = s.epoch
    BY <1>3 DEF Batch, TodoFrame, SheetType
  <2>3. OpenAt(1) = {}
    BY <1>1, OpenEnds
  <2>. HIDE DEF s, p, f
  <2>4. /\ todo' \in Seq(TodoFrame) /\ Len(todo') = Len(todo) + 1 /\ todo'[1] = f /\ Len(todo) \in Nat
        /\ \A n \in 1 .. Len(todo) : todo'[n + 1] = todo[n]
    BY <1>1, <2>1, <2>2, StackMoves
  <2>5. SequenceTypeOK'
    BY <1>1, <1>2, <1>3, <2>1, <2>4 DEF SequenceTypeOK
  <2>6. CursorRight'
    BY <1>2, <1>4, <2>1 DEF CursorRight
  <2>7. StackRight'
    <3>1. 1 \in 1 .. Len(todo') /\ todo'[1].do = "batch" /\ todo'[1].epoch = sheet'.epoch
      BY <1>2, <2>2, <2>4
    <3>2. ASSUME NEW n \in 1 .. Len(todo'), n < Len(todo')
          PROVE  todo'[n].do # "sheet_end"
      <4>1. CASE n = 1
        BY <2>2, <2>4, <4>1
      <4>2. CASE n # 1
        <5>1. n - 1 \in 1 .. Len(todo) /\ n - 1 < Len(todo) /\ n - 1 + 1 = n
          BY <2>4, <3>2, <4>2
        <5>2. todo'[n - 1 + 1] = todo[n - 1]
          BY <2>4, <5>1
        <5>. QED BY <1>1, <5>1, <5>2
      <4>. QED BY <4>1, <4>2
    <3>. QED BY <3>1, <3>2 DEF StackRight
  <2>8. SavedRight'
    BY <1>2, <1>3 DEF SavedRight
  <2>9. FiredRight'
    <3>1. Range(fired') = {} /\ 1 .. sheet'.cursor - 1 = {}
      BY <1>2, <2>1 DEF Range
    <3>. QED BY <1>2, <2>1, <3>1 DEF FiredRight
  <2>10. open' = OpenAt(sheet'.cursor)
    BY <1>2, <2>1, <2>3
  <2>. QED BY <1>2, <2>5, <2>6, <2>7, <2>8, <2>9, <2>10, Shown
<1>. QED BY <1>5, <1>6

\* start_initial_entry: nothing was saved, so it starts afresh.
LEMMA InitialEntryStep ==
  ASSUME SequenceInv, initial_entry
  PROVE  SequenceInv'
<1>1. /\ life = "instantiated" /\ life' = "live" /\ Entered(sheet)
      /\ desc' = desc /\ items' = items /\ phase' = phase /\ marked' = marked /\ dormant' = dormant /\ cut' = cut
  BY DEF initial_entry
<1>2. sheet \in SheetType /\ ~sheet.saved /\ cut = {}
      /\ phase \in {"before", "after"} /\ marked \in BOOLEAN /\ dormant \in BOOLEAN
  BY <1>1 DEF SequenceInv, SequenceTypeOK, SavedRight
<1>3. ~Resumes(sheet)
  BY <1>2 DEF Resumes
<1>. QED BY <1>1, <1>2, <1>3, EnterStep

\* A transition: what is due and has not fired is cut off, and under history
\* the position is saved.
LEMMA TransitionStep ==
  ASSUME SequenceInv, NEW enters \in BOOLEAN, transition(enters)
  PROVE  SequenceInv'
<1> DEFINE left == IF active THEN Settled(sheet) ELSE sheet
           behind == IF active THEN DueBehind(sheet) ELSE {}
           due == {k \in 1 .. Len(items) : items[k].tick <= sheet.playhead}
<1>1. /\ life = "live" /\ marked' = TRUE /\ (active \/ enters)
      /\ cut' = IF enters /\ ~Resumes(left) THEN {} ELSE cut \cup behind
      /\ desc' = desc /\ items' = items /\ life' = life /\ phase' = phase /\ dormant' = dormant
  BY DEF transition, UserRuns
<1>2. /\ enters => Entered(left)
      /\ ~enters => active' = FALSE /\ sheet' = left /\ open' = {} /\ todo' = todo /\ fired' = fired
  BY DEF transition
<1>3. /\ Timeline /\ sheet \in SheetType /\ phase \in {"before", "after"} /\ dormant \in BOOLEAN
      /\ cut \subseteq Nat /\ CursorRight /\ FiredRight /\ sheet.playhead \in Nat
      /\ active \in BOOLEAN
  BY DEF SequenceInv, SequenceTypeOK, SheetType
<1>4. /\ DOMAIN items = 1 .. Len(items) /\ Len(items) \in Nat
      /\ \A k \in 1 .. Len(items) : items[k].tick \in Nat
  BY <1>3, ItemsType
<1>5. /\ left \in SheetType /\ left.playhead = sheet.playhead /\ left.cursor = sheet.cursor
      /\ desc.history /\ (active \/ life = "live") => left.saved /\ left.saved_playhead = sheet.playhead
      /\ ~desc.history => ~left.saved
  <2>1. CASE active
    BY <1>3, <2>1, SettledFields DEF SequenceInv, SavedRight
  <2>2. CASE ~active
    BY <1>1, <1>3, <2>2 DEF SequenceInv, SavedRight
  <2>. QED BY <2>1, <2>2
<1>6. behind \subseteq Nat
  BY <1>4 DEF DueBehind
<1>7. active \/ desc.history => Range(fired) \cup (cut \cup behind) = due
  <2>1. CASE active
    <3>1. Range(fired) \cup cut = 1 .. sheet.cursor - 1
      BY <1>1, <1>3, <2>1 DEF FiredRight
    <3>2. /\ sheet.cursor \in 1 .. Len(items) + 1
          /\ \A k \in 1 .. Len(items) : k < sheet.cursor => items[k].tick <= sheet.playhead
      BY <1>3 DEF CursorRight
    <3>3. behind = {k \in 1 .. Len(items) : k >= sheet.cursor /\ items[k].tick <= sheet.playhead}
      BY <1>4, <2>1 DEF DueBehind, IsDue
    <3>. HIDE DEF behind
    <3>4. \A k : k \in due <=> k \in 1 .. sheet.cursor - 1 \/ k \in behind
      BY <1>4, <3>2, <3>3
    <3>. HIDE DEF due
    <3>. QED BY <3>1, <3>4
  <2>2. CASE ~active /\ desc.history
    BY <1>1, <1>3, <2>2 DEF FiredRight
  <2>. QED BY <2>1, <2>2
<1>8. \A a \in 1 .. Len(fired) : items[fired[a]].tick <= sheet.playhead
  BY <1>3 DEF CursorRight, FiredRight
<1>. HIDE DEF left, behind, due
<1>9. CASE enters
  <2>1. Entered(left) /\ cut' \subseteq Nat /\ marked' \in BOOLEAN /\ life' = "live"
    BY <1>1, <1>2, <1>3, <1>6, <1>9
  <2>2. ~Resumes(left) => cut' = {}
    BY <1>1, <1>9
  <2>3. ASSUME Resumes(left)
        PROVE  /\ \A a \in 1 .. Len(fired) : items[fired[a]].tick <= left.saved_playhead
               /\ Range(fired) \cup cut' = {k \in 1 .. Len(items) : items[k].tick <= left.saved_playhead}
    <3>1. desc.history /\ left.saved_playhead = sheet.playhead
      BY <1>1, <1>5, <2>3 DEF Resumes
    <3>2. cut' = cut \cup behind
      BY <1>1, <2>3
    <3>. QED BY <1>7, <1>8, <3>1, <3>2 DEF due
  <2>. QED BY <1>1, <1>3, <1>5, <2>1, <2>2, <2>3, EnterStep
<1>10. CASE ~enters
  <2>1. /\ active' = FALSE /\ sheet' = left /\ open' = {} /\ todo' = todo /\ fired' = fired
        /\ active /\ cut' = cut \cup behind
    BY <1>1, <1>2, <1>10
  <2>2. SequenceTypeOK'
    <3>1. {} \subseteq DOMAIN desc.spans /\ cut' \subseteq Nat
      BY <1>3, <1>6, <2>1
    <3>. QED BY <1>1, <1>5, <2>1, <3>1 DEF SequenceInv, SequenceTypeOK
  <2>3. CursorRight'
    BY <1>1, <1>3, <1>5, <2>1 DEF CursorRight
  <2>4. StackRight'
    BY <1>1, <2>1 DEF SequenceInv, StackRight
  <2>5. SavedRight'
    BY <1>1, <1>5, <2>1 DEF SequenceInv, SavedRight
  <2>6. FiredRight'
    <3>1. /\ \A a \in 1 .. Len(fired) : fired[a] \in 1 .. Len(items) /\ fired[a] < sheet.cursor
          /\ \A a, b \in 1 .. Len(fired) : a < b => fired[a] < fired[b]
      BY <1>3 DEF FiredRight
    <3>2. Range(fired) \cup cut' = {k \in 1 .. Len(items) : items[k].tick <= sheet'.playhead}
      BY <1>5, <1>7, <2>1 DEF due
    <3>. QED BY <1>1, <1>5, <2>1, <3>1, <3>2 DEF FiredRight, Range
  <2>. QED BY <1>1, <2>1, <2>2, <2>3, <2>4, <2>5, <2>6, Shown
<1>. QED BY <1>9, <1>10

\* The next tick: flags and epochs start again, with nothing on the stack.
LEMMA NextTickStep ==
  ASSUME SequenceInv, next_tick
  PROVE  SequenceInv'
<1> DEFINE s == [sheet EXCEPT !.entered = FALSE, !.epoch = 0]
<1>1. /\ todo = <<>> /\ life # "instantiated" /\ phase' = "before" /\ marked' = FALSE /\ sheet' = s
      /\ desc' = desc /\ items' = items /\ life' = life /\ dormant' = dormant /\ active' = active
      /\ open' = open /\ todo' = todo /\ fired' = fired /\ cut' = cut
  BY DEF next_tick
<1>2. sheet \in SheetType /\ SequenceTypeOK /\ CursorRight /\ StackRight /\ SavedRight /\ FiredRight /\ OpenRight
  BY DEF SequenceInv, SequenceTypeOK
<1>3. /\ s \in SheetType /\ s.playhead = sheet.playhead /\ s.cursor = sheet.cursor
      /\ s.saved_playhead = sheet.saved_playhead
  <2>. PICK no \in BOOLEAN : no = FALSE
    OBVIOUS
  <2>1. [sheet EXCEPT !.entered = no, !.epoch = 0] \in SheetType
    BY <1>2 DEF SheetType
  <2>2. /\ s.playhead = sheet.playhead /\ s.cursor = sheet.cursor
        /\ s.saved_playhead = sheet.saved_playhead
    BY <1>2 DEF SheetType
  <2>. QED BY <2>1, <2>2
<1>4. s.saved = sheet.saved
  BY <1>2, Zenon DEF SheetType
<1>. HIDE DEF s
<1>5. SequenceTypeOK'
  BY <1>1, <1>2, <1>3 DEF SequenceTypeOK
<1>6. CursorRight'
  BY <1>1, <1>2, <1>3 DEF CursorRight
<1>7. StackRight'
  <2>1. life = "live" /\ active => CaughtUp
    BY <1>1, <1>2 DEF StackRight
  <2>2. CaughtUp => CaughtUp'
    BY <1>1, <1>3 DEF CaughtUp
  <2>. QED BY <1>1, <1>2, <2>1, <2>2 DEF StackRight
<1>8. SavedRight'
  BY <1>1, <1>2, <1>3, <1>4 DEF SavedRight
<1>9. FiredRight'
  BY <1>1, <1>2, <1>3 DEF FiredRight, Range
<1>. QED BY <1>1, <1>2, <1>3, <1>5, <1>6, <1>7, <1>8, <1>9, Shown DEF OpenRight

\* exit_host: the state leaves for good.
LEMMA ExitHostStep ==
  ASSUME SequenceInv, exit_host
  PROVE  SequenceInv'
<1>1. /\ todo = <<>> /\ life' = "dead" /\ active' = FALSE /\ open' = {}
      /\ sheet' = IF active THEN Settled(sheet) ELSE sheet
      /\ desc' = desc /\ items' = items /\ phase' = phase /\ marked' = marked /\ dormant' = dormant
      /\ todo' = todo /\ fired' = fired /\ cut' = cut /\ life = "live"
  BY DEF exit_host
<1>2. sheet \in SheetType /\ SequenceTypeOK /\ CursorRight /\ SavedRight /\ FiredRight
  BY DEF SequenceInv, SequenceTypeOK
<1>3. /\ sheet' \in SheetType /\ sheet'.playhead = sheet.playhead /\ sheet'.cursor = sheet.cursor
      /\ ~desc.history => ~sheet'.saved
  <2>1. CASE active
    BY <1>1, <1>2, <2>1, SettledFields DEF SavedRight
  <2>2. CASE ~active
    BY <1>1, <1>2, <2>2 DEF SavedRight
  <2>. QED BY <2>1, <2>2
<1>4. SequenceTypeOK'
  BY <1>1, <1>2, <1>3 DEF SequenceTypeOK
<1>5. CursorRight'
  BY <1>1, <1>2, <1>3 DEF CursorRight
<1>6. StackRight'
  BY <1>1 DEF StackRight
<1>7. SavedRight'
  BY <1>1, <1>3 DEF SavedRight
<1>8. FiredRight'
  BY <1>1, <1>2, <1>3 DEF FiredRight
<1>. QED BY <1>1, <1>4, <1>5, <1>6, <1>7, <1>8, Shown

\* advance_sheet: the playhead moves, and a batch is there for what it passes.
LEMMA AdvanceStep ==
  ASSUME SequenceInv, advance_sheet
  PROVE  SequenceInv'
<1>1. /\ todo = <<>> /\ phase' = "after"
      /\ desc' = desc /\ items' = items /\ life' = life /\ marked' = marked /\ dormant' = dormant
      /\ active' = active /\ open' = open /\ fired' = fired /\ cut' = cut
  BY DEF advance_sheet
<1>2. sheet \in SheetType /\ SequenceTypeOK /\ CursorRight /\ StackRight /\ SavedRight /\ FiredRight /\ OpenRight
  BY DEF SequenceInv, SequenceTypeOK
<1>3. CASE Advances
  <2> DEFINE s == [sheet EXCEPT !.playhead = @ + 1]
             f == Frame("batch")
             g == Frame("sheet_end")
  <2>1. life = "live" /\ active /\ sheet' = s /\ todo' = <<f, g>>
    BY <1>3 DEF advance_sheet, Advances
  <2>2. /\ s \in SheetType /\ s.playhead = sheet.playhead + 1 /\ s.cursor = sheet.cursor
        /\ s.epoch = sheet.epoch /\ sheet.playhead \in Nat
    BY <1>2 DEF SheetType
  <2>3. s.saved = sheet.saved
    BY <1>2, Zenon DEF SheetType
  <2>4. /\ f \in TodoFrame /\ g \in TodoFrame /\ f.do = "batch" /\ f.epoch = sheet.epoch
    BY <1>2 DEF Frame, TodoFrame, SheetType
  <2>. HIDE DEF s, f, g
  <2>5. SequenceTypeOK'
    BY <1>1, <1>2, <2>1, <2>2, <2>4 DEF SequenceTypeOK
  <2>6. CursorRight'
    <3>1. \A k \in 1 .. Len(items) : items[k].tick \in Nat
      BY ItemsType DEF SequenceInv
    <3>. QED BY <1>1, <1>2, <2>1, <2>2, <3>1 DEF CursorRight
  <2>7. StackRight'
    <3>1. todo'[1] = f /\ Len(todo') = 2
      BY <2>1
    <3>. QED BY <1>1, <2>1, <2>2, <2>4, <3>1 DEF StackRight
  <2>8. SavedRight'
    BY <1>1, <1>2, <2>1, <2>3 DEF SavedRight
  <2>9. FiredRight'
    BY <1>1, <1>2, <2>1, <2>2 DEF FiredRight, Range
  <2>. QED BY <1>1, <1>2, <2>1, <2>2, <2>5, <2>6, <2>7, <2>8, <2>9, Shown DEF OpenRight
<1>4. CASE ~Advances
  <2>1. sheet' = sheet /\ todo' = todo
    BY <1>4 DEF advance_sheet
  <2>2. SequenceTypeOK'
    BY <1>1, <1>2, <2>1 DEF SequenceTypeOK
  <2>3. CursorRight' /\ SavedRight'
    BY <1>1, <1>2, <2>1 DEF CursorRight, SavedRight
  <2>4. StackRight'
    BY <1>1, <1>2, <2>1 DEF StackRight, CaughtUp
  <2>5. FiredRight'
    BY <1>1, <1>2, <2>1 DEF FiredRight, Range
  <2>. QED BY <1>1, <1>2, <2>1, <2>2, <2>3, <2>4, <2>5, Shown DEF OpenRight
<1>. QED BY <1>3, <1>4

\* set_dormant changes nothing the invariant speaks of.
LEMMA DormantStep ==
  ASSUME SequenceInv, set_dormant
  PROVE  SequenceInv'
<1>1. /\ dormant' = ~dormant
      /\ desc' = desc /\ items' = items /\ life' = life /\ phase' = phase /\ marked' = marked
      /\ active' = active /\ sheet' = sheet /\ open' = open /\ todo' = todo /\ fired' = fired /\ cut' = cut
  BY DEF set_dormant
<1>2. SequenceTypeOK /\ CursorRight /\ StackRight /\ SavedRight /\ FiredRight /\ OpenRight
  BY DEF SequenceInv
<1>3. SequenceTypeOK'
  BY <1>1, <1>2 DEF SequenceTypeOK
<1>4. CursorRight' /\ SavedRight'
  BY <1>1, <1>2 DEF CursorRight, SavedRight
<1>5. StackRight'
  BY <1>1, <1>2 DEF StackRight, CaughtUp
<1>6. FiredRight'
  BY <1>1, <1>2 DEF FiredRight, Range
<1>. QED BY <1>1, <1>2, <1>3, <1>4, <1>5, <1>6, Shown DEF OpenRight

\* A frame returns: it was not the batch that something still waits for.
LEMMA PopStep ==
  ASSUME SequenceInv, todo # <<>>, todo' = Tail(todo),
         UNCHANGED <<desc, items, life, phase, marked, dormant, active, sheet, open, fired, cut>>,
         life = "live" /\ active /\ ~CaughtUp =>
           \E n \in 2 .. Len(todo) : todo[n].do = "batch" /\ todo[n].epoch = sheet.epoch
  PROVE  SequenceInv'
<1>1. /\ desc' = desc /\ items' = items /\ life' = life /\ phase' = phase /\ marked' = marked
      /\ dormant' = dormant /\ active' = active /\ sheet' = sheet /\ open' = open
      /\ fired' = fired /\ cut' = cut
  OBVIOUS
<1>2. SequenceTypeOK /\ CursorRight /\ StackRight /\ SavedRight /\ FiredRight /\ OpenRight
  BY DEF SequenceInv
<1>3. /\ todo' \in Seq(TodoFrame) /\ Len(todo') = Len(todo) - 1 /\ Len(todo) \in Nat /\ Len(todo) >= 1
      /\ \A n \in 1 .. Len(todo) - 1 : todo'[n] = todo[n + 1]
  BY <1>2, StackMoves DEF SequenceTypeOK
<1>4. SequenceTypeOK'
  BY <1>1, <1>2, <1>3 DEF SequenceTypeOK
<1>5. CursorRight' /\ SavedRight'
  BY <1>1, <1>2 DEF CursorRight, SavedRight
<1>6. StackRight'
  <2>1. CaughtUp' <=> CaughtUp
    BY <1>1 DEF CaughtUp
  <2>2. ASSUME NEW n \in 2 .. Len(todo), todo[n].do = "batch", todo[n].epoch = sheet.epoch
        PROVE  \E m \in 1 .. Len(todo') : todo'[m].do = "batch" /\ todo'[m].epoch = sheet.epoch
    <3>1. n - 1 \in 1 .. Len(todo) - 1 /\ n - 1 + 1 = n
      BY <1>3
    <3>2. todo'[n - 1] = todo[n]
      BY <1>3, <3>1
    <3>. QED BY <1>3, <2>2, <3>1, <3>2
  <2>3. life = "live"
    BY <1>2 DEF StackRight
  <2>4. ASSUME NEW n \in 1 .. Len(todo'), n < Len(todo') PROVE todo'[n].do # "sheet_end"
    <3>1. n + 1 \in 1 .. Len(todo) /\ n + 1 < Len(todo) /\ n \in 1 .. Len(todo) - 1
      BY <1>3, <2>4
    <3>2. todo[n + 1].do # "sheet_end"
      BY <1>2, <3>1 DEF StackRight
    <3>. QED BY <1>3, <3>1, <3>2
  <2>5. ASSUME life = "live", active, ~CaughtUp
        PROVE  \E m \in 1 .. Len(todo') : todo'[m].do = "batch" /\ todo'[m].epoch = sheet.epoch
    <3>1. PICK n \in 2 .. Len(todo) : todo[n].do = "batch" /\ todo[n].epoch = sheet.epoch
      BY <2>5
    <3>. QED BY <2>2, <3>1
  <2>6. todo' # <<>> => life' = "live"
    BY <1>1, <2>3
  <2>7. life' = "live" /\ active' /\ ~CaughtUp' =>
          \E m \in 1 .. Len(todo') : todo'[m].do = "batch" /\ todo'[m].epoch = sheet'.epoch
    BY <1>1, <2>1, <2>5
  <2>. HIDE DEF CaughtUp
  <2>. QED BY <2>4, <2>6, <2>7 DEF StackRight
<1>7. FiredRight'
  BY <1>1, <1>2 DEF FiredRight, Range
<1>. QED BY <1>1, <1>2, <1>4, <1>5, <1>6, <1>7, Shown DEF OpenRight

\* The head of the stack.
LEMMA HeadFrame ==
  ASSUME SequenceInv, NEW what, Doing(what)
  PROVE  /\ todo # <<>> /\ Len(todo) \in Nat /\ Len(todo) >= 1 /\ Head(todo) = todo[1]
         /\ todo[1].do = what /\ life = "live"
BY StackMoves DEF SequenceInv, SequenceTypeOK, StackRight, Doing

\* A cascade returns.
LEMMA CascadeStep ==
  ASSUME SequenceInv, cascade_returns
  PROVE  SequenceInv'
<1>1. Doing("cascade") /\ todo' = Tail(todo)
      /\ UNCHANGED <<desc, items, life, phase, marked, dormant, active, sheet, open, fired, cut>>
  BY DEF cascade_returns
<1>2. todo # <<>> /\ Len(todo) \in Nat /\ todo[1].do = "cascade"
  BY <1>1, HeadFrame
<1>3. ASSUME life = "live", active, ~CaughtUp
      PROVE  \E n \in 2 .. Len(todo) : todo[n].do = "batch" /\ todo[n].epoch = sheet.epoch
  <2>1. PICK n \in 1 .. Len(todo) : todo[n].do = "batch" /\ todo[n].epoch = sheet.epoch
    BY <1>3 DEF SequenceInv, StackRight
  <2>2. n # 1
    BY <1>2, <2>1
  <2>. QED BY <1>2, <2>1, <2>2
<1>. QED BY <1>1, <1>2, <1>3, PopStep

\* A batch ends: it is stale, or the next item, and so every item from there
\* on, is not due.
LEMMA BatchEndsStep ==
  ASSUME SequenceInv, batch_ends
  PROVE  SequenceInv'
<1>1. Doing("batch") /\ todo' = Tail(todo) /\ ~(Fresh /\ IsDue(sheet.cursor, sheet))
      /\ UNCHANGED <<desc, items, life, phase, marked, dormant, active, sheet, open, fired, cut>>
  BY DEF batch_ends
<1>2. todo # <<>> /\ Len(todo) \in Nat /\ Head(todo) = todo[1]
  BY <1>1, HeadFrame
<1>3. ASSUME life = "live", active, ~CaughtUp
      PROVE  \E n \in 2 .. Len(todo) : todo[n].do = "batch" /\ todo[n].epoch = sheet.epoch
  <2>1. PICK n \in 1 .. Len(todo) : todo[n].do = "batch" /\ todo[n].epoch = sheet.epoch
    BY <1>3 DEF SequenceInv, StackRight
  <2>2. IsDue(sheet.cursor, sheet)
    <3>1. PICK k \in 1 .. Len(items) : items[k].tick <= sheet.playhead /\ ~(k < sheet.cursor)
      BY <1>3 DEF CaughtUp
    <3>2. /\ Len(items) \in Nat /\ \A i \in 1 .. Len(items) : items[i].tick \in Nat
          /\ sheet.cursor \in 1 .. Len(items) + 1 /\ sheet.playhead \in Nat
      BY ItemsType DEF SequenceInv, SequenceTypeOK, SheetType, CursorRight
    <3>3. sheet.cursor \in 1 .. Len(items) /\ sheet.cursor <= k
      BY <3>1, <3>2
    <3>4. sheet.cursor = k \/ items[sheet.cursor].tick <= items[k].tick
      BY <3>3, <3>2 DEF SequenceInv, Timeline
    <3>5. items[sheet.cursor].tick <= sheet.playhead
      BY <3>1, <3>2, <3>3, <3>4
    <3>. QED BY <3>2, <3>3, <3>5 DEF IsDue
  <2>3. ~Fresh
    BY <1>1, <2>2
  <2>4. n # 1
    BY <1>2, <1>3, <2>1, <2>3 DEF Fresh
  <2>. QED BY <1>2, <2>1, <2>4
<1>. QED BY <1>1, <1>2, <1>3, PopStep

\* A frame is pushed: what was owed is still on the stack.
LEMMA Pushed ==
  ASSUME NEW s \in Seq(TodoFrame), NEW f \in TodoFrame, NEW t \in Seq(TodoFrame), t = <<f>> \o s, f.do # "sheet_end",
         \A n \in 1 .. Len(s) : n < Len(s) => s[n].do # "sheet_end"
  PROVE  /\ t \in Seq(TodoFrame) /\ t # <<>> /\ t[1] = f /\ 1 \in 1 .. Len(t)
         /\ \A n \in 1 .. Len(t) : n < Len(t) => t[n].do # "sheet_end"
         /\ \A n \in 1 .. Len(s) : n + 1 \in 1 .. Len(t) /\ t[n + 1] = s[n]
<1>1. /\ Len(s) \in Nat /\ t \in Seq(TodoFrame) /\ Len(t) = Len(s) + 1 /\ t[1] = f
      /\ \A n \in 1 .. Len(s) : t[n + 1] = s[n]
  BY StackMoves
<1>2. ASSUME NEW n \in 1 .. Len(t), n < Len(t) PROVE t[n].do # "sheet_end"
  <2>1. CASE n = 1
    BY <1>1, <2>1
  <2>2. CASE n # 1
    <3>1. n - 1 \in 1 .. Len(s) /\ n - 1 < Len(s) /\ n - 1 + 1 = n
      BY <1>1, <1>2, <2>2
    <3>2. t[n - 1 + 1] = s[n - 1]
      BY <1>1, <3>1
    <3>. QED BY <3>1, <3>2
  <2>. QED BY <2>1, <2>2
<1>3. t # <<>> /\ 1 \in 1 .. Len(t)
  BY <1>1
<1>. QED BY <1>1, <1>2, <1>3

\* A list of items that grows by one that lies behind them all.
LEMMA FiredGrows ==
  ASSUME NEW s \in Seq(Nat), NEW c \in Nat, NEW t \in Seq(Nat), t = Append(s, c),
         \A a \in 1 .. Len(s) : s[a] < c,
         \A a, b \in 1 .. Len(s) : a < b => s[a] < s[b]
  PROVE  /\ t \in Seq(Nat) /\ Range(t) = Range(s) \cup {c}
         /\ \A a \in 1 .. Len(t) : (t[a] = c \/ (a \in 1 .. Len(s) /\ t[a] = s[a]))
         /\ \A a, b \in 1 .. Len(t) : a < b => t[a] < t[b]
<1>1. /\ Len(s) \in Nat /\ t \in Seq(Nat) /\ Len(t) = Len(s) + 1 /\ t[Len(s) + 1] = c
      /\ \A a \in 1 .. Len(s) : t[a] = s[a]
  OBVIOUS
<1>2. DOMAIN t = 1 .. Len(s) + 1 /\ DOMAIN s = 1 .. Len(s)
  BY <1>1
<1>3. 1 .. Len(s) + 1 = (1 .. Len(s)) \cup {Len(s) + 1}
  BY <1>1
<1>4. Range(t) = Range(s) \cup {c}
  <2>1. \A x \in Range(t) : x \in Range(s) \cup {c}
    <3>1. ASSUME NEW k \in DOMAIN t PROVE t[k] \in Range(s) \cup {c}
      <4>1. CASE k \in 1 .. Len(s)
        <5>1. t[k] = s[k]
          BY <1>1, <4>1
        <5>. QED BY <1>2, <4>1, <5>1, Zenon DEF Range
      <4>2. CASE k = Len(s) + 1
        BY <1>1, <4>2
      <4>. QED BY <1>2, <1>3, <4>1, <4>2
    <3>. QED BY <3>1, Zenon DEF Range
  <2>2. c \in Range(t)
    BY <1>1, <1>2, <1>3, Zenon DEF Range
  <2>3. \A x \in Range(s) : x \in Range(t)
    <3>1. ASSUME NEW k \in DOMAIN s PROVE s[k] \in Range(t)
      <4>1. t[k] = s[k] /\ k \in DOMAIN t
        BY <1>1, <1>2, <1>3
      <4>. QED BY <4>1, Zenon DEF Range
    <3>. QED BY <3>1, Zenon DEF Range
  <2>. QED BY <2>1, <2>2, <2>3
<1>5. \A a \in 1 .. Len(t) : (t[a] = c \/ (a \in 1 .. Len(s) /\ t[a] = s[a]))
  BY <1>1
<1>6. ASSUME NEW a \in 1 .. Len(t), NEW b \in 1 .. Len(t), a < b
      PROVE  t[a] < t[b]
  <2>1. a \in 1 .. Len(s) /\ t[a] = s[a]
    BY <1>1, <1>6
  <2>2. CASE b = Len(s) + 1
    BY <1>1, <2>1, <2>2
  <2>3. CASE b # Len(s) + 1
    <3>1. b \in 1 .. Len(s) /\ t[b] = s[b]
      BY <1>1, <2>3
    <3>. QED BY <1>6, <2>1, <3>1
  <2>. QED BY <2>2, <2>3
<1>. QED BY <1>1, <1>4, <1>5, <1>6

\* fire_item: the item at the cursor joins what fired, in order; a span opens
\* or closes.
LEMMA FireStep ==
  ASSUME SequenceInv, fire_item
  PROVE  SequenceInv'
<1> DEFINE c == sheet.cursor
           s == [sheet EXCEPT !.cursor = @ + 1]
           item == items[c]
           f == Frame("cascade")
<1>1. /\ Doing("batch") /\ Fresh /\ IsDue(c, sheet) /\ sheet' = s /\ fired' = Append(fired, c)
      /\ desc' = desc /\ items' = items /\ life' = life /\ phase' = phase /\ marked' = marked
      /\ dormant' = dormant /\ active' = active /\ cut' = cut
  BY DEF fire_item
<1>2. /\ open' = IF item.kind = SpanOpen THEN open \cup {item.ref}
                 ELSE IF item.kind = SpanClose THEN open \ {item.ref} ELSE open
      /\ todo' = todo \/ todo' = <<f>> \o todo
  BY DEF fire_item
<1>3. /\ SequenceTypeOK /\ Timeline /\ CursorRight /\ StackRight /\ SavedRight /\ FiredRight /\ OpenRight
      /\ sheet \in SheetType /\ todo \in Seq(TodoFrame) /\ fired \in Seq(Nat)
  BY DEF SequenceInv, SequenceTypeOK
<1>4. /\ todo # <<>> /\ Len(todo) \in Nat /\ Len(todo) >= 1
      /\ todo[1].do = "batch" /\ todo[1].epoch = sheet.epoch /\ life = "live" /\ active
  BY <1>1, HeadFrame DEF Fresh
<1>5. /\ c \in 1 .. Len(items) /\ items[c].tick <= sheet.playhead /\ Len(items) \in Nat
  BY <1>1, <1>3, ItemsType DEF IsDue, CursorRight
<1>6. s \in SheetType /\ s.playhead = sheet.playhead /\ s.cursor = c + 1 /\ s.epoch = sheet.epoch
  BY <1>3 DEF SheetType
<1>7. s.saved = sheet.saved
  BY <1>3, Zenon DEF SheetType
<1>8. f \in TodoFrame /\ f.do = "cascade"
  BY <1>3 DEF Frame, TodoFrame, SheetType
<1>9. open' = OpenAt(c + 1)
  <2>1. open = OpenAt(c)
    BY <1>3, <1>4 DEF OpenRight
  <2>2. OpenAt(c + 1) = IF item.kind = SpanOpen THEN OpenAt(c) \cup {item.ref}
                        ELSE IF item.kind = SpanClose THEN OpenAt(c) \ {item.ref} ELSE OpenAt(c)
    BY <1>3, <1>5, OpenNext
  <2>. QED BY <1>2, <2>1, <2>2
<1>10. OpenAt(c + 1) \subseteq DOMAIN desc.spans
  BY DEF OpenAt
<1>11. /\ todo' \in Seq(TodoFrame)
       /\ \A n \in 1 .. Len(todo') : n < Len(todo') => todo'[n].do # "sheet_end"
       /\ \E n \in 1 .. Len(todo') : todo'[n].do = "batch" /\ todo'[n].epoch = sheet.epoch
  <2>. HIDE DEF f
  <2>0. \A n \in 1 .. Len(todo) : n < Len(todo) => todo[n].do # "sheet_end"
    BY <1>3 DEF StackRight
  <2>1. CASE todo' = todo
    BY <1>3, <1>4, <2>0, <2>1
  <2>2. CASE todo' = <<f>> \o todo
    <3>1. /\ todo' \in Seq(TodoFrame)
          /\ \A n \in 1 .. Len(todo') : n < Len(todo') => todo'[n].do # "sheet_end"
          /\ \A n \in 1 .. Len(todo) : n + 1 \in 1 .. Len(todo') /\ todo'[n + 1] = todo[n]
      <4>1. f.do # "sheet_end" /\ f \in TodoFrame /\ todo \in Seq(TodoFrame)
        BY <1>3, <1>8
      <4>2. todo' \in Seq(TodoFrame)
        BY <2>2, <4>1
      <4>. QED BY <2>0, <2>2, <4>1, <4>2, Pushed
    <3>2. 1 \in 1 .. Len(todo)
      BY <1>4
    <3>3. 1 + 1 \in 1 .. Len(todo') /\ todo'[1 + 1] = todo[1]
      BY <3>1, <3>2
    <3>. QED BY <1>4, <3>1, <3>3
  <2>. QED BY <1>2, <2>1, <2>2
<1>. HIDE DEF s, f, item
<1>12. /\ fired' \in Seq(Nat) /\ Range(fired') = Range(fired) \cup {c}
       /\ \A a \in 1 .. Len(fired') : (fired'[a] = c \/ (a \in 1 .. Len(fired) /\ fired'[a] = fired[a]))
       /\ \A a, b \in 1 .. Len(fired') : a < b => fired'[a] < fired'[b]
  <2>1. /\ \A a \in 1 .. Len(fired) : fired[a] < c
        /\ \A a, b \in 1 .. Len(fired) : a < b => fired[a] < fired[b]
    BY <1>3 DEF FiredRight
  <2>2. c \in Nat /\ fired \in Seq(Nat) /\ fired' = Append(fired, c)
    BY <1>1, <1>3, <1>5
  <2>. PICK k \in Nat : k = c
    BY <2>2
  <2>3. \A a \in 1 .. Len(fired) : fired[a] < k
    BY <2>1
  <2>4. fired' = Append(fired, k)
    BY <2>2
  <2>. HIDE DEF c
  <2>6. fired' \in Seq(Nat)
    BY <2>2, <2>4
  <2>5. /\ fired' \in Seq(Nat) /\ Range(fired') = Range(fired) \cup {k}
        /\ \A a \in 1 .. Len(fired') : (fired'[a] = k \/ (a \in 1 .. Len(fired) /\ fired'[a] = fired[a]))
        /\ \A a, b \in 1 .. Len(fired') : a < b => fired'[a] < fired'[b]
    BY <2>1, <2>2, <2>3, <2>4, <2>6, FiredGrows
  <2>. QED BY <2>5
<1>13. SequenceTypeOK'
  BY <1>1, <1>3, <1>6, <1>9, <1>10, <1>11, <1>12 DEF SequenceTypeOK
<1>14. CursorRight'
  <2>1. \A k \in 1 .. Len(items) : k < c => items[k].tick <= sheet.playhead
    BY <1>3 DEF CursorRight
  <2>2. \A k \in 1 .. Len(items) : k < c + 1 => k = c \/ k < c
    BY <1>5
  <2>3. c + 1 \in 1 .. Len(items) + 1
    BY <1>5
  <2>4. \A k \in 1 .. Len(items) : k < c + 1 => items[k].tick <= sheet.playhead
    BY <1>5, <2>1, <2>2
  <2>5. sheet'.cursor = c + 1 /\ sheet'.playhead = sheet.playhead /\ items' = items
    BY <1>1, <1>6
  <2>. HIDE DEF c
  <2>. QED BY <2>3, <2>4, <2>5 DEF CursorRight
<1>15. StackRight'
  <2>. HIDE DEF c
  <2>. QED BY <1>1, <1>4, <1>6, <1>11 DEF StackRight
<1>16. SavedRight'
  BY <1>1, <1>3, <1>4, <1>7 DEF SavedRight
<1>17. FiredRight'
  <2>1. \A a \in 1 .. Len(fired) : fired[a] \in 1 .. Len(items) /\ fired[a] < c
    BY <1>3 DEF FiredRight
  <2>2. \A a \in 1 .. Len(fired') : fired'[a] \in 1 .. Len(items) /\ fired'[a] < c + 1
    BY <1>5, <1>12, <2>1
  <2>3. Range(fired) \cup cut = 1 .. c - 1
    BY <1>3, <1>4 DEF FiredRight
  <2>4. 1 .. (c + 1) - 1 = (1 .. c - 1) \cup {c}
    BY <1>5
  <2>5. Range(fired') \cup cut = 1 .. (c + 1) - 1
    BY <1>12, <2>3, <2>4
  <2>6. sheet'.cursor = c + 1 /\ active' /\ life' = "live"
    BY <1>1, <1>4, <1>6
  <2>. HIDE DEF c
  <2>. QED BY <1>1, <1>12, <2>2, <2>5, <2>6 DEF FiredRight
<1>. QED BY <1>1, <1>4, <1>6, <1>9, <1>13, <1>14, <1>15, <1>16, <1>17, Shown

\* The end of the sheet is reached with nothing else on the stack, and so
\* with nothing due.
LEMMA EndFrame ==
  ASSUME SequenceInv, Doing("sheet_end")
  PROVE  /\ todo # <<>> /\ Tail(todo) = <<>> /\ life = "live"
         /\ active => CaughtUp
         /\ active /\ sheet.playhead >= desc.duration => sheet.cursor = Len(items) + 1
<1>1. /\ todo # <<>> /\ Len(todo) \in Nat /\ Len(todo) >= 1 /\ todo[1].do = "sheet_end" /\ life = "live"
  BY HeadFrame
<1>2. Len(todo) = 1
  <2>1. 1 \in 1 .. Len(todo) /\ ~(1 < Len(todo))
    BY <1>1 DEF SequenceInv, StackRight
  <2>. QED BY <1>1, <2>1
<1>3. Tail(todo) = <<>>
  BY <1>2, StackMoves DEF SequenceInv, SequenceTypeOK
<1>4. ASSUME active PROVE CaughtUp
  <2>1. \A n \in 1 .. Len(todo) : todo[n].do # "batch"
    BY <1>1, <1>2
  <2>. QED BY <1>1, <1>4, <2>1 DEF SequenceInv, StackRight
<1>5. ASSUME active, sheet.playhead >= desc.duration
      PROVE  sheet.cursor = Len(items) + 1
  <2>1. /\ Len(items) \in Nat /\ sheet.cursor \in 1 .. Len(items) + 1 /\ sheet.playhead \in Nat
        /\ desc.duration \in Nat /\ \A k \in 1 .. Len(items) : items[k].tick \in Nat
    BY ItemsType, SheetsAssumption DEF SequenceInv, CursorRight, SequenceTypeOK, SheetType
  <2>2. \A k \in 1 .. Len(items) : items[k].tick <= desc.duration
    BY DEF SequenceInv, Timeline
  <2>3. \A k \in 1 .. Len(items) : k < sheet.cursor
    BY <1>4, <1>5, <2>1, <2>2 DEF CaughtUp
  <2>. QED BY <2>1, <2>3
<1>. QED BY <1>1, <1>3, <1>4, <1>5

\* not_at_end: nothing is due.
LEMMA NotAtEndStep ==
  ASSUME SequenceInv, not_at_end
  PROVE  SequenceInv'
<1>1. Doing("sheet_end") /\ todo' = Tail(todo)
      /\ UNCHANGED <<desc, items, life, phase, marked, dormant, active, sheet, open, fired, cut>>
  BY DEF not_at_end
<1>2. todo # <<>> /\ (active => CaughtUp)
  BY <1>1, EndFrame
<1>. QED BY <1>1, <1>2, PopStep

\* finish: the sheet is done, and at most its event is on the stack.
LEMMA FinishStep ==
  ASSUME SequenceInv, finish
  PROVE  SequenceInv'
<1> DEFINE s == [sheet EXCEPT !.done = TRUE]
           f == Frame("cascade")
<1>1. /\ Doing("sheet_end") /\ sheet' = s /\ active
      /\ todo' = (IF desc.end = "hold" THEN <<>> ELSE <<f>>) \o Tail(todo)
      /\ desc' = desc /\ items' = items /\ life' = life /\ phase' = phase /\ marked' = marked
      /\ dormant' = dormant /\ active' = active /\ open' = open /\ fired' = fired /\ cut' = cut
  BY DEF finish, Settles
<1>2. /\ SequenceTypeOK /\ CursorRight /\ SavedRight /\ FiredRight /\ OpenRight /\ sheet \in SheetType
  BY DEF SequenceInv, SequenceTypeOK
<1>3. Tail(todo) = <<>> /\ life = "live" /\ CaughtUp
  BY <1>1, EndFrame
<1>4. /\ s \in SheetType /\ s.playhead = sheet.playhead /\ s.cursor = sheet.cursor
      /\ s.epoch = sheet.epoch /\ s.saved_playhead = sheet.saved_playhead
  <2>. PICK yes \in BOOLEAN : yes = TRUE
    OBVIOUS
  <2>1. [sheet EXCEPT !.done = yes] \in SheetType
    BY <1>2 DEF SheetType
  <2>2. /\ s.playhead = sheet.playhead /\ s.cursor = sheet.cursor
        /\ s.epoch = sheet.epoch /\ s.saved_playhead = sheet.saved_playhead
    BY <1>2 DEF SheetType
  <2>. QED BY <2>1, <2>2
<1>5. s.saved = sheet.saved
  BY <1>2, Zenon DEF SheetType
<1>6. f \in TodoFrame /\ f.do = "cascade"
  BY <1>2 DEF Frame, TodoFrame, SheetType
<1>. HIDE DEF s, f
<1>7. /\ todo' \in Seq(TodoFrame)
      /\ \A n \in 1 .. Len(todo') : n < Len(todo') => todo'[n].do # "sheet_end"
  <2>0. <<>> \in Seq(TodoFrame) /\ <<f>> \in Seq(TodoFrame)
    BY <1>6
  <2>1. todo' = <<>> \/ todo' = <<f>>
    <3>1. todo' = <<>> \o <<>> \/ todo' = <<f>> \o <<>>
      BY <1>1, <1>3
    <3>. QED BY <2>0, <3>1, ConcatEmptySeq
  <2>2. Len(<<>>) = 0 /\ Len(<<f>>) = 1
    OBVIOUS
  <2>3. Len(todo') \in {0, 1}
    BY <2>1, <2>2
  <2>4. \A m \in {0, 1} : \A n \in 1 .. m : ~(n < m)
    OBVIOUS
  <2>5. \A n \in 1 .. Len(todo') : ~(n < Len(todo'))
    BY <2>3, <2>4, Zenon
  <2>. QED BY <2>0, <2>1, <2>5
<1>8. SequenceTypeOK'
  BY <1>1, <1>2, <1>4, <1>7 DEF SequenceTypeOK
<1>9. CursorRight'
  BY <1>1, <1>2, <1>4 DEF CursorRight
<1>10. StackRight'
  <2>1. CaughtUp'
    BY <1>1, <1>3, <1>4 DEF CaughtUp
  <2>. QED BY <1>1, <1>3, <1>7, <2>1 DEF StackRight
<1>11. SavedRight'
  BY <1>1, <1>2, <1>4, <1>5 DEF SavedRight
<1>12. FiredRight'
  BY <1>1, <1>2, <1>4 DEF FiredRight, Range
<1>. QED BY <1>1, <1>2, <1>4, <1>8, <1>9, <1>10, <1>11, <1>12, Shown DEF OpenRight

\* wrap: every span is closed by then, and a new pass begins with its items
\* all ahead and a batch to fire those of tick 0.
LEMMA WrapStep ==
  ASSUME SequenceInv, wrap
  PROVE  SequenceInv'
<1> DEFINE p == IF desc.loop_count = 0 THEN 0 ELSE sheet.pass + 1
           s == [sheet EXCEPT !.pass = p, !.playhead = 0, !.cursor = 1]
           f == Frame("batch")
<1>1. /\ Doing("sheet_end") /\ active /\ sheet.playhead >= desc.duration
      /\ todo' = <<f>> \o Tail(todo) /\ fired' = <<>> /\ cut' = {}
      /\ desc' = desc /\ items' = items /\ life' = life /\ phase' = phase /\ marked' = marked
      /\ dormant' = dormant /\ active' = active /\ open' = open
  BY DEF wrap, Settles
<1>2. /\ SequenceTypeOK /\ Timeline /\ SavedRight /\ OpenRight /\ sheet \in SheetType
  BY DEF SequenceInv, SequenceTypeOK
<1>3. Tail(todo) = <<>> /\ life = "live" /\ sheet.cursor = Len(items) + 1
  BY <1>1, EndFrame
<1>4. p \in Nat
  BY <1>2 DEF SheetType
<1>5. sheet' = s
  <2>. HIDE DEF p
  <2>1. sheet' = [sheet EXCEPT !.pass = IF desc.loop_count = 0 THEN 0 ELSE @ + 1,
                            !.playhead = 0, !.cursor = 1]
    BY DEF wrap
  <2>. QED BY <2>1, Zenon DEF p
<1>6. /\ s \in SheetType /\ s.playhead = 0 /\ s.cursor = 1 /\ s.epoch = sheet.epoch
  <2>. HIDE DEF p
  <2>. QED BY <1>2, <1>4 DEF SheetType
<1>7. s.saved = sheet.saved
  BY <1>2, Zenon DEF SheetType
<1>8. f \in TodoFrame /\ f.do = "batch" /\ f.epoch = sheet.epoch
  BY <1>2 DEF Frame, TodoFrame, SheetType
<1>. HIDE DEF p, s, f
<1>9. open' = {} /\ OpenAt(1) = {}
  BY <1>1, <1>2, <1>3, OpenEnds DEF OpenRight
<1>10. todo' = <<f>>
  <2>1. <<f>> \in Seq(TodoFrame)
    BY <1>8
  <2>2. todo' = <<f>> \o <<>>
    BY <1>1, <1>3, Zenon
  <2>. QED BY <2>1, <2>2, ConcatEmptySeq
<1>11. SequenceTypeOK'
  <2>1. {} \subseteq DOMAIN desc.spans /\ {} \subseteq Nat /\ <<>> \in Seq(Nat)
    OBVIOUS
  <2>2. todo' \in Seq(TodoFrame)
    BY <1>8, <1>10
  <2>. QED BY <1>1, <1>2, <1>5, <1>6, <1>9, <2>1, <2>2 DEF SequenceTypeOK
<1>12. CursorRight'
  <2>1. Len(items) \in Nat /\ \A k \in 1 .. Len(items) : ~(k < 1)
    BY <1>2, ItemsType
  <2>. QED BY <1>1, <1>5, <1>6, <2>1 DEF CursorRight
<1>13. StackRight'
  <2>1. todo'[1] = f /\ Len(todo') = 1
    BY <1>10
  <2>. QED BY <1>1, <1>3, <1>5, <1>6, <1>8, <2>1 DEF StackRight
<1>14. SavedRight'
  BY <1>1, <1>2, <1>3, <1>5, <1>7 DEF SavedRight
<1>15. FiredRight'
  <2>1. Range(fired') = {} /\ 1 .. sheet'.cursor - 1 = {}
    BY <1>1, <1>5, <1>6 DEF Range
  <2>2. fired' = <<>> /\ cut' = {} /\ life' = "live" /\ active'
    BY <1>1, <1>3
  <2>. QED BY <2>1, <2>2 DEF FiredRight
<1>. QED BY <1>1, <1>5, <1>6, <1>9, <1>11, <1>12, <1>13, <1>14, <1>15, Shown

\* The invariant holds at first.
LEMMA SequenceStarts ==
  ASSUME SequenceInit
  PROVE  SequenceInv
<1>1. /\ desc \in Sheets /\ Compiles(desc) /\ items = compile_sequence(desc)
      /\ life = "instantiated" /\ phase = "after" /\ marked = FALSE /\ dormant = FALSE /\ active = TRUE
      /\ open = {} /\ todo = <<>> /\ fired = <<>> /\ cut = {}
      /\ sheet = [playhead |-> 0, pass |-> 0, done |-> FALSE, cursor |-> 1,
                  epoch |-> 0, entered |-> FALSE, saved |-> FALSE,
                  saved_playhead |-> 0, saved_pass |-> 0, saved_done |-> FALSE]
  BY DEF SequenceInit
<1>2. Timeline
  BY <1>1, CompiledTimeline
<1>3. sheet \in SheetType /\ sheet.cursor = 1 /\ sheet.playhead = 0
  BY <1>1 DEF SheetType
<1>4. ~sheet.saved
  BY <1>1
<1>5. SequenceTypeOK
  <2>1. /\ marked \in BOOLEAN /\ dormant \in BOOLEAN /\ active \in BOOLEAN
        /\ life \in {"instantiated", "live", "dead"} /\ phase \in {"before", "after"}
    BY <1>1
  <2>2. /\ todo \in Seq(TodoFrame) /\ fired \in Seq(Nat)
        /\ open \subseteq DOMAIN desc.spans /\ cut \subseteq Nat /\ desc \in Sheets
    BY <1>1
  <2>. QED BY <1>3, <2>1, <2>2 DEF SequenceTypeOK
<1>6. CursorRight
  <2>1. Len(items) \in Nat /\ \A k \in 1 .. Len(items) : ~(k < 1)
    BY <1>2, ItemsType
  <2>. QED BY <1>3, <2>1 DEF CursorRight
<1>7. StackRight
  BY <1>1 DEF StackRight
<1>8. SavedRight
  BY <1>1, <1>4 DEF SavedRight
<1>9. FiredRight
  BY <1>1 DEF FiredRight
<1>10. OpenRight
  BY <1>1 DEF OpenRight
<1>. QED BY <1>2, <1>5, <1>6, <1>7, <1>8, <1>9, <1>10 DEF SequenceInv

\* Every step keeps it.
LEMMA SequenceStep ==
  ASSUME SequenceInv, [SequenceNext]_sequenceVars
  PROVE  SequenceInv'
<1>1. CASE initial_entry
  BY <1>1, InitialEntryStep
<1>2. CASE \E enters \in BOOLEAN : transition(enters)
  BY <1>2, TransitionStep
<1>3. CASE set_dormant
  BY <1>3, DormantStep
<1>4. CASE exit_host
  BY <1>4, ExitHostStep
<1>5. CASE Engine
  BY <1>5, NextTickStep, AdvanceStep, FireStep, CascadeStep, BatchEndsStep, WrapStep, FinishStep,
     NotAtEndStep DEF Engine
<1>6. CASE UNCHANGED sequenceVars
  <2>1. /\ desc' = desc /\ items' = items /\ life' = life /\ phase' = phase /\ marked' = marked
        /\ dormant' = dormant /\ active' = active /\ sheet' = sheet /\ open' = open /\ todo' = todo
        /\ fired' = fired /\ cut' = cut
    BY <1>6 DEF sequenceVars
  <2>2. SequenceTypeOK /\ CursorRight /\ StackRight /\ SavedRight /\ FiredRight /\ OpenRight
    BY DEF SequenceInv
  <2>3. SequenceTypeOK'
    BY <2>1, <2>2 DEF SequenceTypeOK
  <2>4. CursorRight' /\ SavedRight'
    BY <2>1, <2>2 DEF CursorRight, SavedRight
  <2>5. StackRight'
    BY <2>1, <2>2 DEF StackRight, CaughtUp
  <2>6. FiredRight'
    BY <2>1, <2>2 DEF FiredRight, Range
  <2>. QED BY <2>1, <2>2, <2>3, <2>4, <2>5, <2>6, Shown DEF OpenRight
<1>. QED BY <1>1, <1>2, <1>3, <1>4, <1>5, <1>6 DEF SequenceNext

\* What SequenceInv says of a state at rest.
LEMMA AtRest ==
  ASSUME SequenceInv, todo = <<>>, life = "live", active
  PROVE  /\ \A k \in 1 .. Len(items) : items[k].tick <= sheet.playhead <=> k < sheet.cursor
         /\ sheet.cursor \in 1 .. Len(items) + 1 /\ Len(items) \in Nat
<1>1. CaughtUp
  BY DEF SequenceInv, StackRight
<1>2. CursorRight /\ Len(items) \in Nat
  BY ItemsType DEF SequenceInv
<1>. QED BY <1>1, <1>2 DEF CaughtUp, CursorRight

\* The timeline is the sorted sheet, the cursor lies between what fired and
\* what has not, and whatever is due has a batch on the stack to fire it
\* (sequences.cpp).
THEOREM SequenceInvariant == SequenceSpec => []SequenceInv
<1>1. SequenceInit => SequenceInv
  BY SequenceStarts
<1>2. SequenceInv /\ [SequenceNext]_sequenceVars => SequenceInv'
  BY SequenceStep
<1>. QED BY <1>1, <1>2, PTL DEF SequenceSpec

\* For every sheet, a span is open at rest exactly while its state is active
\* and the playhead is inside it (transitions.cpp, sequences.cpp).
THEOREM SpansAreRight == SequenceSpec => []SpansFollowPlayhead
<1>1. SequenceInv => SpansFollowPlayhead
  <2>. SUFFICES ASSUME SequenceInv, todo = <<>>, life # "instantiated"
                PROVE  open = IF active THEN Covering(sheet.playhead) ELSE {}
    BY DEF SpansFollowPlayhead
  <2>1. CASE active
    <3>1. life = "live"
      BY <2>1 DEF SequenceInv, SavedRight, SequenceTypeOK
    <3>2. open = OpenAt(sheet.cursor)
      BY <2>1, <3>1 DEF SequenceInv, OpenRight
    <3>3. desc \in Sheets /\ Timeline /\ sheet.playhead \in Nat
      BY DEF SequenceInv, SequenceTypeOK, SheetType
    <3>4. /\ sheet.cursor \in Nat
          /\ \A k \in 1 .. Len(items) : items[k].tick <= sheet.playhead <=> k < sheet.cursor
      BY <2>1, <3>1, AtRest
    <3>5. OpenAt(sheet.cursor) = Covering(sheet.playhead)
      BY <3>3, <3>4, OpenCovers
    <3>. QED BY <2>1, <3>2, <3>5
  <2>2. CASE ~active
    BY <2>2 DEF SequenceInv, OpenRight
  <2>. QED BY <2>1, <2>2
<1>. QED BY <1>1, SequenceInvariant, PTL

\* For every sheet, the items of a pass fire in timeline order, each once, and
\* none up to the playhead is missed but those cut off (sequences.cpp).
THEOREM ItemsFireInOrder == SequenceSpec => []FiredInOrder
<1>1. SequenceInv => FiredInOrder
  <2>. SUFFICES ASSUME SequenceInv PROVE FiredInOrder
    OBVIOUS
  <2>1. FiredRight /\ fired \in Seq(Nat) /\ DOMAIN items = 1 .. Len(items)
    BY ItemsType DEF SequenceInv, SequenceTypeOK
  <2>2. DOMAIN fired = 1 .. Len(fired)
    BY <2>1
  <2>3. \A a, b \in DOMAIN fired : a < b => fired[a] < fired[b]
    BY <2>1, <2>2 DEF FiredRight
  <2>4. ASSUME todo = <<>>, active, life = "live"
        PROVE  {k \in DOMAIN items : items[k].tick <= sheet.playhead} = Range(fired) \cup cut
    <3>1. /\ \A k \in 1 .. Len(items) : items[k].tick <= sheet.playhead <=> k < sheet.cursor
          /\ sheet.cursor \in 1 .. Len(items) + 1 /\ Len(items) \in Nat
      BY <2>4, AtRest
    <3>2. Range(fired) \cup cut = 1 .. sheet.cursor - 1
      BY <2>1, <2>4 DEF FiredRight
    <3> DEFINE due == {k \in 1 .. Len(items) : items[k].tick <= sheet.playhead}
    <3>3. \A k : k \in due <=> k \in 1 .. Len(items) /\ k < sheet.cursor
      BY <3>1
    <3>. HIDE DEF due
    <3>4. \A k : k \in due <=> k \in 1 .. sheet.cursor - 1
      BY <3>1, <3>3
    <3>5. due = 1 .. sheet.cursor - 1
      BY <3>4
    <3>. QED BY <2>1, <3>2, <3>5 DEF due
  <2>. QED BY <2>3, <2>4 DEF FiredInOrder
<1>. QED BY <1>1, SequenceInvariant, PTL
=============================================================================
