--------------------------- MODULE StockTopology ---------------------------
(***************************************************************************)
(* check-stock-topology, which the build runs over the binary topology of  *)
(* the sound firmware to see that the routes of the audio profile are in   *)
(* it (overlays/24-redrix-firmware/check-stock-topology.c).  It reads      *)
(* headers, the records of the blocks it knows, and seeks over the rest.   *)
(*                                                                         *)
(* A file is a row of cells: a header, a PCM or a link takes one, private  *)
(* data and the payload of other blocks any number.  What a cell holds is  *)
(* chosen when it is read; nothing is read twice.  A structure that is not *)
(* what the reader takes it for fails its test of magic, version or size.  *)
(***************************************************************************)
EXTENDS Integers, Sequences, FiniteSets

CONSTANTS
  Headers,     \* block headers: [type, count, payload]
  Pcms,        \* PCM records: [pcm_id, playback, capture, caps, priv]
  Links,       \* link records: [codec, default, num, hw, priv]
  Other,       \* a cell that is none of these
  HwMax,       \* SND_SOC_TPLG_HW_CONFIG_MAX
  S16, S32,    \* sample formats
  MaxLength    \* bound: whole cells of a file

ASSUME TopologyAssumption ==
  /\ HwMax \in Nat /\ MaxLength \in Nat
  /\ \A h \in Headers : h.count \in Nat /\ h.payload \in Nat
  /\ \A r \in Pcms \cup Links : r.priv \in Nat
  /\ \A l \in Links : l.num \in Nat
  /\ Headers \cap Pcms = {} /\ Headers \cap Links = {} /\ Pcms \cap Links = {}
  /\ Other \notin Headers \cup Pcms \cup Links

VARIABLES
  length, cut,         \* the file: whole cells, and whether part of one follows
  cells,               \* what the cells read so far hold
  pos,                 \* the position in the file
  blocks,              \* the blocks begun: [start, type, count, payload]
  i,                   \* records of the last block that have been read
  speakers, microphones, speaker_links,
  pc                   \* "header", "records", "block", and "pass" or "fail" at the end

counts == <<speakers, microphones, speaker_links>>
vars == <<length, cut, cells, pos, blocks, i, counts, pc>>

-----------------------------------------------------------------------------
block == blocks[Len(blocks)]

\* The cell at the position now holds c.
Holding(c) == [p \in DOMAIN cells \cup {pos} |-> IF p = pos THEN c ELSE cells[p]]

Cell == Headers \cup Pcms \cup Links \cup {Other}

\* What fread finds at the position: part of a cell, a whole one, or nothing.
Part == pos = length /\ cut

Whole == pos < length

Fail == pc' = "fail" /\ UNCHANGED <<length, cut, pos, blocks, i, counts>>

\* check_caps
CapsCover(caps, channels, format) ==
  /\ caps.rate_min <= 48000 /\ caps.rate_max >= 48000
  /\ caps.channels_min <= channels /\ caps.channels_max >= channels
  /\ format \in caps.formats

\* The configurations with the default's number.
Defaults(link) == {j \in 1..link.num : link.hw[j].id = link.default}

\* A PCM without the stream and capabilities its route needs stops the check.
PcmFits(pcm) ==
  /\ pcm.pcm_id = 0 => pcm.playback /\ CapsCover(pcm.caps[0], 2, S16)
  /\ pcm.pcm_id = 99 => pcm.capture /\ CapsCover(pcm.caps[1], 4, S32)

\* So does a link to the amplifiers with other clocks or slots.
LinkFits(link) ==
  link.codec => link.num <= HwMax /\ \A j \in Defaults(link) : link.hw[j].amplifiers

-----------------------------------------------------------------------------
ReadHeader ==
  /\ pc = "header" /\ Whole
  /\ \E h \in Headers :
       /\ cells' = Holding(h)
       /\ blocks' = Append(blocks, [start |-> pos + 1, type |-> h.type, count |-> h.count,
                                    payload |-> h.payload])
  /\ pos' = pos + 1 /\ i' = 0 /\ pc' = "records"
  /\ UNCHANGED <<length, cut, counts>>

ReadPcm ==
  /\ pc = "records" /\ i < block.count /\ block.type = "pcm" /\ Whole
  /\ \E pcm \in Pcms :
       /\ PcmFits(pcm)
       /\ cells' = Holding(pcm)
       /\ speakers' = speakers + (IF pcm.pcm_id = 0 THEN 1 ELSE 0)
       /\ microphones' = microphones + (IF pcm.pcm_id = 99 THEN 1 ELSE 0)
       /\ pos' = pos + 1 + pcm.priv
  /\ i' = i + 1
  /\ UNCHANGED <<length, cut, blocks, speaker_links, pc>>

ReadLink ==
  /\ pc = "records" /\ i < block.count /\ block.type = "link" /\ Whole
  /\ \E link \in Links :
       /\ LinkFits(link)
       /\ cells' = Holding(link)
       /\ speaker_links' = speaker_links + (IF link.codec THEN Cardinality(Defaults(link)) ELSE 0)
       /\ pos' = pos + 1 + link.priv
  /\ i' = i + 1
  /\ UNCHANGED <<length, cut, blocks, speakers, microphones, pc>>

\* Any other block is skipped at its first record, also past the end.
SkipBlock ==
  /\ pc = "records" /\ i < block.count /\ block.type \notin {"pcm", "link"}
  /\ pos' = pos + block.payload /\ pc' = "block"
  /\ UNCHANGED <<length, cut, cells, blocks, i, counts>>

EndRecords ==
  /\ pc = "records" /\ i = block.count
  /\ pc' = "block"
  /\ UNCHANGED <<length, cut, cells, pos, blocks, i, counts>>

\* A structure that is not there, not whole, not the expected one or unfit.
Refuse ==
  /\ \/ pc = "header" /\ Part
     \/ pc = "records" /\ i < block.count /\ block.type \in {"pcm", "link"} /\ ~Whole
  /\ cells' = cells /\ Fail

RefuseCell ==
  /\ Whole
  /\ \/ pc = "header" /\ \E c \in Cell \ Headers : cells' = Holding(c)
     \/ /\ pc = "records" /\ i < block.count /\ block.type = "pcm"
        /\ \E c \in Cell : (c \in Pcms => ~PcmFits(c)) /\ cells' = Holding(c)
     \/ /\ pc = "records" /\ i < block.count /\ block.type = "link"
        /\ \E c \in Cell : (c \in Links => ~LinkFits(c)) /\ cells' = Holding(c)
  /\ Fail

\* Mutant: a block that is shorter than its records passes.
AtMostLength == pos - block.start >= block.payload

\* The block took exactly its payload.
ExactLength == pos - block.start = block.payload

EndBlock ==
  /\ pc = "block" /\ cells' = cells
  /\ \/ ExactLength /\ pc' = "header" /\ UNCHANGED <<length, cut, pos, blocks, i, counts>>
     \/ ~ExactLength /\ Fail

\* Mutant: a duplicated route is no worse than a single one.
RoutesFound == speakers >= 1 /\ microphones >= 1 /\ speaker_links >= 1

Routes == speakers = 1 /\ microphones = 1 /\ speaker_links = 1

\* Nothing is left to read.
EndOfFile ==
  /\ pc = "header" /\ ~Whole /\ ~Part
  /\ pc' = IF Routes THEN "pass" ELSE "fail"
  /\ UNCHANGED <<length, cut, cells, pos, blocks, i, counts>>

Init ==
  /\ length \in 0..MaxLength /\ cut \in BOOLEAN
  /\ cells = [p \in {} |-> Other] /\ pos = 0 /\ blocks = <<>> /\ i = 0
  /\ speakers = 0 /\ microphones = 0 /\ speaker_links = 0
  /\ pc = "header"

Next ==
  \/ ReadHeader \/ ReadPcm \/ ReadLink \/ SkipBlock \/ EndRecords
  \/ Refuse \/ RefuseCell \/ EndBlock \/ EndOfFile

Spec == Init /\ [][Next]_vars

-----------------------------------------------------------------------------
\* Properties.

\* Every variable keeps its type; only cells behind the position were read.
TypeOK ==
  /\ length \in 0..MaxLength /\ cut \in BOOLEAN /\ pos \in Nat /\ i \in Nat
  /\ DOMAIN cells \subseteq 0..(length - 1) /\ \A p \in DOMAIN cells : cells[p] \in Cell
  /\ blocks \in Seq([start : Nat, type : {h.type : h \in Headers}, count : Nat, payload : Nat])
  /\ speakers \in Nat /\ microphones \in Nat /\ speaker_links \in Nat
  /\ pc \in {"header", "records", "block", "pass", "fail"}
  /\ pc \in {"records", "block"} => Len(blocks) > 0

\* The cells of block b that were read.
RecordsOf(b) == {p \in DOMAIN cells : b.start <= p /\ p < b.start + b.payload}

\* In a topology that passes, the blocks lie end to end from the first cell of
\* the file to its last, part of a cell included, and each of those that matter
\* holds exactly the records its header counts: no record was taken from a
\* neighbour, and none was missed because a size was off.
BlocksTile ==
  pc = "pass" =>
    /\ \A k \in 1..Len(blocks) :
         LET b == blocks[k] IN
           /\ b.start = IF k = 1 THEN 1 ELSE blocks[k - 1].start + blocks[k - 1].payload + 1
           /\ Cardinality(RecordsOf(b)) = IF b.type \in {"pcm", "link"} THEN b.count ELSE 0
    /\ pos >= length /\ (cut => pos > length)

\* The cells read that declare a route: PCM0, PCM99, and each default hardware
\* configuration of a link to the amplifiers.
SpeakerPcms == {p \in DOMAIN cells : cells[p] \in Pcms /\ cells[p].pcm_id = 0}
MicrophonePcms == {p \in DOMAIN cells : cells[p] \in Pcms /\ cells[p].pcm_id = 99}
AmplifierConfigs ==
  {a \in (DOMAIN cells) \X (1..HwMax) :
     cells[a[1]] \in Links /\ cells[a[1]].codec /\ a[2] \in Defaults(cells[a[1]])}

\* A topology passes only with exactly one of each, and each as the audio
\* profile needs it, however many other records surround them.
RoutesOnce ==
  pc = "pass" =>
    /\ \E p \in SpeakerPcms : SpeakerPcms = {p} /\ PcmFits(cells[p])
    /\ \E p \in MicrophonePcms : MicrophonePcms = {p} /\ PcmFits(cells[p])
    /\ \E a \in AmplifierConfigs :
         AmplifierConfigs = {a} /\ cells[a[1]].hw[a[2]].amplifiers
=============================================================================
