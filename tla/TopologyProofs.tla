--------------------------- MODULE TopologyProofs ---------------------------
(***************************************************************************)
(* What StockTopology promises for files of any length, with any headers,  *)
(* PCMs and links.  The invariant says how far the walk over the file has  *)
(* come: the blocks behind it are closed and accounted for, the open one   *)
(* holds as many records as were counted, and the counters count the       *)
(* routes in the cells read.                                               *)
(***************************************************************************)
EXTENDS StockTopology, FiniteSetTheorems, TLAPS

\* The blocks with records that the check reads.
Known == {"pcm", "link"}

\* Cells are read forward: those read lie behind the position.
Behind == \A p \in DOMAIN cells : p < pos

\* The blocks begun form a chain from the first cell, and each that is closed
\* holds the records its header counts.
ChainInv ==
  /\ blocks = <<>> => pos = 0
  /\ \A k \in 1..Len(blocks) :
       /\ blocks[k].start =
            IF k = 1 THEN 1 ELSE blocks[k - 1].start + blocks[k - 1].payload + 1
       /\ blocks[k].start <= pos
       /\ k < Len(blocks) \/ pc \in {"header", "pass"} =>
            /\ blocks[k].start + blocks[k].payload <= pos
            /\ Cardinality(RecordsOf(blocks[k])) =
                 IF blocks[k].type \in Known THEN blocks[k].count ELSE 0
  /\ blocks # <<>> /\ pc \in {"header", "pass"} => pos = block.start + block.payload

\* The cells of the last block.
Taken == {p \in DOMAIN cells : block.start <= p}

\* Of a block that is open as many records as were counted have been read.
OpenInv ==
  pc \in {"records", "block"} =>
    /\ i <= block.count
    /\ pc = "block" /\ block.type \in Known => i = block.count
    /\ Cardinality(Taken) = IF block.type \in Known THEN i ELSE 0

\* The counters count the cells that declare a route, and every record read fits.
RouteInv ==
  /\ speakers = Cardinality(SpeakerPcms)
  /\ microphones = Cardinality(MicrophonePcms)
  /\ speaker_links = Cardinality(AmplifierConfigs)
  /\ \A p \in DOMAIN cells :
       /\ cells[p] \in Pcms => PcmFits(cells[p])
       /\ cells[p] \in Links => LinkFits(cells[p])

\* A topology that passes has been read to its end.
PassInv == pc = "pass" => Routes /\ pos >= length /\ (cut => pos > length)

TopologyInv ==
  TypeOK /\ (pc # "fail" => Behind /\ ChainInv /\ OpenInv /\ RouteInv /\ PassInv)

-----------------------------------------------------------------------------
LEMMA CellsFinite == TypeOK => IsFiniteSet(DOMAIN cells)
<1> SUFFICES ASSUME TypeOK PROVE IsFiniteSet(DOMAIN cells)
  OBVIOUS
<1>1. length - 1 \in Int /\ DOMAIN cells \in SUBSET (0..(length - 1))
  BY TopologyAssumption DEF TypeOK
<1>2. IsFiniteSet(0..(length - 1))
  BY <1>1, FS_Interval
<1> QED BY <1>1, <1>2, FS_Subset

\* What a read at the position does to the cells.
LEMMA CellRead ==
  ASSUME TypeOK, Behind, Whole, NEW c \in Cell, cells' = Holding(c), length' = length
  PROVE  /\ pos \notin DOMAIN cells
         /\ DOMAIN cells' = DOMAIN cells \cup {pos}
         /\ cells'[pos] = c
         /\ \A p \in DOMAIN cells : cells'[p] = cells[p]
         /\ DOMAIN cells' \subseteq 0..(length' - 1) /\ \A p \in DOMAIN cells' : cells'[p] \in Cell
<1>1. pos \notin DOMAIN cells
  BY DEF TypeOK, Behind
<1>2. DOMAIN cells' = DOMAIN cells \cup {pos}
  BY DEF Holding
<1>3. cells'[pos] = c
  BY DEF Holding
<1>4. \A p \in DOMAIN cells : cells'[p] = cells[p]
  BY <1>1 DEF Holding
<1>5. pos \in 0..(length' - 1)
  BY TopologyAssumption DEF TypeOK, Whole
<1> QED BY <1>1, <1>2, <1>3, <1>4, <1>5 DEF TypeOK

LEMMA DefaultsFinite ==
  ASSUME NEW link \in Links, link.num <= HwMax
  PROVE  /\ Defaults(link) \subseteq 1..HwMax
         /\ IsFiniteSet(Defaults(link)) /\ Cardinality(Defaults(link)) \in Nat
<1>1. link.num \in Nat /\ HwMax \in Nat
  BY TopologyAssumption
<1>2. Defaults(link) \in SUBSET (1..HwMax)
  BY <1>1 DEF Defaults
<1>3. IsFiniteSet(1..HwMax)
  BY <1>1, FS_Interval
<1>4. IsFiniteSet(Defaults(link))
  BY <1>2, <1>3, FS_Subset
<1> QED BY <1>2, <1>4, FS_CardinalityType

\* The cells read are finitely many, and so are the routes in them.
LEMMA RoutesFinite ==
  ASSUME TypeOK
  PROVE  /\ IsFiniteSet(SpeakerPcms) /\ IsFiniteSet(MicrophonePcms)
         /\ IsFiniteSet(AmplifierConfigs)
<1>1. IsFiniteSet(DOMAIN cells)
  BY CellsFinite
<1>2. SpeakerPcms \in SUBSET DOMAIN cells /\ MicrophonePcms \in SUBSET DOMAIN cells
  BY DEF SpeakerPcms, MicrophonePcms
<1>3. HwMax \in Int
  BY TopologyAssumption
<1>4. IsFiniteSet(1..HwMax)
  BY <1>3, FS_Interval
<1>5. IsFiniteSet((DOMAIN cells) \X (1..HwMax))
  BY <1>1, <1>4, FS_Product
<1>6. AmplifierConfigs \in SUBSET ((DOMAIN cells) \X (1..HwMax))
  BY DEF AmplifierConfigs
<1> QED BY <1>1, <1>2, <1>5, <1>6, FS_Subset

-----------------------------------------------------------------------------
LEMMA TopologyInit == Init => TopologyInv
<1> SUFFICES ASSUME Init PROVE TopologyInv
  OBVIOUS
<1>1. /\ DOMAIN cells = {} /\ pos = 0 /\ blocks = <<>> /\ i = 0 /\ pc = "header"
      /\ speakers = 0 /\ microphones = 0 /\ speaker_links = 0
  BY DEF Init
<1>2. TypeOK
  <2>1. cut \in BOOLEAN
    BY Zenon DEF Init
  <2> QED BY <1>1, <2>1 DEF Init, TypeOK
<1>3. Behind /\ ChainInv /\ OpenInv /\ PassInv
  BY <1>1 DEF Behind, ChainInv, OpenInv, PassInv
<1>4. SpeakerPcms = {} /\ MicrophonePcms = {} /\ AmplifierConfigs = {}
  BY <1>1 DEF SpeakerPcms, MicrophonePcms, AmplifierConfigs
<1>5. RouteInv
  BY <1>1, <1>4, FS_EmptySet DEF RouteInv
<1> QED BY <1>2, <1>3, <1>5 DEF TopologyInv

\* A cell that is read at the position is in no block that ends before it.
LEMMA RecordsKept ==
  ASSUME TypeOK, NEW b, b.start \in Nat, b.payload \in Nat, b.start + b.payload <= pos,
         DOMAIN cells' = DOMAIN cells \/ DOMAIN cells' = DOMAIN cells \cup {pos}
  PROVE  {p \in DOMAIN cells' : b.start <= p /\ p < b.start + b.payload} = RecordsOf(b)
BY DEF TypeOK, RecordsOf

\* The blocks are records of four fields.
LEMMA BlockTypes ==
  ASSUME TypeOK, NEW k \in 1..Len(blocks)
  PROVE  blocks[k].start \in Nat /\ blocks[k].count \in Nat /\ blocks[k].payload \in Nat
<1>1. ASSUME NEW T, blocks \in Seq(T) PROVE blocks[k] \in T
  BY <1>1
<1>2. blocks[k] \in [start : Nat, type : {h.type : h \in Headers}, count : Nat, payload : Nat]
  BY Zenon, <1>1 DEF TypeOK
<1> QED BY <1>2

\* The step leaves the blocks alone, and none becomes closed or open by it.
LEMMA ChainKept ==
  ASSUME TypeOK, ChainInv, blocks' = blocks, pc' = pc \/ (pc = "records" /\ pc' = "block"),
         pc \in {"records", "block"}, pos' \in Nat, pos <= pos',
         DOMAIN cells' = DOMAIN cells \/ DOMAIN cells' = DOMAIN cells \cup {pos}
  PROVE  ChainInv'
<1>1. blocks # <<>> /\ ~(pc' \in {"header", "pass"})
  BY DEF TypeOK
<1>2. ASSUME NEW k \in 1..Len(blocks)
      PROVE  /\ blocks[k].start =
                  IF k = 1 THEN 1 ELSE blocks[k - 1].start + blocks[k - 1].payload + 1
             /\ blocks[k].start <= pos'
             /\ k < Len(blocks) =>
                  /\ blocks[k].start + blocks[k].payload <= pos'
                  /\ Cardinality(RecordsOf(blocks[k])') =
                       IF blocks[k].type \in Known THEN blocks[k].count ELSE 0
  <2>1. pos \in Nat /\ blocks[k].start \in Nat /\ blocks[k].payload \in Nat
    BY BlockTypes DEF TypeOK
  <2>2. ASSUME k < Len(blocks) PROVE RecordsOf(blocks[k])' = RecordsOf(blocks[k])
    <3>1. blocks[k].start + blocks[k].payload <= pos
      BY <2>2 DEF ChainInv
    <3>2. RecordsOf(blocks[k])' = {p \in DOMAIN cells' :
             blocks[k].start <= p /\ p < blocks[k].start + blocks[k].payload}
      BY DEF RecordsOf
    <3> QED BY <2>1, <3>1, <3>2, RecordsKept
  <2> QED BY <2>1, <2>2 DEF ChainInv
<1> QED BY <1>1, <1>2 DEF ChainInv

-----------------------------------------------------------------------------
\* A record of the open block is read, with its private data.
LEMMA RecordStep ==
  ASSUME TopologyInv, pc = "records", i < block.count, block.type \in Known, Whole,
         NEW c \in Pcms \cup Links, cells' = Holding(c),
         pos' = pos + 1 + c.priv, i' = i + 1, UNCHANGED <<length, cut, blocks, pc>>
  PROVE  Behind' /\ ChainInv' /\ OpenInv' /\ PassInv'
<1> USE DEF TopologyInv
<1>1. TypeOK /\ Behind /\ c \in Cell /\ pos \in Nat /\ c.priv \in Nat /\ Len(blocks) > 0
  BY TopologyAssumption DEF TypeOK, Cell
<1>2. pos \notin DOMAIN cells /\ DOMAIN cells' = DOMAIN cells \cup {pos}
  BY <1>1, CellRead
<1>3. pos' \in Nat /\ pos < pos'
  BY <1>1
<1>4. Behind'
  BY <1>1, <1>2, <1>3 DEF Behind, TypeOK
<1>5. ChainInv'
  BY <1>1, <1>2, <1>3, ChainKept
<1>6. OpenInv'
  <2>1. Len(blocks) \in 1..Len(blocks) /\ i \in Nat
    BY <1>1 DEF TypeOK
  <2>2. block.start \in Nat /\ block.count \in Nat /\ block.start <= pos
    BY <1>1, <2>1, BlockTypes DEF block, ChainInv
  <2>3. Taken' = Taken \cup {pos} /\ pos \notin Taken
    BY <1>2, <2>2 DEF Taken, block
  <2>4. IsFiniteSet(Taken)
    <3>1. IsFiniteSet(DOMAIN cells)
      BY <1>1, CellsFinite
    <3>2. Taken \in SUBSET DOMAIN cells
      BY DEF Taken
    <3> QED BY <3>1, <3>2, FS_Subset
  <2>5. Cardinality(Taken') = Cardinality(Taken) + 1
    BY <2>3, <2>4, FS_AddElement
  <2> QED BY <2>1, <2>2, <2>5 DEF OpenInv, block
<1>7. PassInv'
  BY DEF PassInv
<1> QED BY <1>4, <1>5, <1>6, <1>7

\* What reading a PCM adds to the routes.
LEMMA PcmRoutes ==
  ASSUME TypeOK, Behind, RouteInv, Whole, NEW pcm \in Pcms, PcmFits(pcm), cells' = Holding(pcm),
         length' = length,
         speakers' = speakers + (IF pcm.pcm_id = 0 THEN 1 ELSE 0),
         microphones' = microphones + (IF pcm.pcm_id = 99 THEN 1 ELSE 0),
         speaker_links' = speaker_links
  PROVE  RouteInv' /\ speakers' \in Nat /\ microphones' \in Nat
<1>1. pcm \in Cell /\ pcm \notin Links
  BY TopologyAssumption DEF Cell
<1>2. /\ pos \notin DOMAIN cells /\ DOMAIN cells' = DOMAIN cells \cup {pos}
      /\ cells'[pos] = pcm /\ \A p \in DOMAIN cells : cells'[p] = cells[p]
  BY <1>1, CellRead
<1>3. SpeakerPcms' = IF pcm.pcm_id = 0 THEN SpeakerPcms \cup {pos} ELSE SpeakerPcms
  BY <1>2 DEF SpeakerPcms
<1>4. MicrophonePcms' = IF pcm.pcm_id = 99 THEN MicrophonePcms \cup {pos} ELSE MicrophonePcms
  BY <1>2 DEF MicrophonePcms
<1>5. AmplifierConfigs' = AmplifierConfigs
  <2>1. AmplifierConfigs' \subseteq AmplifierConfigs
    BY <1>1, <1>2 DEF AmplifierConfigs
  <2>2. AmplifierConfigs \subseteq AmplifierConfigs'
    BY <1>2 DEF AmplifierConfigs
  <2> QED BY <2>1, <2>2
<1>6. pos \notin SpeakerPcms /\ pos \notin MicrophonePcms
  BY <1>2 DEF SpeakerPcms, MicrophonePcms
<1>7. IsFiniteSet(SpeakerPcms) /\ IsFiniteSet(MicrophonePcms)
  BY RoutesFinite
<1>8. /\ Cardinality(SpeakerPcms \cup {pos}) = Cardinality(SpeakerPcms) + 1
      /\ Cardinality(MicrophonePcms \cup {pos}) = Cardinality(MicrophonePcms) + 1
  BY <1>6, <1>7, FS_AddElement
<1>9. \A p \in DOMAIN cells' :
        /\ cells'[p] \in Pcms => PcmFits(cells'[p])
        /\ cells'[p] \in Links => LinkFits(cells'[p])
  BY <1>1, <1>2 DEF RouteInv
<1>10. speakers \in Nat /\ microphones \in Nat
  BY DEF TypeOK
<1> QED BY <1>3, <1>4, <1>5, <1>8, <1>9, <1>10 DEF RouteInv

\* What reading a link adds to them.
LEMMA LinkRoutes ==
  ASSUME TypeOK, Behind, RouteInv, Whole, NEW link \in Links, LinkFits(link),
         cells' = Holding(link), length' = length,
         speaker_links' = speaker_links
                            + (IF link.codec THEN Cardinality(Defaults(link)) ELSE 0),
         UNCHANGED <<speakers, microphones>>
  PROVE  RouteInv' /\ speaker_links' \in Nat
<1>1. link \in Cell /\ link \notin Pcms
  BY TopologyAssumption DEF Cell
<1>2. /\ pos \notin DOMAIN cells /\ DOMAIN cells' = DOMAIN cells \cup {pos}
      /\ cells'[pos] = link /\ \A p \in DOMAIN cells : cells'[p] = cells[p]
  BY <1>1, CellRead
<1>3. SpeakerPcms' = SpeakerPcms /\ MicrophonePcms' = MicrophonePcms
  BY <1>1, <1>2 DEF SpeakerPcms, MicrophonePcms
<1>4. \A p \in DOMAIN cells' :
        /\ cells'[p] \in Pcms => PcmFits(cells'[p])
        /\ cells'[p] \in Links => LinkFits(cells'[p])
  BY <1>1, <1>2 DEF RouteInv
<1>5. speaker_links \in Nat
  BY DEF TypeOK
<1>6. CASE ~link.codec
  <2>1. AmplifierConfigs' \subseteq AmplifierConfigs
    BY <1>2, <1>6 DEF AmplifierConfigs
  <2>2. AmplifierConfigs \subseteq AmplifierConfigs'
    BY <1>2 DEF AmplifierConfigs
  <2>3. AmplifierConfigs' = AmplifierConfigs
    BY <2>1, <2>2
  <2>4. speaker_links' = speaker_links
    BY <1>5, <1>6
  <2> QED BY <1>3, <1>4, <1>5, <2>3, <2>4 DEF RouteInv
<1>7. CASE link.codec
  <2> DEFINE New == {pos} \X Defaults(link)
  <2>1. link.num <= HwMax
    BY <1>7 DEF LinkFits
  <2>2. /\ Defaults(link) \subseteq 1..HwMax
        /\ IsFiniteSet(Defaults(link)) /\ Cardinality(Defaults(link)) \in Nat
    BY <2>1, DefaultsFinite
  <2>3. AmplifierConfigs' = AmplifierConfigs \cup New
    <3>1. AmplifierConfigs' \subseteq AmplifierConfigs \cup New
      BY <1>2 DEF AmplifierConfigs
    <3>2. AmplifierConfigs \subseteq AmplifierConfigs'
      BY <1>2 DEF AmplifierConfigs
    <3>3. New \subseteq AmplifierConfigs'
      BY <1>2, <1>7, <2>2 DEF AmplifierConfigs
    <3> QED BY <3>1, <3>2, <3>3
  <2>4. AmplifierConfigs \cap New = {}
    BY <1>2 DEF AmplifierConfigs
  <2>5. IsFiniteSet({pos}) /\ Cardinality({pos}) = 1
    BY FS_Singleton
  <2>6. IsFiniteSet(New) /\ Cardinality(New) = Cardinality({pos}) * Cardinality(Defaults(link))
    BY <2>2, <2>5, FS_Product
  <2>7. Cardinality(New) = Cardinality(Defaults(link))
    BY <2>2, <2>5, <2>6
  <2>8. IsFiniteSet(AmplifierConfigs)
    BY RoutesFinite
  <2>9. Cardinality(AmplifierConfigs') =
          Cardinality(AmplifierConfigs) + Cardinality(New) - Cardinality({})
    BY <2>3, <2>4, <2>6, <2>8, FS_Union
  <2>10. Cardinality({}) = 0 /\ Cardinality(AmplifierConfigs) \in Nat
    BY <2>8, FS_EmptySet, FS_CardinalityType
  <2>11. Cardinality(AmplifierConfigs') = speaker_links'
    BY <1>7, <2>2, <2>7, <2>9, <2>10 DEF RouteInv
  <2> QED BY <1>3, <1>4, <1>5, <1>7, <2>2, <2>11 DEF RouteInv
<1> QED BY <1>6, <1>7

-----------------------------------------------------------------------------
\* What a step that reads no cell keeps of the routes.
LEMMA RoutesKept ==
  ASSUME RouteInv, UNCHANGED <<cells, counts>>
  PROVE  RouteInv'
BY DEF RouteInv, SpeakerPcms, MicrophonePcms, AmplifierConfigs, counts

LEMMA HeaderStep == TopologyInv /\ ReadHeader => TopologyInv'
<1> SUFFICES ASSUME TopologyInv, ReadHeader PROVE TopologyInv'
  OBVIOUS
<1> USE DEF TopologyInv
<1>1. TypeOK /\ Behind /\ ChainInv /\ RouteInv /\ pc = "header" /\ Whole
  BY DEF ReadHeader
<1>2. PICK h \in Headers :
        /\ cells' = Holding(h)
        /\ blocks' = Append(blocks, [start |-> pos + 1, type |-> h.type, count |-> h.count,
                                     payload |-> h.payload])
  BY DEF ReadHeader
<1> DEFINE new == [start |-> pos + 1, type |-> h.type, count |-> h.count, payload |-> h.payload]
<1>3. /\ pos' = pos + 1 /\ i' = 0 /\ pc' = "records" /\ pos \in Nat /\ pos' \in Nat
      /\ h \in Cell /\ h \notin Pcms /\ h \notin Links /\ h.count \in Nat /\ h.payload \in Nat
      /\ UNCHANGED <<length, cut, counts>>
  BY <1>1, TopologyAssumption DEF ReadHeader, TypeOK, Cell
<1>4. /\ pos \notin DOMAIN cells /\ DOMAIN cells' = DOMAIN cells \cup {pos}
      /\ cells'[pos] = h /\ \A p \in DOMAIN cells : cells'[p] = cells[p]
      /\ DOMAIN cells' \subseteq 0..(length' - 1) /\ \A p \in DOMAIN cells' : cells'[p] \in Cell
  BY <1>1, <1>2, <1>3, CellRead
<1>5. /\ Len(blocks') = Len(blocks) + 1 /\ Len(blocks) \in Nat
      /\ blocks'[Len(blocks')] = new
      /\ \A k \in 1..Len(blocks) : blocks'[k] = blocks[k]
  <2>1. ASSUME NEW T, blocks \in Seq(T)
        PROVE  /\ Len(blocks') = Len(blocks) + 1 /\ Len(blocks) \in Nat
               /\ blocks'[Len(blocks')] = new
               /\ \A k \in 1..Len(blocks) : blocks'[k] = blocks[k]
    BY <1>2, <2>1
  <2> QED BY Zenon, <1>1, <2>1 DEF TypeOK
<1>6. TypeOK'
  <2> DEFINE Block == [start : Nat, type : {g.type : g \in Headers}, count : Nat, payload : Nat]
  <2>1. new \in Block
    BY <1>3
  <2>2. ASSUME NEW T, blocks \in Seq(T), new \in T PROVE blocks' \in Seq(T)
    BY <1>2, <2>2
  <2>3. blocks' \in Seq(Block)
    BY Zenon, <1>1, <2>1, <2>2 DEF TypeOK
  <2> QED BY <1>1, <1>3, <1>4, <1>5, <2>3 DEF TypeOK, counts
<1>7. Behind'
  BY <1>1, <1>3, <1>4 DEF Behind, TypeOK
<1>8. ChainInv'
  <2>1. ASSUME NEW k \in 1..Len(blocks')
        PROVE  /\ blocks'[k].start =
                    IF k = 1 THEN 1 ELSE blocks'[k - 1].start + blocks'[k - 1].payload + 1
               /\ blocks'[k].start <= pos'
               /\ k < Len(blocks') =>
                    /\ blocks'[k].start + blocks'[k].payload <= pos'
                    /\ Cardinality(RecordsOf(blocks[k])') =
                         IF blocks'[k].type \in Known THEN blocks'[k].count ELSE 0
    <3>1. CASE k < Len(blocks')
      <4>1. k \in 1..Len(blocks) /\ blocks'[k] = blocks[k]
        BY <1>5, <3>1
      <4>2. blocks[k].start \in Nat /\ blocks[k].payload \in Nat
        BY <1>1, <4>1, BlockTypes
      <4>3. /\ blocks[k].start + blocks[k].payload <= pos
            /\ Cardinality(RecordsOf(blocks[k])) =
                 IF blocks[k].type \in Known THEN blocks[k].count ELSE 0
            /\ blocks[k].start <= pos
            /\ blocks[k].start =
                 IF k = 1 THEN 1 ELSE blocks[k - 1].start + blocks[k - 1].payload + 1
        BY <1>1, <4>1 DEF ChainInv
      <4>4. RecordsOf(blocks[k])' = {p \in DOMAIN cells' :
              blocks[k].start <= p /\ p < blocks[k].start + blocks[k].payload}
        BY Zenon, <4>1 DEF RecordsOf
      <4>5. RecordsOf(blocks[k])' = RecordsOf(blocks[k])
        BY <1>1, <1>4, <4>2, <4>3, <4>4, RecordsKept
      <4>6. k # 1 => k - 1 \in 1..Len(blocks) /\ blocks'[k - 1] = blocks[k - 1]
        BY <1>5, <4>1
      <4> QED BY <1>3, <4>1, <4>2, <4>3, <4>5, <4>6
    <3>2. CASE k = Len(blocks')
      <4>1. blocks'[k].start = pos + 1
        BY <1>5, <3>2
      <4>2. CASE Len(blocks) = 0
        <5>1. blocks = <<>>
          BY <1>1, <4>2 DEF TypeOK
        <5>2. k = 1 /\ pos = 0
          BY <1>1, <1>5, <3>2, <4>2, <5>1 DEF ChainInv
        <5> QED BY <1>3, <1>5, <3>2, <4>1, <5>2
      <4>3. CASE Len(blocks) # 0
        <5>1. /\ k - 1 = Len(blocks) /\ k # 1 /\ Len(blocks) \in 1..Len(blocks)
              /\ blocks'[k - 1] = block
          BY <1>5, <3>2, <4>3 DEF block
        <5>2. pos = block.start + block.payload
          BY <1>1, <4>3 DEF ChainInv
        <5> QED BY <1>3, <1>5, <3>2, <4>1, <5>1, <5>2
      <4> QED BY <4>2, <4>3
    <3> QED BY <1>5, <3>1, <3>2
  <2>2. blocks' # <<>> /\ ~(pc' \in {"header", "pass"})
    BY <1>3, <1>5
  <2> QED BY <2>1, <2>2 DEF ChainInv
<1>9. OpenInv'
  <2>1. block'.start = pos + 1 /\ block'.count = h.count
    BY <1>5 DEF block
  <2>2. Taken' = {}
    <3>1. \A p \in DOMAIN cells' : p < block'.start
      BY <1>1, <1>3, <1>4, <2>1 DEF Behind, TypeOK
    <3>2. block'.start \in Nat /\ DOMAIN cells' \subseteq Int
      BY <1>3, <1>4, <2>1
    <3> QED BY <3>1, <3>2 DEF Taken
  <2>3. Cardinality(Taken') = 0
    BY <2>2, FS_EmptySet
  <2> QED BY <1>3, <2>1, <2>3 DEF OpenInv
<1>10. RouteInv'
  <2>1. SpeakerPcms' = SpeakerPcms /\ MicrophonePcms' = MicrophonePcms
    BY <1>3, <1>4 DEF SpeakerPcms, MicrophonePcms
  <2>2. AmplifierConfigs' \subseteq AmplifierConfigs
    BY <1>3, <1>4 DEF AmplifierConfigs
  <2>3. AmplifierConfigs \subseteq AmplifierConfigs'
    BY <1>4 DEF AmplifierConfigs
  <2>4. AmplifierConfigs' = AmplifierConfigs
    BY <2>2, <2>3
  <2> QED BY <1>1, <1>3, <1>4, <2>1, <2>4 DEF RouteInv, counts
<1>11. PassInv'
  BY <1>3 DEF PassInv
<1> QED BY <1>6, <1>7, <1>8, <1>9, <1>10, <1>11

LEMMA PcmStep == TopologyInv /\ ReadPcm => TopologyInv'
<1> SUFFICES ASSUME TopologyInv, ReadPcm PROVE TopologyInv'
  OBVIOUS
<1> USE DEF TopologyInv
<1>1. /\ TypeOK /\ Behind /\ RouteInv /\ pc = "records" /\ i < block.count /\ Whole
      /\ block.type \in Known /\ i' = i + 1
      /\ UNCHANGED <<length, cut, blocks, speaker_links, pc>>
  BY DEF ReadPcm, Known
<1>2. PICK pcm \in Pcms :
        /\ PcmFits(pcm) /\ cells' = Holding(pcm)
        /\ speakers' = speakers + (IF pcm.pcm_id = 0 THEN 1 ELSE 0)
        /\ microphones' = microphones + (IF pcm.pcm_id = 99 THEN 1 ELSE 0)
        /\ pos' = pos + 1 + pcm.priv
  BY DEF ReadPcm
<1>3. RouteInv' /\ speakers' \in Nat /\ microphones' \in Nat
  BY <1>1, <1>2, PcmRoutes
<1>4. Behind' /\ ChainInv' /\ OpenInv' /\ PassInv'
  BY <1>1, <1>2, RecordStep
<1>5. /\ DOMAIN cells' \subseteq 0..(length' - 1) /\ \A p \in DOMAIN cells' : cells'[p] \in Cell
  <2>1. pcm \in Cell
    BY DEF Cell
  <2> QED BY <1>1, <1>2, <2>1, CellRead
<1>6. pos' \in Nat /\ i' \in Nat
  BY <1>1, <1>2, TopologyAssumption DEF TypeOK
<1>7. TypeOK'
  BY <1>1, <1>3, <1>5, <1>6 DEF TypeOK
<1> QED BY <1>3, <1>4, <1>7

LEMMA LinkStep == TopologyInv /\ ReadLink => TopologyInv'
<1> SUFFICES ASSUME TopologyInv, ReadLink PROVE TopologyInv'
  OBVIOUS
<1> USE DEF TopologyInv
<1>1. /\ TypeOK /\ Behind /\ RouteInv /\ pc = "records" /\ i < block.count /\ Whole
      /\ block.type \in Known /\ i' = i + 1
      /\ UNCHANGED <<length, cut, blocks, speakers, microphones, pc>>
  BY DEF ReadLink, Known
<1>2. PICK link \in Links :
        /\ LinkFits(link) /\ cells' = Holding(link)
        /\ speaker_links' = speaker_links
                              + (IF link.codec THEN Cardinality(Defaults(link)) ELSE 0)
        /\ pos' = pos + 1 + link.priv
  BY DEF ReadLink
<1>3. RouteInv' /\ speaker_links' \in Nat
  BY <1>1, <1>2, LinkRoutes
<1>4. Behind' /\ ChainInv' /\ OpenInv' /\ PassInv'
  BY <1>1, <1>2, RecordStep
<1>5. /\ DOMAIN cells' \subseteq 0..(length' - 1) /\ \A p \in DOMAIN cells' : cells'[p] \in Cell
  <2>1. link \in Cell
    BY DEF Cell
  <2> QED BY <1>1, <1>2, <2>1, CellRead
<1>6. pos' \in Nat /\ i' \in Nat
  BY <1>1, <1>2, TopologyAssumption DEF TypeOK
<1>7. TypeOK'
  BY <1>1, <1>3, <1>5, <1>6 DEF TypeOK
<1> QED BY <1>3, <1>4, <1>7

\* The end of the records, reached or skipped to.
LEMMA RecordsEnd == TopologyInv /\ (SkipBlock \/ EndRecords) => TopologyInv'
<1> SUFFICES ASSUME TopologyInv, SkipBlock \/ EndRecords PROVE TopologyInv'
  OBVIOUS
<1> USE DEF TopologyInv
<1>1. /\ TypeOK /\ Behind /\ ChainInv /\ OpenInv /\ RouteInv /\ pc = "records" /\ pc' = "block"
      /\ UNCHANGED <<length, cut, cells, blocks, i, counts>>
      /\ pos' = pos \/ pos' = pos + block.payload
      /\ block.type \in Known => i = block.count
  BY DEF SkipBlock, EndRecords, Known
<1>2. block.payload \in Nat /\ pos \in Nat
  BY <1>1, BlockTypes DEF TypeOK, block
<1>3. pos' \in Nat /\ pos <= pos'
  BY <1>1, <1>2
<1>4. TypeOK'
  BY <1>1, <1>3 DEF TypeOK, counts
<1>5. Behind'
  BY <1>1, <1>2, <1>3 DEF Behind, TypeOK
<1>6. ChainInv'
  BY <1>1, <1>3, ChainKept
<1>7. OpenInv'
  BY <1>1 DEF OpenInv, Taken, block
<1>8. RouteInv' /\ PassInv'
  BY <1>1, RoutesKept DEF PassInv
<1> QED BY <1>4, <1>5, <1>6, <1>7, <1>8

LEMMA BlockEnd == TopologyInv /\ EndBlock /\ ExactLength => TopologyInv'
<1> SUFFICES ASSUME TopologyInv, EndBlock, ExactLength PROVE TopologyInv'
  OBVIOUS
<1> USE DEF TopologyInv
<1>1. /\ TypeOK /\ Behind /\ ChainInv /\ OpenInv /\ RouteInv /\ pc = "block" /\ pc' = "header"
      /\ UNCHANGED <<length, cut, cells, pos, blocks, i, counts>>
  BY DEF EndBlock, Fail
<1>2. Len(blocks) \in 1..Len(blocks) /\ pos \in Nat
  BY <1>1 DEF TypeOK
<1>3. block.start \in Nat /\ block.count \in Nat /\ block.payload \in Nat
  BY <1>1, <1>2, BlockTypes DEF block
<1>4. pos = block.start + block.payload
  BY <1>2, <1>3 DEF ExactLength
<1>5. RecordsOf(block) = Taken
  BY <1>1, <1>4 DEF RecordsOf, Taken, Behind, TypeOK
<1>6. Cardinality(RecordsOf(block)) = IF block.type \in Known THEN block.count ELSE 0
  BY <1>1, <1>5 DEF OpenInv
<1>7. ChainInv'
  <2>1. RecordsOf(block)' = RecordsOf(block) /\ block' = block
    BY <1>1 DEF RecordsOf, block
  <2>2. ASSUME NEW k \in 1..Len(blocks)
        PROVE  /\ blocks[k].start + blocks[k].payload <= pos
               /\ Cardinality(RecordsOf(blocks[k])) =
                    IF blocks[k].type \in Known THEN blocks[k].count ELSE 0
    <3>1. CASE k < Len(blocks)
      BY <1>1, <3>1 DEF ChainInv
    <3>2. CASE k = Len(blocks)
      BY <1>2, <1>3, <1>4, <1>6, <3>2 DEF block
    <3> QED BY <1>2, <3>1, <3>2
  <2>3. \A k \in 1..Len(blocks) : RecordsOf(blocks[k])' = RecordsOf(blocks[k])
    BY <1>1 DEF RecordsOf
  <2>4. blocks # <<>>
    BY <1>1 DEF TypeOK
  <2> QED BY <1>1, <1>4, <2>1, <2>2, <2>3, <2>4 DEF ChainInv
<1>8. TypeOK' /\ Behind' /\ OpenInv' /\ PassInv'
  BY <1>1 DEF TypeOK, Behind, OpenInv, PassInv, counts
<1>9. RouteInv'
  BY <1>1, RoutesKept
<1> QED BY <1>7, <1>8, <1>9

LEMMA FileEnd == TopologyInv /\ EndOfFile => TopologyInv'
<1> SUFFICES ASSUME TopologyInv, EndOfFile PROVE TopologyInv'
  OBVIOUS
<1> USE DEF TopologyInv
<1>1. /\ TypeOK /\ Behind /\ ChainInv /\ RouteInv /\ pc = "header"
      /\ pc' = IF Routes THEN "pass" ELSE "fail"
      /\ UNCHANGED <<length, cut, cells, pos, blocks, i, counts>> /\ ~Whole /\ ~Part
  BY DEF EndOfFile
<1>2. TypeOK'
  BY <1>1 DEF TypeOK, counts
<1>3. CASE Routes
  <2>1. Behind' /\ OpenInv'
    BY <1>1, <1>3 DEF Behind, OpenInv
  <2>2. \A k \in 1..Len(blocks) : RecordsOf(blocks[k])' = RecordsOf(blocks[k])
    BY <1>1 DEF RecordsOf
  <2>3. ChainInv'
    BY <1>1, <1>3, <2>2 DEF ChainInv, block
  <2>4. RouteInv'
    BY <1>1, RoutesKept
  <2>5. PassInv'
    BY <1>1, <1>3 DEF PassInv, Routes, Whole, Part, TypeOK, counts
  <2> QED BY <1>2, <2>1, <2>3, <2>4, <2>5
<1>4. CASE ~Routes
  BY <1>1, <1>2, <1>4
<1> QED BY <1>3, <1>4

\* A check that fails reads no further.
LEMMA FailStep ==
  TopologyInv /\ (Refuse \/ RefuseCell \/ (EndBlock /\ ~ExactLength)) => TopologyInv'
<1> SUFFICES ASSUME TopologyInv, Refuse \/ RefuseCell \/ (EndBlock /\ ~ExactLength)
             PROVE  TopologyInv'
  OBVIOUS
<1> USE DEF TopologyInv
<1>1. TypeOK /\ Fail
  BY DEF Refuse, RefuseCell, EndBlock
<1>2. cells' = cells \/ \E c \in Cell : pc # "fail" /\ Whole /\ cells' = Holding(c)
  BY DEF Refuse, RefuseCell, EndBlock
<1>3. DOMAIN cells' \subseteq 0..(length - 1) /\ \A p \in DOMAIN cells' : cells'[p] \in Cell
  <2>1. CASE cells' = cells
    BY <1>1, <2>1 DEF TypeOK
  <2>2. ASSUME NEW c \in Cell, pc # "fail", Whole, cells' = Holding(c)
        PROVE  DOMAIN cells' \subseteq 0..(length - 1) /\ \A p \in DOMAIN cells' : cells'[p] \in Cell
    BY <1>1, <2>2, CellRead DEF Fail
  <2> QED BY <1>2, <2>1, <2>2
<1>4. TypeOK'
  BY <1>1, <1>3 DEF Fail, TypeOK, counts
<1> QED BY <1>1, <1>4 DEF Fail

LEMMA TopologyStep == TopologyInv /\ [Next]_vars => TopologyInv'
<1> SUFFICES ASSUME TopologyInv, [Next]_vars PROVE TopologyInv'
  OBVIOUS
<1>1. CASE Next
  BY <1>1, HeaderStep, PcmStep, LinkStep, RecordsEnd, BlockEnd, FileEnd, FailStep DEF Next
<1>2. CASE UNCHANGED vars
  <2>1. UNCHANGED <<length, cut, cells, pos, blocks, i, counts, pc>>
    BY <1>2 DEF vars
  <2>2. \A k \in 1..Len(blocks) : RecordsOf(blocks[k])' = RecordsOf(blocks[k])
    BY <2>1 DEF RecordsOf
  <2>3. RouteInv => RouteInv'
    BY <2>1, RoutesKept
  <2>4. ChainInv => ChainInv'
    BY <2>1, <2>2 DEF ChainInv, block
  <2> QED BY <2>1, <2>3, <2>4
       DEF TopologyInv, TypeOK, Behind, OpenInv, Taken, block, PassInv, Routes, counts
<1> QED BY <1>1, <1>2

LEMMA TopologyInvariance == Spec => []TopologyInv
BY TopologyInit, TopologyStep, PTL DEF Spec

-----------------------------------------------------------------------------
\* The reader's state keeps its type, and no cell beyond the file is read
\* (read_exact).
THEOREM TopologyTypes == Spec => []TypeOK
<1>1. TopologyInv => TypeOK BY DEF TopologyInv
<1> QED BY <1>1, TopologyInvariance, PTL

\* In a topology that passes the blocks lie end to end and hold the records
\* their headers count (main).
THEOREM PassTiles == Spec => []BlocksTile
<1>1. TopologyInv => BlocksTile
  BY DEF TopologyInv, ChainInv, PassInv, BlocksTile, Known
<1> QED BY <1>1, TopologyInvariance, PTL

\* A topology passes with each route once, and fit (check_pcm, check_link).
THEOREM PassRoutes == Spec => []RoutesOnce
<1>1. ASSUME TopologyInv, pc = "pass" PROVE RoutesOnce
  <2> USE DEF TopologyInv
  <2>1. /\ Cardinality(SpeakerPcms) = 1 /\ Cardinality(MicrophonePcms) = 1
        /\ Cardinality(AmplifierConfigs) = 1
    BY <1>1 DEF PassInv, Routes, RouteInv
  <2>2. /\ IsFiniteSet(SpeakerPcms) /\ IsFiniteSet(MicrophonePcms)
        /\ IsFiniteSet(AmplifierConfigs)
    BY <1>1, RoutesFinite
  <2>3. PICK s : SpeakerPcms = {s}
    BY <2>1, <2>2, FS_Singleton
  <2>4. PICK m : MicrophonePcms = {m}
    BY <2>1, <2>2, FS_Singleton
  <2>5. PICK a : AmplifierConfigs = {a}
    BY <2>1, <2>2, FS_Singleton
  <2>6. PcmFits(cells[s]) /\ PcmFits(cells[m])
    BY <1>1, <2>3, <2>4 DEF SpeakerPcms, MicrophonePcms, RouteInv
  <2>7. cells[a[1]].hw[a[2]].amplifiers
    <3>1. /\ a[1] \in DOMAIN cells /\ cells[a[1]] \in Links /\ cells[a[1]].codec
          /\ a[2] \in Defaults(cells[a[1]])
      BY <2>5 DEF AmplifierConfigs
    <3> QED BY <1>1, <3>1 DEF RouteInv, LinkFits
  <2> QED BY <2>3, <2>4, <2>5, <2>6, <2>7 DEF RoutesOnce
<1>2. TopologyInv => RoutesOnce
  BY <1>1 DEF RoutesOnce
<1> QED BY <1>2, TopologyInvariance, PTL
=============================================================================
