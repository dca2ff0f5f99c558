------------------------ MODULE SummarySnapshotProofs ------------------------
(***************************************************************************)
(* Proofs about module SummarySnapshot, and about PageNodes that it        *)
(* extends, for any files, documents, limits and chapters.                 *)
(***************************************************************************)
EXTENDS SummarySnapshot, DocumentLemmas

-----------------------------------------------------------------------------
(* The inductive invariant: first what every step relies on. *)

File == [format : {"markdown"}, content : {<<>>}, stem : {""}]
    \cup [format : {"docx"}, content : Docs, stem : {""}]
    \cup [format : {"pdf"}, content : Pdfs, stem : Stems]

FilesOK == files \in Seq(File)

\* Where the reader of the last file is.
ReaderOK ==
    /\ para > 0 => Reading("markdown")
    /\ Reading("docx") => item <= Len(Content.items)
    /\ Reading("pdf") => page <= Len(Content) /\ (page > 0 => item <= Len(Content[page].images))

\* Every block is of a file, in the order of the files, and a block of a DOCX
\* document of an item that yields one.
BlocksOK ==
    /\ \A k \in DOMAIN blocks :
          /\ blocks[k].file \in DOMAIN files
          /\ files[blocks[k].file].format = "docx" =>
                blocks[k].part \in DOMAIN files[blocks[k].file].content.items
    /\ \A j, k \in DOMAIN blocks : j < k => blocks[j].file <= blocks[k].file

PhasesOK ==
    /\ phase = "extract" => chunks = <<>>
    /\ phase # "chunk" => buffer = NoBuffer
    /\ phase \in {"extract", "chunk", "order"} =>
          chapters = <<>> /\ order = <<>> /\ assigned = 0 /\ sections = <<>>
    /\ phase \in {"sections", "built"} => chapters \in ChapterPlans

\* A chunk of several blocks is made of paragraphs that fit together.
Fitting(c) == c.first < c.last =>
    /\ \A k \in c.first..c.last : blocks[k].kind = "paragraph"
    /\ c.len <= SafeMaxChars + 2 * (c.last - c.first - 1)

\* The last block of the first n chunks of cs.
EndOf(cs, n) == IF n = 0 THEN 0 ELSE cs[n].last

\* cs divides blocks, from the first one, into chunks that fit.
Divides(cs) == \A i \in DOMAIN cs :
    /\ cs[i].first = EndOf(cs, i - 1) + 1
    /\ cs[i].first <= cs[i].last /\ cs[i].last <= Len(blocks)
    /\ Fitting(cs[i])

\* The buffer goes on where the chunks end.
BufferOK == buffer.first # 0 =>
    /\ buffer.first = EndOf(chunks, Len(chunks)) + 1
    /\ buffer.first <= buffer.last
    /\ \A k \in buffer.first..buffer.last : blocks[k].kind = "paragraph"
    /\ buffer.first < buffer.last => buffer.len + 2 <= SafeMaxChars

ChunksOK ==
    /\ Divides(chunks)
    /\ BufferOK
    /\ phase \notin {"extract", "chunk"} => Done = Len(blocks)

BaseInv == TypeOK /\ FilesOK /\ ReaderOK /\ BlocksOK /\ PhasesOK /\ ChunksOK

-----------------------------------------------------------------------------
(* Files and their blocks. *)

LEMMA FileFacts ==
    ASSUME FilesOK
    PROVE  /\ Len(files) \in Nat /\ DOMAIN files = 1..Len(files)
           /\ \A f \in DOMAIN files : files[f] \in File /\ files[f].stem \in Stems \cup {""}
<1>1. Len(files) \in Nat /\ DOMAIN files = 1..Len(files) /\ \A f \in DOMAIN files : files[f] \in File
  BY DEF FilesOK
<1> QED
  BY <1>1 DEF File

LEMMA DocxFile ==
    ASSUME FilesOK, NEW f \in DOMAIN files, files[f].format = "docx"
    PROVE  /\ files[f].content \in Docs /\ files[f].content \in Document
           /\ Room(f) \in Nat /\ Room(f) >= 16000
<1>1. files[f].content \in Docs
  BY FileFacts DEF File
<1>2. files[f].content \in Document
  BY <1>1, LayoutAssumption
<1> QED
  BY <1>1, <1>2, UsablePage DEF Room

LEMMA PdfFile ==
    ASSUME FilesOK, NEW f \in DOMAIN files, files[f].format = "pdf"
    PROVE  files[f].content \in Seq(PdfPage) /\ files[f].stem \in Stems
<1>1. files[f].content \in Pdfs /\ files[f].stem \in Stems
  BY FileFacts DEF File
<1> QED
  BY <1>1, LayoutAssumption

LEMMA ReadingFile ==
    ASSUME FilesOK, NEW format, Reading(format)
    PROVE  /\ Len(files) \in DOMAIN files /\ Len(files) > 0
           /\ files[Len(files)].format = format
           /\ Content = files[Len(files)].content
           /\ Last(files) = files[Len(files)]
<1>1. files # <<>> /\ files \in Seq(File)
  BY DEF Reading, FilesOK
<1>2. Len(files) \in Nat \ {0} /\ DOMAIN files = 1..Len(files)
  BY <1>1
<1> QED
  BY <1>2 DEF Reading, Content, Last

\* b is blocks with blocks of the file being read added to it.
Grows(b) ==
    /\ b \in Seq(Block)
    /\ Len(b) >= Len(blocks)
    /\ \A k \in 1..Len(blocks) : b[k] = blocks[k]
    /\ \A k \in (Len(blocks) + 1)..Len(b) :
          /\ b[k].file = Len(files) /\ Len(files) \in DOMAIN files
          /\ Reading("docx") => b[k].part \in DOMAIN Content.items

LEMMA SameBlocksGrow ==
    ASSUME blocks \in Seq(Block)
    PROVE  Grows(blocks)
BY DEF Grows

LEMMA AppendGrows ==
    ASSUME FilesOK, files # <<>>, NEW b, Grows(b), NEW new \in Block, new.file = Len(files),
           Reading("docx") => new.part \in DOMAIN Content.items, blocks \in Seq(Block)
    PROVE  /\ Grows(Append(b, new))
           /\ Len(Append(b, new)) = Len(b) + 1
           /\ \A k \in 1..Len(b) : Append(b, new)[k] = b[k]
           /\ Append(b, new)[Len(b) + 1] = new
<1> DEFINE c == Append(b, new)
<1>1. b \in Seq(Block) /\ Len(b) \in Nat /\ Len(blocks) \in Nat
  BY DEF Grows
<1>2. /\ c \in Seq(Block) /\ Len(c) = Len(b) + 1
      /\ \A k \in 1..Len(b) : c[k] = b[k]
      /\ c[Len(b) + 1] = new
  BY <1>1, AppendProperties
<1>3. Len(files) \in DOMAIN files
  BY DEF FilesOK
<1> HIDE DEF c
<1>4. ASSUME NEW k \in 1..Len(blocks)
      PROVE  c[k] = blocks[k]
  <2>1. k \in 1..Len(b)
    BY <1>1 DEF Grows
  <2> QED
    BY <1>2, <2>1 DEF Grows
<1>5. ASSUME NEW k \in (Len(blocks) + 1)..Len(c)
      PROVE  c[k].file = Len(files) /\ (Reading("docx") => c[k].part \in DOMAIN Content.items)
  <2>1. CASE k = Len(b) + 1
    BY <1>2, <2>1
  <2>2. CASE k # Len(b) + 1
    <3>1. k \in (Len(blocks) + 1)..Len(b) /\ k \in 1..Len(b)
      BY <1>1, <1>2, <2>2
    <3> QED
      BY <1>2, <3>1 DEF Grows
  <2> QED
    BY <2>1, <2>2
<1>6. Len(c) >= Len(blocks)
  BY <1>1, <1>2 DEF Grows
<1>7. Grows(c)
  BY <1>2, <1>3, <1>4, <1>5, <1>6 DEF Grows
<1> QED
  BY <1>2, <1>7 DEF c

\* The files read so far are a prefix of the files read later.
FilesKept ==
    /\ files' \in Seq(File) /\ Len(files') >= Len(files)
    /\ \A f \in DOMAIN files : f \in DOMAIN files' /\ files'[f] = files[f]

LEMMA BlocksGrown ==
    ASSUME FilesOK, BlocksOK, blocks \in Seq(Block), FilesKept, Grows(blocks')
    PROVE  BlocksOK'
<1>1. /\ Len(files) \in Nat /\ DOMAIN files = 1..Len(files)
      /\ blocks' \in Seq(Block) /\ Len(blocks) \in Nat /\ Len(blocks') \in Nat
      /\ DOMAIN blocks = 1..Len(blocks) /\ DOMAIN blocks' = 1..Len(blocks')
  <2>1. files \in Seq(File) /\ blocks' \in Seq(Block)
    BY DEF Grows, FilesOK
  <2> QED
    BY <2>1
<1>2. ASSUME NEW k \in DOMAIN blocks'
      PROVE  \/ k \in DOMAIN blocks /\ blocks'[k] = blocks[k]
             \/ /\ k \notin DOMAIN blocks /\ k > Len(blocks)
                /\ blocks'[k].file = Len(files) /\ Len(files) \in DOMAIN files
                /\ Reading("docx") => blocks'[k].part \in DOMAIN Content.items
  <2>1. k \in 1..Len(blocks) \/ k \in (Len(blocks) + 1)..Len(blocks')
    BY <1>1
  <2> QED
    BY <1>1, <2>1 DEF Grows
<1>3. ASSUME NEW k \in DOMAIN blocks'
      PROVE  /\ blocks'[k].file \in DOMAIN files /\ blocks'[k].file \in DOMAIN files'
             /\ files'[blocks'[k].file].format = "docx" =>
                   blocks'[k].part \in DOMAIN files'[blocks'[k].file].content.items
  <2>1. CASE k \in DOMAIN blocks /\ blocks'[k] = blocks[k]
    BY <2>1 DEF BlocksOK, FilesKept
  <2>2. CASE /\ k > Len(blocks)
             /\ blocks'[k].file = Len(files) /\ Len(files) \in DOMAIN files
             /\ Reading("docx") => blocks'[k].part \in DOMAIN Content.items
    <3>1. files'[Len(files)] = files[Len(files)] /\ Len(files) \in DOMAIN files'
      BY <2>2 DEF FilesKept
    <3>2. files # <<>>
      BY <2>2
    <3>3. files[Len(files)].format = "docx" => Reading("docx") /\ Content = files[Len(files)].content
      BY <3>2 DEF Reading, Last, Content
    <3> QED
      BY <2>2, <3>1, <3>3
  <2> QED
    BY <1>2, <2>1, <2>2
<1>4. ASSUME NEW j \in DOMAIN blocks', NEW k \in DOMAIN blocks', j < k
      PROVE  blocks'[j].file <= blocks'[k].file
  <2>1. blocks'[j].file \in 1..Len(files) /\ blocks'[k].file \in 1..Len(files)
    BY <1>1, <1>3
  <2>2. CASE k \in DOMAIN blocks /\ blocks'[k] = blocks[k]
    <3>1. j \in DOMAIN blocks
      BY <1>1, <1>4, <2>2
    <3>2. blocks'[j] = blocks[j]
      BY <1>2, <3>1
    <3> QED
      BY <1>4, <2>2, <3>1, <3>2 DEF BlocksOK
  <2>3. CASE blocks'[k].file = Len(files)
    BY <1>1, <2>1, <2>3
  <2> QED
    BY <1>2, <2>2, <2>3
<1> QED
  BY <1>3, <1>4 DEF BlocksOK

\* What an extraction step has to show.
LEMMA ExtractStep ==
    ASSUME BaseInv, phase = "extract", phase' \in {"extract", "chunk"},
           UNCHANGED chunkVars, UNCHANGED snapshotVars,
           FilesKept, Len(files') <= MaxFiles, Grows(blocks'),
           page' \in Nat, item' \in Nat, para' \in Nat, read' \in 0..MaxItems,
           (used \in IF Reading("docx") THEN 0..Room(Len(files)) ELSE {0})',
           DOMAIN assets' \subseteq Stems \X Nat \X Nat, Range(assets') \subseteq DOMAIN blocks',
           ReaderOK'
    PROVE  BaseInv'
<1>1. TypeOK /\ FilesOK /\ BlocksOK /\ PhasesOK /\ ChunksOK /\ PageTypeOK /\ blocks \in Seq(Block)
  BY DEF BaseInv, TypeOK, PageTypeOK
<1>2. FilesOK'
  BY DEF FilesKept, FilesOK
<1>3. BlocksOK'
  BY <1>1, BlocksGrown
<1>4. chunks = <<>> /\ buffer = NoBuffer /\ chapters = <<>> /\ order = <<>> /\ assigned = 0 /\ sections = <<>>
  BY <1>1 DEF PhasesOK
<1>5. /\ chunks' = <<>> /\ buffer' = NoBuffer /\ chapters' = <<>> /\ order' = <<>>
      /\ assigned' = 0 /\ sections' = <<>>
  BY <1>4 DEF chunkVars, snapshotVars
<1>6. PhasesOK' /\ ChunksOK'
  BY <1>5 DEF PhasesOK, ChunksOK, Divides, BufferOK, NoBuffer
<1>7. \A f \in DOMAIN files' : files'[f].stem \in Stems \cup {""}
  <2>1. \A f \in DOMAIN files' : files'[f] \in File
    BY DEF FilesKept
  <2> QED
    BY <2>1 DEF File
<1>8. PageTypeOK'
  <2>1. blocks' \in Seq(Block) /\ Len(blocks') \in Nat
    BY DEF Grows
  <2>2. buffer' \in [first : 0..Len(blocks'), last : 0..Len(blocks'), len : Nat]
    BY <1>5, <2>1 DEF NoBuffer
  <2>3. chunks' \in Seq(Chunk)
    BY <1>5, EmptySeq
  <2> QED
    BY <1>7, <2>1, <2>2, <2>3 DEF PageTypeOK
<1>9. TypeOK'
  <2>1. order' \in Seq((DOMAIN chunks)') /\ sections' \in Seq(Section) /\ Len(order') = 0
    BY <1>5, EmptySeq
  <2> QED
    BY <1>5, <1>8, <2>1 DEF TypeOK
<1> QED
  BY <1>2, <1>3, <1>6, <1>9 DEF BaseInv

LEMMA ExtractFacts ==
    ASSUME BaseInv
    PROVE  /\ FilesOK /\ ReaderOK /\ blocks \in Seq(Block) /\ Len(blocks) \in Nat
           /\ Len(files) <= MaxFiles /\ read \in 0..MaxItems
           /\ page \in Nat /\ item \in Nat /\ para \in Nat
           /\ used \in IF Reading("docx") THEN 0..Room(Len(files)) ELSE {0}
           /\ DOMAIN assets \subseteq Stems \X Nat \X Nat /\ Range(assets) \subseteq DOMAIN blocks
<1>1. FilesOK /\ ReaderOK /\ PageTypeOK
  BY DEF BaseInv, TypeOK
<1>2. /\ blocks \in Seq(Block) /\ Len(files) <= MaxFiles /\ read \in 0..MaxItems
      /\ page \in Nat /\ item \in Nat /\ para \in Nat
  BY <1>1 DEF PageTypeOK
<1>3. Len(blocks) \in Nat
  BY <1>2
<1>4. used \in IF Reading("docx") THEN 0..Room(Len(files)) ELSE {0}
  BY <1>1 DEF PageTypeOK
<1>5. DOMAIN assets \subseteq Stems \X Nat \X Nat /\ Range(assets) \subseteq DOMAIN blocks
  BY <1>1 DEF PageTypeOK
<1> QED
  BY <1>1, <1>2, <1>3, <1>4, <1>5

LEMMA SameFilesKept ==
    ASSUME FilesOK, files' = files
    PROVE  FilesKept
<1>1. files' \in Seq(File) /\ Len(files) \in Nat /\ Len(files') = Len(files)
  BY FileFacts DEF FilesOK
<1>2. \A f \in DOMAIN files : f \in DOMAIN files' /\ files'[f] = files[f]
  OBVIOUS
<1> QED
  BY <1>1, <1>2 DEF FilesKept

\* Reading goes on in the file it was in.
LEMMA SameReading ==
    ASSUME files' = files
    PROVE  /\ \A format : Reading(format)' = Reading(format)
           /\ Content' = Content
           /\ Room(Len(files))' = Room(Len(files))
BY DEF Reading, Content, Last, Room

LEMMA AssetsKept ==
    ASSUME BaseInv, Grows(blocks'), assets' = assets
    PROVE  DOMAIN assets' \subseteq Stems \X Nat \X Nat /\ Range(assets') \subseteq DOMAIN blocks'
<1>1. blocks \in Seq(Block) /\ Range(assets) \subseteq DOMAIN blocks
      /\ DOMAIN assets \subseteq Stems \X Nat \X Nat
  BY ExtractFacts
<1>2. DOMAIN blocks = 1..Len(blocks) /\ DOMAIN blocks' = 1..Len(blocks') /\ Len(blocks) <= Len(blocks')
      /\ Len(blocks) \in Nat /\ Len(blocks') \in Nat
  BY <1>1 DEF Grows
<1>3. DOMAIN blocks \subseteq DOMAIN blocks'
  BY <1>2
<1> QED
  BY <1>1, <1>3

LEMMA NewBlockType ==
    ASSUME FilesOK, NEW pg \in Nat, NEW kind \in Alone \cup {"paragraph"}, NEW len \in Nat, NEW part \in Nat
    PROVE  /\ NewBlock(pg, kind, len, part) \in Block
           /\ NewBlock(pg, kind, len, part).file = Len(files)
           /\ NewBlock(pg, kind, len, part).part = part
           /\ NewBlock(pg, kind, len, part).page = pg
           /\ NewBlock(pg, kind, len, part).kind = kind
BY FileFacts DEF NewBlock, Block

LEMMA FlushGrows ==
    ASSUME BaseInv
    PROVE  /\ Grows(Flushed) /\ PageAfterFlush \in Nat
           /\ PageAfterFlush = page \/ PageAfterFlush = page + 1
           /\ Len(Flushed) \in {Len(blocks), Len(blocks) + 1}
           /\ Len(Flushed) = Len(blocks) + 1 =>
                 /\ Reading("markdown")
                 /\ Flushed[Len(blocks) + 1] = NewBlock(page + 1, "paragraph", para, 0)
<1>1. FilesOK /\ ReaderOK /\ blocks \in Seq(Block) /\ page \in Nat /\ para \in Nat /\ Grows(blocks)
      /\ Len(blocks) \in Nat
  BY ExtractFacts, SameBlocksGrow
<1>2. CASE para = 0
  BY <1>1, <1>2 DEF Flushed, PageAfterFlush
<1>3. CASE para # 0
  <2>1. Reading("markdown") /\ files # <<>> /\ ~Reading("docx")
    BY <1>1, <1>3 DEF ReaderOK, Reading
  <2> DEFINE new == NewBlock(page + 1, "paragraph", para, 0)
  <2>2. new \in Block /\ new.file = Len(files)
    <3>1. page + 1 \in Nat /\ 0 \in Nat /\ "paragraph" \in Alone \cup {"paragraph"}
      BY <1>1
    <3> QED
      BY <1>1, <3>1, FileFacts DEF new, NewBlock, Block
  <2>f. Flushed = Append(blocks, new)
    BY <1>3 DEF Flushed
  <2> HIDE DEF new
  <2>3. Grows(Append(blocks, new)) /\ Len(Append(blocks, new)) = Len(blocks) + 1
        /\ Append(blocks, new)[Len(blocks) + 1] = new
    BY <1>1, <2>1, <2>2, AppendGrows
  <2>4. PageAfterFlush = page + 1
    BY <1>3 DEF PageAfterFlush
  <2> QED
    BY <1>1, <2>1, <2>3, <2>4, <2>f DEF new
<1> QED
  BY <1>2, <1>3

-----------------------------------------------------------------------------
(* The steps of the extraction. *)

LEMMA OpenKeeps ==
    ASSUME BaseInv, NEW format, NEW content, NEW stem, NEW firstPage \in Nat,
           Open(format, content, stem, firstPage),
           [format |-> format, content |-> content, stem |-> stem] \in File,
           format = "pdf" => firstPage = 0,
           read' \in 0..MaxItems, UNCHANGED snapshotVars
    PROVE  BaseInv' /\ FilesKept /\ Grows(blocks')
<1> DEFINE new == [format |-> format, content |-> content, stem |-> stem]
<1>1. /\ FilesOK /\ ReaderOK /\ blocks \in Seq(Block) /\ Len(files) \in Nat /\ MaxFiles \in Nat
  BY ExtractFacts, FileFacts, LayoutAssumption
<1>2. /\ phase = "extract" /\ phase' = "extract" /\ blocks' = Flushed /\ files' = Append(files, new)
      /\ page' = firstPage /\ item' = 0 /\ used' = 0 /\ para' = 0 /\ assets' = assets
      /\ UNCHANGED chunkVars /\ Len(files) < MaxFiles
  BY DEF Open
<1>3. /\ files' \in Seq(File) /\ Len(files') = Len(files) + 1
      /\ \A f \in 1..Len(files) : files'[f] = files[f]
      /\ files'[Len(files) + 1] = new
  <2> HIDE DEF new
  <2>1. files \in Seq(File) /\ new \in File
    BY <1>1 DEF FilesOK, new
  <2> QED
    BY <1>2, <2>1, AppendProperties
<1> HIDE DEF new
<1>4. FilesKept
  <2>1. DOMAIN files = 1..Len(files) /\ DOMAIN files' = 1..Len(files')
    BY <1>1, <1>3 DEF FilesOK
  <2>2. DOMAIN files \subseteq DOMAIN files'
    BY <1>1, <1>3, <2>1
  <2> QED
    BY <1>1, <1>3, <2>1, <2>2 DEF FilesKept
<1>5. Len(files') <= MaxFiles
  BY <1>1, <1>2, <1>3
<1>6. Grows(blocks')
  BY <1>2, FlushGrows
<1>7. FilesOK'
  BY <1>3 DEF FilesOK
<1>8. Last(files') = new
  BY <1>3 DEF Last
<1>9. /\ Len(files') \in DOMAIN files' /\ files'[Len(files')].format = format /\ files'[Len(files')].content = content
      /\ \A fm : Reading(fm)' <=> format = fm
  <2>1. Len(files') \in DOMAIN files' /\ files' # <<>>
    BY <1>1, <1>3
  <2> QED
    BY <1>3, <1>8, <2>1 DEF Reading, Last, new
<1>10. ReaderOK'
  <2>1. format = "docx" => Len(content.items) \in Nat /\ Content' = content
    <3>1. format = "docx" => content \in Docs
      BY DEF File
    <3>2. format = "docx" => content \in Document
      BY <3>1, LayoutAssumption
    <3> QED
      BY <1>8, <3>2 DEF Content, new, Document
  <2>2. format = "pdf" => Len(content) \in Nat /\ Content' = content
    <3>1. format = "pdf" => content \in Pdfs
      BY DEF File
    <3>2. format = "pdf" => content \in Seq(PdfPage)
      BY <3>1, LayoutAssumption
    <3> QED
      BY <1>8, <3>2 DEF Content, new
  <2> QED
    BY <1>2, <1>9, <2>1, <2>2 DEF ReaderOK
<1>11. (used \in IF Reading("docx") THEN 0..Room(Len(files)) ELSE {0})'
  <2>1. format = "docx" => Room(Len(files))' \in Nat
    <3>1. format = "docx" => content \in Docs
      BY DEF File
    <3>2. format = "docx" => content \in Document
      BY <3>1, LayoutAssumption
    <3> QED
      BY <1>9, <3>2, UsablePage DEF Room
  <2>2. CASE format = "docx"
    BY <1>2, <1>9, <2>1, <2>2
  <2>3. CASE format # "docx"
    BY <1>2, <1>9, <2>3
  <2> QED
    BY <2>2, <2>3
<1>12. DOMAIN assets' \subseteq Stems \X Nat \X Nat /\ Range(assets') \subseteq DOMAIN blocks'
  BY <1>2, <1>6, AssetsKept
<1>13. page' \in Nat /\ item' \in Nat /\ para' \in Nat
  BY <1>2
<1>14. BaseInv'
  BY <1>2, <1>4, <1>5, <1>6, <1>10, <1>11, <1>12, <1>13, ExtractStep
<1> QED
  BY <1>4, <1>6, <1>14

LEMMA ReadType ==
    ASSUME BaseInv, ReadItem
    PROVE  read' \in 0..MaxItems
BY ExtractFacts, LayoutAssumption DEF ReadItem

LEMMA OpensKeep ==
    ASSUME BaseInv, UNCHANGED snapshotVars,
           \/ OpenMarkdown
           \/ \E doc \in Docs : OpenDocx(doc)
           \/ \E pdf \in Pdfs, stem \in Stems : OpenPdf(pdf, stem)
    PROVE  BaseInv' /\ FilesKept /\ Grows(blocks')
<1>1. CASE OpenMarkdown
  <2>1. [format |-> "markdown", content |-> <<>>, stem |-> ""] \in File
    BY DEF File
  <2>2. read' \in 0..MaxItems /\ Open("markdown", <<>>, "", 0)
    BY <1>1, ExtractFacts DEF OpenMarkdown
  <2> QED
    BY <2>1, <2>2, OpenKeeps
<1>2. ASSUME NEW doc \in Docs, OpenDocx(doc)
      PROVE  BaseInv' /\ FilesKept /\ Grows(blocks')
  <2>1. [format |-> "docx", content |-> doc, stem |-> ""] \in File
    BY DEF File
  <2>2. read' \in 0..MaxItems /\ Open("docx", doc, "", 1)
    BY <1>2, ReadType DEF OpenDocx
  <2> QED
    BY <2>1, <2>2, OpenKeeps
<1>3. ASSUME NEW pdf \in Pdfs, NEW stem \in Stems, OpenPdf(pdf, stem)
      PROVE  BaseInv' /\ FilesKept /\ Grows(blocks')
  <2>1. [format |-> "pdf", content |-> pdf, stem |-> stem] \in File
    BY DEF File
  <2>2. read' \in 0..MaxItems /\ Open("pdf", pdf, stem, 0)
    BY <1>3, ReadType DEF OpenPdf
  <2> QED
    BY <2>1, <2>2, OpenKeeps
<1> QED
  BY <1>1, <1>2, <1>3

\* A step within a file.
LEMMA WithinFile ==
    ASSUME BaseInv, phase = "extract", phase' \in {"extract", "chunk"},
           UNCHANGED <<files, chunkVars, snapshotVars>>,
           Grows(blocks'), page' \in Nat, item' \in Nat, para' \in Nat, read' \in 0..MaxItems,
           used' \in IF Reading("docx") THEN 0..Room(Len(files)) ELSE {0},
           DOMAIN assets' \subseteq Stems \X Nat \X Nat, Range(assets') \subseteq DOMAIN blocks',
           ReaderOK'
    PROVE  BaseInv' /\ FilesKept
<1>1. FilesOK /\ Len(files) <= MaxFiles /\ files' = files
  BY ExtractFacts
<1>2. FilesKept
  BY <1>1, SameFilesKept
<1>3. Len(files') <= MaxFiles /\ UNCHANGED chunkVars /\ UNCHANGED snapshotVars
  BY <1>1
<1>4. (used \in IF Reading("docx") THEN 0..Room(Len(files)) ELSE {0})'
  BY <1>1, SameReading
<1> QED
  BY <1>2, <1>3, <1>4, ExtractStep

LEMMA MarkdownKeeps ==
    ASSUME BaseInv, UNCHANGED snapshotVars,
           \/ \E len \in Lengths : MarkdownHeading(len) \/ MarkdownText(len)
           \/ MarkdownBlank
           \/ EndOfInput
    PROVE  BaseInv' /\ FilesKept /\ Grows(blocks')
<1>1. /\ FilesOK /\ ReaderOK /\ blocks \in Seq(Block) /\ page \in Nat /\ item \in Nat /\ para \in Nat
      /\ read \in 0..MaxItems /\ used \in IF Reading("docx") THEN 0..Room(Len(files)) ELSE {0}
  BY ExtractFacts
<1>2. Grows(Flushed) /\ PageAfterFlush \in Nat
  BY FlushGrows
<1>3. Grows(blocks)
  BY <1>1, SameBlocksGrow
<1>4. ASSUME NEW len \in Lengths, MarkdownHeading(len)
      PROVE  BaseInv' /\ FilesKept /\ Grows(blocks')
  <2> DEFINE new == NewBlock(PageAfterFlush + 1, "heading", len, 0)
  <2>1. /\ phase = "extract" /\ phase' = phase /\ Reading("markdown") /\ UNCHANGED <<files, chunkVars>>
        /\ read' \in 0..MaxItems /\ blocks' = Append(Flushed, new)
        /\ page' = PageAfterFlush + 1 /\ para' = 0 /\ item' = item /\ used' = used /\ assets' = assets
    BY <1>4, ReadType DEF MarkdownHeading, MarkdownLine
  <2>2. files # <<>> /\ ~Reading("docx") /\ ~Reading("pdf")
    BY <2>1 DEF Reading
  <2>3. new \in Block /\ new.file = Len(files)
    <3>1. PageAfterFlush + 1 \in Nat /\ len \in Nat /\ 0 \in Nat /\ "heading" \in Alone \cup {"paragraph"}
      BY <1>2, LayoutAssumption DEF Alone
    <3> QED
      BY <1>1, <3>1, FileFacts DEF new, NewBlock, Block
  <2> HIDE DEF new
  <2>4. Grows(blocks')
    BY <1>1, <1>2, <2>1, <2>2, <2>3, AppendGrows
  <2>5. ReaderOK'
    BY <2>1, <2>2, SameReading DEF ReaderOK
  <2>6. DOMAIN assets' \subseteq Stems \X Nat \X Nat /\ Range(assets') \subseteq DOMAIN blocks'
    BY <2>1, <2>4, AssetsKept
  <2> QED
    BY <1>1, <1>2, <2>1, <2>4, <2>5, <2>6, WithinFile
<1>5. ASSUME NEW len \in Lengths, MarkdownText(len)
      PROVE  BaseInv' /\ FilesKept /\ Grows(blocks')
  <2>1. /\ phase = "extract" /\ phase' = phase /\ Reading("markdown") /\ UNCHANGED <<files, chunkVars>>
        /\ read' \in 0..MaxItems /\ blocks' = blocks /\ page' = page /\ item' = item
        /\ used' = used /\ assets' = assets /\ para' = IF para = 0 THEN len ELSE para + 1 + len
    BY <1>5, ReadType DEF MarkdownText, MarkdownLine
  <2>2. files # <<>> /\ ~Reading("docx") /\ ~Reading("pdf")
    BY <2>1 DEF Reading
  <2>3. para' \in Nat
    BY <1>1, <2>1, LayoutAssumption
  <2>4. Grows(blocks')
    BY <1>3, <2>1
  <2>5. ReaderOK'
    BY <2>1, <2>2, SameReading DEF ReaderOK
  <2>6. DOMAIN assets' \subseteq Stems \X Nat \X Nat /\ Range(assets') \subseteq DOMAIN blocks'
    BY <2>1, <2>4, AssetsKept
  <2> QED
    BY <1>1, <2>1, <2>3, <2>4, <2>5, <2>6, WithinFile
<1>6. CASE MarkdownBlank
  <2>1. /\ phase = "extract" /\ phase' = phase /\ Reading("markdown") /\ UNCHANGED <<files, chunkVars>>
        /\ read' \in 0..MaxItems /\ blocks' = Flushed /\ page' = PageAfterFlush /\ item' = item
        /\ used' = used /\ assets' = assets /\ para' = 0
    BY <1>6, ReadType DEF MarkdownBlank, MarkdownLine
  <2>2. files # <<>> /\ ~Reading("docx") /\ ~Reading("pdf")
    BY <2>1 DEF Reading
  <2>4. Grows(blocks')
    BY <1>2, <2>1
  <2>5. ReaderOK'
    BY <2>1, <2>2, SameReading DEF ReaderOK
  <2>6. DOMAIN assets' \subseteq Stems \X Nat \X Nat /\ Range(assets') \subseteq DOMAIN blocks'
    BY <2>1, <2>4, AssetsKept
  <2> QED
    BY <1>1, <1>2, <2>1, <2>4, <2>5, <2>6, WithinFile
<1>7. CASE EndOfInput
  <2>1. /\ phase = "extract" /\ phase' = "chunk" /\ UNCHANGED <<files, chunkVars>>
        /\ read' = read /\ blocks' = Flushed /\ page' = page /\ item' = item
        /\ used' = used /\ assets' = assets /\ para' = 0
    BY <1>7 DEF EndOfInput
  <2>4. Grows(blocks')
    BY <1>2, <2>1
  <2>5. ReaderOK'
    BY <1>1, <2>1, SameReading DEF ReaderOK
  <2>6. DOMAIN assets' \subseteq Stems \X Nat \X Nat /\ Range(assets') \subseteq DOMAIN blocks'
    BY <2>1, <2>4, AssetsKept
  <2> QED
    BY <1>1, <2>1, <2>4, <2>5, <2>6, WithinFile
<1> QED
  BY <1>4, <1>5, <1>6, <1>7

\* Reading the document the last file is.
LEMMA ReadingDocx ==
    ASSUME BaseInv, Reading("docx")
    PROVE  /\ Len(files) \in DOMAIN files /\ files # <<>> /\ files[Len(files)].format = "docx"
           /\ Content = files[Len(files)].content /\ Content \in Docs /\ Content \in Document
           /\ DOMAIN Content.items = 1..Len(Content.items) /\ Len(Content.items) \in Nat
           /\ UsableHeight(Content) = Room(Len(files)) /\ Room(Len(files)) \in Nat /\ Room(Len(files)) >= 16000
           /\ used \in 0..Room(Len(files))
           /\ BodySize(Content) \in Nat /\ UsableWidth(Content) \in Nat
<1>1. FilesOK /\ used \in 0..Room(Len(files))
  BY ExtractFacts
<1>2. /\ Len(files) \in DOMAIN files /\ files[Len(files)].format = "docx" /\ files # <<>>
      /\ Content = files[Len(files)].content
  BY <1>1, ReadingFile DEF Reading
<1>3. Content \in Docs /\ Content \in Document /\ Room(Len(files)) \in Nat /\ Room(Len(files)) >= 16000
  BY <1>1, <1>2, DocxFile
<1>4. UsableHeight(Content) = Room(Len(files))
  BY <1>2 DEF Room
<1>5. Content.items \in Seq(Paragraph \cup Table)
  BY <1>3 DEF Document
<1>6. DOMAIN Content.items = 1..Len(Content.items) /\ Len(Content.items) \in Nat
  BY <1>5
<1>7. BodySize(Content) \in Nat /\ UsableWidth(Content) \in Nat
  BY <1>3, BodySizeType, UsablePage
<1> QED
  BY <1>1, <1>2, <1>3, <1>4, <1>6, <1>7

LEMMA PlaceKeeps ==
    ASSUME BaseInv, UNCHANGED snapshotVars, ReadDocxItem,
           NEW kind \in Alone \cup {"paragraph"}, NEW len \in Nat, NEW pg \in Nat, NEW u \in {0, used},
           NEW h \in Nat \ {0}, Place(kind, len, pg, u, h)
    PROVE  BaseInv' /\ FilesKept /\ Grows(blocks')
<1>1. /\ phase = "extract" /\ phase' = phase /\ Reading("docx") /\ UNCHANGED <<files, chunkVars>>
      /\ item < Len(Content.items) /\ item' = item + 1 /\ para' = para /\ read' = read /\ assets' = assets
  BY DEF ReadDocxItem
<1>2. /\ FilesOK /\ ReaderOK /\ blocks \in Seq(Block) /\ item \in Nat /\ para \in Nat /\ read \in 0..MaxItems
      /\ Grows(blocks)
  BY ExtractFacts, SameBlocksGrow
<1>3. /\ Len(files) \in DOMAIN files /\ files # <<>> /\ files[Len(files)].format = "docx"
      /\ DOMAIN Content.items = 1..Len(Content.items) /\ Len(Content.items) \in Nat
      /\ UsableHeight(Content) = Room(Len(files)) /\ Room(Len(files)) \in Nat \ {0}
      /\ used \in 0..Room(Len(files))
  BY <1>1, ReadingDocx
<1> DEFINE room == Room(Len(files))
           start == StartPage(pg, u, h, room)
           new == NewBlock(start, kind, len, item + 1)
<1>4. /\ start \in Nat /\ EndPage(pg, u, h, room) \in Nat /\ UsedAfter(pg, u, h, room) \in 1..room
  <2>1. room \in Nat \ {0} /\ u \in 0..room
    BY <1>3
  <2> HIDE DEF room
  <2>2. /\ StartPage(pg, u, h, room) \in {pg, pg + 1} /\ EndPage(pg, u, h, room) \in Nat
        /\ UsedAfter(pg, u, h, room) \in 1..room
    BY <2>1, AdvancePage
  <2> QED
    BY <2>2
<1>5. /\ blocks' = Append(blocks, new) /\ page' = EndPage(pg, u, h, room)
      /\ used' = UsedAfter(pg, u, h, room)
  BY <1>3 DEF Place
<1>6. new \in Block /\ new.file = Len(files) /\ new.part = item + 1
  <2>1. item + 1 \in Nat
    BY <1>2
  <2> QED
    BY <1>2, <1>4, <2>1, FileFacts DEF new, NewBlock, Block
<1>7. new.part \in DOMAIN Content.items
  BY <1>1, <1>2, <1>3, <1>6
<1> HIDE DEF new
<1>8. Grows(blocks')
  BY <1>2, <1>3, <1>5, <1>6, <1>7, AppendGrows
<1>9. ReaderOK'
  <2>1. ~Reading("markdown") /\ ~Reading("pdf")
    BY <1>1 DEF Reading
  <2> QED
    BY <1>1, <1>2, <1>3, <2>1, SameReading DEF ReaderOK
<1>10. DOMAIN assets' \subseteq Stems \X Nat \X Nat /\ Range(assets') \subseteq DOMAIN blocks'
  BY <1>1, <1>8, AssetsKept
<1>11. used' \in IF Reading("docx") THEN 0..Room(Len(files)) ELSE {0}
  BY <1>1, <1>3, <1>4, <1>5
<1> HIDE DEF room, start
<1>12. BaseInv' /\ FilesKept
  BY <1>1, <1>2, <1>4, <1>5, <1>8, <1>9, <1>10, <1>11, WithinFile
<1> QED
  BY <1>8, <1>12

\* What the item being read is, and how high its block.
LEMMA ItemFacts ==
    ASSUME BaseInv, ReadDocxItem
    PROVE  /\ item + 1 \in DOMAIN Content.items
           /\ IsTable(DocxItem) =>
                 /\ DocxItem \in Table
                 /\ TableHeight(DocxItem, BodySize(Content), UsableWidth(Content)) \in Nat \ {0}
           /\ ~IsTable(DocxItem) =>
                 /\ DocxItem \in Paragraph /\ DocxItem.len \in Nat
                 /\ ParagraphHeight(DocxItem, SizeOf(DocxItem, BodySize(Content)), UsableWidth(Content)) \in Nat \ {0}
<1>1. item < Len(Content.items) /\ Reading("docx") /\ item \in Nat
  BY ExtractFacts DEF ReadDocxItem
<1>2. /\ Content \in Document /\ DOMAIN Content.items = 1..Len(Content.items) /\ Len(Content.items) \in Nat
      /\ BodySize(Content) \in Nat /\ UsableWidth(Content) \in Nat
  BY <1>1, ReadingDocx
<1>3. item + 1 \in DOMAIN Content.items
  BY <1>1, <1>2
<1>4. CASE IsTable(DocxItem)
  <2>1. DocxItem \in Table
    BY <1>2, <1>3, <1>4, ItemKinds DEF DocxItem
  <2> QED
    BY <1>2, <1>3, <1>4, <2>1, TableHeightType
<1>5. CASE ~IsTable(DocxItem)
  <2>1. DocxItem \in Paragraph
    BY <1>2, <1>3, <1>5, ItemKinds DEF DocxItem
  <2>2. SizeOf(DocxItem, BodySize(Content)) \in Nat
    BY <1>2, <2>1, SizeOfType
  <2>3. DocxItem.len \in Nat
    BY <2>1 DEF Paragraph
  <2> QED
    BY <1>2, <1>3, <1>5, <2>1, <2>2, <2>3, ParagraphHeightType, SMTT(60)
<1> QED
  BY <1>4, <1>5

LEMMA DocxKeeps ==
    ASSUME BaseInv, UNCHANGED snapshotVars, DocxSkips \/ DocxParagraph \/ DocxTable
    PROVE  BaseInv' /\ FilesKept /\ Grows(blocks')
<1>1. page \in Nat /\ item \in Nat /\ blocks \in Seq(Block) /\ FilesOK /\ ReaderOK /\ para \in Nat
      /\ read \in 0..MaxItems /\ used \in IF Reading("docx") THEN 0..Room(Len(files)) ELSE {0}
  BY ExtractFacts
<1>2. CASE DocxSkips
  <2>1. /\ phase = "extract" /\ phase' = phase /\ Reading("docx") /\ UNCHANGED <<files, chunkVars>>
        /\ item < Len(Content.items) /\ item' = item + 1 /\ para' = para /\ read' = read /\ assets' = assets
        /\ page' = page /\ used' = used /\ blocks' = blocks
    BY <1>2 DEF DocxSkips, ReadDocxItem
  <2>2. Grows(blocks')
    BY <1>1, <2>1, SameBlocksGrow
  <2>3. ReaderOK'
    <3>1. ~Reading("markdown") /\ ~Reading("pdf") /\ Len(Content.items) \in Nat
      BY <2>1, ReadingDocx DEF Reading
    <3> QED
      BY <1>1, <2>1, <3>1, SameReading DEF ReaderOK
  <2>4. DOMAIN assets' \subseteq Stems \X Nat \X Nat /\ Range(assets') \subseteq DOMAIN blocks'
    BY <2>1, <2>2, AssetsKept
  <2>5. item' \in Nat
    BY <1>1, <2>1
  <2> QED
    BY <1>1, <2>1, <2>2, <2>3, <2>4, <2>5, WithinFile
<1>3. CASE DocxParagraph
  <2> DEFINE body   == BodySize(Content)
             kind   == IF HeadingLevel(DocxItem, body) = 0 THEN "paragraph" ELSE "heading"
             height == ParagraphHeight(DocxItem, SizeOf(DocxItem, body), UsableWidth(Content))
             pg     == IF BreaksBefore(DocxItem) THEN page + 1 ELSE page
             u      == IF BreaksBefore(DocxItem) THEN 0 ELSE used
  <2>1. ReadDocxItem /\ ~IsTable(DocxItem) /\ Place(kind, DocxItem.len, pg, u, height)
    BY <1>3 DEF DocxParagraph
  <2>2. DocxItem.len \in Nat /\ height \in Nat \ {0}
    BY <2>1, ItemFacts
  <2>3. kind \in Alone \cup {"paragraph"} /\ pg \in Nat /\ u \in {0, used}
    BY <1>1 DEF Alone
  <2> HIDE DEF body, kind, height, pg, u
  <2> QED
    BY <2>1, <2>2, <2>3, PlaceKeeps
<1>4. CASE DocxTable
  <2> DEFINE height == TableHeight(DocxItem, BodySize(Content), UsableWidth(Content))
  <2>1. ReadDocxItem /\ IsTable(DocxItem) /\ Place("table", AnnotationLength, page, used, height)
    BY <1>4 DEF DocxTable
  <2>2. height \in Nat \ {0}
    BY <2>1, ItemFacts
  <2>3. "table" \in Alone \cup {"paragraph"} /\ AnnotationLength \in Nat /\ used \in {0, used}
    BY DEF Alone, AnnotationLength
  <2> HIDE DEF height
  <2> QED
    BY <1>1, <2>1, <2>2, <2>3, PlaceKeeps
<1> QED
  BY <1>2, <1>3, <1>4

LEMMA ReadingPdf ==
    ASSUME BaseInv, Reading("pdf")
    PROVE  /\ Len(files) \in DOMAIN files /\ files # <<>> /\ files[Len(files)].format = "pdf"
           /\ Content = files[Len(files)].content /\ Last(files) = files[Len(files)]
           /\ Last(files).stem \in Stems
           /\ Content \in Seq(PdfPage) /\ Len(Content) \in Nat /\ DOMAIN Content = 1..Len(Content)
           /\ \A pg \in 1..Len(Content) :
                 /\ Content[pg] \in PdfPage
                 /\ Len(Content[pg].images) \in Nat
                 /\ DOMAIN Content[pg].images = 1..Len(Content[pg].images)
           /\ page <= Len(Content) /\ (page > 0 => item <= Len(Content[page].images))
           /\ ~Reading("docx") /\ ~Reading("markdown") /\ used = 0 /\ para = 0
<1>1. FilesOK /\ ReaderOK /\ para \in Nat /\ used \in IF Reading("docx") THEN 0..Room(Len(files)) ELSE {0}
  BY ExtractFacts
<1>2. /\ Len(files) \in DOMAIN files /\ files[Len(files)].format = "pdf" /\ files # <<>>
      /\ Content = files[Len(files)].content /\ Last(files) = files[Len(files)]
  BY <1>1, ReadingFile DEF Reading
<1>3. Content \in Seq(PdfPage) /\ Last(files).stem \in Stems
  BY <1>1, <1>2, PdfFile
<1>4. Len(Content) \in Nat /\ DOMAIN Content = 1..Len(Content) /\ \A pg \in 1..Len(Content) : Content[pg] \in PdfPage
  BY <1>3
<1>5. ASSUME NEW pg \in 1..Len(Content)
      PROVE  Len(Content[pg].images) \in Nat /\ DOMAIN Content[pg].images = 1..Len(Content[pg].images)
  <2>1. Content[pg].images \in Seq(Box)
    BY <1>4 DEF PdfPage
  <2> QED
    BY <2>1
<1>6. page <= Len(Content) /\ (page > 0 => item <= Len(Content[page].images))
  BY <1>1 DEF ReaderOK
<1>7. ~Reading("docx") /\ ~Reading("markdown")
  BY <1>2 DEF Reading
<1>8. used = 0 /\ para = 0
  BY <1>1, <1>7 DEF ReaderOK
<1> QED
  BY <1>2, <1>3, <1>4, <1>5, <1>6, <1>7, <1>8

LEMMA ConcatGrows ==
    ASSUME FilesOK, files # <<>>, ~Reading("docx"), blocks \in Seq(Block), NEW s \in Seq(Block),
           \A i \in DOMAIN s : s[i].file = Len(files)
    PROVE  Grows(blocks \o s)
<1> DEFINE c == blocks \o s
<1>1. /\ Len(blocks) \in Nat /\ Len(s) \in Nat /\ DOMAIN s = 1..Len(s)
      /\ c \in Seq(Block) /\ Len(c) = Len(blocks) + Len(s)
      /\ \A i \in 1..Len(c) : c[i] = IF i <= Len(blocks) THEN blocks[i] ELSE s[i - Len(blocks)]
  BY ConcatProperties
<1>2. Len(files) \in DOMAIN files
  BY DEF FilesOK
<1> HIDE DEF c
<1>3. \A k \in 1..Len(blocks) : c[k] = blocks[k]
  BY <1>1
<1>4. ASSUME NEW k \in (Len(blocks) + 1)..Len(c)
      PROVE  c[k].file = Len(files)
  <2>1. c[k] = s[k - Len(blocks)] /\ k - Len(blocks) \in DOMAIN s
    BY <1>1
  <2> QED
    BY <2>1
<1>5. Grows(c)
  BY <1>1, <1>2, <1>3, <1>4 DEF Grows
<1> QED
  BY <1>5 DEF c

\* The text and the tables of a page add blocks that are no images.
LEMMA TextAndTables ==
    ASSUME BaseInv, PdfTextAndTables
    PROVE  /\ page + 1 \in 1..Len(Content)
           /\ \E new \in Seq(Block) :
                 /\ blocks' = blocks \o new
                 /\ \A i \in DOMAIN new : new[i].file = Len(files) /\ new[i].kind \in {"paragraph", "table"}
<1> DEFINE sheet  == Content[page + 1]
           text   == IF sheet.chars = 0 THEN <<>> ELSE <<NewBlock(page + 1, "paragraph", sheet.chars, 0)>>
           tables == [i \in 1..sheet.tables |-> NewBlock(page + 1, "table", AnnotationLength, 0)]
<1>1. /\ Reading("pdf") /\ page < Len(Content) /\ blocks' = (blocks \o text) \o tables
  BY DEF PdfTextAndTables
<1>2. FilesOK /\ page \in Nat /\ blocks \in Seq(Block) /\ Len(files) \in Nat
  BY ExtractFacts, FileFacts
<1>3. Len(Content) \in Nat /\ \A pg \in 1..Len(Content) : Content[pg] \in PdfPage
  BY <1>1, ReadingPdf
<1>4. page + 1 \in 1..Len(Content) /\ sheet.chars \in Nat /\ sheet.tables \in Nat
  BY <1>1, <1>2, <1>3 DEF PdfPage
<1> DEFINE N(b) == b \in Block /\ b.file = Len(files) /\ b.kind \in {"paragraph", "table"}
<1> HIDE DEF sheet
<1>5. N(NewBlock(page + 1, "paragraph", sheet.chars, 0)) /\ N(NewBlock(page + 1, "table", AnnotationLength, 0))
  BY <1>2, <1>4 DEF NewBlock, Block, Alone, AnnotationLength
<1>6. text \in Seq(Block) /\ \A i \in DOMAIN text : N(text[i])
  <2>1. CASE sheet.chars = 0
    BY <2>1, EmptySeq
  <2>2. CASE sheet.chars # 0
    <3> DEFINE b == NewBlock(page + 1, "paragraph", sheet.chars, 0)
    <3>1. N(b)
      BY <1>5
    <3>2. text = <<b>>
      BY <2>2
    <3> HIDE DEF b
    <3>3. text \in Seq(Block) /\ DOMAIN text = {1} /\ text[1] = b
      BY <3>1, <3>2
    <3> QED
      BY <3>1, <3>3
  <2> QED
    BY <2>1, <2>2
<1>7. tables \in Seq(Block) /\ \A i \in DOMAIN tables : N(tables[i])
  <2>1. tables \in [1..sheet.tables -> Block]
    BY <1>5
  <2>2. tables \in Seq(Block)
    BY <1>4, <2>1, SeqDef
  <2> QED
    BY <1>5, <2>2
<1> HIDE DEF text, tables
<1>8. /\ text \o tables \in Seq(Block)
      /\ \A i \in DOMAIN (text \o tables) : N((text \o tables)[i])
  <2>1. /\ text \o tables \in Seq(Block) /\ Len(text \o tables) = Len(text) + Len(tables)
        /\ Len(text) \in Nat /\ Len(tables) \in Nat
        /\ \A i \in 1..Len(text \o tables) :
              (text \o tables)[i] = IF i <= Len(text) THEN text[i] ELSE tables[i - Len(text)]
    BY <1>6, <1>7, ConcatProperties
  <2>2. ASSUME NEW i \in DOMAIN (text \o tables)
        PROVE  N((text \o tables)[i])
    <3>1. i \in 1..(Len(text) + Len(tables)) /\ DOMAIN text = 1..Len(text) /\ DOMAIN tables = 1..Len(tables)
      BY <1>6, <1>7, <2>1
    <3>2. CASE i <= Len(text)
      <4>1. i \in DOMAIN text /\ (text \o tables)[i] = text[i]
        BY <2>1, <3>1, <3>2
      <4> QED
        BY <1>6, <4>1
    <3>3. CASE ~(i <= Len(text))
      <4>1. i - Len(text) \in DOMAIN tables /\ (text \o tables)[i] = tables[i - Len(text)]
        BY <2>1, <3>1, <3>3
      <4> QED
        BY <1>7, <4>1
    <3> QED
      BY <3>2, <3>3
  <2> QED
    BY <2>1, <2>2
<1>9. blocks' = blocks \o (text \o tables)
  <2>1. \A a, b, c \in Seq(Block) : (a \o b) \o c = a \o (b \o c)
    BY ConcatAssociative
  <2> QED
    BY <1>1, <1>2, <1>6, <1>7, <2>1
<1> DEFINE new == text \o tables
<1> HIDE DEF new
<1>10. /\ new \in Seq(Block) /\ blocks' = blocks \o new
       /\ \A i \in DOMAIN new : new[i].file = Len(files) /\ new[i].kind \in {"paragraph", "table"}
  BY <1>8, <1>9 DEF new
<1> QED
  BY <1>4, <1>10

\* The numbers of the boxes of a page.
LEMMA ImageNumbers ==
    ASSUME NEW sheet \in PdfPage
    PROVE  /\ UsableImages(sheet) \subseteq ImageBoxes(sheet) /\ ImageBoxes(sheet) \subseteq 1..Len(sheet.images)
           /\ Len(sheet.images) \in Nat
           /\ \A i \in Nat :
                 /\ ImageIndex(sheet, i) \in Nat
                 /\ ImageIndex(sheet, i + 1) >= ImageIndex(sheet, i)
                 /\ i + 1 \in ImageBoxes(sheet) => ImageIndex(sheet, i + 1) = ImageIndex(sheet, i) + 1
<1>1. sheet.images \in Seq(Box)
  BY DEF PdfPage
<1>2. Len(sheet.images) \in Nat /\ DOMAIN sheet.images = 1..Len(sheet.images)
  BY <1>1
<1>3. UsableImages(sheet) \subseteq ImageBoxes(sheet)
  BY DEF UsableImages
<1>4. ImageBoxes(sheet) \subseteq 1..Len(sheet.images)
  BY <1>2 DEF ImageBoxes
<1>5. IsFiniteSet(ImageBoxes(sheet))
  <2>1. IsFiniteSet(1..Len(sheet.images))
    BY <1>2, FS_Interval
  <2> QED
    BY <1>4, <2>1, FS_Subset
<1>6. ASSUME NEW i \in Nat
      PROVE  /\ ImageIndex(sheet, i) \in Nat
             /\ ImageIndex(sheet, i + 1) >= ImageIndex(sheet, i)
             /\ i + 1 \in ImageBoxes(sheet) => ImageIndex(sheet, i + 1) = ImageIndex(sheet, i) + 1
  <2> DEFINE upto(n) == {j \in ImageBoxes(sheet) : j <= n}
  <2>1. \A n : IsFiniteSet(upto(n)) /\ Cardinality(upto(n)) \in Nat
    BY <1>5, FS_Subset, FS_CardinalityType
  <2>2. upto(i) \subseteq upto(i + 1)
    BY <1>4
  <2>3. Cardinality(upto(i)) <= Cardinality(upto(i + 1))
    BY <2>1, <2>2, FS_Subset
  <2>4. ASSUME i + 1 \in ImageBoxes(sheet)
        PROVE  Cardinality(upto(i + 1)) = Cardinality(upto(i)) + 1
    <3>1. upto(i + 1) = upto(i) \cup {i + 1} /\ i + 1 \notin upto(i)
      BY <1>4, <2>4
    <3> HIDE DEF upto
    <3> QED
      BY <2>1, <3>1, FS_AddElement
  <2> QED
    BY <2>1, <2>3, <2>4 DEF ImageIndex
<1> QED
  BY <1>2, <1>3, <1>4, <1>6

\* The image that a step of the PDF extractor annotates.
Sheet == Content[page]
Index == ImageIndex(Sheet, item + 1)
Asset == AssetName(Last(files).stem, page, Index)
ImageBlock == NewBlock(page, "image", AnnotationLength, Index)

LEMMA ImageStep ==
    ASSUME BaseInv, PdfImage
    PROVE  /\ Sheet \in PdfPage /\ page \in 1..Len(Content) /\ item + 1 \in 1..Len(Sheet.images)
           /\ Index \in Nat /\ Asset \in Stems \X Nat \X Nat
           /\ ImageBlock \in Block /\ ImageBlock.file = Len(files) /\ ImageBlock.kind = "image"
           /\ ImageBlock.page = page /\ ImageBlock.part = Index
           /\ item + 1 \in UsableImages(Sheet) =>
                 /\ blocks' = Append(blocks, ImageBlock)
                 /\ assets' = [a \in DOMAIN assets \cup {Asset} |->
                                  IF a = Asset THEN Len(blocks) + 1 ELSE assets[a]]
           /\ item + 1 \notin UsableImages(Sheet) => blocks' = blocks /\ assets' = assets
<1>1. /\ Reading("pdf") /\ page > 0 /\ item < Len(Sheet.images)
      /\ item + 1 \in UsableImages(Sheet) =>
            /\ blocks' = Append(blocks, ImageBlock)
            /\ assets' = [a \in DOMAIN assets \cup {Asset} |->
                             IF a = Asset THEN Len(blocks) + 1 ELSE assets[a]]
      /\ item + 1 \notin UsableImages(Sheet) => blocks' = blocks /\ assets' = assets
  BY DEF PdfImage, Sheet, Index, Asset, ImageBlock
<1>2. page \in Nat /\ item \in Nat /\ FilesOK /\ Len(files) \in Nat
  BY ExtractFacts, FileFacts
<1>3. /\ page <= Len(Content) /\ Len(Content) \in Nat /\ Last(files).stem \in Stems
      /\ \A pg \in 1..Len(Content) : Content[pg] \in PdfPage /\ Len(Content[pg].images) \in Nat
  BY <1>1, ReadingPdf
<1>4. page \in 1..Len(Content) /\ Sheet \in PdfPage /\ Len(Sheet.images) \in Nat
  BY <1>1, <1>2, <1>3 DEF Sheet
<1>5. item + 1 \in 1..Len(Sheet.images) /\ item + 1 \in Nat
  BY <1>1, <1>2, <1>4
<1>6. Index \in Nat
  BY <1>4, <1>5, ImageNumbers DEF Index
<1>7. Asset \in Stems \X Nat \X Nat
  BY <1>2, <1>3, <1>6 DEF Asset, AssetName
<1>8. /\ ImageBlock \in Block /\ ImageBlock.file = Len(files) /\ ImageBlock.kind = "image"
      /\ ImageBlock.page = page /\ ImageBlock.part = Index
  BY <1>2, <1>6 DEF ImageBlock, NewBlock, Block, Alone, AnnotationLength
<1> QED
  BY <1>1, <1>4, <1>5, <1>6, <1>7, <1>8

LEMMA PdfKeeps ==
    ASSUME BaseInv, UNCHANGED snapshotVars, PdfTextAndTables \/ PdfImage
    PROVE  BaseInv' /\ FilesKept /\ Grows(blocks')
<1>1. page \in Nat /\ item \in Nat /\ blocks \in Seq(Block) /\ FilesOK /\ ReaderOK /\ para \in Nat
      /\ read \in 0..MaxItems /\ Len(blocks) \in Nat
      /\ DOMAIN assets \subseteq Stems \X Nat \X Nat /\ Range(assets) \subseteq DOMAIN blocks
  BY ExtractFacts
<1>2. CASE PdfTextAndTables
  <2>1. /\ phase = "extract" /\ phase' = phase /\ Reading("pdf") /\ UNCHANGED <<files, chunkVars>>
        /\ page' = page + 1 /\ item' = 0 /\ para' = para /\ read' = read /\ assets' = assets /\ used' = used
    BY <1>2 DEF PdfTextAndTables
  <2>2. /\ files # <<>> /\ ~Reading("docx") /\ ~Reading("markdown") /\ used = 0 /\ para = 0
        /\ \A pg \in 1..Len(Content) : Len(Content[pg].images) \in Nat
    BY <2>1, ReadingPdf
  <2>3. PICK new \in Seq(Block) :
            blocks' = blocks \o new /\ \A i \in DOMAIN new : new[i].file = Len(files)
    BY <1>2, TextAndTables
  <2>4. Grows(blocks')
    BY <1>1, <2>2, <2>3, ConcatGrows
  <2>5. ReaderOK'
    <3>1. page + 1 \in 1..Len(Content)
      BY <1>2, TextAndTables
    <3>2. page' <= Len(Content) /\ item' <= Len(Content[page'].images)
      BY <2>1, <2>2, <3>1
    <3> QED
      BY <2>1, <2>2, <3>2, SameReading DEF ReaderOK
  <2>6. DOMAIN assets' \subseteq Stems \X Nat \X Nat /\ Range(assets') \subseteq DOMAIN blocks'
    BY <2>1, <2>4, AssetsKept
  <2>7. page' \in Nat /\ item' \in Nat /\ used' \in IF Reading("docx") THEN 0..Room(Len(files)) ELSE {0}
    BY <1>1, <2>1, <2>2
  <2> QED
    BY <1>1, <2>1, <2>4, <2>5, <2>6, <2>7, WithinFile
<1>3. CASE PdfImage
  <2>1. /\ phase = "extract" /\ phase' = phase /\ Reading("pdf") /\ UNCHANGED <<files, chunkVars>>
        /\ page' = page /\ item' = item + 1 /\ para' = para /\ read' = read /\ used' = used
    BY <1>3 DEF PdfImage
  <2>2. /\ files # <<>> /\ ~Reading("docx") /\ ~Reading("markdown") /\ used = 0 /\ para = 0
    BY <2>1, ReadingPdf
  <2>3. /\ Sheet \in PdfPage /\ page \in 1..Len(Content) /\ item + 1 \in 1..Len(Sheet.images)
        /\ Asset \in Stems \X Nat \X Nat /\ ImageBlock \in Block /\ ImageBlock.file = Len(files)
        /\ item + 1 \in UsableImages(Sheet) =>
              /\ blocks' = Append(blocks, ImageBlock)
              /\ assets' = [a \in DOMAIN assets \cup {Asset} |->
                               IF a = Asset THEN Len(blocks) + 1 ELSE assets[a]]
        /\ item + 1 \notin UsableImages(Sheet) => blocks' = blocks /\ assets' = assets
    BY <1>3, ImageStep
  <2>4. Grows(blocks')
    BY <1>1, <2>2, <2>3, AppendGrows, SameBlocksGrow, ZenonT(60)
  <2>5. ReaderOK'
    <3>1. page <= Len(Content) /\ item' <= Len(Content[page].images)
      BY <2>1, <2>3, ReadingPdf DEF Sheet
    <3> QED
      BY <2>1, <2>2, <3>1, SameReading DEF ReaderOK
  <2>6. DOMAIN assets' \subseteq Stems \X Nat \X Nat /\ Range(assets') \subseteq DOMAIN blocks'
    <3>1. CASE item + 1 \notin UsableImages(Sheet)
      BY <2>3, <2>4, <3>1, AssetsKept
    <3>2. CASE item + 1 \in UsableImages(Sheet)
      <4>1. DOMAIN assets' = DOMAIN assets \cup {Asset}
        BY <2>3, <3>2
      <4>2. DOMAIN blocks' = 1..(Len(blocks) + 1) /\ DOMAIN blocks = 1..Len(blocks)
        BY <1>1, <2>3, <3>2, AppendProperties
      <4>3. ASSUME NEW a \in DOMAIN assets'
            PROVE  assets'[a] \in DOMAIN blocks'
        <5>1. CASE a = Asset
          BY <1>1, <2>3, <3>2, <4>2, <5>1
        <5>2. CASE a # Asset
          <6>1. a \in DOMAIN assets /\ assets'[a] = assets[a]
            BY <2>3, <3>2, <4>1, <4>3, <5>2
          <6>2. assets[a] \in DOMAIN blocks
            BY <1>1, <6>1 DEF Range
          <6> QED
            BY <1>1, <4>2, <6>1, <6>2
        <5> QED
          BY <5>1, <5>2
      <4>4. Range(assets') \subseteq DOMAIN blocks'
        BY <4>3 DEF Range
      <4> QED
        BY <1>1, <2>3, <4>1, <4>4
    <3> QED
      BY <3>1, <3>2
  <2>7. page' \in Nat /\ item' \in Nat /\ used' \in IF Reading("docx") THEN 0..Room(Len(files)) ELSE {0}
    BY <1>1, <2>1, <2>2
  <2> QED
    BY <1>1, <2>1, <2>4, <2>5, <2>6, <2>7, WithinFile
<1> QED
  BY <1>2, <1>3

-----------------------------------------------------------------------------
(* The steps of the chunking. *)

LEMMA ChunkFacts ==
    ASSUME BaseInv
    PROVE  /\ chunks \in Seq(Chunk) /\ Len(chunks) \in Nat /\ DOMAIN chunks = 1..Len(chunks)
           /\ blocks \in Seq(Block) /\ Len(blocks) \in Nat /\ DOMAIN blocks = 1..Len(blocks)
           /\ buffer \in [first : 0..Len(blocks), last : 0..Len(blocks), len : Nat]
           /\ \A i \in DOMAIN chunks :
                 /\ chunks[i] \in Chunk
                 /\ chunks[i].first \in DOMAIN blocks
                 /\ chunks[i].last \in chunks[i].first..Len(blocks)
           /\ EndOf(chunks, Len(chunks)) = (IF chunks = <<>> THEN 0 ELSE chunks[Len(chunks)].last)
           /\ EndOf(chunks, Len(chunks)) \in 0..Len(blocks)
           /\ Done = (IF buffer.first # 0 THEN buffer.last ELSE EndOf(chunks, Len(chunks)))
           /\ Done \in 0..Len(blocks)
<1>1. PageTypeOK /\ ChunksOK
  BY DEF BaseInv, TypeOK
<1>2. /\ chunks \in Seq(Chunk) /\ blocks \in Seq(Block)
      /\ buffer \in [first : 0..Len(blocks), last : 0..Len(blocks), len : Nat]
  BY <1>1 DEF PageTypeOK
<1>3. /\ Len(chunks) \in Nat /\ DOMAIN chunks = 1..Len(chunks) /\ Len(blocks) \in Nat
      /\ DOMAIN blocks = 1..Len(blocks) /\ \A i \in DOMAIN chunks : chunks[i] \in Chunk
  BY <1>2
<1>4. ASSUME NEW i \in DOMAIN chunks
      PROVE  chunks[i].first \in DOMAIN blocks /\ chunks[i].last \in chunks[i].first..Len(blocks)
  <2>1. /\ chunks[i].first = EndOf(chunks, i - 1) + 1 /\ chunks[i].first <= chunks[i].last
        /\ chunks[i].last <= Len(blocks) /\ chunks[i].first \in Nat /\ chunks[i].last \in Nat
    BY <1>1, <1>3 DEF ChunksOK, Divides, Chunk
  <2>2. EndOf(chunks, i - 1) \in Nat
    <3>1. CASE i = 1
      BY <3>1 DEF EndOf
    <3>2. CASE i # 1
      <4>1. i - 1 \in DOMAIN chunks
        BY <1>3, <3>2
      <4>2. chunks[i - 1].last \in Nat
        BY <1>3, <4>1 DEF Chunk
      <4> QED
        BY <1>3, <3>2, <4>2 DEF EndOf
    <3> QED
      BY <3>1, <3>2
  <2> QED
    BY <1>3, <2>1, <2>2
<1>5. EndOf(chunks, Len(chunks)) = (IF chunks = <<>> THEN 0 ELSE chunks[Len(chunks)].last)
  BY <1>2, <1>3 DEF EndOf
<1>6. EndOf(chunks, Len(chunks)) \in 0..Len(blocks)
  <2>1. CASE Len(chunks) = 0
    BY <1>3, <2>1 DEF EndOf
  <2>2. CASE Len(chunks) # 0
    <3>1. Len(chunks) \in DOMAIN chunks
      BY <1>3, <2>2
    <3> QED
      BY <1>3, <1>4, <2>2, <3>1 DEF EndOf
  <2> QED
    BY <2>1, <2>2
<1>7. Done = (IF buffer.first # 0 THEN buffer.last ELSE EndOf(chunks, Len(chunks)))
  BY <1>5 DEF Done
<1>8. Done \in 0..Len(blocks)
  BY <1>2, <1>6, <1>7
<1> QED
  BY <1>2, <1>3, <1>4, <1>5, <1>6, <1>7, <1>8

LEMMA AppendDivides ==
    ASSUME NEW cs \in Seq(Chunk), Divides(cs), NEW c \in Chunk, Len(blocks) \in Nat,
           c.first = EndOf(cs, Len(cs)) + 1, c.first <= c.last, c.last <= Len(blocks), Fitting(c)
    PROVE  /\ Append(cs, c) \in Seq(Chunk) /\ Divides(Append(cs, c))
           /\ Len(Append(cs, c)) = Len(cs) + 1 /\ Len(Append(cs, c)) # 0
           /\ EndOf(Append(cs, c), Len(Append(cs, c))) = c.last
<1> DEFINE d == Append(cs, c)
<1>1. /\ Len(cs) \in Nat /\ DOMAIN cs = 1..Len(cs) /\ d \in Seq(Chunk) /\ Len(d) = Len(cs) + 1
      /\ DOMAIN d = 1..Len(d)
      /\ \A i \in 1..Len(cs) : d[i] = cs[i]
      /\ d[Len(cs) + 1] = c
  BY AppendProperties
<1> HIDE DEF d
<1>2. \A i \in 0..Len(cs) : EndOf(d, i) = EndOf(cs, i)
  BY <1>1 DEF EndOf
<1>3. ASSUME NEW i \in DOMAIN d
      PROVE  /\ d[i].first = EndOf(d, i - 1) + 1
             /\ d[i].first <= d[i].last /\ d[i].last <= Len(blocks)
             /\ Fitting(d[i])
  <2>1. i - 1 \in 0..Len(cs)
    BY <1>1
  <2>2. CASE i = Len(cs) + 1
    BY <1>1, <1>2, <2>1, <2>2
  <2>3. CASE i # Len(cs) + 1
    <3>1. i \in DOMAIN cs /\ d[i] = cs[i]
      BY <1>1, <2>3
    <3> QED
      BY <1>2, <2>1, <3>1 DEF Divides
  <2> QED
    BY <2>2, <2>3
<1>4. Divides(d)
  BY <1>3 DEF Divides
<1>5. EndOf(d, Len(d)) = c.last /\ Len(d) # 0
  BY <1>1 DEF EndOf
<1> QED
  BY <1>1, <1>4, <1>5 DEF d

\* Flushing the buffer.
LEMMA FlushDivides ==
    ASSUME BaseInv
    PROVE  /\ FlushedChunks \in Seq(Chunk) /\ Divides(FlushedChunks)
           /\ EndOf(FlushedChunks, Len(FlushedChunks)) = Done
<1>1. /\ chunks \in Seq(Chunk) /\ Len(blocks) \in Nat
      /\ buffer \in [first : 0..Len(blocks), last : 0..Len(blocks), len : Nat]
      /\ EndOf(chunks, Len(chunks)) \in 0..Len(blocks)
      /\ Done = (IF buffer.first # 0 THEN buffer.last ELSE EndOf(chunks, Len(chunks)))
  BY ChunkFacts
<1>2. Divides(chunks) /\ BufferOK /\ SafeMaxChars \in Nat
  BY LayoutAssumption DEF BaseInv, ChunksOK
<1>3. CASE buffer.first = 0
  BY <1>1, <1>2, <1>3 DEF FlushedChunks
<1>4. CASE buffer.first # 0
  <2>1. /\ buffer.first \in Nat /\ buffer.last \in 0..Len(blocks) /\ buffer.len \in Nat
        /\ buffer.first = EndOf(chunks, Len(chunks)) + 1 /\ buffer.first <= buffer.last
        /\ \A k \in buffer.first..buffer.last : blocks[k].kind = "paragraph"
        /\ buffer.first < buffer.last => buffer.len + 2 <= SafeMaxChars
    BY <1>1, <1>2, <1>4 DEF BufferOK
  <2>2. /\ Joined.first = buffer.first /\ Joined.last = buffer.last
        /\ Joined.len = buffer.len + 2 * (buffer.last - buffer.first)
        /\ Joined \in Chunk
    BY <2>1 DEF Joined, Chunk
  <2>3. Fitting(Joined)
    BY <1>2, <2>1, <2>2 DEF Fitting
  <2>4. FlushedChunks = Append(chunks, Joined) /\ Done = buffer.last
    BY <1>1, <1>4 DEF FlushedChunks
  <2>5. Joined.first <= Joined.last /\ Joined.last <= Len(blocks)
    BY <1>1, <2>1, <2>2
  <2> QED
    BY <1>1, <1>2, <2>1, <2>2, <2>3, <2>4, <2>5, AppendDivides
<1> QED
  BY <1>3, <1>4

\* What a chunking step has to show.
LEMMA ChunkStep ==
    ASSUME BaseInv, phase = "chunk", phase' \in {"chunk", "order"},
           UNCHANGED extractVars, UNCHANGED snapshotVars,
           chunks' \in Seq(Chunk), Divides(chunks'),
           buffer' \in [first : 0..Len(blocks), last : 0..Len(blocks), len : Nat],
           BufferOK',
           phase' = "order" => buffer' = NoBuffer /\ EndOf(chunks', Len(chunks')) = Len(blocks)
    PROVE  BaseInv'
<1>1. TypeOK /\ PageTypeOK /\ FilesOK /\ ReaderOK /\ BlocksOK /\ PhasesOK
  BY DEF BaseInv, TypeOK
<1>2. /\ files' = files /\ page' = page /\ item' = item /\ used' = used /\ para' = para /\ read' = read
      /\ blocks' = blocks /\ assets' = assets
      /\ chapters' = chapters /\ order' = order /\ assigned' = assigned /\ sections' = sections
  BY DEF extractVars, snapshotVars
<1>3. FilesOK' /\ BlocksOK'
  BY <1>1, <1>2 DEF FilesOK, BlocksOK
<1>4. ReaderOK'
  BY <1>1, <1>2 DEF ReaderOK, Reading, Content
<1>5. PhasesOK'
  BY <1>1, <1>2 DEF PhasesOK
<1>6. order = <<>> /\ assigned = 0
  BY <1>1 DEF PhasesOK
<1>7. PageTypeOK'
  <2>1. used' \in IF Reading("docx")' THEN 0..Room(Len(files))' ELSE {0}
    BY <1>1, <1>2 DEF PageTypeOK, Reading, Room
  <2> QED
    BY <1>1, <1>2, <2>1 DEF PageTypeOK
<1>8. TypeOK'
  <2>1. order' \in Seq((DOMAIN chunks)') /\ Len(order') = 0
    BY <1>2, <1>6, EmptySeq
  <2> QED
    BY <1>1, <1>2, <1>6, <1>7, <2>1 DEF TypeOK
<1>9. ChunksOK'
  <2>1. Divides(chunks)'
    BY <1>2 DEF Divides, Fitting, EndOf
  <2>2. phase' = "order" => Done' = Len(blocks')
    <3>1. Len(chunks') \in Nat /\ (Len(chunks') = 0 <=> chunks' = <<>>)
      OBVIOUS
    <3>2. phase' = "order" => buffer'.first = 0
      BY DEF NoBuffer
    <3> QED
      BY <1>2, <3>1, <3>2 DEF Done, EndOf
  <2> QED
    BY <2>1, <2>2 DEF ChunksOK
<1> QED
  BY <1>3, <1>4, <1>5, <1>8, <1>9 DEF BaseInv

LEMMA ChunkingKeeps ==
    ASSUME BaseInv, UNCHANGED snapshotVars, ChunkAlone \/ ChunkStarts \/ ChunkGrows \/ ChunkingEnds
    PROVE  BaseInv'
<1>1. /\ chunks \in Seq(Chunk) /\ Len(blocks) \in Nat /\ DOMAIN blocks = 1..Len(blocks) /\ blocks \in Seq(Block)
      /\ buffer \in [first : 0..Len(blocks), last : 0..Len(blocks), len : Nat]
      /\ EndOf(chunks, Len(chunks)) \in 0..Len(blocks)
      /\ Done = (IF buffer.first # 0 THEN buffer.last ELSE EndOf(chunks, Len(chunks)))
      /\ Done \in 0..Len(blocks)
  BY ChunkFacts
<1>2. Divides(chunks) /\ BufferOK /\ SafeMaxChars \in Nat
  BY LayoutAssumption DEF BaseInv, ChunksOK
<1>3. /\ FlushedChunks \in Seq(Chunk) /\ Divides(FlushedChunks)
      /\ EndOf(FlushedChunks, Len(FlushedChunks)) = Done
  BY FlushDivides
<1>4. NoBuffer \in [first : 0..Len(blocks), last : 0..Len(blocks), len : Nat] /\ NoBuffer.first = 0
  BY <1>1 DEF NoBuffer
<1>5. ASSUME Done < Len(blocks)
      PROVE  /\ NextBlock = Done + 1 /\ NextBlock \in Nat /\ NextBlock \in 1..Len(blocks)
             /\ blocks[NextBlock].len \in Nat /\ blocks[NextBlock].kind \in Alone \cup {"paragraph"}
  <2>1. NextBlock = Done + 1
    BY DEF NextBlock
  <2>2. NextBlock \in 1..Len(blocks) /\ NextBlock \in Nat
    BY <1>1, <1>5, <2>1
  <2>3. blocks[NextBlock] \in Block
    BY <1>1, <2>2
  <2> QED
    BY <2>1, <2>2, <2>3 DEF Block
<1>6. CASE ChunkAlone
  <2> DEFINE c == [first |-> NextBlock, last |-> NextBlock, len |-> blocks[NextBlock].len]
  <2>1. /\ Chunking(TRUE) /\ chunks' = Append(FlushedChunks, c) /\ buffer' = NoBuffer
        /\ phase' = phase /\ UNCHANGED extractVars
    BY <1>6 DEF ChunkAlone
  <2>p. phase = "chunk" /\ Done < Len(blocks)
    BY <2>1 DEF Chunking
  <2>2. /\ phase = "chunk" /\ NextBlock \in 1..Len(blocks) /\ NextBlock = Done + 1 /\ NextBlock \in Nat
        /\ blocks[NextBlock].len \in Nat
    BY <1>1, <1>5, <2>1, <2>p
  <2>3. /\ c \in Chunk /\ c.first = Done + 1 /\ c.first <= c.last /\ c.last <= Len(blocks) /\ Fitting(c)
    BY <1>1, <2>2 DEF Chunk, Fitting
  <2> HIDE DEF c
  <2>4. chunks' \in Seq(Chunk) /\ Divides(chunks')
    BY <1>1, <1>3, <2>1, <2>3, AppendDivides
  <2>5. BufferOK'
    BY <1>4, <2>1 DEF BufferOK
  <2> QED
    BY <1>4, <2>1, <2>2, <2>4, <2>5, ChunkStep
<1>7. CASE ChunkStarts
  <2> DEFINE c == [first |-> NextBlock, last |-> NextBlock, len |-> blocks[NextBlock].len]
  <2>1. /\ Chunking(FALSE) /\ chunks' = FlushedChunks /\ buffer' = c
        /\ phase' = phase /\ UNCHANGED extractVars
    BY <1>7 DEF ChunkStarts
  <2>p. phase = "chunk" /\ Done < Len(blocks)
    BY <2>1 DEF Chunking
  <2>2. /\ phase = "chunk" /\ NextBlock \in 1..Len(blocks) /\ NextBlock = Done + 1 /\ NextBlock \in Nat
        /\ blocks[NextBlock].len \in Nat
    BY <1>1, <1>5, <2>1, <2>p
  <2>3. blocks[NextBlock].kind = "paragraph"
    BY <1>5, <2>1, <2>p DEF Chunking
  <2>4. c \in [first : 0..Len(blocks), last : 0..Len(blocks), len : Nat]
    BY <1>1, <2>2
  <2>5. BufferOK'
    <3>1. blocks' = blocks /\ buffer'.first = NextBlock /\ buffer'.last = NextBlock
      BY <2>1 DEF extractVars
    <3>2. EndOf(chunks, Len(chunks))' = Done
      BY <1>3, <2>1 DEF EndOf
    <3> QED
      BY <1>1, <2>2, <2>3, <3>1, <3>2 DEF BufferOK
  <2> HIDE DEF c
  <2> QED
    BY <1>3, <2>1, <2>2, <2>4, <2>5, ChunkStep
<1>8. CASE ChunkGrows
  <2>1. /\ Chunking(FALSE) /\ chunks' = chunks /\ phase' = phase /\ UNCHANGED extractVars
        /\ buffer.first # 0 /\ buffer.len + blocks[NextBlock].len + 2 <= SafeMaxChars
        /\ buffer' = [buffer EXCEPT !.last = NextBlock, !.len = @ + blocks[NextBlock].len]
    BY <1>8 DEF ChunkGrows, Fits
  <2>p. phase = "chunk" /\ Done < Len(blocks)
    BY <2>1 DEF Chunking
  <2>2. /\ phase = "chunk" /\ NextBlock \in 1..Len(blocks) /\ NextBlock = buffer.last + 1 /\ NextBlock \in Nat
        /\ blocks[NextBlock].len \in Nat
    BY <1>1, <1>5, <2>1, <2>p
  <2>3. blocks[NextBlock].kind = "paragraph"
    BY <1>5, <2>1, <2>p DEF Chunking
  <2>4. /\ buffer' \in [first : 0..Len(blocks), last : 0..Len(blocks), len : Nat]
        /\ buffer'.first = buffer.first /\ buffer'.last = NextBlock
        /\ buffer'.len = buffer.len + blocks[NextBlock].len
    <3>1. /\ buffer.first \in 0..Len(blocks) /\ buffer.len \in Nat
          /\ buffer' = [first |-> buffer.first, last |-> NextBlock, len |-> buffer.len + blocks[NextBlock].len]
      BY <1>1, <2>1
    <3>2. NextBlock \in 0..Len(blocks) /\ buffer.len + blocks[NextBlock].len \in Nat
      BY <1>1, <2>2, <3>1
    <3> QED
      BY <3>1, <3>2
  <2>5. BufferOK'
    <3>1. blocks' = blocks
      BY <2>1 DEF extractVars
    <3>2. EndOf(chunks, Len(chunks))' = EndOf(chunks, Len(chunks))
      BY <2>1 DEF EndOf
    <3>3. /\ buffer.first = EndOf(chunks, Len(chunks)) + 1 /\ buffer.first <= buffer.last
          /\ \A k \in buffer.first..buffer.last : blocks[k].kind = "paragraph"
      BY <1>2, <2>1 DEF BufferOK
    <3>4. buffer.first \in Nat /\ buffer.last \in Nat
      BY <1>1
    <3>5. \A k \in buffer'.first..buffer'.last : blocks'[k].kind = "paragraph"
      BY <2>2, <2>3, <2>4, <3>1, <3>3, <3>4
    <3> QED
      BY <2>1, <2>2, <2>4, <3>1, <3>2, <3>3, <3>4, <3>5 DEF BufferOK
  <2> QED
    BY <1>1, <1>2, <2>1, <2>2, <2>4, <2>5, ChunkStep
<1>9. CASE ChunkingEnds
  <2>1. /\ phase = "chunk" /\ Done = Len(blocks) /\ chunks' = FlushedChunks /\ buffer' = NoBuffer
        /\ phase' = "order" /\ UNCHANGED extractVars
    BY <1>9 DEF ChunkingEnds
  <2>2. BufferOK'
    BY <1>4, <2>1 DEF BufferOK
  <2> QED
    BY <1>3, <1>4, <2>1, <2>2, ChunkStep
<1> QED
  BY <1>6, <1>7, <1>8, <1>9

-----------------------------------------------------------------------------
(* The order of the page nodes. *)

\* The digits of a number and of those that they are made from.
DigitsOf(g, n) ==
    IF n < 10 THEN <<n>> ELSE Append(g[n \div 10], n % 10)
HasDigits(g, n) == g \in [0..n -> Seq(Nat)] /\ \A i \in 0..n : g[i] = DigitsOf(g, i)

LEMMA TenthSmaller ==
    ASSUME NEW n \in Nat
    PROVE  /\ n % 10 \in Nat /\ n \div 10 \in Nat /\ n = 10 * (n \div 10) + (n % 10)
           /\ n >= 10 => n \div 10 < n
OBVIOUS

\* Every number has its digits.
LEMMA DigitsExist ==
    /\ Digits \in [Nat -> Seq(Nat)]
    /\ \A n \in Nat : Digits[n] = DigitsOf(Digits, n)
<1> DEFINE Bad == {n \in Nat : ~\E g : HasDigits(g, n)}
<1>1. Bad = {}
  <2> SUFFICES ASSUME Bad # {}
               PROVE  FALSE
    OBVIOUS
  <2>1. PICK n \in Bad : \A k \in Bad : n <= k
    BY LeastNat
  <2>2. n \in Nat /\ ~\E g : HasDigits(g, n)
    BY <2>1
  <2>3. CASE n = 0
    <3> DEFINE g == [i \in 0..n |-> <<i>>]
    <3>1. g \in [0..n -> Seq(Nat)]
      <4>1. \A i \in 0..n : <<i>> \in Seq(Nat)
        BY <2>3
      <4> QED
        BY <4>1
    <3>2. \A i \in 0..n : g[i] = DigitsOf(g, i)
      BY <2>3 DEF DigitsOf
    <3> HIDE DEF g
    <3> QED
      BY <2>2, <3>1, <3>2 DEF HasDigits
  <2>4. CASE n # 0
    <3>1. n - 1 \in Nat /\ n - 1 \notin Bad
      BY <2>1, <2>2, <2>4
    <3>2. PICK g : HasDigits(g, n - 1)
      BY <3>1
    <3> DEFINE h == [i \in 0..n |-> IF i < n THEN g[i] ELSE DigitsOf(g, n)]
    <3>3. \A i \in 0..(n - 1) : g[i] \in Seq(Nat) /\ g[i] = DigitsOf(g, i)
      BY <3>2 DEF HasDigits
    <3>4. DigitsOf(g, n) \in Seq(Nat)
      <4>1. CASE n < 10
        BY <2>2, <4>1 DEF DigitsOf
      <4>2. CASE ~(n < 10)
        <5>1. n \div 10 \in 0..(n - 1) /\ n % 10 \in Nat
          BY <2>2, <4>2, TenthSmaller
        <5> QED
          BY <3>3, <4>2, <5>1, AppendProperties DEF DigitsOf
      <4> QED
        BY <4>1, <4>2
    <3>5. ASSUME NEW i \in 0..n
          PROVE  h[i] \in Seq(Nat) /\ h[i] = DigitsOf(h, i)
      <4>1. h[i] = DigitsOf(g, i) /\ h[i] \in Seq(Nat)
        <5>1. CASE i < n
          <6>1. i \in 0..(n - 1)
            BY <2>2, <5>1
          <6> QED
            BY <3>3, <5>1, <6>1
        <5>2. CASE ~(i < n)
          <6>1. i = n
            BY <2>2, <5>2
          <6> QED
            BY <3>4, <6>1
        <5> QED
          BY <5>1, <5>2
      <4>2. i >= 10 => i \div 10 \in 0..n /\ i \div 10 < n
        <5>1. i \in Nat /\ i <= n
          BY <2>2
        <5>2. i \div 10 \in Nat /\ (i >= 10 => i \div 10 < i)
          BY <5>1, TenthSmaller
        <5> QED
          BY <2>2, <5>1, <5>2
      <4>3. i >= 10 => h[i \div 10] = g[i \div 10]
        BY <4>2
      <4>4. DigitsOf(g, i) = DigitsOf(h, i)
        <5>1. i \in Int
          BY <2>2
        <5> HIDE DEF h
        <5> QED
          BY <4>3, <5>1 DEF DigitsOf
      <4> QED
        BY <4>1, <4>4
    <3>6. h \in [0..n -> Seq(Nat)]
      BY <3>5
    <3> HIDE DEF h
    <3>7. HasDigits(h, n)
      BY <3>5, <3>6 DEF HasDigits
    <3> QED
      BY <2>2, <3>7
  <2> QED
    BY <2>3, <2>4
<1>2. ASSUME NEW m \in Nat, NEW n \in Nat, NEW g, NEW h, HasDigits(g, m), HasDigits(h, n)
      PROVE  \A i \in Nat : i <= m /\ i <= n => g[i] = h[i]
  <2> DEFINE Wrong == {i \in Nat : i <= m /\ i <= n /\ g[i] # h[i]}
  <2> SUFFICES ASSUME Wrong # {}
               PROVE  FALSE
    OBVIOUS
  <2>1. PICK i \in Wrong : \A k \in Wrong : i <= k
    BY LeastNat
  <2>2. i \in Nat /\ i <= m /\ i <= n /\ g[i] # h[i] /\ i \in 0..m /\ i \in 0..n
    BY <2>1
  <2>3. g[i] = DigitsOf(g, i) /\ h[i] = DigitsOf(h, i)
    BY <1>2, <2>2 DEF HasDigits
  <2>4. i >= 10 => i \div 10 \in Nat /\ i \div 10 < i
    BY <2>2, TenthSmaller
  <2>5. i >= 10 => g[i \div 10] = h[i \div 10]
    <3>1. i >= 10 => i \div 10 \notin Wrong
      BY <2>1, <2>2, <2>4
    <3> QED
      BY <2>2, <2>4, <3>1
  <2>6. DigitsOf(g, i) = DigitsOf(h, i)
    <3> HIDE DEF Wrong
    <3> QED
      BY <2>2, <2>5 DEF DigitsOf
  <2> QED
    BY <2>2, <2>3, <2>6
<1> DEFINE G(n) == CHOOSE g : HasDigits(g, n)
           D    == [n \in Nat |-> G(n)[n]]
<1>3. ASSUME NEW n \in Nat
      PROVE  HasDigits(G(n), n)
  <2>1. \E g : HasDigits(g, n)
    BY <1>1
  <2> QED
    BY <2>1
<1> HIDE DEF G
<1>4. ASSUME NEW n \in Nat
      PROVE  D[n] \in Seq(Nat) /\ D[n] = DigitsOf(D, n)
  <2>1. D[n] = G(n)[n] /\ n \in 0..n
    OBVIOUS
  <2>2. G(n)[n] \in Seq(Nat) /\ G(n)[n] = DigitsOf(G(n), n)
    BY <1>3, <2>1 DEF HasDigits
  <2>3. n >= 10 => n \div 10 \in Nat /\ n \div 10 < n
    BY TenthSmaller
  <2>4. ASSUME n >= 10
        PROVE  G(n)[n \div 10] = D[n \div 10]
    <3>1. HasDigits(G(n), n) /\ HasDigits(G(n \div 10), n \div 10)
      BY <1>3, <2>3, <2>4
    <3>2. G(n)[n \div 10] = G(n \div 10)[n \div 10]
      BY <1>2, <2>3, <2>4, <3>1
    <3> QED
      BY <2>3, <2>4, <3>2
  <2>5. DigitsOf(G(n), n) = DigitsOf(D, n)
    <3> HIDE DEF D
    <3> QED
      BY <2>4 DEF DigitsOf
  <2> QED
    BY <2>1, <2>2, <2>5
<1>5. D = [n \in Nat |-> DigitsOf(D, n)] /\ D \in [Nat -> Seq(Nat)]
  <2>1. \A n \in Nat : D[n] \in Seq(Nat) /\ D[n] = DigitsOf(D, n)
    BY <1>4
  <2>2. D \in [Nat -> Seq(Nat)]
    BY <2>1
  <2> HIDE DEF D
  <2> QED
    BY <2>1, <2>2
<1> HIDE DEF D
<1>6. D = [n \in Nat |-> IF n < 10 THEN <<n>> ELSE Append(D[n \div 10], n % 10)]
  BY <1>5 DEF DigitsOf
<1>7. Digits = [n \in Nat |-> IF n < 10 THEN <<n>> ELSE Append(Digits[n \div 10], n % 10)]
  BY <1>6 DEF Digits
<1>8. \A n \in Nat : Digits[n] = DigitsOf(Digits, n)
  BY <1>7, Zenon DEF DigitsOf
<1>9. \A n \in Nat : Digits[n] = D[n]
  <2> DEFINE Wrong == {n \in Nat : Digits[n] # D[n]}
  <2> SUFFICES ASSUME Wrong # {}
               PROVE  FALSE
    OBVIOUS
  <2>1. PICK n \in Wrong : \A k \in Wrong : n <= k
    BY LeastNat
  <2>2. n \in Nat /\ Digits[n] # D[n]
    BY <2>1
  <2>3. n >= 10 => n \div 10 \in Nat /\ n \div 10 < n
    BY <2>2, TenthSmaller
  <2>4. n >= 10 => Digits[n \div 10] = D[n \div 10]
    BY <2>1, <2>2, <2>3
  <2>5. D[n] = DigitsOf(D, n) /\ Digits[n] = DigitsOf(Digits, n)
    BY <1>5, <1>8, <2>2
  <2> HIDE DEF Wrong
  <2> QED
    BY <2>2, <2>4, <2>5 DEF DigitsOf
<1>10. Digits \in [Nat -> Seq(Nat)]
  <2>1. DOMAIN Digits = Nat /\ Digits = [n \in Nat |-> Digits[n]]
    BY <1>7
  <2> QED
    BY <1>5, <1>9, <2>1
<1> QED
  BY <1>8, <1>10

\* Two numbers have different digits.
LEMMA DigitsDiffer ==
    ASSUME NEW m \in Nat, NEW n \in Nat, Digits[m] = Digits[n]
    PROVE  m = n
<1> DEFINE Wrong == {a \in Nat : \E b \in Nat : Digits[a] = Digits[b] /\ a # b}
<1> SUFFICES ASSUME Wrong # {}
             PROVE  FALSE
  OBVIOUS
<1>1. PICK a \in Wrong : \A k \in Wrong : a <= k
  BY LeastNat
<1>2. PICK b \in Nat : Digits[a] = Digits[b] /\ a # b
  BY <1>1
<1>3. a \in Nat
  BY <1>1
<1> HIDE DEF Wrong
<1>4. \A i \in Nat : Digits[i] \in Seq(Nat) /\ Digits[i] = DigitsOf(Digits, i)
  BY DigitsExist
<1>5. ASSUME NEW i \in Nat, i < 10
      PROVE  Len(Digits[i]) = 1 /\ Digits[i][1] = i
  <2>1. Digits[i] = <<i>>
    BY <1>4, <1>5 DEF DigitsOf
  <2> QED
    BY <2>1
<1>6. ASSUME NEW i \in Nat
      PROVE  Digits[i] # <<>>
  <2>1. CASE i < 10
    BY <1>4, <1>5, <2>1
  <2>2. CASE ~(i < 10)
    <3>1. Digits[i] = Append(Digits[i \div 10], i % 10) /\ Digits[i \div 10] \in Seq(Nat) /\ i % 10 \in Nat
      BY <1>4, <2>2, TenthSmaller DEF DigitsOf
    <3>2. Len(Append(Digits[i \div 10], i % 10)) = Len(Digits[i \div 10]) + 1 /\ Len(Digits[i \div 10]) \in Nat
      BY <3>1
    <3> QED
      BY <3>1, <3>2
  <2> QED
    BY <2>1, <2>2
<1>7. ASSUME NEW i \in Nat, i >= 10
      PROVE  /\ i \div 10 \in Nat /\ Digits[i \div 10] \in Seq(Nat)
             /\ Digits[i] = Append(Digits[i \div 10], i % 10)
             /\ Len(Digits[i]) > 1
  <2>1. Digits[i] = Append(Digits[i \div 10], i % 10) /\ Digits[i \div 10] \in Seq(Nat) /\ i \div 10 \in Nat
    <3>1. ~(i < 10)
      BY <1>7
    <3>2. Digits[i] = Append(Digits[i \div 10], i % 10)
      BY <1>4, <3>1 DEF DigitsOf
    <3> QED
      BY <1>4, <3>2, TenthSmaller
  <2>2. Digits[i \div 10] # <<>>
    BY <1>6, <2>1
  <2> QED
    BY <2>1, <2>2
<1>8. CASE a < 10
  <2>1. Len(Digits[b]) = 1
    BY <1>2, <1>3, <1>5, <1>8
  <2>2. b < 10
    <3>1. b >= 10 => Len(Digits[b]) > 1
      BY <1>7
    <3> QED
      BY <2>1, <3>1
  <2> QED
    BY <1>2, <1>3, <1>5, <1>8, <2>2
<1>9. CASE ~(a < 10)
  <2>1. a >= 10 /\ Len(Digits[a]) > 1
    BY <1>3, <1>7, <1>9
  <2>2. b >= 10
    <3>1. b < 10 => Len(Digits[b]) = 1
      BY <1>5
    <3>2. Len(Digits[b]) = Len(Digits[a]) /\ Len(Digits[a]) \in Nat
      BY <1>2, <1>3, <1>4
    <3>3. b < 10 \/ b >= 10
      OBVIOUS
    <3>4. Len(Digits[b]) # 1
      <4>1. Len(Digits[a]) > 1
        BY <2>1
      <4>2. Len(Digits[a]) # 1
        BY <3>2, <4>1
      <4> QED
        BY <3>2, <4>2
    <3> QED
      BY <3>1, <3>3, <3>4
  <2>3. Append(Digits[a \div 10], a % 10) = Append(Digits[b \div 10], b % 10)
    BY <1>2, <1>3, <1>7, <2>1, <2>2
  <2>4. /\ a \div 10 \in Nat /\ b \div 10 \in Nat /\ a % 10 \in Nat /\ b % 10 \in Nat
        /\ Digits[a \div 10] \in Seq(Nat) /\ Digits[b \div 10] \in Seq(Nat)
    BY <1>3, <1>7, <2>1, <2>2, TenthSmaller
  <2>5. Digits[a \div 10] = Digits[b \div 10] /\ a % 10 = b % 10
    <3>1. \A c, d \in Seq(Nat) : \A e, f \in Nat : Append(c, e) = Append(d, f) => c = d /\ e = f
      BY AppendInjective
    <3> DEFINE c == Digits[a \div 10]
               d == Digits[b \div 10]
               e == a % 10
               f == b % 10
    <3>2. c \in Seq(Nat) /\ d \in Seq(Nat) /\ e \in Nat /\ f \in Nat /\ Append(c, e) = Append(d, f)
      BY <2>3, <2>4
    <3> HIDE DEF c, d, e, f
    <3>3. c = d /\ e = f
      BY <3>1, <3>2
    <3> QED
      BY <3>3 DEF c, d, e, f
  <2>6. a \div 10 < a /\ a \div 10 \notin Wrong
    BY <1>1, <1>3, <2>1, <2>4, TenthSmaller
  <2>7. a \div 10 = b \div 10
    BY <2>4, <2>5, <2>6 DEF Wrong
  <2>8. a = 10 * (a \div 10) + (a % 10) /\ b = 10 * (b \div 10) + (b % 10)
    BY <1>3, TenthSmaller
  <2> QED
    BY <1>2, <2>5, <2>7, <2>8
<1> QED
  BY <1>8, <1>9

\* s comes before t where they first differ: there it ends, or has the smaller element.
DiffersAt(s, t, i) ==
    /\ i \in 1..Len(t) /\ i <= Len(s) + 1
    /\ \A j \in 1..(i - 1) : s[j] = t[j]
    /\ i = Len(s) + 1 \/ (i <= Len(s) /\ s[i] < t[i])

LEMMA BeforeDiffers ==
    ASSUME NEW s \in Seq(Nat), NEW t \in Seq(Nat)
    PROVE  TextBefore(s, t) <=> \E i \in Nat : DiffersAt(s, t, i)
<1>1. Len(s) \in Nat /\ Len(t) \in Nat /\ DOMAIN s = 1..Len(s) /\ DOMAIN t = 1..Len(t)
  OBVIOUS
<1>2. ASSUME Len(s) <= Len(t)
      PROVE  /\ SubSeq(t, 1, Len(s)) \in Seq(Nat) /\ Len(SubSeq(t, 1, Len(s))) = Len(s)
             /\ \A j \in 1..Len(s) : SubSeq(t, 1, Len(s))[j] = t[j]
  BY <1>1, <1>2
<1>3. SubSeq(s, 1, Len(s)) = s
  OBVIOUS
<1>4. ASSUME IsStrictPrefix(s, t)
      PROVE  DiffersAt(s, t, Len(s) + 1)
  <2>1. Len(s) <= Len(t) /\ s = SubSeq(t, 1, Len(s)) /\ s # t
    BY <1>3, <1>4 DEF IsStrictPrefix, IsPrefix
  <2>2. \A j \in 1..Len(s) : s[j] = t[j]
    BY <1>1, <1>2, <2>1
  <2>3. Len(s) # Len(t)
    BY <1>1, <2>1, <2>2, SeqEqual
  <2>4. Len(s) + 1 \in 1..Len(t) /\ (Len(s) + 1) - 1 = Len(s)
    <3>1. Len(s) <= Len(t) /\ Len(s) \in Nat /\ Len(t) \in Nat
      BY <1>1, <2>1
    <3>2. \A x, y \in Nat : x <= y /\ x # y => x + 1 \in 1..y /\ (x + 1) - 1 = x
      OBVIOUS
    <3> QED
      BY <2>3, <3>1, <3>2
  <2> QED
    BY <2>2, <2>4 DEF DiffersAt
<1>5. ASSUME NEW i \in DOMAIN s \cap DOMAIN t, s[i] < t[i], \A j \in 1..(i - 1) : s[j] = t[j]
      PROVE  DiffersAt(s, t, i)
  BY <1>1, <1>5 DEF DiffersAt
<1>6. ASSUME NEW i \in Nat, DiffersAt(s, t, i)
      PROVE  TextBefore(s, t)
  <2>1. CASE i = Len(s) + 1
    <3>1. Len(s) < Len(t) /\ \A j \in 1..Len(s) : s[j] = t[j]
      BY <1>1, <1>6, <2>1 DEF DiffersAt
    <3>2. s = SubSeq(t, 1, Len(s))
      BY <1>1, <1>2, <3>1, SeqEqual
    <3>3. s # t
      BY <1>1, <3>1
    <3> QED
      BY <1>3, <3>1, <3>2, <3>3 DEF TextBefore, IsStrictPrefix, IsPrefix
  <2>2. CASE i <= Len(s) /\ s[i] < t[i]
    <3>1. i \in DOMAIN s \cap DOMAIN t /\ \A j \in 1..(i - 1) : s[j] = t[j]
      BY <1>1, <1>6, <2>2 DEF DiffersAt
    <3> QED
      BY <2>2, <3>1 DEF TextBefore
  <2> QED
    BY <1>6, <2>1, <2>2 DEF DiffersAt
<1>7. \A i \in DOMAIN s \cap DOMAIN t : i \in Nat
  BY <1>1
<1> QED
  BY <1>1, <1>4, <1>5, <1>6, <1>7 DEF TextBefore

\* Texts are in a strict total order.
LEMMA TextOrder ==
    ASSUME NEW s \in Seq(Nat), NEW t \in Seq(Nat), NEW u \in Seq(Nat)
    PROVE  /\ ~TextBefore(s, s)
           /\ TextBefore(s, t) /\ TextBefore(t, u) => TextBefore(s, u)
           /\ s # t => TextBefore(s, t) \/ TextBefore(t, s)
<1>1. /\ Len(s) \in Nat /\ Len(t) \in Nat /\ Len(u) \in Nat
      /\ \A i \in 1..Len(s) : s[i] \in Nat
      /\ \A i \in 1..Len(t) : t[i] \in Nat
      /\ \A i \in 1..Len(u) : u[i] \in Nat
  OBVIOUS
<1>2. ~TextBefore(s, s)
  <2> SUFFICES ASSUME NEW i \in Nat, DiffersAt(s, s, i)
               PROVE  FALSE
    BY BeforeDiffers
  <2> QED
    BY <1>1 DEF DiffersAt
<1>3. ASSUME TextBefore(s, t), TextBefore(t, u)
      PROVE  TextBefore(s, u)
  <2>1. PICK i \in Nat : DiffersAt(s, t, i)
    BY <1>3, BeforeDiffers
  <2>2. PICK k \in Nat : DiffersAt(t, u, k)
    BY <1>3, BeforeDiffers
  <2>3. CASE i < k
    <3>1. DiffersAt(s, u, i)
      <4>1. \A j \in 1..i : t[j] = u[j]
        BY <2>2, <2>3 DEF DiffersAt
      <4>2. \A j \in 1..(i - 1) : s[j] = u[j]
        BY <2>1, <4>1 DEF DiffersAt
      <4>3. i \in 1..Len(u)
        BY <1>1, <2>1, <2>2, <2>3 DEF DiffersAt
      <4>4. i <= Len(s) /\ s[i] < t[i] => s[i] < u[i]
        BY <2>1, <4>1 DEF DiffersAt
      <4> QED
        BY <2>1, <4>2, <4>3, <4>4 DEF DiffersAt
    <3> QED
      BY <3>1, BeforeDiffers
  <2>4. CASE k < i
    <3>1. DiffersAt(s, u, k)
      <4>1. \A j \in 1..k : s[j] = t[j]
        BY <2>1, <2>4 DEF DiffersAt
      <4>2. \A j \in 1..(k - 1) : s[j] = u[j]
        BY <2>2, <4>1 DEF DiffersAt
      <4>3. k \in 1..Len(u) /\ k <= Len(t) /\ k <= Len(s)
        BY <1>1, <2>1, <2>2, <2>4, SMTT(60) DEF DiffersAt
      <4>4. s[k] < u[k]
        BY <1>1, <2>2, <4>1, <4>3 DEF DiffersAt
      <4> QED
        BY <1>1, <4>2, <4>3, <4>4 DEF DiffersAt
    <3> QED
      BY <3>1, BeforeDiffers
  <2>5. CASE i = k
    <3>1. DiffersAt(s, u, i)
      <4>1. \A j \in 1..(i - 1) : s[j] = u[j]
        BY <2>1, <2>2, <2>5 DEF DiffersAt
      <4>2. i \in 1..Len(u) /\ i \in 1..Len(t) /\ i <= Len(s) + 1 /\ i <= Len(t)
        BY <1>1, <2>1, <2>2, <2>5 DEF DiffersAt
      <4>3. t[i] < u[i]
        BY <1>1, <2>2, <2>5, <4>2 DEF DiffersAt
      <4>4. i <= Len(s) /\ s[i] < t[i] => s[i] < u[i]
        BY <1>1, <4>2, <4>3, SMTT(60)
      <4> QED
        BY <2>1, <4>1, <4>2, <4>4 DEF DiffersAt
    <3> QED
      BY <3>1, BeforeDiffers
  <2> QED
    BY <2>3, <2>4, <2>5
<1>4. ASSUME s # t
      PROVE  TextBefore(s, t) \/ TextBefore(t, s)
  <2> DEFINE Same(j) == j <= Len(s) /\ j <= Len(t) /\ s[j] = t[j]
             D == {j \in Nat : j >= 1 /\ j <= Len(s) + 1 /\ ~Same(j)}
  <2>1. Len(s) + 1 \in D
    BY <1>1
  <2>2. PICK i \in D : \A k \in D : i <= k
    BY <2>1, LeastNat
  <2>3. i \in Nat /\ i >= 1 /\ i <= Len(s) + 1 /\ ~Same(i)
    BY <2>2
  <2>4. ASSUME NEW j \in 1..(i - 1)
        PROVE  Same(j)
    <3>1. j \in Nat /\ j >= 1 /\ j <= Len(s) + 1 /\ j < i
      BY <1>1, <2>3
    <3>2. j \notin D
      BY <2>2, <2>3, <3>1
    <3> QED
      BY <3>1, <3>2
  <2> HIDE DEF D
  <2>5. \A j \in 1..(i - 1) : j <= Len(s) /\ j <= Len(t) /\ s[j] = t[j]
    BY <2>4
  <2>6. i <= Len(s) + 1 /\ i <= Len(t) + 1
    <3>1. CASE i = 1
      BY <1>1, <3>1
    <3>2. CASE i # 1
      <4>1. i - 1 \in 1..(i - 1)
        BY <2>3, <3>2
      <4> QED
        BY <1>1, <2>3, <2>5, <4>1
    <3> QED
      BY <3>1, <3>2
  <2>7. CASE i = Len(s) + 1 /\ i = Len(t) + 1
    <3>1. Len(s) = Len(t) /\ \A j \in 1..Len(s) : s[j] = t[j]
      BY <1>1, <2>5, <2>7
    <3> QED
      BY <1>4, <3>1, SeqEqual
  <2>8. CASE i = Len(s) + 1 /\ i <= Len(t)
    <3>1. DiffersAt(s, t, i)
      BY <1>1, <2>3, <2>5, <2>8 DEF DiffersAt
    <3> QED
      BY <3>1, <2>3, BeforeDiffers
  <2>9. CASE i = Len(t) + 1 /\ i <= Len(s)
    <3>1. DiffersAt(t, s, i)
      BY <1>1, <2>3, <2>5, <2>9 DEF DiffersAt
    <3> QED
      BY <3>1, <2>3, BeforeDiffers
  <2>10. CASE i <= Len(s) /\ i <= Len(t)
    <3>1. s[i] \in Nat /\ t[i] \in Nat /\ s[i] # t[i]
      BY <1>1, <2>3, <2>10
    <3>2. s[i] < t[i] => DiffersAt(s, t, i)
      BY <1>1, <2>3, <2>5, <2>10 DEF DiffersAt
    <3>3. t[i] < s[i] => DiffersAt(t, s, i)
      BY <1>1, <2>3, <2>5, <2>10 DEF DiffersAt
    <3> QED
      BY <2>3, <3>1, <3>2, <3>3, BeforeDiffers
  <2>11. \/ i = Len(s) + 1 /\ i = Len(t) + 1
         \/ i = Len(s) + 1 /\ i <= Len(t)
         \/ i = Len(t) + 1 /\ i <= Len(s)
         \/ i <= Len(s) /\ i <= Len(t)
    BY <1>1, <2>3, <2>6
  <2> QED
    BY <2>7, <2>8, <2>9, <2>10, <2>11
<1> QED
  BY <1>2, <1>3, <1>4

LEMMA NodeFacts ==
    ASSUME BaseInv, NEW n \in DOMAIN chunks
    PROVE  n \in Nat /\ PageOf(n) \in Nat /\ FileOf(n) \in Nat
<1>1. DOMAIN chunks = 1..Len(chunks) /\ Len(chunks) \in Nat /\ blocks \in Seq(Block)
      /\ chunks[n].first \in DOMAIN blocks
  BY ChunkFacts
<1>2. blocks[chunks[n].first] \in Block
  BY <1>1
<1> QED
  BY <1>1, <1>2, SMTT(60) DEF PageOf, FileOf, Block

\* The paths of the page nodes are in a strict total order.
LEMMA PathOrder ==
    ASSUME BaseInv, NEW k \in DOMAIN chunks, NEW m \in DOMAIN chunks, NEW n \in DOMAIN chunks
    PROVE  /\ ~PathBefore(m, m)
           /\ PathBefore(k, m) /\ PathBefore(m, n) => PathBefore(k, n)
           /\ m # n => PathBefore(m, n) \/ PathBefore(n, m)
<1> DEFINE D(i) == Digits[i]
           T(i, j) == TextBefore(D(i), D(j))
<1>1. \A i, j, l \in Nat : /\ ~T(i, i)
                           /\ T(i, j) /\ T(j, l) => T(i, l)
                           /\ i # j => T(i, j) \/ T(j, i)
  <2> TAKE i, j, l \in Nat
  <2>1. D(i) \in Seq(Nat) /\ D(j) \in Seq(Nat) /\ D(l) \in Seq(Nat)
    BY DigitsExist
  <2>2. i # j => D(i) # D(j)
    BY DigitsDiffer
  <2> HIDE DEF D
  <2> QED
    BY <2>1, <2>2, TextOrder
<1>2. /\ k \in Nat /\ m \in Nat /\ n \in Nat
      /\ PageOf(k) \in Nat /\ PageOf(m) \in Nat /\ PageOf(n) \in Nat
  BY NodeFacts
<1>3. \A i, j : PathBefore(i, j) <=> IF PageOf(i) = PageOf(j) THEN T(i, j) ELSE T(PageOf(i), PageOf(j))
  BY DEF PathBefore
<1> HIDE DEF T
<1>4. ~PathBefore(m, m)
  BY <1>1, <1>2, <1>3
<1>5. m # n => PathBefore(m, n) \/ PathBefore(n, m)
  BY <1>1, <1>2, <1>3
<1>6. ASSUME PathBefore(k, m), PathBefore(m, n)
      PROVE  PathBefore(k, n)
  <2> DEFINE a == PageOf(k)
             b == PageOf(m)
             c == PageOf(n)
  <2>1. a \in Nat /\ b \in Nat /\ c \in Nat
    BY <1>2
  <2>2. IF a = b THEN T(k, m) ELSE T(a, b)
    BY <1>3, <1>6
  <2>3. IF b = c THEN T(m, n) ELSE T(b, c)
    BY <1>3, <1>6
  <2>4. (IF a = c THEN T(k, n) ELSE T(a, c)) => PathBefore(k, n)
    BY <1>3
  <2> HIDE DEF a, b, c
  <2>5. CASE a = b /\ b = c
    BY <1>1, <1>2, <2>2, <2>3, <2>4, <2>5
  <2>6. CASE a = b /\ b # c
    BY <2>2, <2>3, <2>4, <2>6
  <2>7. CASE a # b /\ b = c
    BY <2>2, <2>3, <2>4, <2>7
  <2>8. CASE a # b /\ b # c
    <3>1. T(a, b) /\ T(b, c)
      BY <2>2, <2>3, <2>8
    <3>2. T(a, c)
      BY <1>1, <2>1, <3>1
    <3>3. a # c
      BY <1>1, <2>1, <3>2
    <3> QED
      BY <2>4, <3>2, <3>3
  <2> QED
    BY <2>5, <2>6, <2>7, <2>8
<1> QED
  BY <1>4, <1>5, <1>6

\* A node's rank is greater than that of each node before it.
LEMMA RankOrder ==
    ASSUME BaseInv
    PROVE  /\ \A n \in DOMAIN chunks : Rank(n) \in 0..(Len(chunks) - 1)
           /\ \A m, n \in DOMAIN chunks : PathBefore(m, n) => Rank(m) < Rank(n)
           /\ \A m, n \in DOMAIN chunks : Rank(m) = Rank(n) => m = n
<1> DEFINE N == DOMAIN chunks
           R == 0..(Len(chunks) - 1)
           Before(n) == {m \in N : PathBefore(m, n)}
<1>1. N = 1..Len(chunks) /\ Len(chunks) \in Nat
  BY ChunkFacts
<1>2. IsFiniteSet(N) /\ Cardinality(N) = Len(chunks) /\ IsFiniteSet(R) /\ Cardinality(R) = Len(chunks)
  <2>1. \A l \in Nat : /\ IsFiniteSet(1..l) /\ Cardinality(1..l) = l
                       /\ IsFiniteSet(0..(l - 1)) /\ Cardinality(0..(l - 1)) = l
    <3> TAKE l \in Nat
    <3>1. IsFiniteSet(1..l) /\ Cardinality(1..l) = IF 1 > l THEN 0 ELSE l - 1 + 1
      BY FS_Interval
    <3>2. IsFiniteSet(0..(l - 1)) /\ Cardinality(0..(l - 1)) = IF 0 > l - 1 THEN 0 ELSE (l - 1) - 0 + 1
      BY FS_Interval
    <3> QED
      BY <3>1, <3>2
  <2> QED
    BY <1>1, <2>1
<1>3. \A n : Before(n) \in SUBSET N /\ IsFiniteSet(Before(n)) /\ Cardinality(Before(n)) \in Nat
  BY <1>2, FS_Subset, FS_CardinalityType
<1>4. \A n : Rank(n) = Cardinality(Before(n))
  BY DEF Rank
<1>5. ASSUME NEW n \in N
      PROVE  Rank(n) \in R
  <2>1. n \notin Before(n)
    BY PathOrder
  <2>2. Before(n) # N
    BY <2>1
  <2> HIDE DEF Before
  <2>3. Cardinality(Before(n)) <= Len(chunks) /\ Cardinality(Before(n)) # Len(chunks)
    BY <1>2, <1>3, <2>2, FS_Subset
  <2> QED
    BY <1>1, <1>3, <1>4, <2>3
<1>6. ASSUME NEW m \in N, NEW n \in N, PathBefore(m, n)
      PROVE  Rank(m) < Rank(n)
  <2>1. Before(m) \subseteq Before(n)
    <3>1. \A l \in N : PathBefore(l, m) => PathBefore(l, n)
      BY <1>6, PathOrder
    <3> QED
      BY <3>1
  <2>2. m \in Before(n) /\ m \notin Before(m)
    BY <1>6, PathOrder
  <2> HIDE DEF Before
  <2>3. Before(m) # Before(n)
    BY <2>2
  <2>4. Cardinality(Before(m)) <= Cardinality(Before(n)) /\ Cardinality(Before(m)) # Cardinality(Before(n))
    BY <1>3, <2>1, <2>3, FS_Subset
  <2> QED
    BY <1>3, <1>4, <2>4
<1>7. \A m, n \in N : Rank(m) = Rank(n) => m = n
  <2> TAKE m, n \in N
  <2>1. Rank(m) \in Nat /\ Rank(n) \in Nat
    BY <1>3, <1>4
  <2>2. m # n => PathBefore(m, n) \/ PathBefore(n, m)
    BY PathOrder
  <2> QED
    BY <1>6, <2>1, <2>2
<1> QED
  BY <1>5, <1>6, <1>7

\* The ranks of the page nodes are 0, 1, ... up to their number.
LEMMA EveryRank ==
    ASSUME BaseInv, NEW k \in DOMAIN chunks
    PROVE  \E n \in DOMAIN chunks : Rank(n) = k - 1
<1> DEFINE N == DOMAIN chunks
           R == 0..(Len(chunks) - 1)
           f == [n \in N |-> Rank(n)]
<1>1. N = 1..Len(chunks) /\ Len(chunks) \in Nat
  BY ChunkFacts
<1>2. IsFiniteSet(N) /\ Cardinality(N) = Len(chunks) /\ IsFiniteSet(R) /\ Cardinality(R) = Len(chunks)
  <2>1. \A l \in Nat : /\ IsFiniteSet(1..l) /\ Cardinality(1..l) = l
                       /\ IsFiniteSet(0..(l - 1)) /\ Cardinality(0..(l - 1)) = l
    <3> TAKE l \in Nat
    <3>1. IsFiniteSet(1..l) /\ Cardinality(1..l) = IF 1 > l THEN 0 ELSE l - 1 + 1
      BY FS_Interval
    <3>2. IsFiniteSet(0..(l - 1)) /\ Cardinality(0..(l - 1)) = IF 0 > l - 1 THEN 0 ELSE (l - 1) - 0 + 1
      BY FS_Interval
    <3> QED
      BY <3>1, <3>2
  <2> QED
    BY <1>1, <2>1
<1>5. \A n \in N : Rank(n) \in R
  BY RankOrder
<1>7. \A m, n \in N : Rank(m) = Rank(n) => m = n
  BY RankOrder
<1>8. f \in Injection(N, R)
  <2>1. f \in [N -> R] /\ \A m, n \in N : f[m] = f[n] => m = n
    BY <1>5, <1>7
  <2> HIDE DEF f, N, R
  <2> QED
    BY <2>1 DEF Injection, IsInjective
<1>9. f \in Surjection(N, R)
  <2> HIDE DEF f, N, R
  <2> QED
    BY <1>2, <1>8, FS_Injection
<1>10. k - 1 \in R
  BY <1>1
<1>11. \A y \in R : \E n \in N : f[n] = y
  <2> HIDE DEF f, N, R
  <2> QED
    BY <1>9 DEF Surjection
<1>12. \A n \in N : f[n] = Rank(n)
  OBVIOUS
<1> HIDE DEF f, R
<1> QED
  BY <1>10, <1>11, <1>12

\* What a step of the snapshot has to show.
LEMMA SnapshotStep ==
    ASSUME BaseInv, phase \notin {"extract", "chunk"}, phase' \in {"sections", "built"},
           UNCHANGED <<extractVars, chunkVars>>,
           chapters' \in ChapterPlans, order' \in Seq(DOMAIN chunks),
           assigned' \in 0..Len(order'), sections' \in Seq(Section)
    PROVE  BaseInv'
<1>1. PageTypeOK /\ FilesOK /\ ReaderOK /\ BlocksOK /\ PhasesOK /\ ChunksOK
  BY DEF BaseInv, TypeOK
<1>2. /\ files' = files /\ page' = page /\ item' = item /\ used' = used /\ para' = para /\ read' = read
      /\ blocks' = blocks /\ assets' = assets /\ chunks' = chunks /\ buffer' = buffer
  BY DEF extractVars, chunkVars
<1>3. FilesOK' /\ BlocksOK'
  BY <1>1, <1>2 DEF FilesOK, BlocksOK
<1>4. ReaderOK'
  BY <1>1, <1>2 DEF ReaderOK, Reading, Content
<1>5. PhasesOK'
  BY <1>1, <1>2 DEF PhasesOK
<1>6. PageTypeOK'
  <2>1. used' \in IF Reading("docx")' THEN 0..Room(Len(files))' ELSE {0}
    BY <1>1, <1>2 DEF PageTypeOK, Reading, Room
  <2> QED
    BY <1>1, <1>2, <2>1 DEF PageTypeOK
<1>7. TypeOK'
  BY <1>2, <1>6 DEF TypeOK
<1>8. ChunksOK'
  BY <1>1, <1>2 DEF ChunksOK, Divides, Fitting, EndOf, BufferOK, Done
<1> QED
  BY <1>3, <1>4, <1>5, <1>7, <1>8 DEF BaseInv

LEMMA SortKeeps ==
    ASSUME BaseInv, SortPaths
    PROVE  BaseInv' /\ Len(order') = Len(chunks)
<1> DEFINE N == DOMAIN chunks
           rank == [n \in N |-> Rank(n)]
<1>1. /\ phase = "order" /\ chapters' \in ChapterPlans
      /\ order' = [k \in N |-> CHOOSE n \in N : rank[n] = k - 1]
      /\ phase' = "sections" /\ UNCHANGED <<extractVars, chunkVars, assigned, sections>>
  BY DEF SortPaths
<1>2. N = 1..Len(chunks) /\ Len(chunks) \in Nat
  BY ChunkFacts
<1>3. ASSUME NEW k \in N
      PROVE  order'[k] \in N
  <2>1. \E n \in N : rank[n] = k - 1
    BY EveryRank
  <2> HIDE DEF N, rank
  <2> QED
    BY <1>1, <2>1
<1>4. order' \in [N -> N]
  BY <1>1, <1>3
<1>5. order' \in Seq(N) /\ Len(order') = Len(chunks)
  <2> HIDE DEF N
  <2> QED
    BY <1>2, <1>4, SeqDef
<1>6. assigned = 0 /\ sections = <<>>
  BY <1>1 DEF BaseInv, PhasesOK
<1>7. assigned' \in 0..Len(order') /\ sections' \in Seq(Section)
  BY <1>1, <1>2, <1>5, <1>6, EmptySeq
<1> QED
  BY <1>1, <1>5, <1>7, SnapshotStep

LEMMA SectionFacts ==
    ASSUME BaseInv, phase \in {"sections", "built"}
    PROVE  /\ chapters \in ChapterPlans /\ chapters \in Seq(Nat \cup {Elsewhere}) /\ chapters # <<>>
           /\ order \in Seq(DOMAIN chunks) /\ Len(order) \in Nat /\ DOMAIN order = 1..Len(order)
           /\ assigned \in 0..Len(order)
           /\ sections \in Seq(Section) /\ Len(sections) \in Nat /\ DOMAIN sections = 1..Len(sections)
           /\ \A i \in DOMAIN sections : /\ sections[i] \in Section /\ sections[i].nodes \in Seq(Nat)
                                         /\ Len(sections[i].nodes) \in Nat
           /\ \A n \in DOMAIN chunks : /\ n \in Nat
                                       /\ ChapterOf(n) \in ToSet(chapters)
                                       /\ ChapterOf(n) \in Nat \cup {Elsewhere}
<1>1. /\ chapters \in ChapterPlans /\ order \in Seq(DOMAIN chunks) /\ assigned \in 0..Len(order)
      /\ sections \in Seq(Section)
  BY DEF BaseInv, TypeOK, PhasesOK
<1>2. chapters \in Seq(Nat \cup {Elsewhere}) /\ chapters # <<>>
  BY <1>1, PlansAssumption
<1>3. /\ Len(order) \in Nat /\ DOMAIN order = 1..Len(order)
      /\ Len(sections) \in Nat /\ DOMAIN sections = 1..Len(sections)
      /\ \A i \in DOMAIN sections : sections[i] \in Section
  BY <1>1
<1>4. \A i \in DOMAIN sections : sections[i].nodes \in Seq(Nat) /\ Len(sections[i].nodes) \in Nat
  BY <1>3 DEF Section
<1>5. chapters[1] \in ToSet(chapters) /\ ToSet(chapters) \subseteq Nat \cup {Elsewhere}
  BY <1>2 DEF ToSet
<1>6. \A n \in DOMAIN chunks : ChapterOf(n) \in ToSet(chapters)
  BY <1>5 DEF ChapterOf
<1>7. \A n \in DOMAIN chunks : n \in Nat
  BY NodeFacts
<1> QED
  BY <1>1, <1>2, <1>3, <1>4, <1>5, <1>6, <1>7

\* The section that a chapter's next node goes to.
LEMMA CurrentSection ==
    ASSUME BaseInv, phase = "sections", NEW n, SectionsOf(ChapterOf(n)) # {}
    PROVE  /\ Current(n) \in DOMAIN sections /\ sections[Current(n)].chapter = ChapterOf(n)
           /\ \A i \in DOMAIN sections : sections[i].chapter = ChapterOf(n) => i <= Current(n)
<1> DEFINE S == SectionsOf(ChapterOf(n))
<1>1. DOMAIN sections = 1..Len(sections) /\ Len(sections) \in Nat
  BY SectionFacts
<1>2. S \subseteq DOMAIN sections
  BY DEF SectionsOf
<1>3. IsFiniteSet(S) /\ S \in SUBSET Int /\ S # {}
  <2>1. IsFiniteSet(1..Len(sections))
    BY <1>1, FS_Interval
  <2>2. 1..Len(sections) \subseteq Int
    BY <1>1
  <2> HIDE DEF S
  <2>3. IsFiniteSet(S) /\ S \in SUBSET Int
    BY <1>1, <1>2, <2>1, <2>2, FS_Subset
  <2> QED
    BY <2>3 DEF S
<1>4. Max(S) \in S /\ \A i \in S : i <= Max(S)
  <2> HIDE DEF S
  <2> QED
    BY <1>3, MaxOfFinite
<1>5. Current(n) = Max(S)
  BY DEF Current
<1> QED
  BY <1>4, <1>5 DEF SectionsOf

\* The node that a step puts in a section.
LEMMA NodeToAssign ==
    ASSUME BaseInv, phase = "sections", assigned < Len(order)
    PROVE  /\ Node \in DOMAIN chunks /\ Node \in Nat /\ assigned + 1 \in DOMAIN order
           /\ ChapterOf(Node) \in ToSet(chapters) /\ ChapterOf(Node) \in Nat \cup {Elsewhere}
<1>1. /\ order \in Seq(DOMAIN chunks) /\ Len(order) \in Nat /\ DOMAIN order = 1..Len(order) /\ assigned \in 0..Len(order)
      /\ \A n \in DOMAIN chunks : n \in Nat /\ ChapterOf(n) \in ToSet(chapters)
                                  /\ ChapterOf(n) \in Nat \cup {Elsewhere}
  BY SectionFacts
<1>2. assigned + 1 \in DOMAIN order
  BY <1>1
<1>3. Node \in DOMAIN chunks
  BY <1>1, <1>2 DEF Node
<1> QED
  BY <1>1, <1>2, <1>3

LEMMA SectionsKeep ==
    ASSUME BaseInv, OpenSection \/ AddToSection \/ SnapshotBuilt
    PROVE  BaseInv'
<1>1. phase = "sections" /\ phase' \in {"sections", "built"} /\ UNCHANGED <<extractVars, chunkVars, chapters, order>>
  BY DEF OpenSection, AddToSection, SnapshotBuilt, pageVars, snapshotVars
<1>2. /\ chapters \in ChapterPlans /\ order \in Seq(DOMAIN chunks) /\ Len(order) \in Nat /\ assigned \in 0..Len(order)
      /\ sections \in Seq(Section)
      /\ DOMAIN sections = 1..Len(sections) /\ Len(sections) \in Nat
      /\ \A i \in DOMAIN sections : sections[i] \in Section /\ sections[i].nodes \in Seq(Nat)
  BY <1>1, SectionFacts
<1>3. CASE OpenSection
  <2> DEFINE new == [chapter |-> ChapterOf(Node), nodes |-> <<Node>>]
  <2>1. assigned < Len(order) /\ sections' = Append(sections, new) /\ assigned' = assigned + 1
    BY <1>3 DEF OpenSection
  <2>2. Node \in Nat /\ ChapterOf(Node) \in Nat \cup {Elsewhere}
    BY <1>1, <2>1, NodeToAssign
  <2>3. new \in Section
    BY <2>2 DEF Section
  <2> HIDE DEF new
  <2>4. sections' \in Seq(Section)
    BY <1>2, <2>1, <2>3, AppendProperties
  <2> QED
    BY <1>1, <1>2, <2>1, <2>4, SnapshotStep
<1>4. CASE AddToSection
  <2> DEFINE c == Current(Node)
  <2>1. /\ assigned < Len(order) /\ assigned' = assigned + 1 /\ SectionsOf(ChapterOf(Node)) # {}
        /\ sections' = [sections EXCEPT ![c].nodes = Append(@, Node)]
    BY <1>4 DEF AddToSection, NeedsSection
  <2>2. Node \in Nat /\ c \in DOMAIN sections
    BY <1>1, <2>1, NodeToAssign, CurrentSection
  <2>3. sections[c] \in Section /\ sections[c].nodes \in Seq(Nat)
    BY <1>2, <2>2
  <2>4. Append(sections[c].nodes, Node) \in Seq(Nat)
    BY <2>2, <2>3, AppendProperties
  <2>5. [sections[c] EXCEPT !.nodes = Append(sections[c].nodes, Node)] \in Section
    BY <2>3, <2>4 DEF Section
  <2> HIDE DEF c
  <2>6. sections' \in Seq(Section)
    <3>1. sections' = [sections EXCEPT ![c] = [sections[c] EXCEPT !.nodes = Append(sections[c].nodes, Node)]]
      BY <2>1, <2>2
    <3> DEFINE e == [sections[c] EXCEPT !.nodes = Append(sections[c].nodes, Node)]
    <3> HIDE DEF e
    <3>2. sections' = [sections EXCEPT ![c] = e] /\ e \in Section
      BY <2>5, <3>1 DEF e
    <3> QED
      BY <1>2, <2>2, <3>2
  <2> QED
    BY <1>1, <1>2, <2>1, <2>6, SnapshotStep
<1>5. CASE SnapshotBuilt
  <2>1. assigned' = assigned /\ sections' = sections
    BY <1>5 DEF SnapshotBuilt, snapshotVars
  <2> QED
    BY <1>1, <1>2, <2>1, SnapshotStep
<1> QED
  BY <1>3, <1>4, <1>5

-----------------------------------------------------------------------------

LEMMA BaseInit == Init => BaseInv
<1> SUFFICES ASSUME Init
             PROVE  BaseInv
  OBVIOUS
<1>1. /\ phase = "extract" /\ files = <<>> /\ page = 0 /\ item = 0 /\ used = 0 /\ para = 0 /\ read = 0
      /\ blocks = <<>> /\ assets = <<>> /\ chunks = <<>> /\ buffer = NoBuffer
      /\ chapters = <<>> /\ order = <<>> /\ assigned = 0 /\ sections = <<>>
  BY DEF Init, PageInit
<1>2. ~Reading("docx") /\ ~Reading("pdf")
  BY <1>1 DEF Reading
<1>3. PageTypeOK
  <2>1. Len(files) <= MaxFiles /\ read \in 0..MaxItems /\ DOMAIN files = {} /\ used \in {0}
    BY <1>1, LayoutAssumption
  <2>2. blocks \in Seq(Block) /\ chunks \in Seq(Chunk) /\ Len(blocks) = 0
    BY <1>1, EmptySeq
  <2>3. DOMAIN assets = {} /\ Range(assets) = {}
    BY <1>1 DEF Range
  <2>4. buffer \in [first : 0..Len(blocks), last : 0..Len(blocks), len : Nat]
    BY <1>1, <2>2 DEF NoBuffer
  <2> QED
    BY <1>1, <1>2, <2>1, <2>2, <2>3, <2>4 DEF PageTypeOK
<1>4. TypeOK
  <2>1. order \in Seq(DOMAIN chunks) /\ sections \in Seq(Section) /\ Len(order) = 0
    BY <1>1, EmptySeq
  <2> QED
    BY <1>1, <1>3, <2>1 DEF TypeOK
<1>5. FilesOK /\ BlocksOK /\ PhasesOK
  BY <1>1, EmptySeq DEF FilesOK, BlocksOK, PhasesOK
<1>6. ReaderOK
  BY <1>1, <1>2 DEF ReaderOK
<1>7. ChunksOK
  BY <1>1 DEF ChunksOK, Divides, BufferOK, NoBuffer
<1> QED
  BY <1>4, <1>5, <1>6, <1>7 DEF BaseInv

LEMMA BaseStutters ==
    ASSUME BaseInv, UNCHANGED vars
    PROVE  BaseInv'
<1>1. /\ phase' = phase /\ UNCHANGED <<extractVars, chunkVars, snapshotVars>>
  BY DEF vars, pageVars
<1>2. /\ files' = files /\ page' = page /\ item' = item /\ used' = used /\ para' = para /\ read' = read
      /\ blocks' = blocks /\ assets' = assets /\ chunks' = chunks /\ buffer' = buffer
      /\ chapters' = chapters /\ order' = order /\ assigned' = assigned /\ sections' = sections
  BY <1>1 DEF extractVars, chunkVars, snapshotVars
<1>3. PageTypeOK /\ FilesOK /\ ReaderOK /\ BlocksOK /\ PhasesOK /\ ChunksOK /\ TypeOK
  BY DEF BaseInv, TypeOK
<1>4. FilesOK' /\ BlocksOK' /\ PhasesOK'
  BY <1>1, <1>2, <1>3 DEF FilesOK, BlocksOK, PhasesOK
<1>5. ReaderOK'
  BY <1>2, <1>3 DEF ReaderOK, Reading, Content
<1>6. PageTypeOK'
  <2>1. used' \in IF Reading("docx")' THEN 0..Room(Len(files))' ELSE {0}
    BY <1>2, <1>3 DEF PageTypeOK, Reading, Room
  <2> QED
    BY <1>2, <1>3, <2>1 DEF PageTypeOK
<1>7. TypeOK'
  BY <1>1, <1>2, <1>3, <1>6 DEF TypeOK
<1>8. ChunksOK'
  BY <1>1, <1>2, <1>3 DEF ChunksOK, Divides, Fitting, EndOf, BufferOK, Done
<1> QED
  BY <1>4, <1>5, <1>7, <1>8 DEF BaseInv

\* The steps by what they are about.
ExtractSteps ==
    \/ OpenMarkdown
    \/ \E doc \in Docs : OpenDocx(doc)
    \/ \E pdf \in Pdfs, stem \in Stems : OpenPdf(pdf, stem)
    \/ \E len \in Lengths : MarkdownHeading(len) \/ MarkdownText(len)
    \/ MarkdownBlank
    \/ DocxSkips \/ DocxParagraph \/ DocxTable
    \/ PdfTextAndTables \/ PdfImage
    \/ EndOfInput
ChunkSteps == ChunkAlone \/ ChunkStarts \/ ChunkGrows \/ ChunkingEnds

LEMMA StepKinds ==
    Next => \/ ExtractSteps /\ UNCHANGED snapshotVars
            \/ ChunkSteps /\ UNCHANGED snapshotVars
            \/ SortPaths
            \/ OpenSection \/ AddToSection \/ SnapshotBuilt
BY DEF Next, BuildPages, ExtractSteps, ChunkSteps

LEMMA ExtractKeeps ==
    ASSUME BaseInv, ExtractSteps, UNCHANGED snapshotVars
    PROVE  BaseInv' /\ FilesKept /\ Grows(blocks')
<1>1. \/ \/ OpenMarkdown
         \/ \E doc \in Docs : OpenDocx(doc)
         \/ \E pdf \in Pdfs, stem \in Stems : OpenPdf(pdf, stem)
      \/ \/ \E len \in Lengths : MarkdownHeading(len) \/ MarkdownText(len)
         \/ MarkdownBlank
         \/ EndOfInput
      \/ DocxSkips \/ DocxParagraph \/ DocxTable
      \/ PdfTextAndTables \/ PdfImage
  BY DEF ExtractSteps
<1> QED
  BY <1>1, OpensKeep, MarkdownKeeps, DocxKeeps, PdfKeeps

LEMMA BaseNext == BaseInv /\ [Next]_vars => BaseInv'
<1> SUFFICES ASSUME BaseInv, [Next]_vars
             PROVE  BaseInv'
  OBVIOUS
<1>1. CASE UNCHANGED vars
  BY <1>1, BaseStutters
<1>2. CASE ExtractSteps /\ UNCHANGED snapshotVars
  BY <1>2, ExtractKeeps
<1>3. CASE ChunkSteps /\ UNCHANGED snapshotVars
  BY <1>3, ChunkingKeeps DEF ChunkSteps
<1>4. CASE SortPaths
  BY <1>4, SortKeeps
<1>5. CASE OpenSection \/ AddToSection \/ SnapshotBuilt
  BY <1>5, SectionsKeep
<1> QED
  BY <1>1, <1>2, <1>3, <1>4, <1>5, StepKinds

LEMMA BaseAlways == Spec => []BaseInv
<1> QED
  BY BaseInit, BaseNext, PTL DEF Spec

\* Everything that the build reads, makes and numbers stays of its type: no used
\* height beyond the page, no chunk or section of blocks that are not there.
THEOREM TypeCorrect == Spec => []TypeOK
<1>1. BaseInv => TypeOK
  BY DEF BaseInv
<1> QED
  BY <1>1, BaseAlways, PTL

\* Chunking neither loses, repeats nor reorders a block.
THEOREM ChunksPartitionBlocks == Spec => []ChunksPartition
<1>1. BaseInv => ChunksPartition
  <2> SUFFICES ASSUME BaseInv
               PROVE  ChunksPartition
    OBVIOUS
  <2>1. Divides(chunks) /\ BufferOK /\ (phase \notin {"extract", "chunk"} => Done = Len(blocks))
    BY DEF BaseInv, ChunksOK
  <2>2. /\ DOMAIN chunks = 1..Len(chunks) /\ Len(chunks) \in Nat
        /\ EndOf(chunks, Len(chunks)) = (IF chunks = <<>> THEN 0 ELSE chunks[Len(chunks)].last)
    BY ChunkFacts
  <2>3. \A i \in DOMAIN chunks : EndOf(chunks, i - 1) = IF i = 1 THEN 0 ELSE chunks[i - 1].last
    BY <2>2 DEF EndOf
  <2> QED
    BY <2>1, <2>2, <2>3 DEF ChunksPartition, Divides, BufferOK
<1> QED
  BY <1>1, BaseAlways, PTL

\* What stands alone stays alone, and a merged chunk exceeds the limit by at most
\* two characters for each block after its second one.
THEOREM ChunksStayWithinLimit == Spec => []ChunksFit
<1>1. BaseInv => ChunksFit
  BY DEF BaseInv, ChunksOK, Divides, Fitting, ChunksFit
<1> QED
  BY <1>1, BaseAlways, PTL

-----------------------------------------------------------------------------
(* The sections. *)

\* What a step does to the sections.
LEMMA SectionSteps ==
    ASSUME BaseInv, BaseInv', [Next]_vars
    PROVE  \/ sections' = <<>> /\ assigned' = 0
           \/ /\ phase = "sections" /\ (OpenSection \/ AddToSection)
              /\ assigned < Len(order) /\ assigned' = assigned + 1
              /\ UNCHANGED <<chunks, blocks, chapters, order>>
           \/ UNCHANGED <<chunks, blocks, chapters, order, assigned, sections>>
<1>1. CASE UNCHANGED vars
  BY <1>1 DEF vars, pageVars, extractVars, chunkVars, snapshotVars
<1>2. CASE ExtractSteps /\ UNCHANGED snapshotVars
  <2>1. phase = "extract"
    BY <1>2 DEF ExtractSteps, OpenMarkdown, OpenDocx, OpenPdf, Open, MarkdownHeading, MarkdownText, MarkdownBlank,
                MarkdownLine, DocxSkips, DocxParagraph, DocxTable, ReadDocxItem, PdfTextAndTables, PdfImage, EndOfInput
  <2>2. sections = <<>> /\ assigned = 0
    BY <2>1 DEF BaseInv, PhasesOK
  <2> QED
    BY <1>2, <2>2 DEF snapshotVars
<1>3. CASE ChunkSteps /\ UNCHANGED snapshotVars
  <2>1. phase = "chunk"
    BY <1>3 DEF ChunkSteps, ChunkAlone, ChunkStarts, ChunkGrows, ChunkingEnds, Chunking
  <2>2. sections = <<>> /\ assigned = 0
    BY <2>1 DEF BaseInv, PhasesOK
  <2> QED
    BY <1>3, <2>2 DEF snapshotVars
<1>4. CASE SortPaths
  <2>1. phase = "order" /\ sections' = sections /\ assigned' = assigned
    BY <1>4 DEF SortPaths
  <2>2. sections = <<>> /\ assigned = 0
    BY <2>1 DEF BaseInv, PhasesOK
  <2> QED
    BY <2>1, <2>2
<1>5. CASE OpenSection \/ AddToSection
  BY <1>5 DEF OpenSection, AddToSection, pageVars, extractVars, chunkVars
<1>6. CASE SnapshotBuilt
  BY <1>6 DEF SnapshotBuilt, extractVars, chunkVars, snapshotVars
<1> QED
  BY <1>1, <1>2, <1>3, <1>4, <1>5, <1>6, StepKinds

\* What opening a section and adding to one do.
LEMMA OpenedSection ==
    ASSUME BaseInv, phase = "sections", OpenSection
    PROVE  /\ Len(sections') = Len(sections) + 1
           /\ DOMAIN sections' = 1..(Len(sections) + 1)
           /\ \A i \in DOMAIN sections : sections'[i] = sections[i]
           /\ sections'[Len(sections) + 1].chapter = ChapterOf(Node)
           /\ sections'[Len(sections) + 1].nodes = <<Node>>
           /\ NeedsSection(Node)
<1> DEFINE new == [chapter |-> ChapterOf(Node), nodes |-> <<Node>>]
<1>1. assigned < Len(order) /\ sections' = Append(sections, new) /\ NeedsSection(Node)
  BY DEF OpenSection
<1>2. sections \in Seq(Section) /\ DOMAIN sections = 1..Len(sections) /\ Len(sections) \in Nat
  BY SectionFacts
<1>3. new \in Section
  BY <1>1, NodeToAssign DEF Section
<1>4. new.chapter = ChapterOf(Node) /\ new.nodes = <<Node>>
  OBVIOUS
<1> HIDE DEF new
<1>5. /\ sections' \in Seq(Section) /\ Len(sections') = Len(sections) + 1
      /\ \A i \in 1..Len(sections) : sections'[i] = sections[i]
      /\ sections'[Len(sections) + 1] = new
  BY <1>1, <1>2, <1>3, AppendProperties
<1> QED
  BY <1>1, <1>2, <1>4, <1>5

LEMMA AddedToSection ==
    ASSUME BaseInv, phase = "sections", AddToSection
    PROVE  /\ Len(sections') = Len(sections)
           /\ DOMAIN sections' = DOMAIN sections
           /\ Current(Node) \in DOMAIN sections /\ sections[Current(Node)].chapter = ChapterOf(Node)
           /\ \A i \in DOMAIN sections : sections[i].chapter = ChapterOf(Node) => i <= Current(Node)
           /\ \A i \in DOMAIN sections :
                 /\ sections'[i].chapter = sections[i].chapter
                 /\ i # Current(Node) => sections'[i].nodes = sections[i].nodes
                 /\ i = Current(Node) => sections'[i].nodes = Append(sections[i].nodes, Node)
           /\ ~IsHeading(Node)
<1> DEFINE c == Current(Node)
<1>1. /\ SectionsOf(ChapterOf(Node)) # {} /\ ~IsHeading(Node)
      /\ sections' = [sections EXCEPT ![c].nodes = Append(@, Node)]
  BY DEF AddToSection, NeedsSection
<1>2. /\ sections \in Seq(Section) /\ DOMAIN sections = 1..Len(sections) /\ Len(sections) \in Nat
      /\ \A i \in DOMAIN sections : sections[i] \in Section
  BY SectionFacts
<1>3. /\ c \in DOMAIN sections /\ sections[c].chapter = ChapterOf(Node)
      /\ \A i \in DOMAIN sections : sections[i].chapter = ChapterOf(Node) => i <= c
  BY <1>1, CurrentSection
<1> HIDE DEF c
<1>4. DOMAIN sections' = DOMAIN sections
  BY <1>1
<1>5. Len(sections') = Len(sections)
  <2>1. BaseInv' /\ phase' = "sections"
    BY SectionsKeep DEF AddToSection, pageVars
  <2>2. sections' \in Seq(Section)
    BY <2>1 DEF BaseInv, TypeOK
  <2> QED
    BY <1>2, <1>4, <2>2
<1>6. ASSUME NEW i \in DOMAIN sections
      PROVE  /\ sections'[i].chapter = sections[i].chapter
             /\ i # c => sections'[i].nodes = sections[i].nodes
             /\ i = c => sections'[i].nodes = Append(sections[i].nodes, Node)
  <2>1. sections[i] \in [chapter : Nat \cup {Elsewhere}, nodes : Seq(Nat)]
    BY <1>2 DEF Section
  <2>2. CASE i # c
    BY <1>1, <2>2
  <2>3. CASE i = c
    <3>1. sections'[i] = [sections[i] EXCEPT !.nodes = Append(sections[i].nodes, Node)]
      BY <1>1, <1>3, <2>3
    <3> QED
      BY <2>1, <2>3, <3>1
  <2> QED
    BY <2>2, <2>3
<1> QED
  BY <1>1, <1>3, <1>4, <1>5, <1>6 DEF c

\* HeadingsOpenSections, with the first section of a chapter named by what it is.
HeadingsFirst ==
    \A i \in DOMAIN sections :
        /\ sections[i].nodes # <<>>
        /\ \A k \in DOMAIN sections[i].nodes : IsHeading(sections[i].nodes[k]) => k = 1
        /\ \/ IsHeading(sections[i].nodes[1])
           \/ \A j \in DOMAIN sections : sections[j].chapter = sections[i].chapter => i <= j

LEMMA HeadingsFirstNext ==
    ASSUME BaseInv, BaseInv', HeadingsFirst, [Next]_vars
    PROVE  HeadingsFirst'
<1>1. CASE sections' = <<>>
  BY <1>1 DEF HeadingsFirst
<1>2. CASE UNCHANGED <<chunks, blocks, sections>>
  BY <1>2 DEF HeadingsFirst, IsHeading
<1>3. ASSUME phase = "sections", OpenSection \/ AddToSection, UNCHANGED <<chunks, blocks>>, assigned < Len(order)
      PROVE  HeadingsFirst'
  <2>1. \A n : IsHeading(n)' <=> IsHeading(n)
    BY <1>3 DEF IsHeading
  <2>2. /\ DOMAIN sections = 1..Len(sections) /\ Len(sections) \in Nat
        /\ \A i \in DOMAIN sections : sections[i].nodes \in Seq(Nat)
    BY <1>3, SectionFacts
  <2>3. CASE OpenSection
    <3> DEFINE l == Len(sections) + 1
    <3>1. /\ DOMAIN sections' = 1..l
          /\ \A i \in DOMAIN sections : sections'[i] = sections[i]
          /\ sections'[l].chapter = ChapterOf(Node) /\ sections'[l].nodes = <<Node>>
          /\ NeedsSection(Node)
      BY <1>3, <2>3, OpenedSection
    <3>2. ASSUME NEW i \in DOMAIN sections
          PROVE  /\ sections'[i].nodes # <<>>
                 /\ \A k \in DOMAIN sections'[i].nodes : IsHeading(sections'[i].nodes[k]) => k = 1
                 /\ \/ IsHeading(sections'[i].nodes[1])
                    \/ \A j \in DOMAIN sections' : sections'[j].chapter = sections'[i].chapter => i <= j
      <4>1. sections'[i] = sections[i] /\ i <= l
        BY <2>2, <3>1
      <4>2. ASSUME ~IsHeading(sections[i].nodes[1]), NEW j \in DOMAIN sections',
                   sections'[j].chapter = sections'[i].chapter
            PROVE  i <= j
        <5>1. CASE j \in DOMAIN sections
          BY <3>1, <4>1, <4>2, <5>1 DEF HeadingsFirst
        <5>2. CASE j \notin DOMAIN sections
          BY <2>2, <3>1, <4>1, <5>2
        <5> QED
          BY <5>1, <5>2
      <4> QED
        BY <2>1, <4>1, <4>2 DEF HeadingsFirst
    <3>3. /\ sections'[l].nodes # <<>>
          /\ \A k \in DOMAIN sections'[l].nodes : k = 1
          /\ \/ IsHeading(sections'[l].nodes[1])
             \/ \A j \in DOMAIN sections' : sections'[j].chapter = sections'[l].chapter => l <= j
      <4>1. sections'[l].nodes # <<>> /\ DOMAIN sections'[l].nodes = {1} /\ sections'[l].nodes[1] = Node
        BY <3>1
      <4>2. ASSUME ~IsHeading(Node), NEW j \in DOMAIN sections', sections'[j].chapter = ChapterOf(Node)
            PROVE  l <= j
        <5>1. SectionsOf(ChapterOf(Node)) = {}
          BY <3>1, <4>2 DEF NeedsSection
        <5>2. j \notin DOMAIN sections
          BY <3>1, <4>2, <5>1 DEF SectionsOf
        <5> QED
          BY <2>2, <3>1, <5>2
      <4> QED
        BY <2>1, <3>1, <4>1, <4>2
    <3>4. \A i \in DOMAIN sections' : i \in DOMAIN sections \/ i = l
      BY <2>2, <3>1
    <3> HIDE DEF l
    <3> QED
      BY <2>1, <3>2, <3>3, <3>4 DEF HeadingsFirst
  <2>4. CASE AddToSection
    <3>1. /\ DOMAIN sections' = DOMAIN sections
          /\ \A i \in DOMAIN sections :
                /\ sections'[i].chapter = sections[i].chapter
                /\ i # Current(Node) => sections'[i].nodes = sections[i].nodes
                /\ i = Current(Node) => sections'[i].nodes = Append(sections[i].nodes, Node)
          /\ ~IsHeading(Node)
      BY <1>3, <2>4, AddedToSection
    <3>2. Node \in Nat
      BY <1>3, NodeToAssign
    <3>3. ASSUME NEW i \in DOMAIN sections
          PROVE  /\ sections'[i].nodes # <<>>
                 /\ sections'[i].nodes[1] = sections[i].nodes[1]
                 /\ \A k \in DOMAIN sections'[i].nodes : IsHeading(sections'[i].nodes[k]) => k = 1
      <4>1. CASE i # Current(Node)
        BY <3>1, <4>1 DEF HeadingsFirst
      <4>2. CASE i = Current(Node)
        <5> DEFINE s == sections[i].nodes
                   t == Append(s, Node)
        <5>1. s \in Seq(Nat) /\ s # <<>> /\ \A k \in DOMAIN s : IsHeading(s[k]) => k = 1
          BY <2>2 DEF HeadingsFirst
        <5>2. sections'[i].nodes = t
          BY <3>1, <4>2
        <5> HIDE DEF s
        <5>3. /\ t \in Seq(Nat) /\ Len(t) = Len(s) + 1 /\ Len(s) \in Nat /\ Len(s) # 0
              /\ DOMAIN t = 1..Len(t) /\ DOMAIN s = 1..Len(s)
              /\ \A k \in 1..Len(s) : t[k] = s[k]
              /\ t[Len(s) + 1] = Node
          BY <3>2, <5>1, AppendProperties
        <5> HIDE DEF t
        <5>4. t # <<>> /\ t[1] = s[1]
          BY <5>3
        <5>5. ASSUME NEW k \in DOMAIN t, IsHeading(t[k])
              PROVE  k = 1
          <6>1. k # Len(s) + 1
            BY <3>1, <5>3, <5>5
          <6>2. k \in DOMAIN s /\ t[k] = s[k]
            BY <5>3, <6>1
          <6> QED
            BY <5>1, <5>5, <6>2
        <5> QED
          BY <5>2, <5>4, <5>5 DEF s
      <4> QED
        BY <4>1, <4>2
    <3> QED
      BY <2>1, <3>1, <3>3 DEF HeadingsFirst
  <2> QED
    BY <1>3, <2>3, <2>4
<1> QED
  BY <1>1, <1>2, <1>3, SectionSteps

\* A heading is the first node of its section, and only the first section of a
\* chapter may begin with something else.
THEOREM HeadingsBeginSections == Spec => []HeadingsOpenSections
<1>1. Init => HeadingsFirst
  BY DEF Init, HeadingsFirst
<1>2. BaseInv /\ BaseInv' /\ HeadingsFirst /\ [Next]_vars => HeadingsFirst'
  BY HeadingsFirstNext
<1>3. BaseInv /\ HeadingsFirst => HeadingsOpenSections
  <2> SUFFICES ASSUME BaseInv, HeadingsFirst, NEW i \in DOMAIN sections
               PROVE  /\ sections[i].nodes # <<>>
                      /\ \A k \in DOMAIN sections[i].nodes : IsHeading(sections[i].nodes[k]) => k = 1
                      /\ IsHeading(sections[i].nodes[1]) \/ i = Min(SectionsOf(sections[i].chapter))
    BY DEF HeadingsOpenSections
  <2>1. ASSUME \A j \in DOMAIN sections : sections[j].chapter = sections[i].chapter => i <= j
        PROVE  i = Min(SectionsOf(sections[i].chapter))
    <3> DEFINE S == SectionsOf(sections[i].chapter)
    <3>1. sections \in Seq(Section)
      BY DEF BaseInv, TypeOK
    <3>2. DOMAIN sections = 1..Len(sections) /\ Len(sections) \in Nat /\ IsFiniteSet(1..Len(sections))
      BY <3>1, FS_Interval
    <3>3. S \subseteq 1..Len(sections) /\ i \in S /\ \A j \in S : i <= j
      BY <2>1, <3>2 DEF SectionsOf
    <3> HIDE DEF S
    <3>4. IsFiniteSet(S) /\ S \in SUBSET Int /\ S # {} /\ i \in Int
      BY <3>2, <3>3, FS_Subset
    <3>5. Min(S) \in S /\ \A x \in S : Min(S) <= x
      BY <3>4, MinOfFinite
    <3>6. i = Min(S)
      BY <3>3, <3>4, <3>5
    <3> QED
      BY <3>6 DEF S
  <2> QED
    BY <2>1 DEF HeadingsFirst
<1> QED
  BY <1>1, <1>2, <1>3, BaseAlways, PTL DEF Spec

LEMMA FunctionIsSeq ==
    ASSUME NEW S, NEW n \in Nat, NEW f \in [1..n -> S]
    PROVE  f \in Seq(S) /\ Len(f) = n
<1>1. f \in Seq(S)
  BY SeqDef
<1>2. DOMAIN f = 1..n
  OBVIOUS
<1> QED
  BY <1>1, <1>2

LEMMA IsAppend ==
    ASSUME NEW S, NEW s \in Seq(S), NEW e \in S, NEW n, n = Len(s) + 1, NEW t \in [1..n -> S],
           \A i \in 1..n : t[i] = IF i = n THEN e ELSE s[i]
    PROVE  t = Append(s, e)
<1> DEFINE u == Append(s, e)
<1>1. /\ Len(s) \in Nat /\ u \in Seq(S) /\ Len(u) = Len(s) + 1 /\ DOMAIN u = 1..Len(u)
      /\ \A i \in 1..Len(s) : u[i] = s[i]
      /\ u[Len(s) + 1] = e
  BY AppendProperties
<1> HIDE DEF u
<1>2. \A i \in 1..n : t[i] = u[i]
  BY <1>1
<1>3. t \in Seq(S) /\ Len(t) = n
  BY <1>1, FunctionIsSeq
<1>4. t = u
  BY <1>1, <1>2, <1>3, SeqEqual
<1> QED
  BY <1>4 DEF u

\* The two sides of SectionsMatchCoverage before they are put together.
NodesOf(c) == [i \in DOMAIN sections |-> IF sections[i].chapter = c THEN sections[i].nodes ELSE <<>>]
CoveredOf(c) == [k \in 1..assigned |-> IF ChapterOf(order[k]) = c THEN <<order[k]>> ELSE <<>>]

\* What the step's node adds to a chapter.
Added(c) == IF ChapterOf(Node) = c THEN <<Node>> ELSE <<>>

LEMMA SidesType ==
    ASSUME BaseInv, phase \in {"sections", "built"}, NEW c
    PROVE  /\ NodesOf(c) \in Seq(Seq(Nat)) /\ Len(NodesOf(c)) = Len(sections)
           /\ CoveredOf(c) \in Seq(Seq(Nat)) /\ Len(CoveredOf(c)) = assigned
<1>1. /\ DOMAIN sections = 1..Len(sections) /\ Len(sections) \in Nat /\ assigned \in 0..Len(order) /\ Len(order) \in Nat
      /\ DOMAIN order = 1..Len(order) /\ order \in Seq(DOMAIN chunks)
      /\ \A i \in DOMAIN sections : sections[i].nodes \in Seq(Nat)
      /\ \A n \in DOMAIN chunks : n \in Nat
  BY SectionFacts
<1>2. <<>> \in Seq(Nat)
  BY EmptySeq
<1>3. NodesOf(c) \in [1..Len(sections) -> Seq(Nat)]
  BY <1>1, <1>2 DEF NodesOf
<1>4. assigned \in Nat /\ \A k \in 1..assigned : <<order[k]>> \in Seq(Nat)
  <2>1. assigned \in Nat /\ \A k \in 1..assigned : order[k] \in Nat
    BY <1>1
  <2> QED
    BY <2>1
<1>5. CoveredOf(c) \in [1..assigned -> Seq(Nat)]
  BY <1>2, <1>4 DEF CoveredOf
<1> QED
  BY <1>1, <1>3, <1>4, <1>5, FunctionIsSeq

LEMMA CoverageGrows ==
    ASSUME BaseInv, phase = "sections", assigned < Len(order), assigned' = assigned + 1,
           UNCHANGED <<chunks, blocks, chapters, order>>, NEW c
    PROVE  Coverage(c)' = Coverage(c) \o Added(c) /\ Added(c) \in Seq(Nat)
<1>1. CoveredOf(c) \in Seq(Seq(Nat)) /\ Len(CoveredOf(c)) = assigned /\ assigned \in Nat
  BY SidesType, SectionFacts
<1>2. Added(c) \in Seq(Nat)
  BY NodeToAssign, EmptySeq DEF Added
<1> DEFINE s == CoveredOf(c)
           t == [k \in 1..(assigned + 1) |-> IF ChapterOf(order[k]) = c THEN <<order[k]>> ELSE <<>>]
<1>3. \A n : ChapterOf(n)' = ChapterOf(n)
  BY DEF ChapterOf, PageOf
<1>4. Coverage(c)' = FlattenSeq(t)
  BY <1>3 DEF Coverage
<1>5. Coverage(c) = FlattenSeq(s)
  BY DEF Coverage, CoveredOf
<1>6. t = Append(s, Added(c))
  <2>1. s \in Seq(Seq(Nat))
    BY <1>1
  <2>2. \A k \in 1..assigned : s[k] = IF ChapterOf(order[k]) = c THEN <<order[k]>> ELSE <<>>
    BY DEF CoveredOf
  <2>3. Added(c) = IF ChapterOf(order[assigned + 1]) = c THEN <<order[assigned + 1]>> ELSE <<>>
    BY DEF Added, Node
  <2> HIDE DEF s
  <2>4. ASSUME NEW k \in 1..(assigned + 1)
        PROVE  t[k] = IF k = assigned + 1 THEN Added(c) ELSE s[k]
    <3>1. CASE k = assigned + 1
      BY <2>3, <3>1
    <3>2. CASE k # assigned + 1
      <4>1. k \in 1..assigned
        BY <1>1, <3>2
      <4> QED
        BY <2>2, <3>2, <4>1
    <3> QED
      BY <3>1, <3>2
  <2>5. t \in [1..(assigned + 1) -> Seq(Nat)]
    <3>1. \A k \in 1..(assigned + 1) : t[k] \in Seq(Nat)
      <4>1. \A k \in 1..(assigned + 1) : k # assigned + 1 => k \in 1..assigned
        BY <1>1
      <4>2. \A k \in 1..assigned : s[k] \in Seq(Nat)
        BY <1>1, <2>1 DEF s
      <4> HIDE DEF t
      <4> QED
        BY <1>2, <2>4, <4>1, <4>2
    <3> QED
      BY <3>1
  <2>6. Len(s) = assigned
    BY <1>1 DEF s
  <2> HIDE DEF t
  <2> QED
    BY <1>2, <2>1, <2>4, <2>5, <2>6, IsAppend
<1> HIDE DEF s, t
<1>7. FlattenSeq(t) = FlattenSeq(s) \o Added(c)
  BY <1>1, <1>2, <1>6, FlattenAppend DEF s
<1> QED
  BY <1>2, <1>4, <1>5, <1>7

\* The sections of a chapter grow by the same node.
LEMMA NodesGrow ==
    ASSUME BaseInv, phase = "sections", OpenSection \/ AddToSection, NEW c,
           assigned < Len(order), UNCHANGED <<chunks, blocks, chapters, order>>
    PROVE  FlattenSeq(NodesOf(c)') = FlattenSeq(NodesOf(c)) \o Added(c)
<1>1. /\ NodesOf(c) \in Seq(Seq(Nat)) /\ Len(NodesOf(c)) = Len(sections)
      /\ DOMAIN sections = 1..Len(sections) /\ Len(sections) \in Nat
      /\ \A i \in DOMAIN sections : sections[i].nodes \in Seq(Nat)
  BY SidesType, SectionFacts
<1>2. Added(c) \in Seq(Nat) /\ Node \in Nat
  BY NodeToAssign, EmptySeq DEF Added
<1> DEFINE s == NodesOf(c)
           t == NodesOf(c)'
<1>3. t = [i \in DOMAIN sections' |-> IF sections'[i].chapter = c THEN sections'[i].nodes ELSE <<>>]
  BY DEF NodesOf
<1>4. \A i \in DOMAIN sections : s[i] = IF sections[i].chapter = c THEN sections[i].nodes ELSE <<>>
  BY DEF NodesOf
<1>5. CASE OpenSection
  <2> DEFINE l == Len(sections) + 1
  <2>1. /\ DOMAIN sections' = 1..l
        /\ \A i \in DOMAIN sections : sections'[i] = sections[i]
        /\ sections'[l].chapter = ChapterOf(Node) /\ sections'[l].nodes = <<Node>>
    BY <1>5, OpenedSection
  <2>2. t = Append(s, Added(c))
    <3>1. s \in Seq(Seq(Nat))
      BY <1>1
    <3>2. Len(s) = Len(sections)
      BY <1>1
    <3> HIDE DEF s, t
    <3>3. ASSUME NEW i \in 1..l
          PROVE  t[i] = IF i = l THEN Added(c) ELSE s[i]
      <4>1. CASE i = l
        BY <1>3, <2>1, <4>1 DEF Added
      <4>2. CASE i # l
        <5>1. i \in DOMAIN sections
          BY <1>1, <4>2
        <5> QED
          BY <1>3, <1>4, <2>1, <4>2, <5>1
      <4> QED
        BY <4>1, <4>2
    <3>4. t \in [1..l -> Seq(Nat)]
      <4>1. \A i \in 1..l : i # l => i \in 1..Len(sections)
        BY <1>1
      <4>2. \A i \in 1..Len(sections) : s[i] \in Seq(Nat)
        BY <1>1 DEF s
      <4>3. \A i \in 1..l : t[i] \in Seq(Nat)
        BY <1>2, <3>3, <4>1, <4>2
      <4>4. t = [i \in 1..l |-> t[i]]
        BY <1>3, <2>1
      <4> HIDE DEF l
      <4> QED
        BY <4>3, <4>4
    <3> QED
      BY <1>2, <3>1, <3>2, <3>3, <3>4, IsAppend
  <2>3. s \in Seq(Seq(Nat))
    BY <1>1
  <2> HIDE DEF s, t
  <2>4. FlattenSeq(t) = FlattenSeq(s) \o Added(c)
    BY <1>2, <2>2, <2>3, FlattenAppend
  <2> QED
    BY <2>4 DEF s, t
<1>6. CASE AddToSection
  <2> DEFINE j == Current(Node)
  <2>1. /\ DOMAIN sections' = DOMAIN sections
        /\ j \in DOMAIN sections /\ sections[j].chapter = ChapterOf(Node)
        /\ \A i \in DOMAIN sections : sections[i].chapter = ChapterOf(Node) => i <= j
        /\ \A i \in DOMAIN sections :
              /\ sections'[i].chapter = sections[i].chapter
              /\ i # j => sections'[i].nodes = sections[i].nodes
              /\ i = j => sections'[i].nodes = Append(sections[i].nodes, Node)
    BY <1>6, AddedToSection
  <2>2. s \in Seq(Seq(Nat)) /\ Len(s) = Len(sections) /\ DOMAIN s = 1..Len(s) /\ FlattenSeq(s) \in Seq(Nat)
    BY <1>1, FlattenType
  <2> HIDE DEF s, t, j
  <2>3. \A i \in DOMAIN sections : t[i] = IF sections[i].chapter = c THEN sections'[i].nodes ELSE <<>>
    BY <1>3, <2>1
  <2>4. \A i \in DOMAIN sections : i # j => t[i] = s[i]
    BY <1>4, <2>1, <2>3
  <2>5. CASE ChapterOf(Node) # c
    <3>1. t[j] = s[j]
      BY <1>4, <2>1, <2>3, <2>5
    <3>2. \A i \in DOMAIN sections : t[i] = s[i]
      BY <2>4, <3>1
    <3>3. s = [i \in DOMAIN sections |-> s[i]] /\ t = [i \in DOMAIN sections |-> t[i]]
      BY <1>1, <1>3, <2>1, <2>2
    <3>4. t = s
      BY <3>2, <3>3
    <3>5. Added(c) = <<>>
      BY <2>5 DEF Added
    <3>6. FlattenSeq(s) \o <<>> = FlattenSeq(s)
      BY <2>2, ConcatEmptySeq
    <3> QED
      BY <3>4, <3>5, <3>6 DEF s, t
  <2>6. CASE ChapterOf(Node) = c
    <3>1. Added(c) = <<Node>>
      BY <2>6 DEF Added
    <3>2. t[j] = s[j] \o Added(c)
      <4>1. sections[j].nodes \in Seq(Nat) /\ s[j] = sections[j].nodes /\ t[j] = Append(sections[j].nodes, Node)
        BY <1>1, <1>4, <2>1, <2>3, <2>6
      <4>2. Append(sections[j].nodes, Node) = sections[j].nodes \o <<Node>>
        BY <1>2, <4>1, AppendIsConcat
      <4> QED
        BY <3>1, <4>1, <4>2
    <3>3. \A i \in 1..Len(s) : i > j => s[i] = <<>>
      <4>1. ASSUME NEW i \in DOMAIN sections, i > j
            PROVE  sections[i].chapter # c
        <5>1. sections[i].chapter = ChapterOf(Node) => i <= j
          BY <2>1
        <5> QED
          BY <1>1, <2>1, <2>6, <4>1, <5>1
      <4> QED
        BY <1>1, <1>4, <2>2, <4>1
    <3>4. t \in Seq(Seq(Nat)) /\ Len(t) = Len(s)
      <4>1. \A i \in DOMAIN sections : t[i] \in Seq(Nat)
        <5>1. \A i \in DOMAIN sections : s[i] \in Seq(Nat)
          BY <1>1, <2>2
        <5>2. t[j] \in Seq(Nat)
          BY <1>2, <2>1, <3>2, <5>1
        <5> QED
          BY <2>4, <5>1, <5>2
      <4>2. t \in [1..Len(sections) -> Seq(Nat)]
        BY <1>1, <1>3, <2>1, <4>1
      <4> QED
        BY <1>1, <2>2, <4>2, FunctionIsSeq
    <3>5. j \in 1..Len(s) /\ \A i \in 1..Len(s) : i # j => t[i] = s[i]
      BY <1>1, <2>1, <2>2, <2>4
    <3>6. FlattenSeq(t) = FlattenSeq(s) \o Added(c)
      BY <1>2, <2>2, <3>2, <3>3, <3>4, <3>5, FlattenExtend
    <3> QED
      BY <3>6 DEF s, t
  <2> QED
    BY <2>5, <2>6
<1> QED
  BY <1>5, <1>6

LEMMA CoverageNext ==
    ASSUME BaseInv, BaseInv', SectionsMatchCoverage, [Next]_vars
    PROVE  SectionsMatchCoverage'
<1>1. \A c : FlattenSeq(NodesOf(c)) = FlattenSeq([i \in DOMAIN sections |->
                 IF sections[i].chapter = c THEN sections[i].nodes ELSE <<>>])
  BY DEF NodesOf
<1>2. CASE sections' = <<>> /\ assigned' = 0
  <2>1. ASSUME NEW c
        PROVE  FlattenSeq([i \in DOMAIN sections' |->
                 IF sections'[i].chapter = c THEN sections'[i].nodes ELSE <<>>]) = Coverage(c)'
    <3>1. [i \in DOMAIN sections' |-> IF sections'[i].chapter = c THEN sections'[i].nodes ELSE <<>>] = <<>>
      <4>1. DOMAIN sections' = {}
        BY <1>2
      <4> QED
        BY <4>1
    <3>2. [k \in 1..assigned' |-> IF ChapterOf(order[k])' = c THEN <<order'[k]>> ELSE <<>>] = <<>>
      <4>1. 1..assigned' = {}
        BY <1>2
      <4> QED
        BY <4>1
    <3>3. Coverage(c)' = FlattenSeq([k \in 1..assigned' |-> IF ChapterOf(order[k])' = c THEN <<order'[k]>> ELSE <<>>])
      BY DEF Coverage
    <3> QED
      BY <3>1, <3>2, <3>3
  <2> QED
    BY <1>2, <2>1 DEF SectionsMatchCoverage
<1>3. CASE UNCHANGED <<chunks, blocks, chapters, order, assigned, sections>>
  <2>1. \A n : ChapterOf(n)' = ChapterOf(n)
    BY <1>3 DEF ChapterOf, PageOf
  <2>2. \A c : Coverage(c)' = Coverage(c)
    BY <1>3, <2>1 DEF Coverage
  <2> QED
    BY <1>3, <2>2 DEF SectionsMatchCoverage
<1>4. ASSUME phase = "sections", OpenSection \/ AddToSection, assigned < Len(order), assigned' = assigned + 1,
             UNCHANGED <<chunks, blocks, chapters, order>>
      PROVE  SectionsMatchCoverage'
  <2>1. ASSUME NEW c \in ToSet(chapters)
        PROVE  FlattenSeq(NodesOf(c)') = Coverage(c)'
    <3>1. FlattenSeq(NodesOf(c)) = Coverage(c)
      BY <1>1 DEF SectionsMatchCoverage
    <3> QED
      BY <1>4, <3>1, NodesGrow, CoverageGrows
  <2>2. ASSUME NEW i \in DOMAIN sections'
        PROVE  sections'[i].chapter \in ToSet(chapters)
    <3>1. ChapterOf(Node) \in ToSet(chapters) /\ DOMAIN sections = 1..Len(sections) /\ Len(sections) \in Nat
      BY <1>4, NodeToAssign, SectionFacts
    <3>2. CASE OpenSection
      <4>1. /\ DOMAIN sections' = 1..(Len(sections) + 1)
            /\ \A j \in DOMAIN sections : sections'[j] = sections[j]
            /\ sections'[Len(sections) + 1].chapter = ChapterOf(Node)
        BY <1>4, <3>2, OpenedSection
      <4>2. i \in DOMAIN sections \/ i = Len(sections) + 1
        BY <3>1, <4>1
      <4> QED
        BY <3>1, <4>1, <4>2 DEF SectionsMatchCoverage
    <3>3. CASE AddToSection
      BY <1>4, <3>3, AddedToSection DEF SectionsMatchCoverage
    <3> QED
      BY <1>4, <3>2, <3>3
  <2>3. ToSet(chapters') = ToSet(chapters)
    BY <1>4
  <2> QED
    BY <2>1, <2>2, <2>3 DEF SectionsMatchCoverage, NodesOf
<1> QED
  BY <1>2, <1>3, <1>4, SectionSteps

\* The evidence pages of a chapter's sections, one section after the other, are
\* the chapter's coverage, and every section is of a chapter of the caller's.
THEOREM CoverageOfSections == Spec => []SectionsMatchCoverage
<1>1. Init => SectionsMatchCoverage
  <2> SUFFICES ASSUME Init
               PROVE  SectionsMatchCoverage
    OBVIOUS
  <2>1. sections = <<>> /\ assigned = 0 /\ chapters = <<>>
    BY DEF Init
  <2>2. ToSet(chapters) = {} /\ DOMAIN sections = {}
    BY <2>1 DEF ToSet
  <2> QED
    BY <2>2 DEF SectionsMatchCoverage
<1>2. BaseInv /\ BaseInv' /\ SectionsMatchCoverage /\ [Next]_vars => SectionsMatchCoverage'
  BY CoverageNext
<1> QED
  BY <1>1, <1>2, BaseAlways, PTL DEF Spec

-----------------------------------------------------------------------------
(***************************************************************************)
(* Where the page nodes go: the order of their paths names each of them    *)
(* once, each is put in a section of its chapter, and when that order is   *)
(* the order of the document, in the section of the last heading.  The     *)
(* documentation says the last without a condition; the run section_order  *)
(* shows a document whose paths are in another order.                      *)
(***************************************************************************)

\* The k-th path has k - 1 paths before it; all are assigned before the end.
OrderIsSorted == phase \in {"sections", "built"} =>
    /\ Len(order) = Len(chunks) /\ \A k \in DOMAIN order : Rank(order[k]) = k - 1
    /\ phase = "built" => assigned = Len(order)

LEMMA OrderIsSortedNext ==
    ASSUME BaseInv, BaseInv', OrderIsSorted, [Next]_vars
    PROVE  OrderIsSorted'
<1>1. ASSUME UNCHANGED <<chunks, blocks>>
      PROVE  \A n : Rank(n)' = Rank(n)
  BY <1>1 DEF Rank, PathBefore, PageOf
<1>2. CASE UNCHANGED vars
  BY <1>1, <1>2 DEF OrderIsSorted, vars, pageVars, extractVars, chunkVars, snapshotVars
<1>3. CASE ExtractSteps \/ ChunkSteps
  <2>1. phase' \notin {"sections", "built"}
    BY <1>3 DEF ExtractSteps, OpenMarkdown, OpenDocx, OpenPdf, Open, MarkdownHeading, MarkdownText, MarkdownBlank,
                MarkdownLine, DocxSkips, DocxParagraph, DocxTable, ReadDocxItem, PdfTextAndTables, PdfImage,
                EndOfInput, ChunkSteps, ChunkAlone, ChunkStarts, ChunkGrows, ChunkingEnds, Chunking
  <2> QED
    BY <2>1 DEF OrderIsSorted
<1>4. CASE SortPaths
  <2> DEFINE N == DOMAIN chunks
             rank == [n \in N |-> Rank(n)]
  <2>1. /\ order' = [k \in N |-> CHOOSE n \in N : rank[n] = k - 1]
        /\ phase' = "sections" /\ UNCHANGED <<chunks, blocks>>
    BY <1>4 DEF SortPaths, extractVars, chunkVars
  <2>2. Len(order') = Len(chunks) /\ DOMAIN order' = N
    BY <1>4, <2>1, SortKeeps
  <2>3. ASSUME NEW k \in N
        PROVE  Rank(order'[k]) = k - 1
    <3>1. \E n \in N : rank[n] = k - 1
      BY EveryRank
    <3>2. order'[k] \in N /\ rank[order'[k]] = k - 1
      <4> HIDE DEF N, rank
      <4> QED
        BY <2>1, <3>1
    <3> QED
      BY <3>2
  <2>4. \A k \in DOMAIN order' : Rank(order[k])' = k - 1
    <3>1. PICK s : s = order'
      OBVIOUS
    <3>2. \A k \in N : Rank(s[k])' = k - 1
      BY <1>1, <2>1, <2>3, <3>1
    <3> QED
      BY <2>2, <3>1, <3>2 DEF Rank, PathBefore, PageOf
  <2> QED
    BY <2>1, <2>2, <2>4 DEF OrderIsSorted
<1>5. CASE OpenSection \/ AddToSection
  BY <1>1, <1>5 DEF OpenSection, AddToSection, OrderIsSorted, pageVars, extractVars, chunkVars
<1>6. CASE SnapshotBuilt
  BY <1>1, <1>6 DEF SnapshotBuilt, OrderIsSorted, extractVars, chunkVars, snapshotVars
<1> QED
  BY <1>2, <1>3, <1>4, <1>5, <1>6, StepKinds

\* The paths are sorted, and no page node is left out.
NodesSorted == phase \in {"sections", "built"} =>
    /\ \A i, k \in DOMAIN order : i < k => PathBefore(order[i], order[k])
    /\ \A n \in DOMAIN chunks : \E k \in DOMAIN order : order[k] = n

LEMMA SortedByRank ==
    ASSUME BaseInv, OrderIsSorted
    PROVE  NodesSorted
<1> SUFFICES ASSUME phase \in {"sections", "built"}
             PROVE  NodesSorted
  BY DEF NodesSorted
<1>1. /\ order \in Seq(DOMAIN chunks) /\ DOMAIN order = 1..Len(order) /\ Len(order) = Len(chunks)
      /\ \A k \in DOMAIN order : Rank(order[k]) = k - 1
      /\ DOMAIN chunks = 1..Len(chunks) /\ Len(chunks) \in Nat
  BY SectionFacts, ChunkFacts DEF OrderIsSorted
<1>2. \A k \in DOMAIN order : order[k] \in DOMAIN chunks /\ k \in Nat
  BY <1>1
<1>3. ASSUME NEW i \in DOMAIN order, NEW k \in DOMAIN order, i < k
      PROVE  PathBefore(order[i], order[k])
  <2>1. ~(Rank(order[k]) < Rank(order[i])) /\ Rank(order[k]) # Rank(order[i])
    <3>1. Rank(order[i]) = i - 1 /\ Rank(order[k]) = k - 1
      BY <1>1
    <3>2. i \in Nat /\ k \in Nat
      BY <1>2
    <3> QED
      BY <1>3, <3>1, <3>2
  <2>2. ~PathBefore(order[k], order[i]) /\ order[k] # order[i]
    BY <1>2, <2>1, RankOrder
  <2> QED
    BY <1>2, <2>2, PathOrder
<1>4. ASSUME NEW n \in DOMAIN chunks
      PROVE  \E k \in DOMAIN order : order[k] = n
  <2>1. Rank(n) \in 0..(Len(chunks) - 1)
    BY RankOrder
  <2>2. PICK k \in DOMAIN order : k = Rank(n) + 1
    BY <1>1, <2>1, SMTT(60)
  <2>3. Rank(order[k]) = Rank(n)
    BY <1>1, <2>1, <2>2
  <2> QED
    BY <1>2, <2>3, RankOrder
<1> QED
  BY <1>3, <1>4 DEF NodesSorted

LEMMA OrderAlways == Spec => []OrderIsSorted
<1>1. Init => OrderIsSorted
  BY DEF Init, PageInit, OrderIsSorted
<1> QED
  BY <1>1, OrderIsSortedNext, BaseAlways, PTL DEF Spec

\* The page nodes are assigned in the strict order of their paths, every one of
\* them.
THEOREM PathsAreSorted == Spec => []NodesSorted
BY OrderAlways, BaseAlways, SortedByRank, PTL

\* What putting a node in a section does to the others: none leaves its section,
\* and the node is in the last section of its chapter.
LEMMA NodePlaced ==
    ASSUME BaseInv, phase = "sections", assigned < Len(order), OpenSection \/ AddToSection
    PROVE  /\ \A i \in DOMAIN sections : /\ i \in DOMAIN sections'
                                         /\ sections'[i].chapter = sections[i].chapter
                                         /\ ToSet(sections[i].nodes) \subseteq ToSet(sections'[i].nodes)
           /\ \E i \in DOMAIN sections' :
                 /\ Node \in ToSet(sections'[i].nodes) /\ sections'[i].chapter = ChapterOf(Node)
                 /\ \A j \in DOMAIN sections' : sections'[j].chapter = ChapterOf(Node) => j <= i
           /\ ~IsHeading(Node) =>
                 \A j \in DOMAIN sections' : \/ j \in DOMAIN sections
                                             \/ /\ sections'[j].chapter = ChapterOf(Node)
                                                /\ SectionsOf(ChapterOf(Node)) = {}
<1>1. /\ DOMAIN sections = 1..Len(sections) /\ Len(sections) \in Nat /\ Node \in Nat
      /\ \A i \in DOMAIN sections : sections[i].nodes \in Seq(Nat) /\ Len(sections[i].nodes) \in Nat
  BY SectionFacts, NodeToAssign
<1>2. CASE OpenSection
  <2> DEFINE l == Len(sections) + 1
  <2>1. /\ DOMAIN sections' = 1..l
        /\ \A i \in DOMAIN sections : sections'[i] = sections[i]
        /\ sections'[l].chapter = ChapterOf(Node) /\ sections'[l].nodes = <<Node>>
        /\ NeedsSection(Node)
    BY <1>2, OpenedSection
  <2>2. l \in DOMAIN sections' /\ Node \in ToSet(sections'[l].nodes)
        /\ \A j \in DOMAIN sections' : j <= l
    BY <1>1, <2>1 DEF ToSet
  <2>3. \A i \in DOMAIN sections : i \in DOMAIN sections'
    BY <1>1, <2>1
  <2>4. \A j \in DOMAIN sections' : j \in DOMAIN sections \/ j = l
    BY <1>1, <2>1
  <2> HIDE DEF l
  <2>5. ~IsHeading(Node) =>
           \A j \in DOMAIN sections' : \/ j \in DOMAIN sections
                                       \/ /\ sections'[j].chapter = ChapterOf(Node)
                                          /\ SectionsOf(ChapterOf(Node)) = {}
    BY <2>1, <2>4 DEF NeedsSection
  <2>6. \A i \in DOMAIN sections : /\ sections'[i].chapter = sections[i].chapter
                                   /\ ToSet(sections[i].nodes) \subseteq ToSet(sections'[i].nodes)
    BY <2>1
  <2>7. \E i \in DOMAIN sections' :
           /\ Node \in ToSet(sections'[i].nodes) /\ sections'[i].chapter = ChapterOf(Node)
           /\ \A j \in DOMAIN sections' : sections'[j].chapter = ChapterOf(Node) => j <= i
    BY <2>1, <2>2
  <2> QED
    BY <2>3, <2>5, <2>6, <2>7
<1>3. CASE AddToSection
  <2>1. /\ DOMAIN sections' = DOMAIN sections
        /\ Current(Node) \in DOMAIN sections /\ sections[Current(Node)].chapter = ChapterOf(Node)
        /\ \A i \in DOMAIN sections : sections[i].chapter = ChapterOf(Node) => i <= Current(Node)
        /\ \A i \in DOMAIN sections :
              /\ sections'[i].chapter = sections[i].chapter
              /\ i # Current(Node) => sections'[i].nodes = sections[i].nodes
              /\ i = Current(Node) => sections'[i].nodes = Append(sections[i].nodes, Node)
    BY <1>3, AddedToSection
  <2>2. ASSUME NEW s \in Seq(Nat), NEW n \in Nat
        PROVE  ToSet(s) \subseteq ToSet(Append(s, n)) /\ n \in ToSet(Append(s, n))
    <3>1. /\ Append(s, n) \in Seq(Nat) /\ Len(Append(s, n)) = Len(s) + 1 /\ Len(s) \in Nat
          /\ DOMAIN Append(s, n) = 1..(Len(s) + 1) /\ DOMAIN s = 1..Len(s)
          /\ \A k \in 1..Len(s) : Append(s, n)[k] = s[k]
          /\ Append(s, n)[Len(s) + 1] = n
      BY AppendProperties
    <3>2. Len(s) + 1 \in DOMAIN Append(s, n) /\ \A k \in DOMAIN s : k \in DOMAIN Append(s, n)
      BY <3>1
    <3> QED
      BY <3>1, <3>2 DEF ToSet
  <2>3. PICK c \in DOMAIN sections : c = Current(Node)
    BY <2>1
  <2>4. \A i \in DOMAIN sections : ToSet(sections[i].nodes) \subseteq ToSet(sections'[i].nodes)
    BY <1>1, <2>1, <2>2
  <2>5. Node \in ToSet(sections'[c].nodes) /\ sections'[c].chapter = ChapterOf(Node)
    BY <1>1, <2>1, <2>2, <2>3
  <2>6. \A j \in DOMAIN sections' : sections'[j].chapter = ChapterOf(Node) => j <= c
    BY <2>1, <2>3
  <2> QED
    BY <2>1, <2>3, <2>4, <2>5, <2>6
<1> QED
  BY <1>2, <1>3

\* Each node that has been assigned is in a section of its chapter.
AssignedIsPlaced ==
    \A k \in 1..assigned : \E i \in DOMAIN sections :
        order[k] \in ToSet(sections[i].nodes) /\ sections[i].chapter = ChapterOf(order[k])

LEMMA AssignedIsPlacedNext ==
    ASSUME BaseInv, BaseInv', AssignedIsPlaced, [Next]_vars
    PROVE  AssignedIsPlaced'
<1>1. CASE sections' = <<>> /\ assigned' = 0
  BY <1>1 DEF AssignedIsPlaced
<1>2. CASE UNCHANGED <<chunks, blocks, chapters, order, assigned, sections>>
  BY <1>2 DEF AssignedIsPlaced, ChapterOf, PageOf
<1>3. ASSUME phase = "sections", OpenSection \/ AddToSection, assigned < Len(order), assigned' = assigned + 1,
             UNCHANGED <<chunks, blocks, chapters, order>>
      PROVE  AssignedIsPlaced'
  <2>1. \A n : ChapterOf(n)' = ChapterOf(n)
    BY <1>3 DEF ChapterOf, PageOf
  <2>2. assigned \in Nat /\ order[assigned + 1] = Node
    BY <1>3, SectionFacts DEF Node
  <2> SUFFICES ASSUME NEW k \in 1..assigned'
               PROVE  \E i \in DOMAIN sections' :
                         order[k] \in ToSet(sections'[i].nodes) /\ sections'[i].chapter = ChapterOf(order[k])
    BY <1>3, <2>1 DEF AssignedIsPlaced, ChapterOf, PageOf
  <2>3. CASE k \in 1..assigned
    BY <1>3, <2>3, NodePlaced DEF AssignedIsPlaced
  <2>4. CASE k = assigned + 1
    BY <1>3, <2>2, <2>4, NodePlaced
  <2> QED
    BY <1>3, <2>2, <2>3, <2>4
<1> QED
  BY <1>1, <1>2, <1>3, SectionSteps

\* Once the snapshot is built, every page node is in a section of its chapter.
NodesPlaced == phase = "built" =>
    \A n \in DOMAIN chunks : \E i \in DOMAIN sections :
        n \in ToSet(sections[i].nodes) /\ sections[i].chapter = ChapterOf(n)

\* No page node is lost on the way to the sections: once the snapshot is built,
\* each is in a section, and in one of the chapter that its path belongs to.
THEOREM NoNodeIsLost == Spec => []NodesPlaced
<1>1. Init => AssignedIsPlaced
  BY DEF Init, AssignedIsPlaced
<1>2. BaseInv /\ BaseInv' /\ AssignedIsPlaced /\ [Next]_vars => AssignedIsPlaced'
  BY AssignedIsPlacedNext
<1>3. BaseInv /\ OrderIsSorted /\ AssignedIsPlaced => NodesPlaced
  <2> SUFFICES ASSUME BaseInv, OrderIsSorted, AssignedIsPlaced, phase = "built", NEW n \in DOMAIN chunks
               PROVE  \E i \in DOMAIN sections :
                         n \in ToSet(sections[i].nodes) /\ sections[i].chapter = ChapterOf(n)
    BY DEF NodesPlaced
  <2>1. PICK k \in DOMAIN order : order[k] = n
    BY SortedByRank DEF NodesSorted
  <2>2. k \in 1..assigned
    BY SectionFacts DEF OrderIsSorted
  <2> QED
    BY <2>1, <2>2 DEF AssignedIsPlaced
<1> QED
  BY <1>1, <1>2, <1>3, OrderAlways, BaseAlways, PTL DEF Spec

\* The paths are in the order in which the nodes were made.
PathsInOrder == \A m, n \in DOMAIN chunks : m < n => PathBefore(m, n)

\* Labels and page numbers of one digit are in order as texts, if the pages are.
LEMMA SingleDigitsInOrder ==
    ASSUME BaseInv, \A n \in DOMAIN chunks : n < 10 /\ PageOf(n) < 10,
           \A m, n \in DOMAIN chunks : m < n => PageOf(m) <= PageOf(n)
    PROVE  PathsInOrder
<1>1. ASSUME NEW i \in Nat, NEW j \in Nat, i < j, j < 10
      PROVE  TextBefore(Digits[i], Digits[j])
  <2>1. Digits[i] = <<i>> /\ Digits[j] = <<j>>
    BY <1>1, DigitsExist DEF DigitsOf
  <2>2. 1 \in DOMAIN <<i>> \cap DOMAIN <<j>> /\ <<i>>[1] < <<j>>[1] /\ \A l \in 1..(1 - 1) : <<i>>[l] = <<j>>[l]
    BY <1>1
  <2> QED
    BY <2>1, <2>2 DEF TextBefore
<1>2. ASSUME NEW m \in DOMAIN chunks, NEW n \in DOMAIN chunks, m < n
      PROVE  PathBefore(m, n)
  <2>1. m \in Nat /\ n \in Nat /\ PageOf(m) \in Nat /\ PageOf(n) \in Nat
    BY NodeFacts
  <2>2. PageOf(m) # PageOf(n) => PageOf(m) < PageOf(n)
    BY <1>2, <2>1
  <2> QED
    BY <1>1, <1>2, <2>1, <2>2 DEF PathBefore
<1> QED
  BY <1>2 DEF PathsInOrder

LEMMA OrderIsIdentity ==
    ASSUME BaseInv, OrderIsSorted, PathsInOrder, phase \in {"sections", "built"}
    PROVE  \A k \in DOMAIN order : order[k] = k
<1>1. /\ order \in Seq(DOMAIN chunks) /\ DOMAIN order = 1..Len(order) /\ Len(order) = Len(chunks)
      /\ \A k \in DOMAIN order : Rank(order[k]) = k - 1
      /\ DOMAIN chunks = 1..Len(chunks) /\ Len(chunks) \in Nat
  BY SectionFacts, ChunkFacts DEF OrderIsSorted
<1>2. ASSUME NEW n \in DOMAIN chunks
      PROVE  Rank(n) = n - 1
  <2>1. ASSUME NEW m \in DOMAIN chunks
        PROVE  PathBefore(m, n) <=> m < n
    <3>1. m < n => PathBefore(m, n)
      BY DEF PathsInOrder
    <3>2. m = n => ~PathBefore(m, n)
      BY PathOrder
    <3>3. n < m => ~PathBefore(m, n)
      <4>1. n < m => PathBefore(n, m)
        BY DEF PathsInOrder
      <4> QED
        BY <4>1, PathOrder
    <3>4. m \in Nat /\ n \in Nat
      BY <1>1
    <3> QED
      BY <3>1, <3>2, <3>3, <3>4
  <2>2. {m \in DOMAIN chunks : PathBefore(m, n)} = 1..(n - 1)
    <3>1. \A m \in DOMAIN chunks : m < n <=> m \in 1..(n - 1)
      BY <1>1, SMTT(60)
    <3>2. 1..(n - 1) \subseteq DOMAIN chunks
      BY <1>1
    <3> QED
      BY <2>1, <3>1, <3>2
  <2>3. n - 1 \in Nat
    BY <1>1
  <2>4. Cardinality(1..(n - 1)) = n - 1
    <3>1. Cardinality(1..(n - 1)) = IF 1 > n - 1 THEN 0 ELSE (n - 1) - 1 + 1
      BY <2>3, FS_Interval
    <3> QED
      BY <2>3, <3>1
  <2> QED
    BY <2>2, <2>4 DEF Rank
<1>3. \A k \in DOMAIN order : order[k] \in DOMAIN chunks /\ k \in DOMAIN chunks
  BY <1>1
<1> QED
  BY <1>1, <1>2, <1>3, RankOrder

\* The last heading, while no other follows it, is in the last section of its
\* chapter, which is the one that the next node of the chapter goes to.
LastIsOpen ==
    \A h \in 1..assigned : IsHeading(h) /\ (\A k \in (h + 1)..assigned : ~IsHeading(k)) =>
        \E i \in DOMAIN sections :
            /\ h \in ToSet(sections[i].nodes) /\ sections[i].chapter = ChapterOf(h)
            /\ \A j \in DOMAIN sections : sections[j].chapter = ChapterOf(h) => j <= i

Together ==
    \A n \in 1..assigned : \A h \in LastHeading(n) : ChapterOf(h) = ChapterOf(n) =>
        \E i \in DOMAIN sections : {h, n} \subseteq ToSet(sections[i].nodes)

HeadingsFollowed == PathsInOrder => LastIsOpen /\ Together

LEMMA HeadingsFollowedNext ==
    ASSUME BaseInv, BaseInv', OrderIsSorted, HeadingsFollowed, [Next]_vars
    PROVE  HeadingsFollowed'
<1>1. CASE sections' = <<>> /\ assigned' = 0
  BY <1>1 DEF HeadingsFollowed, LastIsOpen, Together
<1>2. CASE UNCHANGED <<chunks, blocks, chapters, order, assigned, sections>>
  BY <1>2 DEF HeadingsFollowed, LastIsOpen, Together, PathsInOrder, PathBefore, LastHeading, ChapterOf, PageOf,
              IsHeading, FileOf
<1>3. ASSUME phase = "sections", OpenSection \/ AddToSection, assigned < Len(order), assigned' = assigned + 1,
             UNCHANGED <<chunks, blocks, chapters, order>>
      PROVE  HeadingsFollowed'
  <2>1. /\ \A n : /\ ChapterOf(n)' = ChapterOf(n) /\ (IsHeading(n)' <=> IsHeading(n))
                  /\ LastHeading(n)' = LastHeading(n)
        /\ PathsInOrder' <=> PathsInOrder
    BY <1>3 DEF ChapterOf, PageOf, IsHeading, LastHeading, FileOf, PathsInOrder, PathBefore
  <2> SUFFICES ASSUME PathsInOrder
               PROVE  LastIsOpen' /\ Together'
    BY <2>1 DEF HeadingsFollowed
  <2>2. LastIsOpen /\ Together /\ assigned \in Nat
    BY <1>3, SectionFacts DEF HeadingsFollowed
  <2>3. Node = assigned + 1
    BY <1>3, OrderIsIdentity, NodeToAssign DEF Node
  <2>4. /\ \A i \in DOMAIN sections : /\ i \in DOMAIN sections'
                                      /\ sections'[i].chapter = sections[i].chapter
                                      /\ ToSet(sections[i].nodes) \subseteq ToSet(sections'[i].nodes)
        /\ ~IsHeading(Node) =>
              \A j \in DOMAIN sections' : \/ j \in DOMAIN sections
                                          \/ /\ sections'[j].chapter = ChapterOf(Node)
                                             /\ SectionsOf(ChapterOf(Node)) = {}
    BY <1>3, NodePlaced
  <2>5. PICK p \in DOMAIN sections' :
           /\ Node \in ToSet(sections'[p].nodes) /\ sections'[p].chapter = ChapterOf(Node)
           /\ \A j \in DOMAIN sections' : sections'[j].chapter = ChapterOf(Node) => j <= p
    BY <1>3, NodePlaced
  <2>6. ASSUME NEW h \in 1..(assigned + 1), IsHeading(h), \A k \in (h + 1)..(assigned + 1) : ~IsHeading(k)
        PROVE  \E i \in DOMAIN sections' :
                  /\ h \in ToSet(sections'[i].nodes) /\ sections'[i].chapter = ChapterOf(h)
                  /\ \A j \in DOMAIN sections' : sections'[j].chapter = ChapterOf(h) => j <= i
    <3>1. CASE h = assigned + 1
      BY <2>3, <2>5, <3>1
    <3>2. CASE h # assigned + 1
      <4>1. h \in 1..assigned /\ ~IsHeading(Node) /\ \A k \in (h + 1)..assigned : ~IsHeading(k)
        BY <2>2, <2>3, <2>6, <3>2
      <4>2. PICK i \in DOMAIN sections :
               /\ h \in ToSet(sections[i].nodes) /\ sections[i].chapter = ChapterOf(h)
               /\ \A j \in DOMAIN sections : sections[j].chapter = ChapterOf(h) => j <= i
        BY <2>2, <2>6, <4>1 DEF LastIsOpen
      <4>3. ASSUME NEW j \in DOMAIN sections', sections'[j].chapter = ChapterOf(h)
            PROVE  j <= i
        <5>1. j \in DOMAIN sections
          BY <2>4, <4>1, <4>2, <4>3 DEF SectionsOf
        <5> QED
          BY <2>4, <4>2, <4>3, <5>1
      <4> QED
        BY <2>4, <4>2, <4>3
    <3> QED
      BY <3>1, <3>2
  <2>7. LastIsOpen'
    BY <1>3, <2>1, <2>6 DEF LastIsOpen
  <2>8. ASSUME NEW n \in 1..(assigned + 1), NEW h \in LastHeading(n), ChapterOf(h) = ChapterOf(n)
        PROVE  \E i \in DOMAIN sections' : {h, n} \subseteq ToSet(sections'[i].nodes)
    <3>1. CASE n \in 1..assigned
      BY <2>2, <2>4, <2>8, <3>1 DEF Together
    <3>2. CASE n = assigned + 1
      <4>1. h \in 1..(assigned + 1) /\ IsHeading(h) /\ \A k \in (h + 1)..(assigned + 1) : ~IsHeading(k)
        BY <2>8, <3>2 DEF LastHeading
      <4>2. PICK i \in DOMAIN sections' :
               /\ h \in ToSet(sections'[i].nodes) /\ sections'[i].chapter = ChapterOf(h)
               /\ \A j \in DOMAIN sections' : sections'[j].chapter = ChapterOf(h) => j <= i
        BY <2>6, <4>1
      <4>3. i <= p /\ p <= i
        BY <2>3, <2>5, <2>8, <3>2, <4>2
      <4>4. i = p
        <5>1. sections' \in Seq(Section)
          BY DEF BaseInv, TypeOK
        <5> QED
          BY <4>3, <5>1
      <4> QED
        BY <2>3, <2>5, <3>2, <4>2, <4>4
    <3> QED
      BY <2>2, <3>1, <3>2
  <2>9. Together'
    BY <1>3, <2>1, <2>8 DEF Together
  <2> QED
    BY <2>7, <2>9
<1> QED
  BY <1>1, <1>2, <1>3, SectionSteps

\* Sections follow the headings of the document whenever its paths, as texts,
\* are in the order of its nodes: a node that comes after a heading of its file
\* and chapter, with no other heading between them, is in that heading's section.
THEOREM SectionsFollowInOrder == Spec => [](PathsInOrder => SectionsFollowHeadings)
<1>1. Init => HeadingsFollowed
  BY DEF Init, HeadingsFollowed, LastIsOpen, Together
<1>2. BaseInv /\ BaseInv' /\ OrderIsSorted /\ HeadingsFollowed /\ [Next]_vars => HeadingsFollowed'
  BY HeadingsFollowedNext
<1>3. BaseInv /\ OrderIsSorted /\ HeadingsFollowed => (PathsInOrder => SectionsFollowHeadings)
  <2> SUFFICES ASSUME BaseInv, OrderIsSorted, Together, phase = "built", NEW n \in DOMAIN chunks,
                      NEW h \in LastHeading(n), ChapterOf(h) = ChapterOf(n)
               PROVE  \E i \in DOMAIN sections : {h, n} \subseteq ToSet(sections[i].nodes)
    BY DEF HeadingsFollowed, SectionsFollowHeadings
  <2>1. n \in 1..assigned
    BY SectionFacts, ChunkFacts DEF OrderIsSorted
  <2> QED
    BY <2>1 DEF Together
<1> QED
  BY <1>1, <1>2, <1>3, OrderAlways, BaseAlways, PTL DEF Spec

-----------------------------------------------------------------------------
(* The blocks of DOCX documents. *)

DocxPlaces == DocxParagraph \/ DocxTable

\* What a step does to the blocks.
LEMMA BlockSteps ==
    ASSUME BaseInv, [Next]_vars
    PROVE  /\ FilesKept /\ Grows(blocks')
           /\ \/ DocxPlaces
              \/ /\ Reading("docx") => blocks' = blocks
                 /\ \/ files' = files /\ (Reading("docx") => page' = page /\ used' = used)
                    \/ Len(files') = Len(files) + 1
<1>1. FilesOK /\ ReaderOK /\ blocks \in Seq(Block) /\ Grows(blocks) /\ para \in Nat
  BY ExtractFacts, SameBlocksGrow
<1>2. ASSUME files' = files, blocks' = blocks, page' = page, used' = used
      PROVE  FilesKept /\ Grows(blocks')
  BY <1>1, <1>2, SameFilesKept
<1>3. Reading("docx") => Flushed = blocks
  <2>1. Reading("docx") => ~Reading("markdown")
    BY DEF Reading
  <2>2. Reading("docx") => para = 0
    BY <1>1, <2>1 DEF ReaderOK
  <2> QED
    BY <2>2 DEF Flushed
<1>4. CASE ExtractSteps /\ UNCHANGED snapshotVars
  <2>1. FilesKept /\ Grows(blocks')
    BY <1>4, ExtractKeeps
  <2>2. CASE \/ OpenMarkdown
             \/ \E doc \in Docs : OpenDocx(doc)
             \/ \E pdf \in Pdfs, stem \in Stems : OpenPdf(pdf, stem)
    <3>1. blocks' = Flushed /\ \E new : files' = Append(files, new)
      BY <2>2 DEF OpenMarkdown, OpenDocx, OpenPdf, Open
    <3>2. Len(files') = Len(files) + 1
      <4>1. PICK new : files' = Append(files, new)
        BY <3>1
      <4> QED
        BY <1>1, <4>1 DEF FilesOK
    <3> QED
      BY <1>3, <2>1, <3>1, <3>2
  <2>3. CASE \/ \E len \in Lengths : MarkdownHeading(len) \/ MarkdownText(len)
             \/ MarkdownBlank
    <3>1. files' = files /\ Reading("markdown")
      BY <2>3 DEF MarkdownHeading, MarkdownText, MarkdownBlank, MarkdownLine
    <3>2. ~Reading("docx")
      BY <3>1 DEF Reading
    <3> QED
      BY <2>1, <3>1, <3>2
  <2>4. CASE DocxSkips
    BY <2>1, <2>4 DEF DocxSkips, ReadDocxItem
  <2>5. CASE DocxParagraph \/ DocxTable
    BY <2>1, <2>5 DEF DocxPlaces
  <2>6. CASE PdfTextAndTables \/ PdfImage
    <3>1. files' = files /\ Reading("pdf")
      BY <2>6 DEF PdfTextAndTables, PdfImage
    <3>2. ~Reading("docx")
      BY <3>1 DEF Reading
    <3> QED
      BY <2>1, <3>1, <3>2
  <2>7. CASE EndOfInput
    BY <1>3, <2>1, <2>7 DEF EndOfInput
  <2> QED
    BY <1>4, <2>2, <2>3, <2>4, <2>5, <2>6, <2>7 DEF ExtractSteps
<1>5. CASE UNCHANGED extractVars
  <2>1. files' = files /\ blocks' = blocks /\ page' = page /\ used' = used
    BY <1>5 DEF extractVars
  <2> QED
    BY <1>2, <2>1
<1>6. UNCHANGED vars \/ ChunkSteps \/ SortPaths \/ OpenSection \/ AddToSection \/ SnapshotBuilt => UNCHANGED extractVars
  BY DEF vars, pageVars, ChunkSteps, ChunkAlone, ChunkStarts, ChunkGrows, ChunkingEnds, SortPaths,
         OpenSection, AddToSection, SnapshotBuilt
<1> QED
  BY <1>4, <1>5, <1>6, StepKinds

\* The block that a DOCX item makes: after height u of page pg, of height h.
LEMMA DocxPlaced ==
    ASSUME BaseInv, DocxPlaces
    PROVE  /\ files' = files /\ Reading("docx")
           /\ Len(blocks') = Len(blocks) + 1
           /\ \A k \in DOMAIN blocks : blocks'[k] = blocks[k]
           /\ blocks'[Len(blocks) + 1].file = Len(files)
           /\ blocks'[Len(blocks) + 1].kind = "heading" =>
                 ~IsTable(DocxItem) /\ HeadingLevel(DocxItem, BodySize(Content)) # 0
           /\ blocks'[Len(blocks) + 1].kind # "image"
           /\ blocks'[Len(blocks) + 1].part = item + 1
           /\ \E pg \in Nat, u \in 0..Room(Len(files)), h \in Nat \ {0} :
                 /\ (pg = page /\ u = used) \/ (pg = page + 1 /\ u = 0)
                 /\ h = IF IsTable(DocxItem) THEN TableHeight(DocxItem, BodySize(Content), UsableWidth(Content))
                        ELSE ParagraphHeight(DocxItem, SizeOf(DocxItem, BodySize(Content)), UsableWidth(Content))
                 /\ blocks'[Len(blocks) + 1].page = StartPage(pg, u, h, Room(Len(files)))
                 /\ page' = EndPage(pg, u, h, Room(Len(files)))
                 /\ used' = UsedAfter(pg, u, h, Room(Len(files)))
<1>1. /\ ReadDocxItem /\ Reading("docx") /\ files' = files /\ blocks \in Seq(Block) /\ page \in Nat /\ item \in Nat
      /\ Len(blocks) \in Nat /\ DOMAIN blocks = 1..Len(blocks) /\ Len(files) \in Nat
  <2>1. ReadDocxItem /\ Reading("docx") /\ files' = files
    BY DEF DocxPlaces, DocxParagraph, DocxTable, ReadDocxItem
  <2>2. blocks \in Seq(Block) /\ page \in Nat /\ item \in Nat /\ Len(blocks) \in Nat /\ FilesOK
    BY ExtractFacts
  <2>3. DOMAIN blocks = 1..Len(blocks)
    BY <2>2
  <2>4. Len(files) \in Nat
    BY <2>2, FileFacts
  <2> QED
    BY <2>1, <2>2, <2>3, <2>4
<1>2. /\ UsableHeight(Content) = Room(Len(files)) /\ Room(Len(files)) \in Nat /\ Room(Len(files)) >= 16000
      /\ used \in 0..Room(Len(files))
  BY <1>1, ReadingDocx
<1> DEFINE body == BodySize(Content)
           room == Room(Len(files))
           n == Len(blocks)
           Placed(kind, len, pg, u, h) ==
               /\ Len(blocks') = n + 1
               /\ \A k \in DOMAIN blocks : blocks'[k] = blocks[k]
               /\ blocks'[n + 1].file = Len(files)
               /\ blocks'[n + 1].kind = kind
               /\ blocks'[n + 1].part = item + 1
               /\ blocks'[n + 1].page = StartPage(pg, u, h, room)
               /\ page' = EndPage(pg, u, h, room)
               /\ used' = UsedAfter(pg, u, h, room)
<1>3. ASSUME NEW kind \in Alone \cup {"paragraph"}, NEW len \in Nat, NEW pg \in Nat, NEW u \in 0..room, NEW h \in Nat \ {0},
             Place(kind, len, pg, u, h)
      PROVE  Placed(kind, len, pg, u, h)
  <2> DEFINE new == NewBlock(StartPage(pg, u, h, room), kind, len, item + 1)
  <2>1. /\ blocks' = Append(blocks, new) /\ page' = EndPage(pg, u, h, room) /\ used' = UsedAfter(pg, u, h, room)
    BY <1>2, <1>3 DEF Place
  <2>2. StartPage(pg, u, h, room) \in Nat
    <3>1. room \in Nat \ {0}
      BY <1>2
    <3> HIDE DEF room
    <3>2. StartPage(pg, u, h, room) \in {pg, pg + 1}
      BY <3>1, AdvancePage
    <3> QED
      BY <3>2
  <2>3. /\ new \in Block /\ new.file = Len(files) /\ new.kind = kind /\ new.part = item + 1
        /\ new.page = StartPage(pg, u, h, room)
    <3>1. item + 1 \in Nat
      BY <1>1
    <3> HIDE DEF room
    <3> QED
      BY <1>1, <2>2, <3>1 DEF NewBlock, Block
  <2> HIDE DEF new, room
  <2>4. /\ Len(blocks') = n + 1 /\ \A k \in DOMAIN blocks : blocks'[k] = blocks[k]
        /\ blocks'[n + 1] = new
    BY <1>1, <2>1, <2>3, AppendProperties
  <2> QED
    BY <2>1, <2>3, <2>4
<1>4. CASE DocxParagraph
  <2> DEFINE kind   == IF HeadingLevel(DocxItem, body) = 0 THEN "paragraph" ELSE "heading"
             height == ParagraphHeight(DocxItem, SizeOf(DocxItem, body), UsableWidth(Content))
             pg     == IF BreaksBefore(DocxItem) THEN page + 1 ELSE page
             u      == IF BreaksBefore(DocxItem) THEN 0 ELSE used
  <2>1. ~IsTable(DocxItem) /\ Place(kind, DocxItem.len, pg, u, height)
    BY <1>4 DEF DocxParagraph
  <2>2. DocxItem.len \in Nat /\ height \in Nat \ {0}
    BY <1>1, <2>1, ItemFacts
  <2>3. kind \in Alone \cup {"paragraph"} /\ pg \in Nat /\ u \in 0..room
    BY <1>1, <1>2 DEF Alone
  <2>4. (kind = "heading" => HeadingLevel(DocxItem, body) # 0) /\ kind # "image"
    OBVIOUS
  <2>5. (pg = page /\ u = used) \/ (pg = page + 1 /\ u = 0)
    OBVIOUS
  <2>6. height = IF IsTable(DocxItem) THEN TableHeight(DocxItem, body, UsableWidth(Content))
                 ELSE ParagraphHeight(DocxItem, SizeOf(DocxItem, body), UsableWidth(Content))
    BY <2>1
  <2> HIDE DEF kind, height, pg, u, room, body
  <2>7. Placed(kind, DocxItem.len, pg, u, height)
    BY <1>3, <2>1, <2>2, <2>3
  <2> QED
    BY <1>1, <2>1, <2>2, <2>3, <2>4, <2>5, <2>6, <2>7 DEF room, body
<1>5. CASE DocxTable
  <2> DEFINE height == TableHeight(DocxItem, body, UsableWidth(Content))
  <2>1. IsTable(DocxItem) /\ Place("table", AnnotationLength, page, used, height)
    BY <1>5 DEF DocxTable
  <2>2. height \in Nat \ {0}
    BY <1>1, <2>1, ItemFacts
  <2>3. "table" \in Alone \cup {"paragraph"} /\ AnnotationLength \in Nat /\ used \in 0..room
    BY <1>2 DEF Alone, AnnotationLength
  <2>4. height = IF IsTable(DocxItem) THEN TableHeight(DocxItem, body, UsableWidth(Content))
                 ELSE ParagraphHeight(DocxItem, SizeOf(DocxItem, body), UsableWidth(Content))
    BY <2>1
  <2> HIDE DEF height, room, body
  <2>5. Placed("table", AnnotationLength, page, used, height)
    BY <1>1, <1>3, <2>1, <2>2, <2>3
  <2> QED
    BY <1>1, <2>2, <2>3, <2>4, <2>5 DEF room, body
<1> QED
  BY <1>4, <1>5 DEF DocxPlaces

\* The block of a DOCX document that a step makes is the block that a DOCX item
\* makes; the others stay, of the files that they were of.
LEMMA DocxBlocksStay ==
    ASSUME BaseInv, BaseInv', [Next]_vars, NEW k \in DOMAIN blocks', files'[blocks'[k].file].format = "docx"
    PROVE  \/ /\ k \in DOMAIN blocks /\ blocks'[k] = blocks[k]
              /\ blocks[k].file \in DOMAIN files /\ files'[blocks[k].file] = files[blocks[k].file]
           \/ DocxPlaces /\ k = Len(blocks) + 1
<1>1. /\ FilesKept /\ Grows(blocks')
      /\ DocxPlaces \/ (Reading("docx") => blocks' = blocks)
  BY BlockSteps
<1>2. /\ blocks \in Seq(Block) /\ Len(blocks) \in Nat /\ DOMAIN blocks = 1..Len(blocks)
      /\ blocks' \in Seq(Block) /\ Len(blocks') \in Nat /\ DOMAIN blocks' = 1..Len(blocks')
      /\ \A i \in DOMAIN blocks : blocks[i].file \in DOMAIN files
      /\ FilesOK /\ DOMAIN files = 1..Len(files) /\ Len(files) \in Nat
  <2>1. blocks \in Seq(Block) /\ blocks' \in Seq(Block) /\ FilesOK
    BY ExtractFacts, <1>1 DEF Grows
  <2>2. /\ Len(blocks) \in Nat /\ DOMAIN blocks = 1..Len(blocks)
        /\ Len(blocks') \in Nat /\ DOMAIN blocks' = 1..Len(blocks')
    BY <2>1
  <2>3. \A i \in DOMAIN blocks : blocks[i].file \in DOMAIN files
    BY DEF BaseInv, BlocksOK
  <2>4. DOMAIN files = 1..Len(files) /\ Len(files) \in Nat
    BY <2>1, FileFacts
  <2> QED
    BY <2>1, <2>2, <2>3, <2>4
<1>3. CASE k \in DOMAIN blocks
  BY <1>1, <1>2, <1>3 DEF Grows, FilesKept
<1>4. CASE k \notin DOMAIN blocks
  <2>1. k \in (Len(blocks) + 1)..Len(blocks') /\ blocks'[k].file = Len(files) /\ Len(files) \in DOMAIN files
    BY <1>1, <1>2, <1>4 DEF Grows
  <2>2. files[Len(files)].format = "docx" /\ files # <<>>
    BY <1>1, <1>2, <2>1 DEF FilesKept
  <2>3. Reading("docx")
    BY <2>2 DEF Reading, Last
  <2>4. DocxPlaces
    BY <1>1, <1>4, <2>3
  <2>5. k = Len(blocks) + 1
    BY <1>2, <2>1, <2>4, DocxPlaced
  <2> QED
    BY <2>4, <2>5
<1> QED
  BY <1>3, <1>4

\* What a block of a DOCX document was made of.
Made(k) == files[blocks[k].file].content.items[blocks[k].part]

\* SizeHeadingsStandOut, by what made the block a heading.
HeadingsAreParagraphs ==
    \A k \in DOMAIN blocks : files[blocks[k].file].format = "docx" /\ blocks[k].kind = "heading" =>
        /\ ~IsTable(Made(k))
        /\ HeadingLevel(Made(k), BodySize(files[blocks[k].file].content)) # 0

LEMMA HeadingsAreParagraphsNext ==
    ASSUME BaseInv, BaseInv', HeadingsAreParagraphs, [Next]_vars
    PROVE  HeadingsAreParagraphs'
<1> SUFFICES ASSUME NEW k \in DOMAIN blocks', files'[blocks'[k].file].format = "docx", blocks'[k].kind = "heading"
             PROVE  /\ ~IsTable(files'[blocks'[k].file].content.items[blocks'[k].part])
                    /\ HeadingLevel(files'[blocks'[k].file].content.items[blocks'[k].part],
                                    BodySize(files'[blocks'[k].file].content)) # 0
  BY DEF HeadingsAreParagraphs, Made
<1>1. CASE /\ k \in DOMAIN blocks /\ blocks'[k] = blocks[k]
           /\ files'[blocks[k].file] = files[blocks[k].file]
  BY <1>1 DEF HeadingsAreParagraphs, Made
<1>2. CASE DocxPlaces /\ k = Len(blocks) + 1
  <2>1. /\ files' = files /\ Reading("docx") /\ blocks'[k].file = Len(files) /\ blocks'[k].part = item + 1
        /\ ~IsTable(DocxItem) /\ HeadingLevel(DocxItem, BodySize(Content)) # 0
    BY <1>2, DocxPlaced
  <2>2. Content = files[Len(files)].content
    BY <2>1, ReadingDocx
  <2> QED
    BY <2>1, <2>2 DEF DocxItem
<1> QED
  BY <1>1, <1>2, DocxBlocksStay

\* A paragraph that its size alone makes a heading is at least 1.3 times as large
\* as a quarter of its document's sized paragraphs.
THEOREM HeadingsStandOut == Spec => []SizeHeadingsStandOut
<1>1. Init => HeadingsAreParagraphs
  BY DEF Init, PageInit, HeadingsAreParagraphs
<1>2. BaseInv /\ BaseInv' /\ HeadingsAreParagraphs /\ [Next]_vars => HeadingsAreParagraphs'
  BY HeadingsAreParagraphsNext
<1>3. BaseInv /\ HeadingsAreParagraphs => SizeHeadingsStandOut
  <2> SUFFICES ASSUME BaseInv, HeadingsAreParagraphs, NEW f \in DOMAIN files, NEW k \in DocxBlocks(f),
                      blocks[k].kind = "heading",
                      files[f].content.items[blocks[k].part].level = <<>>
               PROVE  4 * Cardinality({i \in DOMAIN Sizes(files[f].content) :
                          13 * Sizes(files[f].content)[i]
                             <= 10 * LargestSize(files[f].content.items[blocks[k].part])})
                        >= Len(Sizes(files[f].content))
    BY DEF SizeHeadingsStandOut
  <2> DEFINE doc   == files[f].content
             made  == doc.items[blocks[k].part]
             sizes == Sizes(doc)
             body  == BodySize(doc)
             below == {i \in DOMAIN sizes : 13 * sizes[i] <= 10 * LargestSize(made)}
  <2>1. k \in DOMAIN blocks /\ blocks[k].file = f /\ files[f].format = "docx"
    BY DEF DocxBlocks
  <2>2. FilesOK /\ BlocksOK
    BY DEF BaseInv
  <2>3. doc \in Document
    BY <2>1, <2>2, DocxFile
  <2>4. blocks[k].part \in DOMAIN doc.items
    BY <2>1, <2>2 DEF BlocksOK
  <2>5. ~IsTable(made) /\ HeadingLevel(made, body) # 0
    BY <2>1 DEF HeadingsAreParagraphs, Made
  <2>6. made \in Paragraph
    BY <2>3, <2>4, <2>5, ItemKinds
  <2>7. body \in Nat /\ body > 0
    BY <2>3, BodySizeType
  <2>8. LargestSize(made) \in Nat
    BY <2>6, LargestSizeType
  <2>9. made.level = <<>>
    OBVIOUS
  <2>10. 10 * LargestSize(made) >= 13 * body
    <3> HIDE DEF made, body
    <3> QED
      BY <2>5, <2>6, <2>7, <2>9, HeadingIsLarge
  <2>11. sizes \in Seq(Nat \ {0}) /\ body = BodySizeOf(sizes)
    BY <2>3, SizesType DEF BodySize
  <2> HIDE DEF made, body, sizes, doc
  <2>12. 4 * Cardinality(UpTo(sizes, body)) >= Len(sizes)
    BY <2>11, BodySizeBounds
  <2>13. UpTo(sizes, body) \subseteq below /\ below \in SUBSET DOMAIN sizes
    <3>1. \A i \in DOMAIN sizes : sizes[i] \in Nat
      BY <2>11
    <3>2. ASSUME NEW i \in DOMAIN sizes, sizes[i] <= body
          PROVE  13 * sizes[i] <= 10 * LargestSize(made)
      BY <2>7, <2>8, <2>10, <3>1, <3>2
    <3> QED
      BY <3>2 DEF UpTo
  <2> HIDE DEF below
  <2>14. /\ Cardinality(UpTo(sizes, body)) \in Nat /\ Cardinality(below) \in Nat /\ Len(sizes) \in Nat
         /\ Cardinality(UpTo(sizes, body)) <= Cardinality(below)
    <3>1. \A P \in SUBSET DOMAIN sizes :
              /\ IsFiniteSet(P) /\ Cardinality(P) \in 0..Len(sizes)
              /\ \A Q \in SUBSET P : Cardinality(Q) <= Cardinality(P)
      BY <2>11, PositionsFinite
    <3>2. UpTo(sizes, body) \in SUBSET DOMAIN sizes /\ UpTo(sizes, body) \in SUBSET below
      BY <2>13
    <3> QED
      BY <2>11, <2>13, <3>1, <3>2
  <2>15. 4 * Cardinality(below) >= Len(sizes)
    BY <2>12, <2>14
  <2> QED
    BY <2>15 DEF below, sizes, doc, made
<1> QED
  BY <1>1, <1>2, <1>3, BaseAlways, PTL DEF Spec

-----------------------------------------------------------------------------
(* The pages of DOCX documents. *)

\* How high a block is.
LEMMA HeightType ==
    ASSUME BaseInv, NEW k \in DOMAIN blocks, files[blocks[k].file].format = "docx"
    PROVE  HeightOf(k) \in Nat \ {0}
<1> DEFINE doc  == files[blocks[k].file].content
           made == doc.items[blocks[k].part]
           body == BodySize(doc)
           wide == UsableWidth(doc)
<1>1. FilesOK /\ BlocksOK
  BY DEF BaseInv
<1>2. blocks[k].file \in DOMAIN files
  BY <1>1 DEF BlocksOK
<1>3. doc \in Document
  BY <1>1, <1>2, DocxFile
<1>4. blocks[k].part \in DOMAIN doc.items
  BY <1>1 DEF BlocksOK
<1>5. body \in Nat /\ wide \in Nat
  BY <1>3, BodySizeType, UsablePage
<1>6. (IsTable(made) => made \in Table) /\ (~IsTable(made) => made \in Paragraph)
  BY <1>3, <1>4, ItemKinds
<1>7. HeightOf(k) = IF IsTable(made) THEN TableHeight(made, body, wide)
                    ELSE ParagraphHeight(made, SizeOf(made, body), wide)
  BY DEF HeightOf
<1> HIDE DEF doc, made, body, wide
<1>8. CASE IsTable(made)
  <2>1. TableHeight(made, body, wide) \in Nat /\ TableHeight(made, body, wide) >= 800
    BY <1>5, <1>6, <1>8, TableHeightType
  <2> QED
    BY <1>7, <1>8, <2>1
<1>9. CASE ~IsTable(made)
  <2>1. SizeOf(made, body) \in Nat
    BY <1>5, <1>6, <1>9, SizeOfType
  <2>2. ParagraphHeight(made, SizeOf(made, body), wide) \in Nat /\ ParagraphHeight(made, SizeOf(made, body), wide) >= 400
    BY <1>5, <1>6, <1>9, <2>1, ParagraphHeightType
  <2> QED
    BY <1>7, <1>9, <2>2
<1> QED
  BY <1>8, <1>9

\* The heights of a run of blocks, with and without its last one.
LEMMA HeightsAdd ==
    ASSUME NEW j \in Nat, NEW k \in Nat, j <= k, \A i \in j..k : HeightOf(i) \in Nat
    PROVE  /\ HeightsOf(j..k) \in Nat
           /\ HeightsOf(j..(k - 1)) \in Nat
           /\ HeightsOf(j..k) = HeightsOf(j..(k - 1)) + HeightOf(k)
<1> DEFINE S == j..k
           T == j..(k - 1)
           f == [i \in S |-> HeightOf(i)]
           g == [i \in T |-> HeightOf(i)]
<1>1. IsFiniteSet(S) /\ IsFiniteSet(T)
  BY FS_Interval
<1>2. T = S \ {k} /\ k \in S
  OBVIOUS
<1>3. (\A i \in S : f[i] \in Nat /\ f[i] = HeightOf(i)) /\ (\A i \in T : g[i] \in Nat /\ g[i] = HeightOf(i))
  BY <1>2
<1>h. HeightsOf(S) = SumFunctionOnSet(f, S) /\ HeightsOf(T) = SumFunctionOnSet(g, T)
  BY DEF HeightsOf
<1> HIDE DEF S, T, f, g
<1>4. \A i \in S : f[i] \in Int
  BY <1>3
<1>5. SumFunctionOnSet(f, S) = f[k] + SumFunctionOnSet(f, S \ {k})
  BY <1>1, <1>2, <1>4, SumRemove
<1>6. SumFunctionOnSet(f, T) = SumFunctionOnSet(g, T)
  <2>1. \A i \in T : g[i] \in Int /\ f[i] = g[i]
    BY <1>2, <1>3
  <2> QED
    BY <1>1, <2>1, SumAgrees
<1>7. SumFunctionOnSet(f, S) \in Nat /\ SumFunctionOnSet(g, T) \in Nat
  BY <1>1, <1>3, SumOfNats
<1>8. HeightsOf(S) = HeightsOf(T) + HeightOf(k) /\ HeightsOf(S) \in Nat /\ HeightsOf(T) \in Nat
  <2>1. f[k] = HeightOf(k) /\ f[k] \in Nat
    BY <1>2, <1>3
  <2> QED
    BY <1>2, <1>5, <1>6, <1>7, <1>h, <2>1
<1> QED
  BY <1>8 DEF S, T

\* What is placed on the pages from q on, after H was: it ends within them, and
\* H is within the pages before the one where it starts, or both are within that.
LEMMA PlacedWithin ==
    ASSUME NEW p \in Nat, NEW q \in Nat, q <= p, NEW room \in Nat \ {0}, NEW v \in 0..room,
           NEW H \in Nat, H <= (p - q) * room + v,
           NEW pg \in Nat, NEW u \in 0..room, NEW h \in Nat \ {0},
           (pg = p /\ u = v) \/ (pg = p + 1 /\ u = 0)
    PROVE  /\ StartPage(pg, u, h, room) \in Nat /\ EndPage(pg, u, h, room) \in Nat
           /\ q <= StartPage(pg, u, h, room) /\ q <= EndPage(pg, u, h, room)
           /\ \/ H <= (StartPage(pg, u, h, room) - q) * room
              \/ H + h <= (StartPage(pg, u, h, room) - q + 1) * room
           /\ H + h <= (EndPage(pg, u, h, room) - q) * room + UsedAfter(pg, u, h, room)
<1> DEFINE s == StartPage(pg, u, h, room)
           e == EndPage(pg, u, h, room)
           a == UsedAfter(pg, u, h, room)
           F == Filled(pg, u, h, room)
<1>1. /\ s \in {pg, pg + 1} /\ F \in Nat \ {0} /\ e \in Nat /\ e >= s /\ a \in 1..room
      /\ (e - s) * room + a = F
  <2>1. /\ s \in {pg, pg + 1} /\ F \in Nat \ {0}
    BY AdvancePage
  <2>2. e \in Nat /\ e >= s /\ a \in 1..room
    BY AdvancePage
  <2>3. (e - s) * room + a = F
    BY AdvancePage
  <2> HIDE DEF s, e, a, F
  <2> QED
    BY <2>1, <2>2, <2>3
<1>2. /\ F = IF s = pg THEN u + h ELSE h
      /\ s = pg => u < room /\ (u = 0 \/ u + h <= room)
  BY DEF StartPage, Filled
<1> HIDE DEF s, e, a, F
<1>3. s \in Nat /\ q <= s /\ q <= e
  BY <1>1
<1>d. \A x, y, z \in Nat : z <= x /\ x <= y => (y - z) * room = (y - x) * room + (x - z) * room
  OBVIOUS
<1>s. \A x \in Nat : (x + 1) * room = x * room + room /\ x * room \in Nat
  OBVIOUS
<1>4. (e - q) * room = (e - s) * room + (s - q) * room
  BY <1>1, <1>3, <1>d
<1>5. p - q \in Nat /\ s - q \in Nat /\ e - s \in Nat /\ (p - q) * room \in Nat
      /\ (s - q) * room \in Nat /\ (e - s) * room \in Nat /\ (e - q) * room \in Nat
  <2>1. p - q \in Nat /\ s - q \in Nat /\ e - s \in Nat /\ e - q \in Nat
    BY <1>1, <1>3
  <2> QED
    BY <2>1, <1>s
<1>6. CASE s = p
  <2>1. pg = p /\ u = v /\ F = u + h /\ u < room /\ (u = 0 \/ u + h <= room)
    BY <1>1, <1>2, <1>6
  <2>2. (s - q) * room = (p - q) * room /\ (s - q + 1) * room = (p - q) * room + room
    BY <1>5, <1>6, <1>s
  <2>3. H <= (s - q) * room \/ H + h <= (s - q + 1) * room
    BY <1>5, <2>1, <2>2
  <2>4. H + h <= (e - q) * room + a
    BY <1>1, <1>4, <1>5, <2>1, <2>2
  <2> QED
    BY <1>1, <1>3, <2>3, <2>4 DEF s, e, a
<1>7. CASE s # p
  <2>1. s >= p + 1 /\ F = h
    <3>1. CASE pg = p
      BY <1>1, <1>2, <1>7, <3>1
    <3>2. CASE pg = p + 1 /\ u = 0
      BY <1>1, <1>2, <3>2
    <3> QED
      BY <3>1, <3>2
  <2>2. H <= (s - q) * room
    <3>1. (s - q) * room = (s - (p + 1)) * room + ((p + 1) - q) * room
      BY <1>3, <1>d, <2>1
    <3>2. (s - (p + 1)) * room \in Nat
      BY <1>3, <1>s, <2>1
    <3>3. ((p + 1) - q) * room = (p - q) * room + room
      <4>1. (p + 1) - q = (p - q) + 1
        OBVIOUS
      <4> QED
        BY <1>5, <1>s, <4>1
    <3> QED
      BY <1>5, <3>1, <3>2, <3>3
  <2>3. H + h <= (e - q) * room + a
    BY <1>1, <1>4, <1>5, <2>1, <2>2
  <2> QED
    BY <1>1, <1>3, <2>2, <2>3 DEF s, e, a
<1> QED
  BY <1>6, <1>7

\* Blocks keep their heights.
LEMMA HeightsStay ==
    ASSUME BaseInv, [Next]_vars, NEW S, S \subseteq DOMAIN blocks
    PROVE  HeightsOf(S)' = HeightsOf(S)
<1>1. FilesKept /\ Grows(blocks') /\ blocks \in Seq(Block)
  BY BlockSteps, ExtractFacts
<1>2. ASSUME NEW k \in S
      PROVE  HeightOf(k)' = HeightOf(k)
  <2>1. k \in DOMAIN blocks /\ DOMAIN blocks = 1..Len(blocks) /\ Len(blocks) \in Nat
    BY <1>1
  <2>2. blocks'[k] = blocks[k] /\ blocks[k].file \in DOMAIN files
    BY <1>1, <2>1 DEF Grows, BaseInv, BlocksOK
  <2>3. files'[blocks'[k].file] = files[blocks[k].file]
    BY <1>1, <2>2 DEF FilesKept
  <2> QED
    BY <2>2, <2>3 DEF HeightOf
<1>3. [k \in S |-> HeightOf(k)'] = [k \in S |-> HeightOf(k)]
  BY <1>2
<1> QED
  BY <1>3 DEF HeightsOf

\* The numbers in a block.
LEMMA BlockNumbers ==
    ASSUME BaseInv, NEW k \in DOMAIN blocks
    PROVE  /\ blocks[k] \in Block
           /\ blocks[k].file \in 1..Len(files) /\ blocks[k].page \in Nat /\ blocks[k].part \in Nat
           /\ Len(files) \in Nat
<1>1. blocks \in Seq(Block) /\ FilesOK /\ BlocksOK
  BY ExtractFacts DEF BaseInv
<1>2. blocks[k] \in Block
  BY <1>1
<1>3. blocks[k].page \in Nat /\ blocks[k].part \in Nat
  BY <1>2 DEF Block
<1>4. blocks[k].file \in 1..Len(files) /\ Len(files) \in Nat
  BY <1>1, FileFacts DEF BlocksOK
<1> QED
  BY <1>2, <1>3, <1>4

\* The heights of a run of blocks of a DOCX document add up.
RunsAddUp ==
    \A j, k \in DOMAIN blocks :
        j <= k /\ blocks[j].file = blocks[k].file /\ files[blocks[j].file].format = "docx" =>
            /\ HeightOf(k) \in Nat \ {0}
            /\ HeightsOf(j..k) \in Nat /\ HeightsOf(j..(k - 1)) \in Nat
            /\ HeightsOf(j..k) = HeightsOf(j..(k - 1)) + HeightOf(k)
            /\ j = k => HeightsOf(j..k) = HeightOf(k)

LEMMA RunsAdd == BaseInv => RunsAddUp
<1> SUFFICES ASSUME BaseInv, NEW j \in DOMAIN blocks, NEW k \in DOMAIN blocks, j <= k,
                    blocks[j].file = blocks[k].file, files[blocks[j].file].format = "docx"
             PROVE  /\ HeightOf(k) \in Nat \ {0}
                    /\ HeightsOf(j..k) \in Nat /\ HeightsOf(j..(k - 1)) \in Nat
                    /\ HeightsOf(j..k) = HeightsOf(j..(k - 1)) + HeightOf(k)
                    /\ j = k => HeightsOf(j..k) = HeightOf(k)
  BY DEF RunsAddUp
<1>1. blocks \in Seq(Block) /\ BlocksOK /\ FilesOK
  BY ExtractFacts DEF BaseInv
<1>2. DOMAIN blocks = 1..Len(blocks) /\ Len(blocks) \in Nat /\ j \in Nat /\ k \in Nat
  BY <1>1
<1>3. ASSUME NEW i \in j..k
      PROVE  HeightOf(i) \in Nat \ {0}
  <2>1. i \in DOMAIN blocks /\ (i = j \/ j < i) /\ (i = k \/ i < k)
    BY <1>2
  <2>2. blocks[i].file \in Nat /\ blocks[j].file \in Nat
    BY <2>1, BlockNumbers
  <2>3. blocks[j].file <= blocks[i].file /\ blocks[i].file <= blocks[k].file
    BY <1>1, <2>1, <2>2 DEF BlocksOK
  <2>4. blocks[i].file = blocks[j].file
    BY <2>2, <2>3
  <2> QED
    BY <2>1, <2>4, HeightType
<1>4. /\ HeightsOf(j..k) \in Nat /\ HeightsOf(j..(k - 1)) \in Nat
      /\ HeightsOf(j..k) = HeightsOf(j..(k - 1)) + HeightOf(k)
  <2>1. \A i \in j..k : HeightOf(i) \in Nat
    BY <1>3
  <2> QED
    BY <1>2, <2>1, HeightsAdd
<1>5. HeightOf(k) \in Nat \ {0}
  BY <1>2, <1>3
<1>6. HeightsOf({}) = 0
  BY SumEmpty DEF HeightsOf
<1>7. ASSUME j = k
      PROVE  HeightsOf(j..k) = HeightOf(k)
  <2>1. j..(k - 1) = {}
    BY <1>2, <1>7
  <2>2. HeightsOf(j..(k - 1)) = 0
    BY <1>6, <2>1
  <2> QED
    BY <1>4, <1>5, <2>2
<1> QED
  BY <1>4, <1>5, <1>7

LEMMA RunsAddLater == BaseInv' => RunsAddUp'
BY RunsAdd, PTL

\* How much of the pages reached the blocks of the DOCX document fill.
PagesHoldSoFar == Reading("docx") =>
    \A j \in DOMAIN blocks : blocks[j].file = Len(files) =>
        /\ blocks[j].page <= page
        /\ HeightsOf(j..Len(blocks)) <= (page - blocks[j].page) * Room(Len(files)) + used

\* The block that a step places, and an earlier one of its document.
LEMMA PlacedAfter ==
    ASSUME BaseInv, BaseInv', PagesHoldSoFar, [Next]_vars, DocxPlaces,
           NEW n \in Nat, n = Len(blocks), NEW j \in 1..n, blocks[j].file = Len(files)
    PROVE  /\ blocks[j].page <= page'
           /\ HeightsOf(j..(n + 1))' <= (page' - blocks[j].page) * Room(Len(files)) + used'
           /\ \/ HeightsOf(j..n)' <= (blocks'[n + 1].page - blocks[j].page) * Room(Len(files))
              \/ HeightsOf(j..(n + 1))' <= (blocks'[n + 1].page - blocks[j].page + 1) * Room(Len(files))
<1>1. /\ blocks \in Seq(Block) /\ DOMAIN blocks = 1..n /\ page \in Nat
      /\ Len(blocks') = n + 1 /\ files' = files /\ Reading("docx") /\ blocks'[j] = blocks[j]
      /\ blocks'[n + 1].file = Len(files) /\ blocks'[n + 1].part = item + 1
      /\ Content = files[Len(files)].content /\ files[Len(files)].format = "docx"
      /\ Room(Len(files)) \in Nat \ {0} /\ used \in 0..Room(Len(files))
  <2>1. blocks \in Seq(Block) /\ page \in Nat
    BY ExtractFacts
  <2>2. DOMAIN blocks = 1..n
    BY <2>1
  <2>3. /\ Len(blocks') = n + 1 /\ files' = files /\ Reading("docx") /\ blocks'[j] = blocks[j]
        /\ blocks'[n + 1].file = Len(files) /\ blocks'[n + 1].part = item + 1
    BY <2>2, DocxPlaced
  <2>4. /\ Content = files[Len(files)].content /\ files[Len(files)].format = "docx"
        /\ Room(Len(files)) \in Nat \ {0} /\ used \in 0..Room(Len(files))
    BY <2>3, ReadingDocx
  <2> QED
    BY <2>1, <2>2, <2>3, <2>4
<1> DEFINE room == Room(Len(files))
           height == IF IsTable(DocxItem) THEN TableHeight(DocxItem, BodySize(Content), UsableWidth(Content))
                     ELSE ParagraphHeight(DocxItem, SizeOf(DocxItem, BodySize(Content)), UsableWidth(Content))
<1>2. PICK pg \in Nat, u \in 0..room, h \in Nat \ {0} :
         /\ (pg = page /\ u = used) \/ (pg = page + 1 /\ u = 0)
         /\ h = height
         /\ blocks'[n + 1].page = StartPage(pg, u, h, room)
         /\ page' = EndPage(pg, u, h, room)
         /\ used' = UsedAfter(pg, u, h, room)
  BY DocxPlaced
<1>3. HeightOf(n + 1)' = h
  BY <1>1, <1>2 DEF HeightOf, DocxItem
<1> HIDE DEF height
<1>4. blocks' \in Seq(Block) /\ DOMAIN blocks' = 1..(n + 1)
  <2>1. blocks' \in Seq(Block)
    BY BlockSteps DEF Grows
  <2> QED
    BY <1>1, <2>1
<1>5. HeightsOf(j..(n + 1))' = HeightsOf(j..n) + h /\ HeightsOf(j..n)' = HeightsOf(j..n) /\ HeightsOf(j..n) \in Nat
  <2>1. RunsAddUp /\ RunsAddUp'
    BY RunsAdd, RunsAddLater
  <2>2. HeightsOf(j..n) \in Nat
    <3>1. n \in 1..n /\ j <= n /\ n >= 1
      OBVIOUS
    <3>2. blocks[n].file \in Nat /\ blocks[j].file \in Nat /\ Len(files) \in Nat
      BY <1>1, <3>1, BlockNumbers
    <3>3. blocks[n].file \in 1..Len(files) /\ (j < n => blocks[j].file <= blocks[n].file)
      BY <1>1, <3>1, ExtractFacts, FileFacts DEF BaseInv, BlocksOK
    <3>4. blocks[j].file = blocks[n].file
      BY <3>1, <3>2, <3>3
    <3> QED
      BY <1>1, <2>1, <3>1, <3>4 DEF RunsAddUp
  <2>3. HeightsOf(j..n)' = HeightsOf(j..n)
    <3>1. j..n \subseteq DOMAIN blocks
      BY <1>1
    <3> QED
      BY <3>1, HeightsStay
  <2>4. HeightsOf(j..(n + 1))' = HeightsOf(j..((n + 1) - 1))' + HeightOf(n + 1)'
    <3>1. j \in 1..(n + 1) /\ n + 1 \in 1..(n + 1) /\ j <= n + 1
      OBVIOUS
    <3>2. blocks'[j].file = blocks'[n + 1].file /\ files'[blocks'[j].file].format = "docx"
      BY <1>1
    <3> QED
      BY <1>4, <2>1, <3>1, <3>2 DEF RunsAddUp
  <2>5. (n + 1) - 1 = n
    OBVIOUS
  <2> QED
    BY <1>3, <2>2, <2>3, <2>4, <2>5
<1>6. blocks[j].page \in Nat /\ blocks[j].page <= page /\ HeightsOf(j..n) <= (page - blocks[j].page) * room + used
  <2>1. blocks[j].page \in Nat
    BY <1>1, BlockNumbers
  <2> QED
    BY <1>1, <2>1 DEF PagesHoldSoFar
<1> DEFINE q == blocks[j].page
           H == HeightsOf(j..n)
<1>7. /\ q <= EndPage(pg, u, h, room)
      /\ \/ H <= (StartPage(pg, u, h, room) - q) * room
         \/ H + h <= (StartPage(pg, u, h, room) - q + 1) * room
      /\ H + h <= (EndPage(pg, u, h, room) - q) * room + UsedAfter(pg, u, h, room)
  <2>1. /\ q \in Nat /\ q <= page /\ H <= (page - q) * room + used /\ H \in Nat
        /\ page \in Nat /\ room \in Nat \ {0} /\ used \in 0..room
        /\ (pg = page /\ u = used) \/ (pg = page + 1 /\ u = 0)
    BY <1>1, <1>2, <1>5, <1>6
  <2> HIDE DEF q, H, room
  <2> QED
    BY <2>1, PlacedWithin
<1> QED
  BY <1>2, <1>5, <1>7

\* It fills what it is placed on.
LEMMA PlacedAlone ==
    ASSUME BaseInv, BaseInv', [Next]_vars, DocxPlaces, NEW n \in Nat, n = Len(blocks)
    PROVE  /\ blocks'[n + 1].page <= page'
           /\ HeightsOf((n + 1)..(n + 1))' <= (page' - blocks'[n + 1].page) * Room(Len(files)) + used'
<1>1. /\ Reading("docx") /\ page \in Nat /\ files' = files /\ Len(blocks') = n + 1
      /\ blocks'[n + 1].file = Len(files) /\ blocks'[n + 1].part = item + 1
  BY DocxPlaced, ExtractFacts
<1>2. /\ Room(Len(files)) \in Nat \ {0} /\ used \in 0..Room(Len(files))
      /\ Content = files[Len(files)].content /\ files[Len(files)].format = "docx"
  BY <1>1, ReadingDocx
<1> DEFINE room == Room(Len(files))
           height == IF IsTable(DocxItem) THEN TableHeight(DocxItem, BodySize(Content), UsableWidth(Content))
                     ELSE ParagraphHeight(DocxItem, SizeOf(DocxItem, BodySize(Content)), UsableWidth(Content))
<1>3. PICK pg \in Nat, u \in 0..room, h \in Nat \ {0} :
         /\ (pg = page /\ u = used) \/ (pg = page + 1 /\ u = 0)
         /\ h = height
         /\ blocks'[n + 1].page = StartPage(pg, u, h, room)
         /\ page' = EndPage(pg, u, h, room)
         /\ used' = UsedAfter(pg, u, h, room)
  BY DocxPlaced
<1>4. HeightOf(n + 1)' = h
  BY <1>1, <1>2, <1>3 DEF HeightOf, DocxItem
<1> HIDE DEF height
<1>5. HeightsOf((n + 1)..(n + 1))' = h
  <2>1. RunsAddUp'
    BY RunsAddLater
  <2>2. blocks' \in Seq(Block)
    BY BlockSteps DEF Grows
  <2>3. n + 1 \in DOMAIN blocks' /\ n + 1 <= n + 1
    BY <1>1, <2>2
  <2>4. files'[blocks'[n + 1].file].format = "docx"
    BY <1>1, <1>2
  <2>5. HeightsOf((n + 1)..(n + 1))' = HeightOf(n + 1)'
    BY <2>1, <2>3, <2>4 DEF RunsAddUp
  <2> QED
    BY <1>4, <2>5
<1>6. /\ StartPage(pg, u, h, room) <= EndPage(pg, u, h, room)
      /\ h <= (EndPage(pg, u, h, room) - StartPage(pg, u, h, room)) * room + UsedAfter(pg, u, h, room)
  <2>1. room \in Nat \ {0}
    BY <1>2
  <2> HIDE DEF room
  <2>2. /\ StartPage(pg, u, h, room) <= EndPage(pg, u, h, room)
        /\ (EndPage(pg, u, h, room) - StartPage(pg, u, h, room)) * room + UsedAfter(pg, u, h, room)
              = Filled(pg, u, h, room)
    <3>1. /\ StartPage(pg, u, h, room) \in {pg, pg + 1} /\ EndPage(pg, u, h, room) \in Nat
          /\ EndPage(pg, u, h, room) >= StartPage(pg, u, h, room)
      BY <2>1, AdvancePage
    <3>2. (EndPage(pg, u, h, room) - StartPage(pg, u, h, room)) * room + UsedAfter(pg, u, h, room)
              = Filled(pg, u, h, room)
      BY <2>1, AdvancePage
    <3> QED
      BY <3>1, <3>2
  <2>3. Filled(pg, u, h, room) >= h
    BY DEF Filled
  <2> QED
    BY <2>2, <2>3
<1> QED
  BY <1>3, <1>5, <1>6

LEMMA PagesSoFarNext ==
    ASSUME BaseInv, BaseInv', PagesHoldSoFar, [Next]_vars
    PROVE  PagesHoldSoFar'
<1>1. /\ FilesKept /\ Grows(blocks')
      /\ \/ DocxPlaces
         \/ /\ Reading("docx") => blocks' = blocks
            /\ \/ files' = files /\ (Reading("docx") => page' = page /\ used' = used)
               \/ Len(files') = Len(files) + 1
  BY BlockSteps
<1>2. blocks \in Seq(Block) /\ DOMAIN blocks = 1..Len(blocks) /\ Len(blocks) \in Nat /\ FilesOK /\ Len(files) \in Nat
  <2>1. blocks \in Seq(Block) /\ FilesOK
    BY ExtractFacts
  <2>2. DOMAIN blocks = 1..Len(blocks) /\ Len(blocks) \in Nat
    BY <2>1
  <2>3. Len(files) \in Nat
    BY <2>1, FileFacts
  <2> QED
    BY <2>1, <2>2, <2>3
<1>3. CASE DocxPlaces
  <2>1. /\ files' = files /\ Reading("docx") /\ Reading("docx")' /\ Room(Len(files))' = Room(Len(files))
        /\ Len(blocks') = Len(blocks) + 1 /\ \A k \in DOMAIN blocks : blocks'[k] = blocks[k]
    BY <1>3, DocxPlaced, SameReading
  <2>2. PICK n \in Nat : n = Len(blocks)
    BY <1>2
  <2>3. DOMAIN blocks' = 1..(n + 1)
    BY <1>1, <2>1, <2>2 DEF Grows
  <2> SUFFICES ASSUME NEW j \in 1..(n + 1), blocks'[j].file = Len(files)
               PROVE  /\ blocks'[j].page <= page'
                      /\ HeightsOf(j..(n + 1))' <= (page' - blocks'[j].page) * Room(Len(files)) + used'
    BY <2>1, <2>2, <2>3 DEF PagesHoldSoFar
  <2>4. CASE j \in 1..n
    <3>1. blocks'[j] = blocks[j]
      BY <1>2, <2>1, <2>2, <2>4
    <3> QED
      BY <1>3, <2>2, <2>4, <3>1, PlacedAfter
  <2>5. CASE j = n + 1
    BY <1>3, <2>2, <2>5, PlacedAlone
  <2> QED
    BY <2>4, <2>5
<1>4. CASE ~DocxPlaces /\ files' = files
  <2>1. Reading("docx")' = Reading("docx") /\ Room(Len(files))' = Room(Len(files))
    BY <1>4, SameReading
  <2> SUFFICES ASSUME Reading("docx"), NEW j \in DOMAIN blocks', blocks'[j].file = Len(files)
               PROVE  /\ blocks'[j].page <= page'
                      /\ HeightsOf(j..Len(blocks))' <= (page' - blocks'[j].page) * Room(Len(files))' + used'
    BY <1>4, <2>1 DEF PagesHoldSoFar
  <2>2. blocks' = blocks /\ page' = page /\ used' = used
    BY <1>1, <1>2, <1>4
  <2>3. HeightsOf(j..Len(blocks))' = HeightsOf(j..Len(blocks))
    <3>1. PICK n \in Nat : n = Len(blocks)
      BY <1>2
    <3>2. j..n \subseteq DOMAIN blocks
      BY <1>2, <2>2, <3>1
    <3>3. HeightsOf(j..n)' = HeightsOf(j..n)
      BY <3>2, HeightsStay
    <3> QED
      BY <2>2, <3>1, <3>3
  <2> QED
    BY <2>1, <2>2, <2>3 DEF PagesHoldSoFar
<1>5. CASE ~DocxPlaces /\ Len(files') = Len(files) + 1
  <2> SUFFICES ASSUME Reading("docx")', NEW j \in DOMAIN blocks', blocks'[j].file = Len(files')
               PROVE  FALSE
    BY DEF PagesHoldSoFar
  <2>1. files'[blocks'[j].file].format = "docx"
    BY DEF Reading, Last
  <2>2. j \in DOMAIN blocks /\ blocks'[j] = blocks[j] /\ blocks[j].file \in 1..Len(files)
    BY <1>2, <1>5, <2>1, DocxBlocksStay, BlockNumbers
  <2> QED
    BY <1>2, <1>5, <2>2
<1> QED
  BY <1>1, <1>3, <1>4, <1>5

LEMMA PagesHoldNext ==
    ASSUME BaseInv, BaseInv', PagesHoldSoFar, PagesHoldBlocks, [Next]_vars
    PROVE  PagesHoldBlocks'
<1> SUFFICES ASSUME NEW f \in DOMAIN files', NEW j \in DOMAIN blocks', NEW k \in DOMAIN blocks', j < k,
                    blocks'[j].file = f, blocks'[k].file = f, files'[f].format = "docx"
             PROVE  \/ HeightsOf(j..(k - 1))' <= (blocks'[k].page - blocks'[j].page) * Room(f)'
                    \/ HeightsOf(j..k)' <= (blocks'[k].page - blocks'[j].page + 1) * Room(f)'
  BY DEF PagesHoldBlocks, DocxBlocks
<1>1. /\ blocks \in Seq(Block) /\ DOMAIN blocks = 1..Len(blocks) /\ Len(blocks) \in Nat
      /\ blocks' \in Seq(Block) /\ DOMAIN blocks' = 1..Len(blocks') /\ Len(blocks') \in Nat
      /\ FilesOK /\ \A i \in DOMAIN blocks : blocks'[i] = blocks[i]
  <2>1. blocks \in Seq(Block) /\ FilesOK /\ blocks' \in Seq(Block) /\ Grows(blocks')
    BY ExtractFacts, BlockSteps DEF Grows
  <2>2. /\ DOMAIN blocks = 1..Len(blocks) /\ Len(blocks) \in Nat
        /\ DOMAIN blocks' = 1..Len(blocks') /\ Len(blocks') \in Nat
    BY <2>1
  <2> QED
    BY <2>1, <2>2 DEF Grows
<1>2. CASE /\ k \in DOMAIN blocks /\ blocks[k].file \in DOMAIN files
           /\ files'[blocks[k].file] = files[blocks[k].file]
  <2>1. j \in DOMAIN blocks /\ blocks'[j] = blocks[j] /\ blocks'[k] = blocks[k]
    BY <1>1, <1>2
  <2>2. f \in DOMAIN files /\ files'[f] = files[f]
    BY <1>2, <2>1
  <2>3. j \in DocxBlocks(f) /\ k \in DocxBlocks(f) /\ Room(f)' = Room(f)
    BY <1>2, <2>1, <2>2 DEF DocxBlocks, Room
  <2>4. HeightsOf(j..k)' = HeightsOf(j..k) /\ HeightsOf(j..(k - 1))' = HeightsOf(j..(k - 1))
    <3>1. j..k \subseteq DOMAIN blocks /\ j..(k - 1) \subseteq DOMAIN blocks
      BY <1>1, <1>2, <2>1
    <3> QED
      BY <3>1, HeightsStay
  <2>5. \/ HeightsOf(j..(k - 1)) <= (blocks[k].page - blocks[j].page) * Room(f)
        \/ HeightsOf(j..k) <= (blocks[k].page - blocks[j].page + 1) * Room(f)
    BY <2>2, <2>3 DEF PagesHoldBlocks
  <2> QED
    BY <2>1, <2>3, <2>4, <2>5
<1>3. CASE DocxPlaces /\ k = Len(blocks) + 1
  <2>1. PICK n \in Nat : n = Len(blocks)
    BY <1>1
  <2>2. k = n + 1 /\ k - 1 = n /\ j \in 1..n /\ blocks'[j] = blocks[j]
    BY <1>1, <1>3, <2>1
  <2>3. f = Len(files) /\ Room(Len(files))' = Room(Len(files)) /\ files' = files
    <3>1. files' = files /\ blocks'[k].file = Len(files)
      BY <1>3, DocxPlaced
    <3> QED
      BY <3>1, SameReading
  <2>4. Room(f)' = Room(Len(files))
    BY <2>3 DEF Room
  <2>5. \/ HeightsOf(j..n)' <= (blocks'[n + 1].page - blocks[j].page) * Room(Len(files))
        \/ HeightsOf(j..(n + 1))' <= (blocks'[n + 1].page - blocks[j].page + 1) * Room(Len(files))
    BY <1>3, <2>1, <2>2, <2>3, PlacedAfter
  <2> QED
    BY <2>2, <2>4, <2>5
<1> QED
  BY <1>2, <1>3, DocxBlocksStay

\* The page numbers of a DOCX document leave room for its text: the pages from
\* the one where a block starts hold the blocks after it, page breaks or not.
THEOREM PagesHoldTheirBlocks == Spec => []PagesHoldBlocks
<1>1. Init => PagesHoldSoFar /\ PagesHoldBlocks
  <2> SUFFICES ASSUME Init
               PROVE  PagesHoldSoFar /\ PagesHoldBlocks
    OBVIOUS
  <2>1. files = <<>> /\ blocks = <<>>
    BY DEF Init, PageInit
  <2>2. DOMAIN files = {}
    BY <2>1
  <2> QED
    BY <2>1, <2>2 DEF PagesHoldSoFar, PagesHoldBlocks, Reading
<1>2. BaseInv /\ BaseInv' /\ PagesHoldSoFar /\ PagesHoldBlocks /\ [Next]_vars => PagesHoldSoFar' /\ PagesHoldBlocks'
  BY PagesSoFarNext, PagesHoldNext
<1> QED
  BY <1>1, <1>2, BaseAlways, PTL DEF Spec

-----------------------------------------------------------------------------
(* The image files. *)

\* Every image in b is an image in blocks.
NoNewImage(b) == \A k \in DOMAIN b : b[k].kind = "image" => k \in DOMAIN blocks /\ b[k] = blocks[k]

LEMMA AppendNoImage ==
    ASSUME NEW b \in Seq(Block), NoNewImage(b), NEW x \in Block, x.kind # "image"
    PROVE  NoNewImage(Append(b, x))
<1>1. /\ Len(b) \in Nat /\ DOMAIN b = 1..Len(b) /\ DOMAIN Append(b, x) = 1..(Len(b) + 1)
      /\ \A i \in 1..Len(b) : Append(b, x)[i] = b[i]
      /\ Append(b, x)[Len(b) + 1] = x
  BY AppendProperties
<1> SUFFICES ASSUME NEW k \in 1..(Len(b) + 1), Append(b, x)[k].kind = "image"
             PROVE  k \in DOMAIN blocks /\ Append(b, x)[k] = blocks[k]
  BY <1>1 DEF NoNewImage
<1>2. k # Len(b) + 1
  BY <1>1
<1>3. k \in 1..Len(b)
  BY <1>1, <1>2
<1> QED
  BY <1>1, <1>3 DEF NoNewImage

LEMMA FlushNoImage ==
    ASSUME BaseInv
    PROVE  NoNewImage(blocks) /\ NoNewImage(Flushed)
<1>1. NoNewImage(blocks)
  BY DEF NoNewImage
<1>2. CASE para = 0
  BY <1>1, <1>2 DEF Flushed
<1>3. CASE para # 0
  <2> DEFINE x == NewBlock(page + 1, "paragraph", para, 0)
  <2>1. x \in Block /\ x.kind # "image"
    <3>1. page \in Nat /\ para \in Nat /\ FilesOK
      BY ExtractFacts
    <3>2. page + 1 \in Nat /\ "paragraph" \in Alone \cup {"paragraph"} /\ 0 \in Nat
      BY <3>1
    <3>3. x \in Block
      BY <3>1, <3>2, NewBlockType
    <3>4. x.kind = "paragraph"
      BY DEF NewBlock
    <3> QED
      BY <3>3, <3>4
  <2>2. Flushed = Append(blocks, x)
    BY <1>3 DEF Flushed
  <2> HIDE DEF x
  <2> QED
    BY <1>1, <2>1, <2>2, ExtractFacts, AppendNoImage
<1> QED
  BY <1>1, <1>2, <1>3

\* What a step does to the images: it adds one, or goes on reading, or neither.
LEMMA ImageSteps ==
    ASSUME BaseInv, [Next]_vars
    PROVE  \/ PdfImage /\ item + 1 \in UsableImages(Sheet)
           \/ /\ assets' = assets /\ NoNewImage(blocks')
              /\ \/ files' = files /\ (Reading("pdf") => page' = page /\ item' = item)
                 \/ PdfImage /\ files' = files /\ page' = page /\ item' = item + 1
                 \/ files' = files /\ page' = page + 1
                 \/ Len(files') = Len(files) + 1
<1>1. FilesOK /\ blocks \in Seq(Block) /\ page \in Nat /\ NoNewImage(blocks) /\ NoNewImage(Flushed)
  BY ExtractFacts, FlushNoImage
<1>2. CASE ExtractSteps /\ UNCHANGED snapshotVars
  <2>1. CASE \/ OpenMarkdown
             \/ \E doc \in Docs : OpenDocx(doc)
             \/ \E pdf \in Pdfs, stem \in Stems : OpenPdf(pdf, stem)
    <3>1. blocks' = Flushed /\ assets' = assets /\ \E new : files' = Append(files, new)
      BY <2>1 DEF OpenMarkdown, OpenDocx, OpenPdf, Open
    <3>2. Len(files') = Len(files) + 1
      <4>1. PICK new : files' = Append(files, new)
        BY <3>1
      <4> QED
        BY <1>1, <4>1 DEF FilesOK
    <3> QED
      BY <1>1, <3>1, <3>2
  <2>2. CASE \/ \E len \in Lengths : MarkdownHeading(len) \/ MarkdownText(len)
             \/ MarkdownBlank
    <3>1. files' = files /\ Reading("markdown") /\ assets' = assets
      BY <2>2 DEF MarkdownHeading, MarkdownText, MarkdownBlank, MarkdownLine
    <3>2. ~Reading("pdf")
      BY <3>1 DEF Reading
    <3>3. ASSUME NEW len \in Lengths, MarkdownHeading(len)
          PROVE  NoNewImage(blocks')
      <4> DEFINE x == NewBlock(PageAfterFlush + 1, "heading", len, 0)
      <4>1. x \in Block /\ x.kind # "image"
        <5>1. PageAfterFlush \in Nat /\ len \in Nat
          BY FlushGrows, LayoutAssumption
        <5>2. PageAfterFlush + 1 \in Nat /\ "heading" \in Alone \cup {"paragraph"} /\ 0 \in Nat
          BY <5>1 DEF Alone
        <5> QED
          BY <1>1, <5>1, <5>2, NewBlockType
      <4>2. blocks' = Append(Flushed, x) /\ Flushed \in Seq(Block)
        BY <3>3, FlushGrows DEF MarkdownHeading, Grows
      <4> HIDE DEF x
      <4> QED
        BY <1>1, <4>1, <4>2, AppendNoImage
    <3>4. ASSUME NEW len \in Lengths, MarkdownText(len)
          PROVE  blocks' = blocks
      BY <3>4 DEF MarkdownText
    <3>5. MarkdownBlank => blocks' = Flushed
      BY DEF MarkdownBlank
    <3>6. NoNewImage(blocks')
      BY <1>1, <2>2, <3>3, <3>4, <3>5
    <3> QED
      BY <3>1, <3>2, <3>6
  <2>3. CASE DocxSkips
    <3>1. files' = files /\ assets' = assets /\ blocks' = blocks /\ Reading("docx")
      BY <2>3 DEF DocxSkips, ReadDocxItem
    <3>2. ~Reading("pdf")
      BY <3>1 DEF Reading
    <3> QED
      BY <1>1, <3>1, <3>2
  <2>4. CASE DocxPlaces
    <3>1. files' = files /\ assets' = assets /\ Reading("docx")
      BY <2>4 DEF DocxPlaces, DocxParagraph, DocxTable, ReadDocxItem
    <3>2. ~Reading("pdf")
      BY <3>1 DEF Reading
    <3>3. /\ Len(blocks') = Len(blocks) + 1 /\ \A k \in DOMAIN blocks : blocks'[k] = blocks[k]
          /\ blocks'[Len(blocks) + 1].kind # "image" /\ blocks' \in Seq(Block)
      BY <2>4, DocxPlaced, BlockSteps DEF Grows
    <3>4. /\ DOMAIN blocks = 1..Len(blocks) /\ Len(blocks) \in Nat
          /\ DOMAIN blocks' = 1..(Len(blocks) + 1)
      BY <1>1, <3>3
    <3>5. NoNewImage(blocks')
      <4> SUFFICES ASSUME NEW k \in DOMAIN blocks', blocks'[k].kind = "image"
                   PROVE  k \in DOMAIN blocks /\ blocks'[k] = blocks[k]
        BY DEF NoNewImage
      <4>1. k # Len(blocks) + 1
        BY <3>3
      <4>2. k \in DOMAIN blocks
        BY <3>4, <4>1
      <4> QED
        BY <3>3, <4>2
    <3> QED
      BY <3>1, <3>2, <3>5
  <2>5. CASE PdfTextAndTables
    <3>1. files' = files /\ assets' = assets /\ page' = page + 1
      BY <2>5 DEF PdfTextAndTables
    <3>2. PICK new \in Seq(Block) :
             /\ blocks' = blocks \o new
             /\ \A i \in DOMAIN new : new[i].file = Len(files) /\ new[i].kind \in {"paragraph", "table"}
      BY <2>5, TextAndTables
    <3>3. /\ Len(blocks) \in Nat /\ Len(new) \in Nat /\ DOMAIN new = 1..Len(new) /\ DOMAIN blocks = 1..Len(blocks)
          /\ DOMAIN blocks' = 1..(Len(blocks) + Len(new))
          /\ \A i \in 1..(Len(blocks) + Len(new)) :
                blocks'[i] = IF i <= Len(blocks) THEN blocks[i] ELSE new[i - Len(blocks)]
      BY <1>1, <3>2, ConcatProperties
    <3>4. NoNewImage(blocks')
      <4> SUFFICES ASSUME NEW k \in DOMAIN blocks', blocks'[k].kind = "image"
                   PROVE  k \in DOMAIN blocks /\ blocks'[k] = blocks[k]
        BY DEF NoNewImage
      <4>1. CASE k <= Len(blocks)
        BY <3>3, <4>1
      <4>2. CASE ~(k <= Len(blocks))
        <5>1. k - Len(blocks) \in DOMAIN new /\ blocks'[k] = new[k - Len(blocks)]
          BY <3>3, <4>2
        <5> QED
          BY <3>2, <5>1
      <4> QED
        BY <4>1, <4>2
    <3> QED
      BY <3>1, <3>4
  <2>6. CASE PdfImage
    <3>1. files' = files /\ page' = page /\ item' = item + 1
      BY <2>6 DEF PdfImage
    <3>2. item + 1 \notin UsableImages(Sheet) => blocks' = blocks /\ assets' = assets
      BY <2>6, ImageStep
    <3> QED
      BY <1>1, <2>6, <3>1, <3>2
  <2>7. CASE EndOfInput
    <3>1. files' = files /\ page' = page /\ item' = item /\ assets' = assets /\ blocks' = Flushed
      BY <2>7 DEF EndOfInput
    <3> QED
      BY <1>1, <3>1
  <2> QED
    BY <1>2, <2>1, <2>2, <2>3, <2>4, <2>5, <2>6, <2>7 DEF ExtractSteps, DocxPlaces
<1>3. CASE UNCHANGED extractVars
  <2>1. files' = files /\ blocks' = blocks /\ page' = page /\ item' = item /\ assets' = assets
    BY <1>3 DEF extractVars
  <2> QED
    BY <1>1, <2>1
<1>4. UNCHANGED vars \/ ChunkSteps \/ SortPaths \/ OpenSection \/ AddToSection \/ SnapshotBuilt => UNCHANGED extractVars
  BY DEF vars, pageVars, ChunkSteps, ChunkAlone, ChunkStarts, ChunkGrows, ChunkingEnds, SortPaths,
         OpenSection, AddToSection, SnapshotBuilt
<1> QED
  BY <1>2, <1>3, <1>4, StepKinds

\* The image file that block k names.
NameOf(k) == AssetName(files[blocks[k].file].stem, blocks[k].page, blocks[k].part)

\* AssetsOverwrittenByNamesakes, and the numbers of the images of the page being
\* read: those that it still gets are new.
ImagesHeld ==
    \A k \in DOMAIN blocks : blocks[k].kind = "image" =>
        /\ files[blocks[k].file].format = "pdf"
        /\ NameOf(k) \in DOMAIN assets
        /\ NameOf(assets[NameOf(k)]) = NameOf(k)
        /\ assets[NameOf(k)] = k \/ blocks[assets[NameOf(k)]].file > blocks[k].file
        /\ Reading("pdf") /\ blocks[k].file = Len(files) =>
              /\ blocks[k].page <= page
              /\ blocks[k].page = page => blocks[k].part <= ImageIndex(Content[page], item)

\* A block and its image file stay.
LEMMA NameStays ==
    ASSUME BaseInv, [Next]_vars, NEW k \in DOMAIN blocks
    PROVE  /\ k \in DOMAIN blocks' /\ blocks'[k] = blocks[k] /\ NameOf(k)' = NameOf(k)
           /\ files'[blocks[k].file] = files[blocks[k].file]
<1>1. FilesKept /\ Grows(blocks') /\ blocks \in Seq(Block) /\ blocks' \in Seq(Block)
  BY BlockSteps, ExtractFacts DEF Grows
<1>2. /\ DOMAIN blocks = 1..Len(blocks) /\ Len(blocks) \in Nat
      /\ DOMAIN blocks' = 1..Len(blocks') /\ Len(blocks') \in Nat /\ Len(blocks) <= Len(blocks')
  BY <1>1 DEF Grows
<1>3. blocks'[k] = blocks[k] /\ blocks[k].file \in DOMAIN files
  BY <1>1, <1>2 DEF Grows, BaseInv, BlocksOK
<1>4. files'[blocks[k].file] = files[blocks[k].file]
  BY <1>1, <1>3 DEF FilesKept
<1> QED
  BY <1>2, <1>3, <1>4 DEF NameOf

LEMMA HeldBlock ==
    ASSUME BaseInv, NEW a \in DOMAIN assets
    PROVE  assets[a] \in DOMAIN blocks
<1>1. Range(assets) \subseteq DOMAIN blocks
  BY ExtractFacts
<1> QED
  BY <1>1 DEF Range

\* A step that adds no image.
LEMMA ImagesStay ==
    ASSUME BaseInv, BaseInv', ImagesHeld, [Next]_vars,
           assets' = assets, NoNewImage(blocks'),
           \/ files' = files /\ (Reading("pdf") => page' = page /\ item' = item)
           \/ PdfImage /\ files' = files /\ page' = page /\ item' = item + 1
           \/ files' = files /\ page' = page + 1
           \/ Len(files') = Len(files) + 1
    PROVE  ImagesHeld'
<1> SUFFICES ASSUME NEW k \in DOMAIN blocks', blocks'[k].kind = "image"
             PROVE  /\ files'[blocks'[k].file].format = "pdf"
                    /\ NameOf(k)' \in DOMAIN assets'
                    /\ NameOf(assets[NameOf(k)])' = NameOf(k)'
                    /\ assets'[NameOf(k)'] = k \/ blocks'[assets'[NameOf(k)']].file > blocks'[k].file
                    /\ Reading("pdf")' /\ blocks'[k].file = Len(files') =>
                          /\ blocks'[k].page <= page'
                          /\ blocks'[k].page = page' => blocks'[k].part <= ImageIndex(Content'[page'], item')
  BY DEF ImagesHeld
<1>1. k \in DOMAIN blocks /\ blocks'[k] = blocks[k]
  BY DEF NoNewImage
<1>2. NameOf(k)' = NameOf(k) /\ files'[blocks[k].file] = files[blocks[k].file]
  BY <1>1, NameStays
<1>3. PICK held : held = assets[NameOf(k)]
  OBVIOUS
<1>4. /\ files[blocks[k].file].format = "pdf"
      /\ NameOf(k) \in DOMAIN assets /\ NameOf(held) = NameOf(k)
      /\ held = k \/ blocks[held].file > blocks[k].file
      /\ Reading("pdf") /\ blocks[k].file = Len(files) =>
            /\ blocks[k].page <= page
            /\ blocks[k].page = page => blocks[k].part <= ImageIndex(Content[page], item)
  BY <1>1, <1>3 DEF ImagesHeld
<1>5. held \in DOMAIN blocks /\ NameOf(held)' = NameOf(held) /\ blocks'[held] = blocks[held]
  BY <1>3, <1>4, HeldBlock, NameStays
<1>6. assets'[NameOf(k)'] = held /\ NameOf(assets[NameOf(k)])' = NameOf(held)
  BY <1>2, <1>3, <1>5
<1>7. ASSUME Reading("pdf")', blocks[k].file = Len(files')
      PROVE  /\ blocks[k].page <= page'
             /\ blocks[k].page = page' => blocks[k].part <= ImageIndex(Content'[page'], item')
  <2>1. /\ blocks[k].file \in 1..Len(files) /\ blocks[k].page \in Nat /\ blocks[k].part \in Nat
        /\ Len(files) \in Nat /\ page \in Nat /\ item \in Nat
    BY <1>1, BlockNumbers, ExtractFacts
  <2>2. files' = files
    BY <1>7, <2>1
  <2>3. Reading("pdf") /\ Content' = Content /\ blocks[k].file = Len(files)
    BY <1>7, <2>2, SameReading
  <2>4. CASE page' = page /\ item' = item
    BY <1>4, <2>3, <2>4
  <2>5. CASE PdfImage /\ page' = page /\ item' = item + 1
    <3>1. Sheet \in PdfPage
      BY <2>5, ImageStep
    <3>2. /\ ImageIndex(Content[page], item) \in Nat /\ ImageIndex(Content[page], item + 1) \in Nat
          /\ ImageIndex(Content[page], item + 1) >= ImageIndex(Content[page], item)
      <4>1. item + 1 \in Nat
        BY <2>1
      <4> QED
        BY <2>1, <3>1, <4>1, ImageNumbers DEF Sheet
    <3> QED
      BY <1>4, <2>1, <2>3, <2>5, <3>2
  <2>6. CASE page' = page + 1
    BY <1>4, <2>1, <2>3, <2>6
  <2>7. ~(Len(files') = Len(files) + 1)
    BY <1>7, <2>1
  <2> QED
    BY <2>3, <2>4, <2>5, <2>6, <2>7
<1> QED
  BY <1>1, <1>2, <1>4, <1>5, <1>6, <1>7

\* A step that adds an image.
LEMMA ImageAdded ==
    ASSUME BaseInv, BaseInv', ImagesHeld, [Next]_vars, PdfImage, item + 1 \in UsableImages(Sheet)
    PROVE  ImagesHeld'
<1>1. /\ blocks \in Seq(Block) /\ page \in Nat /\ item \in Nat
      /\ files' = files /\ page' = page /\ item' = item + 1 /\ Reading("pdf")
  BY ExtractFacts DEF PdfImage
<1>2. /\ files[Len(files)].format = "pdf" /\ Last(files) = files[Len(files)] /\ Content' = Content
  BY <1>1, ReadingPdf, SameReading
<1>3. /\ Sheet \in PdfPage /\ Index \in Nat
      /\ ImageBlock \in Block /\ ImageBlock.file = Len(files) /\ ImageBlock.kind = "image"
      /\ ImageBlock.page = page /\ ImageBlock.part = Index
      /\ blocks' = Append(blocks, ImageBlock)
      /\ assets' = [a \in DOMAIN assets \cup {Asset} |-> IF a = Asset THEN Len(blocks) + 1 ELSE assets[a]]
  BY ImageStep
<1>4. PICK n \in Nat : n = Len(blocks)
  BY <1>1
<1>5. /\ DOMAIN blocks = 1..n /\ DOMAIN blocks' = 1..(n + 1) /\ blocks'[n + 1] = ImageBlock
  BY <1>1, <1>3, <1>4, AppendProperties
<1>6. /\ ImageIndex(Content[page], item) \in Nat /\ Index = ImageIndex(Content[page], item) + 1
      /\ ImageIndex(Content[page], item + 1) = Index
  BY <1>1, <1>3, ImageNumbers DEF Sheet, Index
<1>7. NameOf(n + 1)' = Asset
  BY <1>1, <1>2, <1>3, <1>5 DEF NameOf, Asset
<1>8. /\ Asset \in DOMAIN assets' /\ assets'[Asset] = n + 1
      /\ \A a \in DOMAIN assets : a \in DOMAIN assets' /\ (a # Asset => assets'[a] = assets[a])
  BY <1>3, <1>4
<1> SUFFICES ASSUME NEW k \in 1..(n + 1), blocks'[k].kind = "image"
             PROVE  /\ files'[blocks'[k].file].format = "pdf"
                    /\ NameOf(k)' \in DOMAIN assets'
                    /\ NameOf(assets[NameOf(k)])' = NameOf(k)'
                    /\ assets'[NameOf(k)'] = k \/ blocks'[assets'[NameOf(k)']].file > blocks'[k].file
                    /\ Reading("pdf")' /\ blocks'[k].file = Len(files') =>
                          /\ blocks'[k].page <= page'
                          /\ blocks'[k].page = page' => blocks'[k].part <= ImageIndex(Content'[page'], item')
  BY <1>5 DEF ImagesHeld
<1> DEFINE Kept(held) ==
               /\ NameOf(k)' \in DOMAIN assets' /\ assets'[NameOf(k)'] = held
               /\ NameOf(held)' = NameOf(k)'
               /\ held = k \/ blocks'[held].file > blocks'[k].file
<1>k. ASSUME NEW held, Kept(held)
      PROVE  /\ NameOf(k)' \in DOMAIN assets'
             /\ NameOf(assets[NameOf(k)])' = NameOf(k)'
             /\ assets'[NameOf(k)'] = k \/ blocks'[assets'[NameOf(k)']].file > blocks'[k].file
  <2>1. NameOf(assets[NameOf(k)])' = NameOf(held)'
    BY <1>k DEF NameOf
  <2> QED
    BY <1>k, <2>1
<1>9. CASE k = n + 1
  <2>1. Kept(n + 1)
    BY <1>7, <1>8, <1>9
  <2>2. /\ files'[blocks'[k].file].format = "pdf" /\ blocks'[k].page = page'
        /\ blocks'[k].part = ImageIndex(Content'[page'], item')
    BY <1>1, <1>2, <1>3, <1>5, <1>6, <1>9
  <2>3. page' \in Nat /\ blocks'[k].part \in Nat /\ blocks'[k].page <= page'
    BY <1>1, <1>3, <1>5, <1>9, <2>2
  <2>4. blocks'[k].part <= ImageIndex(Content'[page'], item')
    BY <2>2, <2>3
  <2> HIDE DEF Kept
  <2>5. /\ NameOf(k)' \in DOMAIN assets'
        /\ NameOf(assets[NameOf(k)])' = NameOf(k)'
        /\ assets'[NameOf(k)'] = k \/ blocks'[assets'[NameOf(k)']].file > blocks'[k].file
    BY <1>k, <2>1
  <2> QED
    BY <2>2, <2>3, <2>4, <2>5
<1>10. CASE k \in 1..n
  <2>1. /\ blocks'[k] = blocks[k] /\ NameOf(k)' = NameOf(k) /\ files'[blocks[k].file] = files[blocks[k].file]
    BY <1>5, <1>10, NameStays
  <2>2. PICK held : held = assets[NameOf(k)]
    OBVIOUS
  <2>3. /\ files[blocks[k].file].format = "pdf"
        /\ NameOf(k) \in DOMAIN assets /\ NameOf(held) = NameOf(k)
        /\ held = k \/ blocks[held].file > blocks[k].file
        /\ blocks[k].file = Len(files) =>
              /\ blocks[k].page <= page
              /\ blocks[k].page = page => blocks[k].part <= ImageIndex(Content[page], item)
    BY <1>1, <1>5, <1>10, <2>1, <2>2 DEF ImagesHeld
  <2>4. blocks[k].file \in 1..Len(files) /\ blocks[k].page \in Nat /\ blocks[k].part \in Nat /\ Len(files) \in Nat
    BY <1>5, <1>10, BlockNumbers
  <2>5. \E new : Kept(new)
    <3>1. CASE NameOf(k) = Asset
      <4>1. blocks[k].page = page /\ blocks[k].part = Index
        BY <3>1 DEF NameOf, Asset, AssetName
      <4>2. blocks[k].file # Len(files)
        BY <1>6, <2>3, <2>4, <4>1
      <4>3. Len(files) > blocks[k].file
        BY <2>4, <4>2
      <4>4. Kept(n + 1)
        BY <1>3, <1>5, <1>7, <1>8, <2>1, <3>1, <4>3
      <4> QED
        BY <4>4
    <3>2. CASE NameOf(k) # Asset
      <4>1. held \in DOMAIN blocks /\ NameOf(held)' = NameOf(held) /\ blocks'[held] = blocks[held]
        BY <2>2, <2>3, HeldBlock, NameStays
      <4>2. Kept(held)
        BY <1>8, <2>1, <2>2, <2>3, <3>2, <4>1
      <4> QED
        BY <4>2
    <3> QED
      BY <3>1, <3>2
  <2>6. blocks[k].file = Len(files) =>
            /\ blocks[k].page <= page
            /\ blocks[k].page = page => blocks[k].part <= ImageIndex(Content[page], item + 1)
    BY <1>6, <2>3, <2>4
  <2> HIDE DEF Kept
  <2>7. /\ NameOf(k)' \in DOMAIN assets'
        /\ NameOf(assets[NameOf(k)])' = NameOf(k)'
        /\ assets'[NameOf(k)'] = k \/ blocks'[assets'[NameOf(k)']].file > blocks'[k].file
    BY <1>k, <2>5
  <2> QED
    BY <1>1, <1>2, <2>1, <2>3, <2>6, <2>7
<1> QED
  BY <1>9, <1>10

\* The image file that an image block names holds its image, unless a later file
\* of the same name wrote its own over it.
THEOREM AssetsStayUnlessOverwritten == Spec => []AssetsOverwrittenByNamesakes
<1>1. Init => ImagesHeld
  <2> SUFFICES ASSUME Init
               PROVE  ImagesHeld
    OBVIOUS
  <2>1. DOMAIN blocks = {}
    BY DEF Init, PageInit
  <2> QED
    BY <2>1 DEF ImagesHeld
<1>2. BaseInv /\ BaseInv' /\ ImagesHeld /\ [Next]_vars => ImagesHeld'
  BY ImageSteps, ImagesStay, ImageAdded
<1>3. ImagesHeld => AssetsOverwrittenByNamesakes
  <2> SUFFICES ASSUME ImagesHeld, NEW k \in DOMAIN blocks, blocks[k].kind = "image",
                      NEW held, held = assets[AssetName(files[blocks[k].file].stem, blocks[k].page, blocks[k].part)]
               PROVE  \/ held = k
                      \/ /\ blocks[held].file > blocks[k].file
                         /\ files[blocks[held].file].stem = files[blocks[k].file].stem
    BY DEF AssetsOverwrittenByNamesakes
  <2>1. held = assets[NameOf(k)]
    BY DEF NameOf
  <2>2. NameOf(held) = NameOf(k) /\ (held = k \/ blocks[held].file > blocks[k].file)
    BY <2>1 DEF ImagesHeld
  <2> QED
    BY <2>2 DEF NameOf, AssetName
<1> QED
  BY <1>1, <1>2, <1>3, BaseAlways, PTL DEF Spec

=============================================================================
