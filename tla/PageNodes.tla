------------------------------ MODULE PageNodes ------------------------------
(***************************************************************************)
(* From source files to page nodes: the extractors of                      *)
(* src_py/vtree_search/ingestion/source_parser.py, the page estimate of    *)
(* docx_layout.py and chunk_blocks of parser_helpers.py.                   *)
(*                                                                         *)
(* A text is its length.  A chunk is the interval of extracted blocks it   *)
(* was made of.                                                            *)
(***************************************************************************)
EXTENDS DocxLayout, PdfImages

CONSTANTS
    MaxFiles,       \* bounds on what is read: files, and
    MaxItems,       \* DOCX and PDF documents and lines of Markdown
    Lengths,        \* lengths of a line of Markdown
    Docs,           \* the DOCX documents
    Pdfs,           \* the PDF documents, sequences of pages
    Stems,          \* file names without directory and suffix
    SafeMaxChars    \* max(256, max_chunk_chars)

ASSUME LayoutAssumption ==
    /\ Lengths \subseteq Nat \ {0}
    /\ \A doc \in Docs : doc \in Document
    /\ \A pdf \in Pdfs : pdf \in Seq(PdfPage)
    /\ SafeMaxChars \in Nat /\ SafeMaxChars >= 256
    /\ MaxFiles \in Nat /\ MaxItems \in Nat

VARIABLES
    phase,   \* "extract", "chunk", then the phases of SummarySnapshot
    files,   \* the files opened: format, content (not of Markdown), stem (of a PDF)
    page,    \* page number reached in the last one (in Markdown, of blocks)
    item,    \* what is read of a DOCX document, or of the images of a PDF page
    used,    \* DOCX: height used on that page
    para,    \* Markdown: length of the paragraph being collected, 0 for none
    read,    \* items read so far
    blocks,  \* extracted blocks of all files
    assets,  \* image files: which block's image each one holds
    chunks,  \* chunked blocks
    buffer   \* chunk_blocks' buffer: first block, 0 when empty, last block, length

extractVars == <<files, page, item, used, para, read, blocks, assets>>
chunkVars   == <<chunks, buffer>>
pageVars    == <<phase, extractVars, chunkVars>>

Alone == {"heading", "table", "image"}
\* part: the item of a DOCX document, or the image_index of an image, that the
\* block was made of, else 0.
Block == [file : Nat, page : Nat, kind : Alone \cup {"paragraph"}, len : Nat, part : Nat]
Chunk == [first : Nat, last : Nat, len : Nat]

NoBuffer == [first |-> 0, last |-> 0, len |-> 0]

Reading(format) == files # <<>> /\ Last(files).format = format
Content == Last(files).content
Room(f) == UsableHeight(files[f].content)

PageTypeOK ==
    /\ Len(files) <= MaxFiles /\ read \in 0..MaxItems
    /\ \A f \in DOMAIN files : files[f].stem \in Stems \cup {""}
    /\ page \in Nat /\ item \in Nat /\ para \in Nat
    /\ used \in IF Reading("docx") THEN 0..Room(Len(files)) ELSE {0}
    /\ blocks \in Seq(Block)
    /\ DOMAIN assets \subseteq Stems \X Nat \X Nat /\ Range(assets) \subseteq DOMAIN blocks
    /\ chunks \in Seq(Chunk)
    /\ buffer \in [first : 0..Len(blocks), last : 0..Len(blocks), len : Nat]

PageInit ==
    /\ phase = "extract"
    /\ files = <<>>
    /\ page = 0 /\ item = 0 /\ used = 0 /\ para = 0 /\ read = 0
    /\ blocks = <<>> /\ assets = <<>>
    /\ chunks = <<>>
    /\ buffer = NoBuffer

-----------------------------------------------------------------------------
(* Extraction, one file after the other. *)

NewBlock(pg, kind, len, part) ==
    [file |-> Len(files), page |-> pg, kind |-> kind, len |-> len, part |-> part]

\* An annotation's text comes from the LLM; it stays a chunk of its own.
AnnotationLength == 1

ReadItem == read < MaxItems /\ read' = read + 1

\* flush_paragraph of _extract_markdown: every block is a page of its own.
Flushed == IF para = 0 THEN blocks ELSE Append(blocks, NewBlock(page + 1, "paragraph", para, 0))
PageAfterFlush == IF para = 0 THEN page ELSE page + 1

\* The file being read has been read to its end.
FileRead ==
    /\ Reading("docx") => item = Len(Content.items)
    /\ Reading("pdf") => page = Len(Content) /\ (page > 0 => item = Len(Content[page].images))

Open(format, content, stem, firstPage) ==
    /\ phase = "extract" /\ FileRead
    /\ Len(files) < MaxFiles
    /\ blocks' = Flushed
    /\ files' = Append(files, [format |-> format, content |-> content, stem |-> stem])
    /\ page' = firstPage /\ item' = 0 /\ used' = 0 /\ para' = 0
    /\ UNCHANGED <<phase, assets, chunkVars>>

OpenMarkdown       == Open("markdown", <<>>, "", 0) /\ UNCHANGED read
OpenDocx(doc)      == Open("docx", doc, "", 1) /\ ReadItem
OpenPdf(pdf, stem) == Open("pdf", pdf, stem, 0) /\ ReadItem

EndOfInput ==
    /\ phase = "extract" /\ FileRead
    /\ blocks' = Flushed
    /\ para' = 0
    /\ phase' = "chunk"
    /\ UNCHANGED <<files, page, item, used, read, assets, chunkVars>>

-----------------------------------------------------------------------------
(* _extract_markdown, by line. *)

MarkdownLine == phase = "extract" /\ Reading("markdown") /\ ReadItem

MarkdownHeading(len) ==
    /\ MarkdownLine
    /\ blocks' = Append(Flushed, NewBlock(PageAfterFlush + 1, "heading", len, 0))
    /\ page' = PageAfterFlush + 1
    /\ para' = 0
    /\ UNCHANGED <<phase, files, item, used, assets, chunkVars>>

MarkdownText(len) ==
    /\ MarkdownLine
    /\ para' = IF para = 0 THEN len ELSE para + 1 + len
    /\ UNCHANGED <<phase, files, page, item, used, blocks, assets, chunkVars>>

MarkdownBlank ==
    /\ MarkdownLine
    /\ blocks' = Flushed
    /\ page' = PageAfterFlush
    /\ para' = 0
    /\ UNCHANGED <<phase, files, item, used, assets, chunkVars>>

-----------------------------------------------------------------------------
(* _extract_docx, by paragraph and table. *)

DocxItem == Content.items[item + 1]

ReadDocxItem ==
    /\ phase = "extract" /\ Reading("docx")
    /\ item < Len(Content.items)
    /\ item' = item + 1
    /\ UNCHANGED <<phase, files, para, read, assets, chunkVars>>

\* A block of height h, after height u of page pg.
Place(kind, len, pg, u, h) ==
    LET room == UsableHeight(Content)
    IN  /\ blocks' = Append(blocks, NewBlock(StartPage(pg, u, h, room), kind, len, item + 1))
        /\ page' = EndPage(pg, u, h, room)
        /\ used' = UsedAfter(pg, u, h, room)

DocxSkips ==
    /\ ReadDocxItem
    /\ ~YieldsBlock(DocxItem)
    /\ UNCHANGED <<page, used, blocks>>

DocxParagraph ==
    LET body   == BodySize(Content)
        kind   == IF HeadingLevel(DocxItem, body) = 0 THEN "paragraph" ELSE "heading"
        height == ParagraphHeight(DocxItem, SizeOf(DocxItem, body), UsableWidth(Content))
    IN  /\ ReadDocxItem
        /\ YieldsBlock(DocxItem) /\ ~IsTable(DocxItem)
        /\ Place(kind, DocxItem.len,
                 IF BreaksBefore(DocxItem) THEN page + 1 ELSE page,
                 IF BreaksBefore(DocxItem) THEN 0 ELSE used,
                 height)

DocxTable ==
    /\ ReadDocxItem
    /\ YieldsBlock(DocxItem) /\ IsTable(DocxItem)
    /\ Place("table", AnnotationLength, page, used,
             TableHeight(DocxItem, BodySize(Content), UsableWidth(Content)))

-----------------------------------------------------------------------------
(* _extract_pdf, by page: the page's text and tables, then its images.  (The *)
(* code extracts all tables of the file, then all images, then the text, and *)
(* puts the blocks in this order.)                                           *)

PdfTextAndTables ==
    LET sheet  == Content[page + 1]
        text   == IF sheet.chars = 0 THEN <<>> ELSE <<NewBlock(page + 1, "paragraph", sheet.chars, 0)>>
        tables == [i \in 1..sheet.tables |-> NewBlock(page + 1, "table", AnnotationLength, 0)]
    IN  /\ phase = "extract" /\ Reading("pdf")
        /\ page < Len(Content) /\ (page > 0 => item = Len(Content[page].images))
        /\ blocks' = blocks \o text \o tables
        /\ page' = page + 1 /\ item' = 0
        /\ UNCHANGED <<phase, files, used, para, read, assets, chunkVars>>

\* Mutant: the page's number is left out.
AssetOfAnyPage(stem, pg, index) == <<stem, 0, index>>
\* <asset_output_dir>/<stem>/page-<pg>-img-<index>.png
AssetName(stem, pg, index) == <<stem, pg, index>>

PdfImage ==
    LET sheet == Content[page]
        index == ImageIndex(sheet, item + 1)
        asset == AssetName(Last(files).stem, page, index)
    IN  /\ phase = "extract" /\ Reading("pdf")
        /\ page > 0 /\ item < Len(sheet.images)
        /\ item' = item + 1
        /\ IF item + 1 \in UsableImages(sheet)
           THEN /\ blocks' = Append(blocks, NewBlock(page, "image", AnnotationLength, index))
                /\ assets' = [a \in DOMAIN assets \cup {asset} |->
                                 IF a = asset THEN Len(blocks) + 1 ELSE assets[a]]
           ELSE UNCHANGED <<blocks, assets>>
        /\ UNCHANGED <<phase, files, page, used, para, read, chunkVars>>

-----------------------------------------------------------------------------
(* chunk_blocks, one block at a time. *)

Done == IF buffer.first # 0 THEN buffer.last
        ELSE IF chunks = <<>> THEN 0 ELSE chunks[Len(chunks)].last
NextBlock == Done + 1

\* flush_buffer joins the texts with an empty line.
Joined == [first |-> buffer.first, last |-> buffer.last,
           len |-> buffer.len + 2 * (buffer.last - buffer.first)]

\* Mutant: the buffer is cleared before it is flushed.
FlushLost == chunks
FlushedChunks == IF buffer.first = 0 THEN chunks ELSE Append(chunks, Joined)

\* Mutant: forgets what the buffer already holds.
FitsAlone(len) == len + 2 <= SafeMaxChars
Fits(len) == buffer.len + len + 2 <= SafeMaxChars

Chunking(alone) ==
    /\ phase = "chunk"
    /\ Done < Len(blocks)
    /\ alone <=> blocks[NextBlock].kind \in Alone

ChunkAlone ==
    /\ Chunking(TRUE)
    /\ chunks' = Append(FlushedChunks, [first |-> NextBlock, last |-> NextBlock, len |-> blocks[NextBlock].len])
    /\ buffer' = NoBuffer
    /\ UNCHANGED <<phase, extractVars>>

ChunkStarts ==
    /\ Chunking(FALSE)
    /\ buffer.first = 0 \/ ~Fits(blocks[NextBlock].len)
    /\ chunks' = FlushedChunks
    /\ buffer' = [first |-> NextBlock, last |-> NextBlock, len |-> blocks[NextBlock].len]
    /\ UNCHANGED <<phase, extractVars>>

ChunkGrows ==
    /\ Chunking(FALSE)
    /\ buffer.first # 0 /\ Fits(blocks[NextBlock].len)
    /\ buffer' = [buffer EXCEPT !.last = NextBlock, !.len = @ + blocks[NextBlock].len]
    /\ UNCHANGED <<phase, extractVars, chunks>>

ChunkingEnds ==
    /\ phase = "chunk"
    /\ Done = Len(blocks)
    /\ chunks' = FlushedChunks
    /\ buffer' = NoBuffer
    /\ phase' = "order"
    /\ UNCHANGED extractVars

BuildPages ==
    \/ OpenMarkdown
    \/ \E doc \in Docs : OpenDocx(doc)
    \/ \E pdf \in Pdfs, stem \in Stems : OpenPdf(pdf, stem)
    \/ \E len \in Lengths : MarkdownHeading(len) \/ MarkdownText(len)
    \/ MarkdownBlank
    \/ DocxSkips \/ DocxParagraph \/ DocxTable
    \/ PdfTextAndTables \/ PdfImage
    \/ EndOfInput
    \/ ChunkAlone \/ ChunkStarts \/ ChunkGrows \/ ChunkingEnds

-----------------------------------------------------------------------------
(* Properties *)

\* Chunking neither loses, repeats nor reorders a block: the chunks and the
\* buffer are consecutive intervals of the blocks, and all of them at the end.
ChunksPartition ==
    /\ \A i \in DOMAIN chunks :
          /\ chunks[i].first = (IF i = 1 THEN 0 ELSE chunks[i - 1].last) + 1
          /\ chunks[i].first <= chunks[i].last
    /\ buffer.first # 0 =>
          buffer.first = (IF chunks = <<>> THEN 0 ELSE chunks[Len(chunks)].last) + 1
    /\ phase \notin {"extract", "chunk"} => Done = Len(blocks)

\* Headings, tables and images stay alone; a merged chunk exceeds the limit by
\* at most two characters for each block after its second one.
ChunksFit ==
    \A i \in DOMAIN chunks : chunks[i].first < chunks[i].last =>
        /\ \A k \in chunks[i].first..chunks[i].last : blocks[k].kind = "paragraph"
        /\ chunks[i].len <= SafeMaxChars + 2 * (chunks[i].last - chunks[i].first - 1)

\* The page numbers of a DOCX document leave room for its text: from the page
\* where a block starts to the page where a later one starts, the pages hold the
\* blocks between them, and hold the later one too unless it begins a page.
DocxBlocks(f) == {k \in DOMAIN blocks : blocks[k].file = f /\ files[f].format = "docx"}
HeightOf(k) ==
    LET doc  == files[blocks[k].file].content
        made == doc.items[blocks[k].part]
    IN  IF IsTable(made) THEN TableHeight(made, BodySize(doc), UsableWidth(doc))
        ELSE ParagraphHeight(made, SizeOf(made, BodySize(doc)), UsableWidth(doc))
HeightsOf(S) == SumFunctionOnSet([k \in S |-> HeightOf(k)], S)
PagesHoldBlocks ==
    \A f \in DOMAIN files : \A j, k \in DocxBlocks(f) : j < k =>
        LET pages == blocks[k].page - blocks[j].page
        IN  \/ HeightsOf(j..(k - 1)) <= pages * Room(f)
            \/ HeightsOf(j..k) <= (pages + 1) * Room(f)

\* A paragraph that its size alone makes a heading stands out: it is at least
\* 1.3 times as large as a quarter of its document's sized paragraphs.
SizeHeadingsStandOut ==
    \A f \in DOMAIN files : \A k \in DocxBlocks(f) :
        LET made  == files[f].content.items[blocks[k].part]
            sizes == Sizes(files[f].content)
            below == {i \in DOMAIN sizes : 13 * sizes[i] <= 10 * LargestSize(made)}
        IN  blocks[k].kind = "heading" /\ made.level = <<>> =>
                4 * Cardinality(below) >= Len(sizes)

\* The image file that an image block names holds its image, unless a later file
\* of the same name wrote its own over it.
AssetsOverwrittenByNamesakes ==
    \A k \in DOMAIN blocks : blocks[k].kind = "image" =>
        LET held == assets[AssetName(files[blocks[k].file].stem, blocks[k].page, blocks[k].part)]
        IN  \/ held = k
            \/ /\ blocks[held].file > blocks[k].file
               /\ files[blocks[held].file].stem = files[blocks[k].file].stem
=============================================================================
