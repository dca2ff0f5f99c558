----------------------------- MODULE DocxLayout -----------------------------
(***************************************************************************)
(* The layout estimate for DOCX documents                                  *)
(* (src_py/vtree_search/ingestion/docx_layout.py) and the two guesses of   *)
(* parser_helpers.py that depend on it: the size of the body text and the  *)
(* headings.                                                               *)
(*                                                                         *)
(* Sizes are in hundredths of a point; a value that a document may leave   *)
(* out is a sequence of at most one element.  A text is the number of its  *)
(* characters once its white space is collapsed, 0 for a blank one.        *)
(* python-docx gives lengths that know their points, so the guesses of     *)
(* _length_to_pt for bare numbers are left out.                            *)
(***************************************************************************)
EXTENDS Integers, Sequences, FiniteSets, SequencesExt

Optional(S) == {s \in Seq(S) : Len(s) <= 1}

\* What a paragraph sets itself, or its style sets for it.
Format == [spacing : Optional([unit : {"points", "multiple"}, value : Int]),
           before : Optional(Int), after : Optional(Int), break : Optional(BOOLEAN)]
Run    == [size : Optional(Nat), tracking : Optional(Int)]
\* level: the number in a style called "Heading n".
Paragraph == [len : Nat, own : Format, style : Format, level : Optional(Nat), runs : Seq(Run)]
Cell      == [len : Nat, lines : Nat]
Table     == [rows : Seq(Seq(Cell))]
Document  == [left : Nat, right : Nat, top : Nat, bottom : Nat, items : Seq(Paragraph \cup Table)]

IsTable(item) == "rows" \in DOMAIN item

AtLeast(m, n) == IF n < m THEN m ELSE n

\* The n-th element of s in ascending order.
Nth(s, n) ==
    CHOOSE x \in ToSet(s) :
        /\ Cardinality({i \in DOMAIN s : s[i] < x}) < n
        /\ Cardinality({i \in DOMAIN s : s[i] <= x}) >= n

\* statistics.median, of the n least elements of s and of all.
MedianOfLeast(s, n) == (Nth(s, (n + 1) \div 2) + Nth(s, (n + 2) \div 2)) \div 2
Median(s) == MedianOfLeast(s, Len(s))

-----------------------------------------------------------------------------
(* The page: A4 less the margins of the first section. *)

UsableWidth(doc)  == AtLeast(12000, 59528 - doc.left - doc.right)
UsableHeight(doc) == AtLeast(16000, 84189 - doc.top - doc.bottom)

-----------------------------------------------------------------------------
(* What a paragraph sets, else its style, else the default. *)

FirstGiven(own, style, default) == Head(own \o style \o <<default>>)

BreaksBefore(p) == FirstGiven(p.own.break, p.style.break, FALSE)
SpaceBefore(p)  == AtLeast(0, FirstGiven(p.own.before, p.style.before, 0))
SpaceAfter(p)   == AtLeast(0, FirstGiven(p.own.after, p.style.after, 0))

\* A multiple beyond 4.0 is taken for points.
SpacingPoints(given, size) ==
    IF given = <<>> \/ given[1].value <= 0 THEN <<>>
    ELSE IF given[1].unit = "points" \/ given[1].value > 400 THEN <<given[1].value>>
    ELSE <<AtLeast(800, (size * 12 * given[1].value) \div 1000)>>
LineSpacing(p, size) ==
    FirstGiven(SpacingPoints(p.own.spacing, size), SpacingPoints(p.style.spacing, size),
               AtLeast(800, (size * 3) \div 2))

\* The values that some runs give.
Trackings(p) == FlattenSeq([i \in DOMAIN p.runs |-> p.runs[i].tracking])
RunSizes(p)  == FlattenSeq([i \in DOMAIN p.runs |-> p.runs[i].size])

Tracking(p) == IF Trackings(p) = <<>> THEN 0 ELSE Median(Trackings(p))

\* max_docx_font_size, 0 when no run gives a size.
LargestSize(p) == Max({0} \cup ToSet(RunSizes(p)))
SizeOf(p, body) == IF LargestSize(p) = 0 THEN body ELSE LargestSize(p)

-----------------------------------------------------------------------------
(* Heights. *)

WrappedLines(len, lines, size, tracking, width) ==
    LET charWidth == AtLeast(100, (size * 6) \div 10 + AtLeast(0, tracking))
        perLine   == AtLeast(1, width \div charWidth)
    IN  AtLeast(lines, (len + perLine - 1) \div perLine)

ParagraphHeight(p, size, width) ==
    AtLeast(400, SpaceBefore(p) + SpaceAfter(p)
                   + LineSpacing(p, size) * WrappedLines(p.len, 1, size, Tracking(p), width))

TableHeight(t, body, width) ==
    LET columns    == Max({1} \cup {Len(t.rows[r]) : r \in DOMAIN t.rows})
        lineHeight == AtLeast(1000, (body * 13) \div 10)
        RowLines(row) ==
            Max({1} \cup {WrappedLines(row[c].len, row[c].lines, body, 0, AtLeast(4800, width \div columns)) :
                             c \in {i \in DOMAIN row : row[i].len > 0}})
    IN  800 + SumFunction([r \in DOMAIN t.rows |-> RowLines(t.rows[r]) * lineHeight + 400])

\* The paragraphs and tables that yield a block.  (serialize_docx_table drops
\* rows without text; a table that is not to be annotated counts as empty.)
YieldsBlock(item) ==
    IF IsTable(item) THEN \E r \in DOMAIN item.rows : \E c \in DOMAIN item.rows[r] : item.rows[r][c].len > 0
    ELSE item.len > 0

-----------------------------------------------------------------------------
(* Body text and headings. *)

\* The sizes of the paragraphs that give one.
Sizes(doc) ==
    LET GivesSize(item) == ~IsTable(item) /\ YieldsBlock(item) /\ LargestSize(item) > 0
    IN  FlattenSeq([i \in DOMAIN doc.items |->
            IF GivesSize(doc.items[i]) THEN <<LargestSize(doc.items[i])>> ELSE <<>>])

\* Mutant: the smallest size.
SmallestSizeOf(sizes) == IF sizes = <<>> THEN 1100 ELSE Min(ToSet(sizes))

\* The median of the lower 60 percent of the sizes.
BodySizeOf(sizes) ==
    IF sizes = <<>> THEN 1100
    ELSE MedianOfLeast(sizes, AtLeast(1, (Len(sizes) * 6) \div 10))

\* 0 for a paragraph that is no heading.
HeadingLevel(p, body) ==
    LET percent == (100 * SizeOf(p, body)) \div body
    IN  CASE p.level # <<>> -> Min({6, AtLeast(1, p.level[1])})
          [] p.level = <<>> /\ p.len <= 120 /\ percent >= 165 -> 1
          [] p.level = <<>> /\ p.len <= 120 /\ percent \in 145..164 -> 2
          [] p.level = <<>> /\ p.len <= 120 /\ percent \in 130..144 -> 3
          [] OTHER -> 0

BodySize(doc) == BodySizeOf(Sizes(doc))

-----------------------------------------------------------------------------
(* advance_docx_page_state: where a block of height h that follows height u  *)
(* of page pg starts, where it ends, and how much of that page is then used. *)

\* Mutant: only a full page is left.
StartPageMidPage(pg, u, h, room) == IF u >= room THEN pg + 1 ELSE pg
StartPage(pg, u, h, room) == IF u >= room \/ (u > 0 /\ u + h > room) THEN pg + 1 ELSE pg

Filled(pg, u, h, room)  == IF StartPage(pg, u, h, room) = pg THEN u + h ELSE h
EndPage(pg, u, h, room) == StartPage(pg, u, h, room) + (Filled(pg, u, h, room) - 1) \div room

\* Mutant: the height used is not reset on the block's following pages.
UsedOfAllPages(pg, u, h, room) == Filled(pg, u, h, room)
\* Mutant: a page that is exactly full counts as an empty one.
UsedModulo(pg, u, h, room) == Filled(pg, u, h, room) % room
UsedAfter(pg, u, h, room) ==
    Filled(pg, u, h, room) - room * ((Filled(pg, u, h, room) - 1) \div room)
=============================================================================
