--------------------------- MODULE SummarySnapshot ---------------------------
(***************************************************************************)
(* From page nodes to sections: _build_summary_snapshot of                 *)
(* src_py/vtree_search/ingestion/ingestor.py, on the page nodes that       *)
(* PageNodes produces.                                                     *)
(*                                                                         *)
(* A page node is the index of its chunk.  Its path is                     *)
(* <doc>.<parent>.p<page>.b<index>, a TEXT; the paths are compared as the  *)
(* code compares them, digit by digit.                                     *)
(***************************************************************************)
EXTENDS PageNodes

CONSTANT ChapterPlans   \* the summary_nodes argument: sequences of chapters

(* A chapter's path: Parent is <doc>.<parent>, pg >= 1 is <doc>.<parent>.p<pg> *)
(* and Elsewhere is no prefix of a page path.                                  *)
Parent    == 0
Elsewhere == -1

ASSUME PlansAssumption ==
    \A plan \in ChapterPlans :
        plan \in Seq(Nat \cup {Elsewhere}) /\ plan # <<>> /\ IsInjective(plan)

VARIABLES
    chapters,   \* the chapters, in the caller's order
    order,      \* page nodes sorted by path
    assigned,   \* how many of them are in a section
    sections    \* sections in the order they are opened

snapshotVars == <<chapters, order, assigned, sections>>
vars == <<pageVars, snapshotVars>>

Section == [chapter : Nat \cup {Elsewhere}, nodes : Seq(Nat)]

TypeOK ==
    /\ PageTypeOK
    /\ phase \in {"extract", "chunk", "order", "sections", "built"}
    /\ chapters \in ChapterPlans \cup {<<>>}
    /\ order \in Seq(DOMAIN chunks)
    /\ assigned \in 0..Len(order)
    /\ sections \in Seq(Section)

Init == PageInit /\ chapters = <<>> /\ order = <<>> /\ assigned = 0 /\ sections = <<>>

-----------------------------------------------------------------------------
(* Page nodes: what _to_page_nodes takes from a chunk. *)

PageOf(n)    == blocks[chunks[n].first].page
FileOf(n)    == blocks[chunks[n].first].file
IsHeading(n) == chunks[n].first = chunks[n].last /\ blocks[chunks[n].first].kind = "heading"

\* The decimal digits of a label, and the order of texts.
Digits[n \in Nat] == IF n < 10 THEN <<n>> ELSE Append(Digits[n \div 10], n % 10)
TextBefore(s, t) ==
    \/ IsStrictPrefix(s, t)
    \/ \E i \in DOMAIN s \cap DOMAIN t :
          s[i] < t[i] /\ \A j \in 1..(i - 1) : s[j] = t[j]
PathBefore(m, n) ==
    IF PageOf(m) = PageOf(n) THEN TextBefore(Digits[m], Digits[n])
    ELSE TextBefore(Digits[PageOf(m)], Digits[PageOf(n)])

\* _build_page_chapter_map: the longest chapter path that is a prefix of the
\* page's path, the first chapter when there is none.
ChapterOf(n) ==
    CASE PageOf(n) \in ToSet(chapters) -> PageOf(n)
      [] PageOf(n) \notin ToSet(chapters) /\ Parent \in ToSet(chapters) -> Parent
      [] OTHER -> chapters[1]

\* How many page nodes come before n.
Rank(n) == Cardinality({m \in DOMAIN chunks : PathBefore(m, n)})

SortPaths ==
    /\ phase = "order"
    /\ chapters' \in ChapterPlans
    /\ LET rank == [n \in DOMAIN chunks |-> Rank(n)]
       IN  order' = [k \in DOMAIN chunks |-> CHOOSE n \in DOMAIN chunks : rank[n] = k - 1]
    /\ phase' = "sections"
    /\ UNCHANGED <<extractVars, chunkVars, assigned, sections>>

-----------------------------------------------------------------------------
(* _build_subch_states, one node at a time.  A chapter's current section is   *)
(* the last one opened for it.                                                *)

SectionsOf(c) == {i \in DOMAIN sections : sections[i].chapter = c}

\* Mutant: a chapter opens a first section and no other.
NeedsFirstSection(n) == SectionsOf(ChapterOf(n)) = {}
NeedsSection(n) == IsHeading(n) \/ SectionsOf(ChapterOf(n)) = {}

\* Mutant: the section that a node goes to is the last one opened.
CurrentAnywhere(n) == Len(sections)
Current(n) == Max(SectionsOf(ChapterOf(n)))

Node == order[assigned + 1]

OpenSection ==
    /\ phase = "sections" /\ assigned < Len(order)
    /\ NeedsSection(Node)
    /\ sections' = Append(sections, [chapter |-> ChapterOf(Node), nodes |-> <<Node>>])
    /\ assigned' = assigned + 1
    /\ UNCHANGED <<pageVars, chapters, order>>

AddToSection ==
    /\ phase = "sections" /\ assigned < Len(order)
    /\ ~NeedsSection(Node)
    /\ sections' = [sections EXCEPT ![Current(Node)].nodes = Append(@, Node)]
    /\ assigned' = assigned + 1
    /\ UNCHANGED <<pageVars, chapters, order>>

SnapshotBuilt ==
    /\ phase = "sections" /\ assigned = Len(order)
    /\ phase' = "built"
    /\ UNCHANGED <<extractVars, chunkVars, snapshotVars>>

Next ==
    \/ BuildPages /\ UNCHANGED snapshotVars
    \/ SortPaths \/ OpenSection \/ AddToSection \/ SnapshotBuilt

Spec == Init /\ [][Next]_vars

-----------------------------------------------------------------------------
(* Properties *)

\* _build_coverage_map, for the nodes assigned so far.
Coverage(c) ==
    FlattenSeq([k \in 1..assigned |-> IF ChapterOf(order[k]) = c THEN <<order[k]>> ELSE <<>>])

\* The two tables that the run stores agree: the evidence pages of a chapter's
\* sections, one section after the other, are the chapter's coverage, so each
\* page node is in one section, of its chapter, and every chapter of a section
\* is one of the caller's.
SectionsMatchCoverage ==
    /\ \A i \in DOMAIN sections : sections[i].chapter \in ToSet(chapters)
    /\ \A c \in ToSet(chapters) :
          FlattenSeq([i \in DOMAIN sections |->
              IF sections[i].chapter = c THEN sections[i].nodes ELSE <<>>]) = Coverage(c)

\* A heading is the first node of its section, and only the first section of a
\* chapter may begin with something else.
HeadingsOpenSections ==
    \A i \in DOMAIN sections :
        /\ sections[i].nodes # <<>>
        /\ \A k \in DOMAIN sections[i].nodes : IsHeading(sections[i].nodes[k]) => k = 1
        /\ IsHeading(sections[i].nodes[1]) \/ i = Min(SectionsOf(sections[i].chapter))

\* Sections are made by the headings of the documents: a node that follows a
\* heading of its file, with no other heading between them, is in the section
\* of that heading when they belong to the same chapter.  (It does not hold:
\* the nodes are grouped in the order of their paths as texts.)
LastHeading(n) ==
    {h \in 1..n : /\ IsHeading(h) /\ FileOf(h) = FileOf(n)
                  /\ \A k \in (h + 1)..n : ~IsHeading(k)}
SectionsFollowHeadings ==
    phase = "built" =>
        \A n \in DOMAIN chunks : \A h \in LastHeading(n) :
            ChapterOf(h) = ChapterOf(n) =>
                \E i \in DOMAIN sections : {h, n} \subseteq ToSet(sections[i].nodes)
=============================================================================
