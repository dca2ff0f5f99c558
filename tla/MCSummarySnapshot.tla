------------------------- MODULE MCSummarySnapshot -------------------------
(* SummarySnapshot on small inputs. *)
EXTENDS SummarySnapshot

\* Two of these lengths fit a chunk, three only if two of them are short ones.
ShortLengths == {84, 86}

-----------------------------------------------------------------------------
(* DOCX documents.  Their margins leave the least page: 120 by 160 points.     *)

Plain == [spacing |-> <<>>, before |-> <<>>, after |-> <<>>, break |-> <<>>]
Points(n)   == [Plain EXCEPT !.spacing = <<[unit |-> "points", value |-> n]>>]
Multiple(n) == [Plain EXCEPT !.spacing = <<[unit |-> "multiple", value |-> n]>>]
Sized(len, size) ==
    [len |-> len, own |-> Plain, style |-> Plain, level |-> <<>>,
     runs |-> <<[size |-> <<>>, tracking |-> <<>>], [size |-> <<size>>, tracking |-> <<-20>>]>>]
InLines(len) == [Sized(len, 1100) EXCEPT !.own = Points(1600), !.runs = <<>>]
Small(items) == [left |-> 24000, right |-> 24000, top |-> 35000, bottom |-> 35000, items |-> items]

\* Five lines of 16 points are half a page; twenty of them are exactly two pages.
Half   == InLines(84)
Broken == [Half EXCEPT !.own.break = <<TRUE>>, !.style.break = <<FALSE>>]
Two    == InLines(360)
Long   == InLines(400)
Blank  == [Half EXCEPT !.len = 0, !.style.break = <<TRUE>>]
Grid   == [rows |-> <<<<[len |-> 40, lines |-> 2], [len |-> 0, lines |-> 1]>>, <<>>>>]
NoText == [rows |-> <<<<[len |-> 0, lines |-> 1]>>>>]
Spaced == [Sized(84, 1100) EXCEPT !.style = [Multiple(100) EXCEPT !.before = <<-600>>, !.after = <<1200>>],
                                  !.own.spacing = <<[unit |-> "multiple", value |-> 0]>>]

Layouts == [1..2 -> {Half, Two, Long, Grid}] \cup
    {<<Half, Broken, Half>>, <<Half, Half, Grid>>, <<Grid, Half, Half>>, <<Spaced, Spaced, Spaced>>,
     <<Half, Blank, NoText>>}

\* Sizes, for the body text and the headings.
Text(sizes) == [i \in DOMAIN sizes |-> Sized(20, sizes[i])]
Sizings == {<<800, 1100, 1100, 1100, 1100>>, <<800, 800, 800, 1100, 1800>>,
            <<1600, 1100, 1100>>, <<1600, 1800, 1100, 1200>>}
Styled == [Sized(20, 1100) EXCEPT !.level = <<9>>]

SmallDocs ==
    {Small(items) : items \in Layouts} \cup {Small(Text(sizes)) : sizes \in Sizings}
    \cup {Small(<<>>), Small(<<Styled, Half>>)}

-----------------------------------------------------------------------------
(* PDF documents: pages of 200 by 300 points. *)

Sheet(chars, tables, images) ==
    [chars |-> chars, tables |-> tables, width |-> 20000, height |-> 30000, images |-> images]
Side(x0, top, x1, bottom) == [x0 |-> x0, top |-> top, x1 |-> x1, bottom |-> bottom]

Photo   == Side(2000, 2000, 12000, 12000)
Again   == Side(12002, 12000, 2001, 2001)      \* mirrored, and a hair off
Corner  == Side(14100, 17500, 20000, 30000)    \* large enough with its padding only
Icon    == Side(0, 0, 3000, 3000)
Line    == Side(2000, 2000, 2000, 9000)

\* A page with many tables, so that the chunks go beyond the ninth.
SmallPdfs ==
    {<<>>, <<Sheet(84, 0, <<Icon, Photo, Again, Corner>>)>>,
     <<Sheet(86, 10, <<>>), Sheet(0, 0, <<Line, Photo>>)>>,
     <<Sheet(0, 1, <<Photo>>), Sheet(84, 0, <<Corner>>)>>}

Plans == {<<Parent>>, <<Elsewhere, 2>>, <<1, Parent, 10>>}
=============================================================================
