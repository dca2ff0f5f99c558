----------------------------- MODULE PdfImages ------------------------------
(***************************************************************************)
(* Which images of a PDF page become blocks: the bounding boxes, the crop  *)
(* of the rendered page and the size limits of                             *)
(* src_py/vtree_search/ingestion/parser_helpers.py.                        *)
(*                                                                         *)
(* Page coordinates are in hundredths of a point, with the origin at the   *)
(* top; a box is a record of its four sides.  pdfplumber gives an image's  *)
(* sides in this form, its y0 and y1 (from the bottom) are not needed.     *)
(***************************************************************************)
EXTENDS Integers, Sequences, FiniteSets, FiniteSetsExt

Box     == [x0 : Int, top : Int, x1 : Int, bottom : Int]
\* tables: how many tables with some text.
PdfPage == [chars : Nat, tables : Nat, width : Nat, height : Nat, images : Seq(Box)]

CropPadding == 4
MinSide     == 120
MinArea     == 30000

\* Sides in order, however the image is mirrored.
Upright(b) == [x0 |-> Min({b.x0, b.x1}), top |-> Min({b.top, b.bottom}),
               x1 |-> Max({b.x0, b.x1}), bottom |-> Max({b.top, b.bottom})]

\* round(side, 1) of every side.
Rounded(b) == [side \in DOMAIN b |-> (b[side] + 5) \div 10]

IsEmpty(b) == b.x0 = b.x1 \/ b.top = b.bottom

\* extract_pdf_image_boxes: the page's images that are not empty, none twice.
ImageBoxes(sheet) ==
    LET Same(i, j) == Rounded(Upright(sheet.images[i])) = Rounded(Upright(sheet.images[j]))
        Drawn      == {i \in DOMAIN sheet.images : sheet.height > 0 /\ ~IsEmpty(sheet.images[i])}
    IN  {i \in Drawn : \A j \in Drawn : j < i => ~Same(i, j)}

\* Its number among the boxes.
ImageIndex(sheet, i) == Cardinality({j \in ImageBoxes(sheet) : j <= i})

-----------------------------------------------------------------------------
(* to_pixel_box, on a page rendered at twice its size. *)

Ceiling(n, d) == -((-n) \div d)

\* The pixels of a length of the page.
Pixels(length) == Ceiling(2 * length, 100)

\* The crop's two ends along one axis: padded, then cut at the page's edge.
Ends(from, to, length) ==
    <<Max({0, (from * Pixels(length)) \div length - CropPadding}),
      Min({Pixels(length), Ceiling(to * Pixels(length), length) + CropPadding})>>

IsUsableSize(w, h) == w >= MinSide /\ h >= MinSide /\ w * h >= MinArea

\* The page's images that are annotated.
UsableImages(sheet) ==
    {i \in ImageBoxes(sheet) :
        LET b      == Upright(sheet.images[i])
            across == Ends(b.x0, b.x1, sheet.width)
            down   == Ends(b.top, b.bottom, sheet.height)
        IN  sheet.width > 0 /\ IsUsableSize(across[2] - across[1], down[2] - down[1])}
=============================================================================
