--------------------------- MODULE MCFlashUpdate ---------------------------
(***************************************************************************)
(* Small chips, layouts and calls for TLC to check FlashUpdate on.         *)
(***************************************************************************)
EXTENDS FlashUpdate

\* Contents written as sequences: the bits of each byte
Chip(bytes) == [a \in 0 .. Size - 1 |-> bytes[a + 1]]
X == Bits                            \* erased
O == {}                              \* all bits programmed
A == {CHOOSE b \in Bits : TRUE}      \* with two bits: something in between

\* Uniform erasers: Uniform[f] is the block size of the f-th
Uniform(sizes) ==
  [f \in 1 .. Len(sizes) |->
     {[f |-> f, s |-> i * sizes[f], e |-> (i + 1) * sizes[f] - 1]
        : i \in 0 .. (Size \div sizes[f]) - 1}]

R(first, last) == [start |-> first, end |-> last, included |-> TRUE]
Left(first, last) == [start |-> first, end |-> last, included |-> FALSE]

\* All calls with these layouts and images.  Only a write looks at the flags and
\* at the reference file; only a write and a verification look at the image.
CallsWith(layouts, images, refs, flags, sizes) ==
  LET write(l, i, f, v, w, r) == [op |-> "write", layout |-> l, image |-> i, fits |-> f,
                                  verify |-> v, verifyAll |-> w, ref |-> r]
      plain(op, l, i, f) == [op |-> op, layout |-> l, image |-> i, fits |-> f,
                             verify |-> FALSE, verifyAll |-> FALSE, ref |-> NoRef]
      someImage == CHOOSE i \in images : TRUE
  IN  {write(l, i, f, v, w, r) : l \in layouts, i \in images, f \in sizes,
                                 v \in flags, w \in flags, r \in refs}
        \cup {plain(op, l, someImage, f) : op \in {"erase", "read"}, l \in layouts, f \in sizes}
        \cup {plain("verify", l, i, f) : l \in layouts, i \in images, f \in sizes}

-----------------------------------------------------------------------------
(* Sixteen bytes in pages of two, erasers of 4, 8 and 16 bytes             *)

BlocksPages == Uniform(<<4, 8, 16>>)
LayoutsPages == {DefaultLayout,
                 <<R(2, 5)>>,                           \* unaligned, in two blocks
                 <<R(6, 13)>>,                          \* with a whole block inside
                 <<R(8, 15), Left(0, 1), R(2, 3)>>,     \* not in order
                 <<R(0, 1), R(2, 11)>>,                 \* two regions share a block
                 <<R(4, 11), R(2, 7)>>,                 \* overlapping
                 <<R(0, 7), Left(12, 17)>>,             \* leaves the chip, not included
                 <<R(3, 6)>>, <<R(2, 4)>>}              \* not aligned with the pages
ContentsPages ==
  {Chip(<<X,X,X,X, X,X,X,X, X,X,X,X, X,X,X,X>>), Chip(<<O,O,A,X, A,A,X,X, O,A,O,O, A,X,X,O>>),
   Chip(<<X,X,A,A, X,X,O,A, A,A,A,A, X,X,A,O>>)}
ImagesPages == {Chip(<<O,O,A,X, A,A,X,X, O,A,O,O, A,X,X,O>>),
                Chip(<<X,A,O,O, O,X,A,A, X,X,X,X, O,X,A,X>>)}
PagesRequests == CallsWith(LayoutsPages, ImagesPages, {NoRef} \cup ContentsPages, BOOLEAN, {TRUE})

-----------------------------------------------------------------------------
(* Eight bytes, to begin with                                              *)

Contents8 == {Chip(<<X, X, X, X, X, X, X, X>>), Chip(<<O, X, O, X, X, O, O, O>>),
              Chip(<<X, X, O, O, X, X, X, O>>)}
Images8 == {Chip(<<O, X, O, X, X, O, O, O>>), Chip(<<X, O, X, O, O, O, X, X>>)}

-----------------------------------------------------------------------------
(* Six bytes, for two operations in a row; erasers of 2 and 6 bytes        *)

Blocks6 == Uniform(<<2, 6>>)
Contents6 == {Chip(<<X, X, X, X, X, X>>), Chip(<<O, X, O, O, X, O>>)}
Images6 == {Chip(<<O, O, X, X, O, X>>)}
Layouts6 == {DefaultLayout,
             <<R(2, 3), R(0, 1)>>,                  \* two regions, not in order
             <<R(1, 2)>>}                           \* unaligned at both ends
Requests6 ==
  LET candidates == CallsWith(Layouts6, Images6, {NoRef, Chip(<<O, X, O, O, X, O>>)}, BOOLEAN, BOOLEAN)
  IN  {r \in candidates : /\ r.verify <=> r.verifyAll
                          /\ r.ref # NoRef => r.layout = DefaultLayout
                          /\ ~r.fits => r.layout = DefaultLayout /\ ~r.verify /\ r.ref = NoRef}

-----------------------------------------------------------------------------
(* Erase blocks of half a write granule, as those of the SST28SF040A: 128  *)
(* bytes, with the default granularity of 256                              *)

BlocksSmall == Uniform(<<2, 8>>)
SmallRequests == CallsWith({DefaultLayout}, Images8, {NoRef}, {TRUE}, {TRUE})

=============================================================================
