----------------------------- MODULE MtKernels -----------------------------
(***************************************************************************)
(* The matrix kernels of riscv-tools/riscv-tests/mt.  Each file defines    *)
(* one matmul(coreid, ncores, lda, A, B, C), unrolled and tiled in its own *)
(* way, and divides the work among the cores in its own way.  A kernel is  *)
(* the sequence of blocks that core c of n executes; a block is a sequence *)
(* of tiles, after which the core may wait at a barrier.                   *)
(*                                                                         *)
(* A tile is a nest of three loops over rows, columns and the summation    *)
(* index, each a sequence of the values the (unrolled) loop visits, so     *)
(* that a gap or an overlap of an unrolled loop shows.  It adds, for every *)
(* row r, column i and index k visited, A[r*sa + k] * B[k*sb + i] to       *)
(* C[r*sc + i], on top of what C held (acc) or of zero.  Loop order inside *)
(* a tile, and the temporaries it keeps, make no difference to the sum.    *)
(* Some kernels first copy B into an array that the cores share: such a    *)
(* block carries the pairs <<index of the copy, index of B>>, and a tile   *)
(* says whether it reads B itself ("B"), the copy ("S") or the copy        *)
(* transposed ("T"), where A[r*sa + k] meets the copy at i*sb + k.         *)
(***************************************************************************)
EXTENDS Integers, Sequences

\* The values of  for (x = lo; x < hi; x += st)  whose body is unrolled un
\* times at distance gap.
Iters(lo, hi, st) == IF lo < hi THEN (hi - lo + st - 1) \div st ELSE 0

Strided(lo, hi, st, un, gap) ==
    <<>> \o [p \in 1..(Iters(lo, hi, st) * un) |->
        lo + st * ((p - 1) \div un) + gap * ((p - 1) % un)]

Loop(lo, hi, st, un) == Strided(lo, hi, st, un, 1)

Range1(lo, hi) == Loop(lo, hi, 1, 1)

\* The bound of a loop that ends at x or at y, whichever comes first.
Lesser(x, y) == IF x <= y THEN x ELSE y

\* A tile with the strides of A, B and C, and the usual case of one stride.
Tile3(rows, cols, ks, acc, sa, sb, sc) ==
    [rows |-> rows, cols |-> cols, ks |-> ks, acc |-> acc,
     sa |-> sa, sb |-> sb, sc |-> sc, from |-> "B"]

Add(ld, rows, cols, ks) == Tile3(rows, cols, ks, TRUE, ld, ld, ld)
Store(ld, rows, cols, ks) == Tile3(rows, cols, ks, FALSE, ld, ld, ld)

From(where, tile) == [tile EXCEPT !.from = where]

Block(tiles, bar) == [tiles |-> tiles, copy |-> {}, bar |-> bar]

CopyBlock(pairs) == [tiles |-> <<>>, copy |-> pairs, bar |-> TRUE]

\* A kernel without a barrier of its own is one block.
Whole(tiles) == <<Block(tiles, FALSE)>>

\* mutant: the last row is included
Share_past_end(c, n, l, st, un) == Loop(c * (l \div n), (c + 1) * (l \div n) + 1, st, un)

\* mutant: every core takes all rows
Share_all(c, n, l, st, un) == Loop(0, l, st, un)

\* The rows of core c when the rows are divided evenly.
Share(c, n, l, st, un) == Loop(c * (l \div n), (c + 1) * (l \div n), st, un)

-----------------------------------------------------------------------------
\* Work divided by blocks of rows, results stored.

bb(c, n, l) == Whole(<<Store(l, Share(c, n, l, 4, 4), Loop(0, l, 2, 2), Range1(0, l))>>)

do(c, n, l) == Whole(<<Store(32, Share(c, n, 32, 1, 1), Range1(0, 32), Range1(0, 32))>>)

PairsOfRows(c, n, l) ==
    Whole(<<Store(32, Loop((c * 32) \div n, (32 * (1 + c)) \div n, 2, 2),
                  Loop(0, 32, 4, 4), Loop(0, l, 4, 4))>>)

am(c, n, l) == PairsOfRows(c, n, l)
du(c, n, l) == PairsOfRows(c, n, l)

af(c, n, l) ==
    Whole(<<Tile3(Loop((c * l) \div n, (l * (1 + c)) \div n, 2, 2), Loop(0, l, 4, 4),
                  Loop(0, l, 4, 4), FALSE, 32, l, 32)>>)

\* ay, az and cy divide the elements of C, 512 to a core, which makes 16 rows;
\* cy lets core 1 work on its own copies of A and B.
Elements512(c, n, l) ==
    IF c > 1 THEN <<>>
    ELSE Whole(<<Store(32, Range1(16 * c, 16 * (IF n = 1 THEN 2 ELSE c + 1)),
                       Loop(0, 32, 8, 8), Loop(0, l, 2, 2))>>)

ay(c, n, l) == Elements512(c, n, l)
az(c, n, l) == Elements512(c, n, l)
cy(c, n, l) == Elements512(c, n, l)

bf(c, n, l) ==
    Whole((IF c = 0 THEN <<Store(l, Range1(0, 32), Range1(0, 16), Range1(0, 32))>> ELSE <<>>)
          \o (IF c = 1 \/ n = 1
              THEN <<Store(l, Range1(0, 32), Range1(16, 32), Range1(0, 32))>> ELSE <<>>))

\* bo transposes B column by column into a local array, which drops out.
bo(c, n, l) ==
    LET half(lo) == Tile3(Loop(lo, lo + 16, 2, 2), Range1(0, 32), Loop(0, 32, 8, 8),
                          FALSE, l, 32, l)
    IN  Whole((IF c = 0 THEN <<half(0)>> ELSE <<>>)
              \o (IF c = 1 \/ n = 1 THEN <<half(16)>> ELSE <<>>))

-----------------------------------------------------------------------------
\* Work divided by rows or columns, results accumulated in C.

ap(c, n, l) == Whole(<<Add(l, Range1((l \div n) * c, (l \div n) * c + (l \div n)),
                           Range1(0, l), Range1(0, l))>>)

ar(c, n, l) == Whole(<<Add(l, Range1(c * (l \div n), Lesser((c + 1) * (l \div n), l)),
                           Range1(0, l), Range1(0, l))>>)

aq(c, n, l) == Whole(<<Add(l, Range1(0, l), Strided(c, l, 2 * n, 2, n), Range1(0, l))>>)

bs(c, n, l) == Whole(<<Add(l, Strided(c, l, 4 * n, 4, n), Range1(0, l), Range1(0, l))>>)

ds(c, n, l) == Whole(<<Add(l, Loop(4 * c, l, 4 * n, 4), Range1(0, l), Loop(0, l, 2, 2))>>)

al(c, n, l) ==
    IF c > 1 THEN <<>>
    ELSE Whole((IF c = 0 THEN <<Add(l, Range1(0, 32), Range1(0, 16), Range1(0, 32))>> ELSE <<>>)
               \o (IF c = 1 \/ n = 1
                   THEN <<Add(l, Range1(0, 32), Range1(16, 32), Range1(0, 32))>> ELSE <<>>))

cl(c, n, l) ==
    LET right(lo) == Add(l, Range1(lo, lo + 16), Range1(16, 32), Range1(0, 32))
    IN  IF c > 1 THEN <<>>
        ELSE Whole((IF c = 0 THEN <<Add(l, Range1(0, 32), Range1(0, 16), Range1(0, 32))>> ELSE <<>>)
                   \o (IF c = 1 \/ n = 1 THEN <<right(16), right(0)>> ELSE <<>>))

\* av and cv go through the summation index in four steps of eight.
Eighths(l, rows) ==
    [m \in 1..4 |-> Add(l, rows, Loop(0, 32, 8, 8), Loop(8 * (m - 1), 8 * m, 8, 8))]

EighthsOfHalves(c, n, l) ==
    Whole((IF c = 1 \/ n = 1 THEN Eighths(l, Range1(16, 32)) ELSE <<>>)
          \o (IF c = 0 THEN Eighths(l, Range1(0, 16)) ELSE <<>>))

av(c, n, l) == EighthsOfHalves(c, n, l)
cv(c, n, l) == EighthsOfHalves(c, n, l)

df(c, n, l) ==
    LET part(lo, cols) == Add(l, Range1(lo, lo + 16), cols, Range1(0, 32))
    IN  Whole((IF c = 0 THEN <<part(0, Range1(0, 16)), part(16, Range1(0, 16))>> ELSE <<>>)
              \o (IF c = 1 \/ n = 1
                  THEN <<part(16, Range1(16, 32)), part(0, Range1(16, 32))>> ELSE <<>>))

\* at transposes B into a local array, which drops out.
at(c, n, l) ==
    Whole(<<Add(l, Range1(0, l), Loop((c * l) \div n, ((c + 1) * l) \div n, 8, 8),
                Loop(0, l, 16, 16))>>)

\* bc and dc are written for two cores and a dimension of 32; otherwise core 0
\* does all the work.
Naive(c, l) ==
    IF c > 0 THEN <<>> ELSE Whole(<<Add(l, Range1(0, l), Range1(0, l), Range1(0, l))>>)

ForTwo(c, lo) == Add(32, Share(c, 2, 32, 2, 2), Loop(0, 32, 8, 8), Range1(lo, lo + 16))

bc(c, n, l) ==
    IF n = 2 /\ l = 32 THEN Whole(<<ForTwo(c, 0), ForTwo(c, 16)>>) ELSE Naive(c, l)

dc(c, n, l) ==
    IF n = 2 /\ l = 32
    THEN Whole(IF c = 0 THEN <<ForTwo(c, 0), ForTwo(c, 16)>> ELSE <<ForTwo(c, 16), ForTwo(c, 0)>>)
    ELSE Naive(c, l)

\* Two passes over halves of the summation index, for one half of the rows.
HalfRows(ld, rows, ks1, ks2) ==
    <<Add(ld, rows, Loop(0, ld, 8, 8), ks1), Add(ld, rows, Loop(0, ld, 8, 8), ks2)>>

CrossedHalves(c, n, l) ==
    LET ks(m) == Loop((m * l) \div 2, ((m + 1) * l) \div 2, 2, 2)
    IN  IF c > 1 THEN <<>>
        ELSE Whole((IF c = 0 THEN HalfRows(l, Range1(0, l \div 2), ks(0), ks(1)) ELSE <<>>)
                   \o (IF c = 1 \/ n = 1
                       THEN HalfRows(l, Range1(l \div 2, l), ks(1), ks(0)) ELSE <<>>))

bh(c, n, l) == CrossedHalves(c, n, l)
bj(c, n, l) == CrossedHalves(c, n, l)

bk(c, n, l) ==
    LET half(lo) == HalfRows(32, Range1(lo, lo + 16), Range1(0, 16), Range1(16, 32))
    IN  IF c > 1 THEN <<>>
        ELSE Whole((IF c = 0 THEN half(0) ELSE <<>>) \o (IF c = 1 \/ n = 1 THEN half(16) ELSE <<>>))

dv(c, n, l) ==
    LET half(lo) == HalfRows(32, Range1(lo, lo + 16), Range1(0, 16), Range1(16, 32))
    IN  IF c > 1 THEN <<>>
        ELSE Whole((IF c # 0 \/ n = 1 THEN half(0) ELSE <<>>) \o (IF c = 0 THEN half(16) ELSE <<>>))

\* Tiles of 16 by 16; ck starts with the tile on the diagonal.
ak(c, n, l) ==
    LET jjs == Strided(16 * c, l, 16 * n, 1, 1)
        iis == Loop(0, l, 16, 1)
        tile(jj, ii) == Add(l, Range1(jj, Lesser(jj + 16, l)), Loop(ii, Lesser(ii + 16, l), 8, 8),
                            Loop(0, l, 4, 4))
    IN  Whole([p \in 1..(Len(jjs) * Len(iis)) |->
                  tile(jjs[((p - 1) \div Len(iis)) + 1], iis[((p - 1) % Len(iis)) + 1])])

ck(c, n, l) ==
    LET jjs == Strided(16 * c, l, 16 * n, 1, 1)
        iis == [p \in 1..(l \div 16) |-> (16 * c + 16 * (p - 1)) % l]
        tile(jj, ii) == Add(l, Loop(jj, Lesser(jj + 16, l), 4, 4), Loop(ii, Lesser(ii + 16, l), 2, 2),
                            Loop(0, l, 8, 8))
    IN  Whole([p \in 1..(Len(jjs) * Len(iis)) |->
                  tile(jjs[((p - 1) \div Len(iis)) + 1], iis[((p - 1) % Len(iis)) + 1])])

\* Work divided by the summation index: core 0 adds the first half of every
\* sum, from the top row down, and core 1 the second, from the bottom row up.
cm(c, n, l) ==
    LET pair(r, lo, q) == Block(<<Tile3(<<r, q>>, Loop(0, 32, 4, 4), Loop(lo, lo + 16, 4, 4),
                                        TRUE, l, 32, l)>>, FALSE)
        down == [p \in 1..Iters(0, l, 2) |-> pair(2 * (p - 1), 0, 2 * (p - 1) + 1)]
        up == [p \in 1..16 |-> pair(31 - 2 * (p - 1), 16, 30 - 2 * (p - 1))]
    IN  (IF c = 0 THEN down ELSE <<>>) \o (IF c = 1 \/ n = 1 THEN up ELSE <<>>)

cf(c, n, l) ==
    LET pair(r, lo, q) == Block(<<Add(32, <<r, q>>, Loop(0, 32, 4, 4), Loop(lo, lo + 16, 4, 4))>>,
                                FALSE)
        down == [p \in 1..16 |-> pair(2 * (p - 1), 0, 2 * (p - 1) + 1)]
        up == [p \in 1..16 |-> pair(31 - 2 * (p - 1), 16, 30 - 2 * (p - 1))]
    IN  IF c > 1 THEN <<>>
        ELSE (IF c = 0 THEN down ELSE <<>>) \o (IF c = 1 \/ n = 1 THEN up ELSE <<>>)

-----------------------------------------------------------------------------
\* Kernels that meet at a barrier inside the loop nest.

ad(c, n, l) ==
    [p \in 1..((l \div n) * 16) |->
        Block(<<Add(32, <<c * (l \div n) + ((p - 1) \div 16)>>, Loop(0, 32, 4, 4),
                    <<2 * ((p - 1) % 16), 2 * ((p - 1) % 16) + 1>>)>>, TRUE)]

an(c, n, l) ==
    [p \in 1..((l \div n) * l) |->
        Block(<<Add(l, <<c * (l \div n) + ((p - 1) \div l)>>, Range1(0, l), <<(p - 1) % l>>)>>, TRUE)]

TileByTile(c, n, l) ==
    [p \in 1..(Iters(0, l, 2) * Iters(0, l, 4)) |->
        LET i == 2 * ((p - 1) \div Iters(0, l, 4))
            k == 4 * ((p - 1) % Iters(0, l, 4))
        IN  Block(<<Add(l, Share(c, n, l, 4, 4), <<i, i + 1>>, Loop(k, k + 4, 4, 4))>>, TRUE)]

ag(c, n, l) == TileByTile(c, n, l)
cg(c, n, l) == TileByTile(c, n, l)

cs(c, n, l) ==
    [p \in 1..(Iters(c, l, 2 * n) * l) |->
        LET j == c + 2 * n * ((p - 1) \div l)
        IN  Block(<<Store(l, <<j, j + n>>, <<(p - 1) % l>>, Range1(0, l))>>, TRUE)]

\* ai and ci wait before they start; core 1 of ci sums downwards.
AfterMeeting(c, n, l) ==
    <<Block(<<>>, TRUE),
      Block(<<Store(l, Range1((c * l) \div n, ((c * l) \div n) + (l \div n)), Loop(0, l, 4, 4),
                    Range1(0, l))>>, FALSE)>>

ai(c, n, l) == AfterMeeting(c, n, l)
ci(c, n, l) == AfterMeeting(c, n, l)

\* br and dr fill a transpose that is local to the thread (and so drops out),
\* meeting after every second row, and then again after every two rows of C.
Transposed(c, n, l, un) ==
    LET share == l \div n
        fill == [p \in 1..Iters(0, l, 2) |-> Block(<<>>, TRUE)]
        i2s == Iters(0, share, 16)
        work == [p \in 1..(Iters(0, l, 32) * i2s * 16 * Iters(0, l, 32)) |->
                    LET k2 == 32 * ((p - 1) % Iters(0, l, 32))
                        q == (p - 1) \div Iters(0, l, 32)
                        i2 == c * share + 16 * ((q \div 16) % i2s)
                        j == 32 * (q \div (16 * i2s)) + 2 * (q % 16)
                    IN  Block(<<Add(l, <<j, j + 1>>, Loop(i2, i2 + 16, un, un),
                                    Loop(k2, k2 + 32, 4, 4))>>, TRUE)]
    IN  fill \o work

br(c, n, l) == Transposed(c, n, l, 4)

dr(c, n, l) == Transposed(c, n, l, 8)

-----------------------------------------------------------------------------
\* Kernels that share a copy of B.

\* Every core transposes its own columns, one row of B between two barriers.
FillShared(c, n, l) ==
    [k \in 1..l |-> CopyBlock({<<i * l + k - 1, (k - 1) * l + i>> :
                                 i \in (c * (l \div n))..((c + 1) * (l \div n) - 1)})]

ae(c, n, l) ==
    LET share == l \div n
    IN  FillShared(c, n, l) \o
        [p \in 1..(Iters(0, l, 4) * share) |->
            LET i == 4 * ((p - 1) \div share)
                j == c * share + ((p - 1) % share)
            IN  Block(<<From("T", Store(l, <<j>>, Loop(i, i + 4, 4, 4), Loop(0, l, 8, 8)))>>, TRUE)]

ce(c, n, l) ==
    FillShared(c, n, l) \o
    Whole([x \in 1..n |->
              From("T", Add(l, Share(c, n, l, 1, 1),
                            Loop((x - 1) * (32 \div n), x * (32 \div n), 8, 8), Loop(0, l, 8, 8)))])

\* The rows of a core whose loop rounds its bounds down to a multiple of four.
RoundedRows(c, n, l) ==
    LET space == l \div n
        last == IF c # n - 1 THEN space * c + space ELSE l
    IN  Loop(space * c, (last \div 4) * 4, 4, 4)

bm(c, n, l) == Whole(<<Add(l, RoundedRows(c, n, l), Loop(0, l, 4, 4), Range1(0, l))>>)

\* The last core reads the copy, of which it has made the first part itself.
dm(c, n, l) ==
    LET cut == (l * l) \div n
        mine == IF c = n - 1 THEN 0..(cut - 1) ELSE cut..(l * l - 1)
        tile == Add(l, RoundedRows(c, n, l), Loop(0, (l \div 4) * 4, 4, 4), Range1(0, l))
    IN  <<CopyBlock({<<i, i>> : i \in mine}),
          Block(<<IF c = n - 1 THEN From("S", tile) ELSE tile>>, FALSE)>>

-----------------------------------------------------------------------------
\* matmul(c, n, lda, ...) of the file named k.
Kernel(k, c, n, l) ==
    CASE k = "ad" -> ad(c, n, l) [] k = "ae" -> ae(c, n, l)
      [] k = "af" -> af(c, n, l) [] k = "ag" -> ag(c, n, l)
      [] k = "ai" -> ai(c, n, l) [] k = "ak" -> ak(c, n, l)
      [] k = "al" -> al(c, n, l) [] k = "am" -> am(c, n, l)
      [] k = "an" -> an(c, n, l) [] k = "ap" -> ap(c, n, l)
      [] k = "aq" -> aq(c, n, l) [] k = "ar" -> ar(c, n, l)
      [] k = "at" -> at(c, n, l) [] k = "av" -> av(c, n, l)
      [] k = "ay" -> ay(c, n, l) [] k = "az" -> az(c, n, l)
      [] k = "bb" -> bb(c, n, l) [] k = "bc" -> bc(c, n, l)
      [] k = "bf" -> bf(c, n, l) [] k = "bh" -> bh(c, n, l)
      [] k = "bj" -> bj(c, n, l) [] k = "bk" -> bk(c, n, l)
      [] k = "bm" -> bm(c, n, l) [] k = "bo" -> bo(c, n, l)
      [] k = "br" -> br(c, n, l) [] k = "bs" -> bs(c, n, l)
      [] k = "ce" -> ce(c, n, l) [] k = "cf" -> cf(c, n, l)
      [] k = "cg" -> cg(c, n, l) [] k = "ci" -> ci(c, n, l)
      [] k = "ck" -> ck(c, n, l) [] k = "cl" -> cl(c, n, l)
      [] k = "cm" -> cm(c, n, l) [] k = "cs" -> cs(c, n, l)
      [] k = "cv" -> cv(c, n, l) [] k = "cy" -> cy(c, n, l)
      [] k = "dc" -> dc(c, n, l) [] k = "df" -> df(c, n, l)
      [] k = "dm" -> dm(c, n, l) [] k = "do" -> do(c, n, l)
      [] k = "dr" -> dr(c, n, l) [] k = "ds" -> ds(c, n, l)
      [] k = "du" -> du(c, n, l) [] k = "dv" -> dv(c, n, l)

-----------------------------------------------------------------------------
KernelNames ==
    {"ad", "ae", "af", "ag", "ai", "ak", "al", "am", "an", "ap", "aq", "ar", "at", "av", "ay",
     "az", "bb", "bc", "bf", "bh", "bj", "bk", "bm", "bo", "br", "bs", "ce", "cf", "cg", "ci",
     "ck", "cl", "cm", "cs", "cv", "cy", "dc", "df", "dm", "do", "dr", "ds", "du", "dv"}

\* Kernels that have the dimension 32 built in.
Only32 == {"ad", "af", "al", "am", "at", "av", "ay", "az", "bf", "bk", "bo", "br", "ce", "cf",
           "cl", "cm", "cv", "cy", "df", "do", "dr", "du", "dv"}

\* What kernel k takes for granted of the number of cores and of the dimension:
\* an unrolled loop has no remainder, nor has the share of a core where that is
\* what the loop runs over; the copy of B is an array of 32 by 32; and dm cuts
\* the copying in two and cf and cm, which divide the sums, not at all.
Fits(k, n, l) ==
    /\ k \in KernelNames /\ n \in Nat \ {0} /\ l \in Nat \ {0}
    /\ k \in Only32 => l = 32
    /\ k \in {"ag", "bb", "cg"} => l % 2 = 0
    /\ k \in {"ae", "ai", "bm", "ci", "dm", "ds"} => l % 4 = 0
    /\ k \in {"ak", "bh", "bj"} => l % 8 = 0
    /\ k = "ck" => l % 16 = 0
    /\ k \in {"ag", "bb", "bm", "cg", "dm"} => (l \div n) % 4 = 0
    /\ k \in {"af", "am", "aq", "cs", "du"} => l % (2 * n) = 0
    /\ k = "bs" => l % (4 * n) = 0
    /\ k \in {"at", "ce"} => l % (8 * n) = 0
    /\ k \in {"br", "dr"} => l % (16 * n) = 0
    /\ k \in {"ae", "dm"} => l <= 32
    /\ k = "dm" => n <= 2
    /\ k \in {"cf", "cm"} => n = 1

=============================================================================
