---------------------------- MODULE PpuBufProofs ----------------------------
(***************************************************************************)
(* That the NMI finds whole descriptors and carries each of them out once, *)
(* in order, that what is queued fits, and that blocks come back as they   *)
(* were given: whatever the size of the buffer, the blocks and the screen. *)
(***************************************************************************)
EXTENDS PpuBuf, FiniteSetTheorems, SequenceTheorems, TLAPS

-----------------------------------------------------------------------------
(* Intervals, recursions and division *)

(* A set with 0 that is closed under n + 1 below N has all of 0 .. N: of  *)
(* the numbers it misses there would be a least one.                      *)
LEMMA IntervalInduction ==
  ASSUME NEW N \in Nat, NEW S, 0 \in S, \A n \in 0 .. N - 1 : n \in S => n + 1 \in S
  PROVE  0 .. N \subseteq S
<1> DEFINE T == {n \in 0 .. N : n \notin S}
           Less == {ss \in Nat \X Nat : ss[1] < ss[2]}
<1> SUFFICES ASSUME T # {} PROVE FALSE
  OBVIOUS
<1>1. IsWellFoundedOn(Less, Nat) /\ T \subseteq Nat
  BY NatLessThanWellFounded DEF OpToRel
<1>2. PICK n \in T : \A m \in T : <<m, n>> \notin Less
  <2> HIDE DEF T, Less
  <2> QED
    BY <1>1, WFMin
<1>3. n - 1 \in T /\ <<n - 1, n>> \in Less
  OBVIOUS
<1> QED
  BY <1>2, <1>3

\* g is the sequence of states from s0, by the steps F.
Solves(g, N, St, s0, F) ==
  /\ g \in [0 .. N -> St]
  /\ g[0] = s0
  /\ \A k \in 1 .. N : g[k] = F[k][g[k - 1]]

(* A recursion whose steps stay in St has a solution in St: a recursive    *)
(* function that is one is what its equation says.                         *)
LEMMA RecursionSolved ==
  ASSUME NEW N \in Nat, NEW St, NEW s0 \in St, NEW F \in [1 .. N -> [St -> St]]
  PROVE  \E g : Solves(g, N, St, s0, F)
<1> DEFINE S == {n \in 0 .. N : \E g : Solves(g, n, St, s0, F)}
<1>1. 0 \in S
  <2>1. Solves([k \in 0 .. 0 |-> s0], 0, St, s0, F)
    BY DEF Solves
  <2> QED
    BY <2>1
<1>2. ASSUME NEW n \in 0 .. N - 1, n \in S PROVE n + 1 \in S
  <2>1. PICK g : Solves(g, n, St, s0, F)
    BY <1>2
  <2> DEFINE h == [k \in 0 .. n + 1 |-> IF k = n + 1 THEN F[n + 1][g[n]] ELSE g[k]]
  <2>2. g \in [0 .. n -> St] /\ g[n] \in St /\ n + 1 \in 1 .. N
    BY <2>1 DEF Solves
  <2>3. F[n + 1][g[n]] \in St
    BY <2>2
  <2>4. h \in [0 .. n + 1 -> St] /\ h[0] = s0
    BY <2>1, <2>2, <2>3 DEF Solves
  <2>5. ASSUME NEW k \in 1 .. n + 1 PROVE h[k] = F[k][h[k - 1]]
    <3>1. CASE k = n + 1
      <4>1. h[n + 1] = F[n + 1][g[n]] /\ h[n] = g[n]
        OBVIOUS
      <4>2. k - 1 = n
        BY <3>1
      <4> HIDE DEF h
      <4> QED
        BY <3>1, <4>1, <4>2
    <3>2. CASE k # n + 1
      <4>1. k \in 1 .. n /\ k \in 0 .. n + 1 /\ k - 1 \in 0 .. n + 1 /\ k - 1 # n + 1
        BY <3>2
      <4>2. h[k] = g[k] /\ h[k - 1] = g[k - 1]
        BY <4>1, <3>2
      <4>3. g[k] = F[k][g[k - 1]]
        BY <2>1, <4>1 DEF Solves
      <4> QED
        BY <4>2, <4>3
    <3> QED
      BY <3>1, <3>2
  <2>6. Solves(h, n + 1, St, s0, F)
    <3> HIDE DEF h
    <3> QED
      BY <2>4, <2>5 DEF Solves
  <2> QED
    BY <2>6
<1>3. N \in S
  <2> HIDE DEF S
  <2>1. 0 .. N \subseteq S
    BY <1>1, <1>2, IntervalInduction
  <2> QED
    BY <2>1
<1> QED
  BY <1>3

LEMMA TimesGrows ==
  ASSUME NEW n \in Nat \ {0}, NEW q \in Nat, NEW r \in Nat, q < r
  PROVE  n * q + n <= n * r
<1>1. r = q + 1 + (r - q - 1) /\ r - q - 1 \in Nat
  OBVIOUS
<1> DEFINE d == r - q - 1
<1>2. d \in Nat /\ r = q + 1 + d
  BY <1>1
<1> HIDE DEF d
<1>3. n * r = n * q + n + n * d
  BY <1>2
<1>4. n * d >= 0 /\ n * q \in Nat /\ n * d \in Nat
  BY <1>2
<1> QED
  BY <1>3, <1>4

LEMMA QuotientUnique ==
  ASSUME NEW n \in Nat \ {0}, NEW q \in Nat, NEW r \in Nat, NEW x \in 0 .. n - 1, NEW y \in 0 .. n - 1,
         n * q + x = n * r + y
  PROVE  q = r /\ x = y
<1>1. n * q \in Nat /\ n * r \in Nat
  OBVIOUS
<1>2. CASE q < r
  <2>1. n * q + n <= n * r
    BY <1>2, TimesGrows
  <2> QED
    BY <1>1, <2>1
<1>3. CASE r < q
  <2>1. n * r + n <= n * q
    BY <1>3, TimesGrows
  <2> QED
    BY <1>1, <2>1
<1> QED
  BY <1>2, <1>3

LEMMA DivMod ==
  ASSUME NEW a \in Nat, NEW n \in Nat \ {0}
  PROVE  a \div n \in Nat /\ a % n \in 0 .. n - 1 /\ a = n * (a \div n) + (a % n)
<1>1. a % n \in 0 .. n - 1
  OBVIOUS
<1>2. a = n * (a \div n) + (a % n)
  OBVIOUS
<1>3. a \div n \in Int
  OBVIOUS
<1>4. a \div n \in Nat
  OBVIOUS
<1> QED
  BY <1>1, <1>2, <1>4

\* A row of whole rows of n.
LEMMA ModShift ==
  ASSUME NEW a \in Nat, NEW m \in Nat, NEW n \in Nat \ {0}, m % n = 0
  PROVE  (a + m) % n = a % n
<1> DEFINE q == a \div n
           d == m \div n
           x == a % n
           r == (a + m) \div n
           y == (a + m) % n
<1>1. q \in Nat /\ x \in 0 .. n - 1 /\ a = n * q + x
  BY DivMod
<1>2. d \in Nat /\ m = n * d + (m % n)
  BY DivMod
<1>3. a + m \in Nat
  OBVIOUS
<1>4. r \in Nat /\ y \in 0 .. n - 1 /\ a + m = n * r + y
  BY <1>3, DivMod
<1> HIDE DEF q, d, x, r, y
<1>5. q + d \in Nat /\ n * (q + d) = n * q + n * d
  BY <1>1, <1>2
<1>6. n * r + y = n * (q + d) + x
  BY <1>1, <1>2, <1>4, <1>5
<1> DEFINE e == q + d
<1>e. e \in Nat /\ n * r + y = n * e + x
  BY <1>5, <1>6
<1> HIDE DEF e
<1>7. y = x
  BY <1>1, <1>4, <1>e, QuotientUnique
<1> QED
  BY <1>7 DEF x, y

\* Places n * q + x with q < m stay below m * n.
LEMMA PlaceBound ==
  ASSUME NEW n \in Nat \ {0}, NEW m \in Nat, NEW q \in 0 .. m - 1, NEW x \in 0 .. n - 1
  PROVE  n * q + x \in 0 .. m * n - 1
<1>1. n * q + n <= n * m /\ n * q \in Nat
  BY TimesGrows
<1>2. n * m = m * n /\ m * n \in Nat
  OBVIOUS
<1> QED
  BY <1>1, <1>2

-----------------------------------------------------------------------------
(* The lock is taken exactly while a descriptor is put together, and the 0 *)
(* is missing only then.                                                   *)
LockInv ==
  /\ ended \in BOOLEAN /\ locked \in BOOLEAN
  /\ locked <=> pc \in {"room", "data", "unlock"}
  /\ ended <=> pc # "data"

-----------------------------------------------------------------------------
(* The inductive invariant *)

Cells == (Data \cup {None}) \X (0 .. CELLS - 1)
Descs ==
  {Video, Blank} \cup {ReadDesc(b, p) : b \in Blocks, p \in Nat}
    \cup {WriteDesc(b, p, c) : b \in Blocks, p \in Nat, c \in Cells}
Plain(d) == d = Video \/ d = Blank
BufInv == buf \in Seq(Descs)
Moving == call.op \in {"read", "write"}

\* Where the kernel is in which call.
Places == {"idle", "queue", "room", "data", "unlock", "queued", "full", "wait", "copied", "next",
           "lost"}
CallInv ==
  /\ pc \in Places
  /\ call.op \in {"none", "putc", "newline", "blank", "read", "write"}
  /\ pc = "idle" => call.op = "none"
  /\ call.op = "none" => pc \in {"idle", "lost"}
  /\ call.op = "newline" => pc \in {"queued", "lost"}
  /\ pc = "copied" => call.op = "read"
  /\ pc = "next" => Moving
  /\ Moving => call.block \in Blocks /\ pass \in 0 .. Passes[call.op] - 1
  /\ call.op = "write" => call.data \in Data /\ bf_data = Whole(call.data)
  /\ disk \in [Blocks -> Data \cup {None}]

\* The descriptor of the call is the last in the buffer.
Queued == buf # <<>> /\ buf[Len(buf)] = Desc

(* Only the last descriptor moves a block, while its call waits for it.    *)
QueueInv ==
  /\ buf \in Seq(Descs)
  /\ \A i \in 1 .. Len(buf) : \/ Plain(buf[i])
                              \/ /\ i = Len(buf) /\ buf[i] = Desc /\ Moving
                                 /\ pc \in {"data", "unlock", "queued", "next"}
                                 /\ pc = "next" => call.op = "write" /\ waiting
  /\ pc \in {"data", "unlock"} => Queued
  /\ call.op = "read" /\ pc = "queued" => dirty \/ Queued
  /\ pc = "copied" => dirty
  /\ call.op = "write" /\ pc \in {"queued", "next"} => buf = <<>> \/ Queued
  /\ dirty => call.op = "read" /\ pc \in {"queued", "copied"} /\ buf = <<>>

(* The cells of the memory, of ppu_readbuf and of the caller's buffer.     *)
In(m, b, k) == m[LowerByte(b)][Base(b) + k]
CellsTyped ==
  /\ chr \in [0 .. NBANKS - 1 -> [0 .. PERBANK * CELLS - 1 -> Cells]]
  /\ disk \in [Blocks -> Data \cup {None}]
  /\ bf_data \in [0 .. CELLS - 1 -> Cells] /\ readbuf \in [0 .. ReadCells - 1 -> Cells]
\* Blocks that are not being written keep their contents.
Kept ==
  \A b \in Blocks : Alone(b) /\ ~ (call.op = "write" /\ Number(call.block) = Number(b)) =>
    \A k \in 0 .. CELLS - 1 : In(chr, b, k) = Cell(disk[b], k)
\* A write has come as far as its passes that were carried out.
Written ==
  call.op = "write" =>
    \A k \in 0 .. CELLS - 1 :
      k < pass \/ (k = pass /\ pc \in {"queued", "next"} /\ buf = <<>>) =>
        In(chr, call.block, k) = Cell(call.data, k)
\* The answer in ppu_readbuf is that to the pass of the read.
Answers == dirty => \A k \in 0 .. ReadCells - 1 : readbuf[k] = In(chr, call.block, Start(pass) + k)
\* A read has come as far as the answers that were taken.
Taking == IF pc \in {"copied", "next"} THEN ReadCells ELSE 0
Readout ==
  call.op = "read" /\ Alone(call.block) =>
    \A k \in 0 .. CELLS - 1 :
      k < Start(pass) + Taking => bf_data[k] = Cell(disk[call.block], k)
MemoryInv == Kept /\ Written /\ Answers /\ Readout

(* Room and weight *)
SizeInv ==
  /\ databuf_pos \in Nat
  /\ Length(buf) = databuf_pos + (IF pc = "data" THEN DataLen(Desc) ELSE 0)
  /\ Length(buf) < BUF
  /\ \A i \in 1 .. Len(buf) : ~TooHeavy(buf[i])

-----------------------------------------------------------------------------
(* Sums *)

LEMMA SumIs ==
  ASSUME NEW s \in Seq(Nat)
  PROVE  \E g \in [0 .. Len(s) -> Nat] :
           /\ g[0] = 0 /\ \A k \in 1 .. Len(s) : g[k] = g[k - 1] + s[k]
           /\ Sum(s) = g[Len(s)]
<1> DEFINE N == Len(s)
           F == [k \in 1 .. N |-> [x \in Nat |-> x + s[k]]]
           sum == CHOOSE f : f = [n \in 0 .. N |-> IF n = 0 THEN 0 ELSE f[n - 1] + s[n]]
<1>1. N \in Nat /\ \A k \in 1 .. N : s[k] \in Nat
  OBVIOUS
<1>2. F \in [1 .. N -> [Nat -> Nat]]
  BY <1>1
<1>3. PICK g : Solves(g, N, Nat, 0, F)
  <2> HIDE DEF F, N
  <2> QED
    BY <1>1, <1>2, RecursionSolved
<1>4. g \in [0 .. N -> Nat] /\ g[0] = 0 /\ \A k \in 1 .. N : g[k] = g[k - 1] + s[k]
  <2>1. g \in [0 .. N -> Nat] /\ g[0] = 0 /\ \A k \in 1 .. N : g[k] = F[k][g[k - 1]]
    BY <1>3 DEF Solves
  <2>2. \A k \in 1 .. N : k - 1 \in 0 .. N
    BY <1>1
  <2> QED
    BY <2>1, <2>2
<1>5. g = [n \in 0 .. N |-> IF n = 0 THEN 0 ELSE g[n - 1] + s[n]]
  <2>1. \A n \in 0 .. N : g[n] = IF n = 0 THEN 0 ELSE g[n - 1] + s[n]
    BY <1>1, <1>4
  <2> HIDE DEF N
  <2> QED
    BY <1>4, <2>1
<1>6. sum = [n \in 0 .. N |-> IF n = 0 THEN 0 ELSE sum[n - 1] + s[n]]
  <2> HIDE DEF N
  <2> QED
    BY <1>5, Zenon
<1>7. Sum(s) = sum[N]
  BY Zenon DEF Sum
<1> HIDE DEF sum
<1> DEFINE S == {n \in 0 .. N : sum[n] = g[n]}
<1>8. 0 \in S
  BY <1>1, <1>4, <1>6
<1>9. ASSUME NEW n \in 0 .. N - 1, n \in S PROVE n + 1 \in S
  <2>1. n + 1 \in 1 .. N /\ (n + 1) - 1 = n /\ n + 1 \in 0 .. N /\ n + 1 # 0
    BY <1>1
  <2>2. sum[n + 1] = sum[n] + s[n + 1]
    BY <1>6, <2>1
  <2>3. g[n + 1] = g[n] + s[n + 1]
    BY <1>4, <2>1
  <2> QED
    BY <1>9, <2>1, <2>2, <2>3
<1>10. 0 .. N \subseteq S
  <2> HIDE DEF S, N
  <2> QED
    BY <1>1, <1>8, <1>9, IntervalInduction
<1>11. sum[N] = g[N]
  BY <1>1, <1>10
<1> QED
  BY <1>4, <1>7, <1>11

LEMMA SumEmpty == \A s \in Seq(Nat) : Len(s) = 0 => Sum(s) = 0
<1> SUFFICES ASSUME NEW s \in Seq(Nat), Len(s) = 0 PROVE Sum(s) = 0
  OBVIOUS
<1>1. PICK g \in [0 .. Len(s) -> Nat] :
        /\ g[0] = 0 /\ \A k \in 1 .. Len(s) : g[k] = g[k - 1] + s[k]
        /\ Sum(s) = g[Len(s)]
  BY SumIs
<1> QED
  BY <1>1

\* t is s with one number more.
Longer(s, t) == Len(t) = Len(s) + 1 /\ \A k \in 1 .. Len(s) : t[k] = s[k]

LEMMA SumMore ==
  ASSUME NEW s \in Seq(Nat), NEW t \in Seq(Nat), Longer(s, t)
  PROVE  Sum(s) \in Nat /\ Sum(t) = Sum(s) + t[Len(t)]
<1>1. PICK g \in [0 .. Len(s) -> Nat] :
        /\ g[0] = 0 /\ \A k \in 1 .. Len(s) : g[k] = g[k - 1] + s[k]
        /\ Sum(s) = g[Len(s)]
  BY SumIs
<1>2. PICK h \in [0 .. Len(t) -> Nat] :
        /\ h[0] = 0 /\ \A k \in 1 .. Len(t) : h[k] = h[k - 1] + t[k]
        /\ Sum(t) = h[Len(t)]
  BY SumIs
<1> DEFINE N == Len(s)
           S == {n \in 0 .. N : h[n] = g[n]}
<1>3. N \in Nat /\ Len(t) = N + 1 /\ \A k \in 1 .. N : t[k] = s[k]
  BY DEF Longer
<1> HIDE DEF N
<1>4. 0 \in S
  BY <1>1, <1>2, <1>3
<1>5. ASSUME NEW n \in 0 .. N - 1, n \in S PROVE n + 1 \in S
  <2>1. n + 1 \in 1 .. N /\ (n + 1) - 1 = n /\ n + 1 \in 0 .. N /\ n + 1 \in 1 .. Len(t)
    BY <1>3
  <2>2. h[n + 1] = h[n] + t[n + 1]
    BY <1>2, <2>1
  <2>3. g[n + 1] = g[n] + s[n + 1]
    BY <1>1, <2>1 DEF N
  <2> QED
    BY <1>3, <1>5, <2>1, <2>2, <2>3
<1>6. 0 .. N \subseteq S
  <2> HIDE DEF S
  <2> QED
    BY <1>3, <1>4, <1>5, IntervalInduction
<1>7. h[N] = g[N]
  BY <1>3, <1>6
<1>8. h[N + 1] = h[N] + t[N + 1]
  <2>1. N + 1 \in 1 .. Len(t) /\ (N + 1) - 1 = N
    BY <1>3
  <2> QED
    BY <1>2, <2>1
<1> QED
  BY <1>1, <1>2, <1>3, <1>7, <1>8 DEF N

-----------------------------------------------------------------------------
(* Descriptors *)

LEMMA Numbers ==
  /\ ReadCells \in Nat \ {0} /\ CELLS \in Nat \ {0} /\ PERBANK \in Nat \ {0} /\ NBANKS \in Nat \ {0}
  /\ Passes.read \in Nat \ {0} /\ Passes.write = CELLS
  /\ ReadCells * Passes.read = CELLS
<1>1. /\ READ \in Nat \ {0} /\ WRITE \in Nat \ {0} /\ CELLS \in Nat \ {0}
      /\ PERBANK \in Nat \ {0} /\ NBANKS \in Nat \ {0}
      /\ READ % WRITE = 0 /\ CELLS % ReadCells = 0
  BY PpuAssumption
<1>2. ReadCells \in Nat \ {0}
  <2>1. ReadCells \in Nat /\ READ = WRITE * ReadCells + (READ % WRITE)
    BY <1>1, DivMod DEF ReadCells
  <2>2. READ = WRITE * ReadCells
    BY <1>1, <2>1
  <2> HIDE DEF ReadCells
  <2>3. ReadCells # 0
    BY <1>1, <2>2
  <2> QED
    BY <2>1, <2>3
<1>3. Passes.read = CELLS \div ReadCells /\ Passes.write = CELLS
  BY DEF Passes
<1> HIDE DEF ReadCells
<1>4. /\ CELLS \div ReadCells \in Nat
      /\ CELLS = ReadCells * (CELLS \div ReadCells) + (CELLS % ReadCells)
  BY <1>1, <1>2, DivMod
<1>5. CELLS = ReadCells * Passes.read /\ Passes.read \in Nat
  BY <1>1, <1>2, <1>3, <1>4
<1>6. Passes.read # 0
  BY <1>1, <1>2, <1>5
<1> QED
  BY <1>1, <1>2, <1>3, <1>5, <1>6

LEMMA DescFacts ==
  ASSUME NEW d \in Descs
  PROVE  /\ DataLen(d) \in Nat /\ Weight(d) \in Nat
         /\ Plain(d) <=> d.flags \cap {"read", "write"} = {}
         /\ d = Video => DataLen(d) = 1 /\ Weight(d) = 94
<1>1. READ \in Nat /\ WRITE \in Nat /\ LINE \in Nat
  BY PpuAssumption
<1>2. CASE d = Video
  BY <1>2 DEF Video, Blank, Plain, DataLen, Weight
<1>3. CASE d = Blank
  <2>1. d.flags = {"null"} /\ d.size = LINE /\ d # Video
    BY <1>3 DEF Blank, Video
  <2>2. DataLen(d) = 0
    BY <2>1 DEF DataLen
  <2>3. Weight(d) = 78 + 78 * LINE
    BY <2>1 DEF Weight
  <2> QED
    BY <1>1, <1>3, <2>1, <2>2, <2>3 DEF Plain
<1>4. ASSUME NEW b \in Blocks, NEW p \in Nat, d = ReadDesc(b, p)
      PROVE  "read" \in d.flags /\ d.size = READ
  BY <1>4 DEF ReadDesc
<1>5. ASSUME NEW b \in Blocks, NEW p \in Nat, NEW c \in Cells, d = WriteDesc(b, p, c)
      PROVE  /\ d.size = WRITE /\ "write" \in d.flags
             /\ "read" \in d.flags \/ "null" \in d.flags \/ d.flags = {"write"}
  BY <1>5 DEF WriteDesc, UpperBits
<1>6. CASE /\ d.size \in Nat /\ d.flags \cap {"read", "write"} # {}
           /\ "read" \in d.flags \/ "null" \in d.flags \/ d.flags = {"write"}
  <2>1. DataLen(d) \in Nat
    <3>1. CASE "read" \in d.flags
      BY <3>1 DEF DataLen
    <3>2. CASE "read" \notin d.flags /\ "null" \in d.flags
      BY <3>2 DEF DataLen
    <3>3. CASE d.flags = {"write"}
      BY <1>6, <3>3 DEF DataLen
    <3> QED
      BY <1>6, <3>1, <3>2, <3>3
  <2>2. Weight(d) = 115 + 20 * d.size
    BY <1>6 DEF Weight
  <2>3. ~Plain(d) /\ d # Video
    BY <1>6 DEF Plain, Video, Blank
  <2> QED
    BY <1>6, <2>1, <2>2, <2>3
<1>7. \/ d = Video \/ d = Blank
      \/ \E b \in Blocks, p \in Nat : d = ReadDesc(b, p)
      \/ \E b \in Blocks, p \in Nat, c \in Cells : d = WriteDesc(b, p, c)
  BY DEF Descs
<1> QED
  BY <1>1, <1>2, <1>3, <1>4, <1>5, <1>6, <1>7

\* What the call queues.
LEMMA DescIs ==
  ASSUME CallInv, pc \notin {"idle", "queued", "lost"}
  PROVE  /\ Desc \in Descs
         /\ ~Moving => Plain(Desc)
         /\ call.op = "read" => Desc = ReadDesc(call.block, pass)
         /\ call.op = "write" => Desc = WriteDesc(call.block, pass, bf_data[pass])
<1>1. call.op \in {"putc", "blank", "read", "write"}
  BY DEF CallInv
<1>2. CASE call.op = "putc"
  BY <1>2 DEF Desc, Descs, Plain, Moving
<1>3. CASE call.op = "blank"
  BY <1>3 DEF Desc, Descs, Plain, Moving
<1>4. CASE call.op = "read"
  <2>1. Desc = ReadDesc(call.block, pass)
    BY <1>4 DEF Desc
  <2>2. call.block \in Blocks /\ pass \in Nat
    BY <1>4, Numbers DEF CallInv, Moving
  <2> QED
    BY <1>4, <2>1, <2>2 DEF Descs, Moving
<1>5. CASE call.op = "write"
  <2>1. Desc = WriteDesc(call.block, pass, bf_data[pass])
    BY <1>5 DEF Desc
  <2>2. call.block \in Blocks /\ pass \in 0 .. CELLS - 1
    BY <1>5, Numbers DEF CallInv, Moving
  <2>3. bf_data[pass] \in Cells /\ pass \in Nat
    BY <1>5, <2>2 DEF CallInv, Whole, Cell, Cells
  <2> QED
    BY <1>5, <2>1, <2>2, <2>3 DEF Descs, Moving
<1> QED
  BY <1>1, <1>2, <1>3, <1>4, <1>5

(* Before a block above the first 256 banks is written, the flags of a     *)
(* write have no other bit.                                                *)
LEMMA FlagsOf ==
  ASSUME CallInv, ~Crossed
  PROVE  /\ call.op = "read" => Moving /\ "read" \in Desc.flags
         /\ call.op = "write" => Moving /\ Desc.flags = {"write"}
         /\ Moving => (call.op = "read" <=> "read" \in Desc.flags) /\ ~Plain(Desc) /\ ~Torn(Desc)
<1>1. call.op = "read" => Moving /\ "read" \in Desc.flags
  BY DEF Desc, ReadDesc, Moving
<1>2. call.op = "write" => Moving /\ Desc.flags = {"write"}
  <2> SUFFICES ASSUME call.op = "write" PROVE Moving /\ Desc.flags = {"write"}
    OBVIOUS
  <2>1. call.block \in Blocks
    BY DEF CallInv, Moving
  <2>2. UpperBits(call.block) = {}
    BY <2>1 DEF Crossed
  <2> QED
    BY <2>2 DEF Desc, WriteDesc, Moving
<1>3. ASSUME Moving PROVE ~Plain(Desc) /\ ~Torn(Desc)
  <2>1. CASE "read" \in Desc.flags
    BY <2>1 DEF Plain, Video, Blank, Torn, Wanted, DataLen
  <2>2. CASE Desc.flags = {"write"}
    BY <2>2 DEF Plain, Video, Blank, Torn, Wanted, DataLen
  <2> QED
    BY <1>1, <1>2, <1>3, <2>1, <2>2 DEF Moving
<1> QED
  BY <1>1, <1>2, <1>3 DEF Moving

-----------------------------------------------------------------------------
(* Where the kernel is *)

LEMMA CallInit == Init => CallInv
BY DEF Init, CallInv, Places, Moving

LEMMA CallStep ==
  ASSUME CallInv, [Next]_vars
  PROVE  CallInv'
<1> USE DEF ppu, kernel, At, Goto, Places, Moving
<1>0. /\ Passes.read \in Nat \ {0} /\ Passes.write = CELLS /\ CELLS \in Nat \ {0}
      /\ 0 \in 0 .. Passes.read - 1 /\ 0 \in 0 .. CELLS - 1
  BY Numbers
<1>1. ASSUME NEW c, Begin(c), c.op \in {"putc", "newline"} PROVE CallInv'
  BY <1>1 DEF CallInv, Begin
<1>2. ASSUME NEW b \in Blocks, Begin([op |-> "read", block |-> b]) PROVE CallInv'
  <2>1. /\ pc' = "queue" /\ call' = [op |-> "read", block |-> b] /\ pass' = 0 /\ disk' = disk
    BY <1>2 DEF Begin
  <2> QED
    BY <2>1, <1>0 DEF CallInv
<1>3. ASSUME NEW b \in Blocks, NEW d \in Data, Begin([op |-> "write", block |-> b, data |-> d])
      PROVE  CallInv'
  <2>1. /\ pc' = "queue" /\ call' = [op |-> "write", block |-> b, data |-> d] /\ pass' = 0
        /\ bf_data' = Whole(d) /\ disk' = disk
    BY <1>3 DEF Begin
  <2> QED
    BY <2>1, <1>0 DEF CallInv
<1>4. CASE Lock
  BY <1>4 DEF CallInv, Lock
<1>5. CASE Header
  BY <1>5 DEF CallInv, Header
<1>6. CASE CopyData
  BY <1>6 DEF CallInv, CopyData
<1>7. CASE Unlock
  BY <1>7 DEF CallInv, Unlock
<1>8. CASE Again
  BY <1>8 DEF CallInv, Again
<1>9. CASE WaitFrame
  BY <1>9 DEF CallInv, WaitFrame
<1>10. CASE Woken
  BY <1>10 DEF CallInv, Woken
<1>11. CASE CopyAnswer
  BY <1>11 DEF CallInv, CopyAnswer
<1>12. CASE Taken
  BY <1>12 DEF CallInv, Taken
<1>13. CASE NextPass
  <2>1. pass + 1 \in 0 .. Passes[call.op] - 1
    BY <1>0, <1>13 DEF CallInv, NextPass, LastPass
  <2> QED
    BY <2>1, <1>13 DEF CallInv, NextPass
<1>14. CASE PpuwdDone
  <2>1. /\ pc' = "idle" /\ call' = [op |-> "none"]
        /\ disk' = IF call.op = "write" THEN [disk EXCEPT ![call.block] = call.data] ELSE disk
    BY <1>14 DEF PpuwdDone, Return
  <2>2. disk' \in [Blocks -> Data \cup {None}]
    BY <2>1 DEF CallInv
  <2> QED
    BY <2>1, <2>2 DEF CallInv
<1>15. CASE Advance
  <2>1. \/ pc' = "queue" /\ call' = [op |-> "blank"]
        \/ pc' = "idle" /\ call' = [op |-> "none"]
    <3>1. CASE Scrolls
      BY <1>15, <3>1 DEF Advance
    <3>2. CASE ~Scrolls
      BY <1>15, <3>2 DEF Advance, Return
    <3> QED
      BY <3>1, <3>2
  <2>2. disk' = disk
    BY <1>15 DEF Advance
  <2> QED
    BY <2>1, <2>2 DEF CallInv
<1>16. CASE Nmi
  <2>1. UNCHANGED <<call, pass, bf_data, disk>> /\ pc' \in {pc, "lost"}
    BY <1>16 DEF Nmi, Lost
  <2> QED
    BY <2>1 DEF CallInv
<1>17. CASE UNCHANGED vars
  BY <1>17 DEF CallInv, vars
<1> QED
  BY <1>1, <1>2, <1>3, <1>4, <1>5, <1>6, <1>7, <1>8, <1>9, <1>10, <1>11, <1>12, <1>13, <1>14,
     <1>15, <1>16, <1>17
  DEF Next, Kernel, PpuPutc, PpuwdRead, PpuwdWrite

\* Once a block above the first 256 banks is written, it was.
LEMMA CrossedStays ==
  ASSUME CallInv, [Next]_vars, Crossed
  PROVE  Crossed'
<1> USE DEF ppu, kernel, At, Goto
<1>1. PICK b \in Blocks : UpperBits(b) # {} /\ (disk[b] # None \/ (call.op = "write" /\ call.block = b))
  BY DEF Crossed
<1>2. SUFFICES disk'[b] # None \/ (call'.op = "write" /\ call'.block = b)
  BY <1>1 DEF Crossed, UpperBits, Bank
<1>3. UNCHANGED <<call, disk>> => disk'[b] # None \/ (call'.op = "write" /\ call'.block = b)
  BY <1>1
<1>4. CASE Lock \/ Header \/ CopyData \/ Unlock \/ Again \/ WaitFrame \/ Woken \/ CopyAnswer
           \/ Taken \/ NextPass \/ Nmi \/ UNCHANGED vars
  BY <1>3, <1>4 DEF Lock, Header, CopyData, Unlock, Again, WaitFrame, Woken, CopyAnswer, Taken,
                   NextPass, Nmi, vars
<1>5. CASE PpuwdDone
  <2>1. disk' = IF call.op = "write" THEN [disk EXCEPT ![call.block] = call.data] ELSE disk
    BY <1>5 DEF PpuwdDone
  <2>2. call.op = "write" => call.data # None
    BY PpuAssumption DEF CallInv
  <2> QED
    BY <1>1, <2>1, <2>2 DEF CallInv
<1>6. CASE Advance
  BY <1>1, <1>6 DEF Advance
<1>7. \A c : ~Begin(c)
  BY DEF Begin
<1> QED
  BY <1>4, <1>5, <1>6, <1>7 DEF Next, Kernel, PpuPutc, PpuwdRead, PpuwdWrite

-----------------------------------------------------------------------------
(* What is in the buffer *)

Memory == [chr |-> chr, readbuf |-> readbuf, dirty |-> FALSE]

(* Of all the descriptors only the last has an effect on the memory, if it *)
(* moves a block.                                                          *)
LEMMA Effect ==
  ASSUME QueueInv
  PROVE  AllCarriedOut = IF Moving /\ Queued THEN CarriedOut(Memory, Desc) ELSE Memory
<1> DEFINE N == Len(buf)
           left == CHOOSE f : f = [n \in 0 .. N |-> IF n = 0 THEN Memory
                                                    ELSE CarriedOut(f[n - 1], buf[n])]
           g == [n \in 0 .. N |-> IF n < N \/ N = 0 THEN Memory ELSE CarriedOut(Memory, buf[N])]
<1>1. N \in Nat /\ buf \in Seq(Descs)
  BY DEF QueueInv
<1>2. \A d, m : Plain(d) => CarriedOut(m, d) = m
  BY DEF Plain, CarriedOut, Video, Blank
<1>3. \A n \in 1 .. N : n < N => Plain(buf[n])
  BY DEF QueueInv
<1>4. g = [n \in 0 .. N |-> IF n = 0 THEN Memory ELSE CarriedOut(g[n - 1], buf[n])]
  <2>1. \A n \in 0 .. N : g[n] = IF n = 0 THEN Memory ELSE CarriedOut(g[n - 1], buf[n])
    <3> SUFFICES ASSUME NEW n \in 0 .. N
                 PROVE  g[n] = IF n = 0 THEN Memory ELSE CarriedOut(g[n - 1], buf[n])
      OBVIOUS
    <3>1. CASE n = 0
      BY <1>1, <3>1
    <3>2. CASE n # 0 /\ n < N
      <4>1. n \in 1 .. N /\ n - 1 \in 0 .. N /\ n - 1 < N
        BY <1>1, <3>2
      <4>2. g[n] = Memory /\ g[n - 1] = Memory
        BY <3>2, <4>1
      <4> QED
        BY <1>2, <1>3, <3>2, <4>1, <4>2
    <3>3. CASE n # 0 /\ n = N
      <4>1. n - 1 \in 0 .. N /\ n - 1 < N /\ ~ n < N
        BY <1>1, <3>3
      <4>2. g[n] = CarriedOut(Memory, buf[n]) /\ g[n - 1] = Memory
        BY <3>3, <4>1
      <4> QED
        BY <3>3, <4>2
    <3> QED
      BY <1>1, <3>1, <3>2, <3>3
  <2>2. g = [n \in 0 .. N |-> g[n]]
    OBVIOUS
  <2> HIDE DEF g, N
  <2> QED
    BY <2>1, <2>2
<1>5. left = [n \in 0 .. N |-> IF n = 0 THEN Memory ELSE CarriedOut(left[n - 1], buf[n])]
  <2> HIDE DEF g, N
  <2> QED
    BY <1>4, Zenon
<1>6. AllCarriedOut = left[N]
  BY Zenon DEF AllCarriedOut, Memory
<1> HIDE DEF left, g
<1> DEFINE S == {n \in 0 .. N : n < N => left[n] = Memory}
<1>7. 0 \in S
  BY <1>1, <1>5
<1>8. ASSUME NEW n \in 0 .. N - 1, n \in S PROVE n + 1 \in S
  <2>1. n + 1 \in 1 .. N /\ (n + 1) - 1 = n /\ n + 1 \in 0 .. N /\ n + 1 # 0 /\ n < N
    BY <1>1
  <2>2. left[n + 1] = CarriedOut(left[n], buf[n + 1])
    BY <1>5, <2>1
  <2>3. left[n] = Memory
    BY <1>8, <2>1
  <2>4. n + 1 < N => Plain(buf[n + 1])
    BY <1>3, <2>1
  <2> QED
    BY <1>2, <2>1, <2>2, <2>3, <2>4
<1>9. 0 .. N \subseteq S
  <2> HIDE DEF S, N
  <2> QED
    BY <1>1, <1>7, <1>8, IntervalInduction
<1>10. CASE N = 0
  <2>1. left[N] = Memory /\ buf = <<>>
    BY <1>1, <1>5, <1>10
  <2> QED
    BY <1>6, <2>1 DEF Queued
<1>11. CASE N # 0
  <2>1. N \in 1 .. N /\ N - 1 \in 0 .. N /\ N - 1 < N /\ N \in 0 .. N
    BY <1>1, <1>11
  <2>2. left[N - 1] = Memory
    BY <1>9, <2>1
  <2>3. left[N] = CarriedOut(Memory, buf[N])
    BY <1>5, <1>11, <2>1, <2>2
  <2>4. CASE Moving /\ Queued
    <3>1. buf[N] = Desc
      BY <2>4 DEF Queued
    <3> QED
      BY <1>6, <2>3, <2>4, <3>1
  <2>5. CASE ~ (Moving /\ Queued)
    <3>1. buf # <<>>
      BY <1>11
    <3>2. Plain(buf[N])
      BY <2>1, <2>5, <3>1 DEF QueueInv, Queued
    <3> QED
      BY <1>2, <1>6, <2>3, <2>5, <3>2
  <2> QED
    BY <2>4, <2>5
<1> QED
  BY <1>10, <1>11

LEMMA DrainedDirty ==
  ASSUME CallInv, QueueInv, ~Crossed
  PROVE  AllCarriedOut.dirty = (Queued /\ call.op = "read")
<1>1. Memory.dirty = FALSE
  BY DEF Memory
<1>2. call.op = "read" => CarriedOut(Memory, Desc).dirty = TRUE
  BY FlagsOf DEF Memory, CarriedOut, Fetched
<1>3. call.op = "write" => CarriedOut(Memory, Desc).dirty = FALSE
  BY FlagsOf DEF Memory, CarriedOut, Stored
<1> QED
  BY <1>1, <1>2, <1>3, Effect DEF Moving

\* Until then the NMI finds whole descriptors.
LEMMA NotTorn ==
  ASSUME CallInv, QueueInv, ~Crossed
  PROVE  \A k \in DOMAIN buf : ~Torn(buf[k])
<1>1. \A d : Plain(d) => ~Torn(d)
  BY DEF Plain, Video, Blank, Torn, Wanted, DataLen
<1>2. DOMAIN buf = 1 .. Len(buf)
  BY DEF QueueInv
<1> QED
  BY <1>1, <1>2, FlagsOf DEF QueueInv

LEMMA NmiCases ==
  ASSUME CallInv, QueueInv, ~Crossed, Nmi
  PROVE  /\ UNCHANGED <<pc, call, pass, bf_data, disk, screen, locked>>
         /\ dirty => UNCHANGED ppu
         /\ ~dirty => Drained /\ Reset /\ ended' = ended
BY NotTorn DEF Nmi

LEMMA QueueInit == Init => QueueInv
BY DEF Init, QueueInv

\* Steps that leave the buffer and the descriptor of the call alone.
SameQueue == UNCHANGED <<buf, dirty, call, pass, bf_data>>

LEMMA SameQueueKeeps ==
  ASSUME SameQueue, QueueInv,
         pc' \in {"data", "unlock", "queued", "next"} \/ pc \notin {"data", "unlock", "queued", "next"}
           \/ ~Moving \/ buf = <<>>,
         pc' = "next" => call.op = "write" /\ (waiting' \/ buf = <<>>),
         pc' \in {"data", "unlock"} => pc \in {"data", "unlock"},
         call.op = "read" /\ pc' = "queued" => dirty \/ Queued,
         pc' # "copied",
         call.op = "write" /\ pc' \in {"queued", "next"} => buf = <<>> \/ Queued,
         dirty => pc' = "queued"
  PROVE  QueueInv'
<1>1. Desc' = Desc /\ Moving' = Moving /\ (Queued' <=> Queued)
  BY DEF SameQueue, Desc, Moving, Queued
<1>2. \A i \in 1 .. Len(buf) : \/ Plain(buf[i])
                               \/ /\ i = Len(buf) /\ buf[i] = Desc /\ Moving
                                  /\ pc' \in {"data", "unlock", "queued", "next"}
                                  /\ pc' = "next" => call.op = "write" /\ waiting'
  BY DEF QueueInv
<1> QED
  BY <1>1, <1>2 DEF SameQueue, QueueInv

LEMMA QueueStep ==
  ASSUME LockInv, CallInv, QueueInv, ~Crossed, [Next]_vars
  PROVE  QueueInv'
<1> USE DEF ppu, kernel, At, Goto
<1>1. ASSUME NEW c, Begin(c) PROVE QueueInv'
  <2>1. /\ buf' = buf /\ dirty' = dirty /\ pc = "idle" /\ pc' \in {"queue", "queued"}
        /\ call' = c /\ (pc' = "queued" => c.op = "newline") /\ call.op = "none"
    BY <1>1 DEF Begin, CallInv
  <2>2. ~Moving /\ ~dirty /\ \A i \in 1 .. Len(buf) : Plain(buf[i])
    BY <2>1 DEF QueueInv, Moving
  <2> QED
    BY <2>1, <2>2 DEF QueueInv
<1>2. CASE Lock
  BY <1>2, SameQueueKeeps DEF Lock, SameQueue, QueueInv, LockInv, CallInv
<1>3. CASE Header
  <2>1. /\ buf' = Append(buf, Desc) /\ pc = "room" /\ pc' = "data"
        /\ UNCHANGED <<call, pass, bf_data, dirty, waiting>>
    BY <1>3 DEF Header
  <2>2. Desc \in Descs /\ (~Moving => Plain(Desc)) /\ Desc' = Desc /\ Moving' = Moving
    BY <2>1, DescIs DEF Desc, Moving
  <2>3. buf \in Seq(Descs) /\ ~dirty /\ \A i \in 1 .. Len(buf) : Plain(buf[i])
    BY <2>1 DEF QueueInv
  <2>4. /\ buf' \in Seq(Descs) /\ Len(buf') = Len(buf) + 1 /\ buf'[Len(buf')] = Desc
        /\ buf' # <<>> /\ \A i \in 1 .. Len(buf) : buf'[i] = buf[i]
        /\ \A i \in 1 .. Len(buf') : i \in 1 .. Len(buf) \/ i = Len(buf')
    BY <2>1, <2>2, <2>3
  <2>5. Queued'
    BY <2>2, <2>4 DEF Queued
  <2>6. \A i \in 1 .. Len(buf') : Plain(buf'[i]) \/ (i = Len(buf') /\ buf'[i] = Desc' /\ Moving')
    BY <2>2, <2>3, <2>4
  <2> QED
    BY <2>1, <2>3, <2>4, <2>5, <2>6 DEF QueueInv
<1>4. CASE CopyData
  BY <1>4, SameQueueKeeps DEF CopyData, SameQueue, QueueInv
<1>5. CASE Unlock
  BY <1>5, SameQueueKeeps DEF Unlock, SameQueue, QueueInv
<1>6. CASE Again
  BY <1>6, SameQueueKeeps DEF Again, SameQueue, QueueInv
<1>7. CASE WaitFrame
  BY <1>7, SameQueueKeeps DEF WaitFrame, SameQueue, QueueInv
<1>8. CASE Woken
  BY <1>8, SameQueueKeeps DEF Woken, SameQueue, QueueInv
<1>9. CASE CopyAnswer
  <2>1. /\ buf' = buf /\ dirty /\ dirty' = dirty /\ pc' = "copied" /\ call' = call
        /\ call.op = "read"
    BY <1>9 DEF CopyAnswer, Answered
  <2>2. buf = <<>>
    BY <2>1 DEF QueueInv
  <2> QED
    BY <2>1, <2>2 DEF QueueInv
<1>10. CASE Taken
  <2>1. /\ buf' = buf /\ dirty' = FALSE /\ pc = "copied" /\ pc' = "next" /\ call' = call
        /\ call.op = "read"
    BY <1>10 DEF Taken, CallInv
  <2>2. buf = <<>>
    BY <2>1 DEF QueueInv
  <2> QED
    BY <2>1, <2>2 DEF QueueInv
<1>11. CASE NextPass
  <2>1. /\ buf' = buf /\ dirty' = dirty /\ pc = "next" /\ pc' = "queue" /\ call' = call
        /\ (call.op = "write" => ~waiting)
    BY <1>11 DEF NextPass
  <2>2. ~dirty /\ \A i \in 1 .. Len(buf) : Plain(buf[i])
    BY <2>1 DEF QueueInv
  <2> QED
    BY <2>1, <2>2 DEF QueueInv
<1>12. CASE PpuwdDone
  <2>1. /\ buf' = buf /\ dirty' = dirty /\ pc = "next" /\ pc' = "idle" /\ call' = [op |-> "none"]
        /\ (call.op = "write" => ~waiting)
    BY <1>12 DEF PpuwdDone, Return
  <2>2. ~dirty /\ \A i \in 1 .. Len(buf) : Plain(buf[i])
    BY <2>1 DEF QueueInv
  <2> QED
    BY <2>1, <2>2 DEF QueueInv
<1>13. CASE Advance
  <2>1. /\ buf' = buf /\ dirty' = dirty /\ pc = "queued" /\ pc' \in {"idle", "queue"}
        /\ call.op \in {"putc", "newline"}
    BY <1>13 DEF Advance, Return
  <2>2. ~dirty /\ \A i \in 1 .. Len(buf) : Plain(buf[i])
    BY <2>1 DEF QueueInv, Moving
  <2> QED
    BY <2>1, <2>2 DEF QueueInv
<1>14. CASE Nmi
  <2>1. ~locked /\ UNCHANGED <<pc, call, pass, bf_data>> /\ pc \notin {"room", "data", "unlock"}
    BY <1>14, NmiCases DEF Nmi, FreeToRun, LockInv
  <2>2. CASE dirty
    <3>1. UNCHANGED <<buf, dirty>> /\ buf = <<>> /\ Desc' = Desc
      BY <1>14, <2>1, <2>2, NmiCases DEF QueueInv, Desc
    <3> QED
      BY <2>1, <2>2, <3>1 DEF QueueInv
  <2>3. CASE ~dirty
    <3>1. buf' = <<>>
      BY <1>14, <2>3, NmiCases DEF Reset
    <3>2. dirty' = AllCarriedOut.dirty
      BY <1>14, <2>3, NmiCases DEF Drained
    <3>3. dirty' = FALSE \/ (dirty' = TRUE /\ Queued /\ call.op = "read")
      BY <3>2, DrainedDirty
    <3>4. CASE dirty' = FALSE
      <4>1. pc # "copied"
        BY <2>3 DEF QueueInv
      <4>2. ~ (call.op = "read" /\ pc = "queued")
        <5>1. SUFFICES ASSUME call.op = "read", pc = "queued" PROVE FALSE
          OBVIOUS
        <5>2. Queued
          BY <2>3, <5>1 DEF QueueInv
        <5>3. dirty' = TRUE
          BY <3>2, <5>1, <5>2, DrainedDirty
        <5> QED
          BY <3>4, <5>3
      <4> QED
        BY <2>1, <3>1, <3>4, <4>1, <4>2 DEF QueueInv
    <3>5. CASE dirty' = TRUE /\ Queued /\ call.op = "read"
      <4>1. Moving /\ ~Plain(Desc)
        BY <3>5, FlagsOf DEF Moving
      <4>2. pc \in {"queued", "next"}
        <5>1. Len(buf) \in 1 .. Len(buf) /\ buf[Len(buf)] = Desc
          BY <3>5 DEF Queued, QueueInv
        <5> QED
          BY <2>1, <4>1, <5>1 DEF QueueInv
      <4>3. pc # "next"
        <5>1. Len(buf) \in 1 .. Len(buf) /\ buf[Len(buf)] = Desc
          BY <3>5 DEF Queued, QueueInv
        <5> QED
          BY <3>5, <4>1, <5>1 DEF QueueInv
      <4> QED
        BY <2>1, <3>1, <3>5, <4>2, <4>3 DEF QueueInv
    <3> QED
      BY <3>3, <3>4, <3>5
  <2> QED
    BY <2>2, <2>3
<1>15. CASE UNCHANGED vars
  <2>1. SameQueue /\ pc' = pc /\ waiting' = waiting /\ (Queued' <=> Queued) /\ Desc' = Desc
        /\ Moving' = Moving
    BY <1>15 DEF vars, SameQueue, Queued, Desc, Moving
  <2> QED
    BY <2>1 DEF SameQueue, QueueInv
<1> QED
  BY <1>1, <1>2, <1>3, <1>4, <1>5, <1>6, <1>7, <1>8, <1>9, <1>10, <1>11, <1>12, <1>13, <1>14,
     <1>15
  DEF Next, Kernel, PpuPutc, PpuwdRead, PpuwdWrite

-----------------------------------------------------------------------------
(* Room and weight *)

LEMMA SumConstant ==
  ASSUME NEW s \in Seq(Nat), NEW c \in Nat, \A k \in 1 .. Len(s) : s[k] = c
  PROVE  Sum(s) = c * Len(s)
<1>1. PICK g \in [0 .. Len(s) -> Nat] :
        /\ g[0] = 0 /\ \A k \in 1 .. Len(s) : g[k] = g[k - 1] + s[k]
        /\ Sum(s) = g[Len(s)]
  BY SumIs
<1> DEFINE N == Len(s)
           S == {n \in 0 .. N : g[n] = c * n}
<1>2. N \in Nat
  OBVIOUS
<1> HIDE DEF N
<1>3. 0 \in S
  BY <1>1, <1>2
<1>4. ASSUME NEW n \in 0 .. N - 1, n \in S PROVE n + 1 \in S
  <2>1. n + 1 \in 1 .. N /\ (n + 1) - 1 = n /\ n + 1 \in 0 .. N
    BY <1>2
  <2>2. g[n + 1] = g[n] + c
    BY <1>1, <2>1 DEF N
  <2>3. c * (n + 1) = c * n + c
    OBVIOUS
  <2> QED
    BY <1>4, <2>1, <2>2, <2>3
<1>5. 0 .. N \subseteq S
  <2> HIDE DEF S
  <2> QED
    BY <1>2, <1>3, <1>4, IntervalInduction
<1>6. N \in S
  BY <1>2, <1>5
<1> QED
  BY <1>1, <1>6 DEF N

\* The bytes and the cycles of each descriptor of s.
Sizes(s) == [k \in 1 .. Len(s) |-> DESC + DataLen(s[k])]
Weights(s) == [k \in 1 .. Len(s) |-> Weight(s[k])]

LEMMA SizesTyped ==
  ASSUME NEW s \in Seq(Descs)
  PROVE  /\ Sizes(s) \in Seq(Nat) /\ Len(Sizes(s)) = Len(s)
         /\ Weights(s) \in Seq(Nat) /\ Len(Weights(s)) = Len(s)
         /\ Length(s) = Sum(Sizes(s))
<1>1. DESC \in Nat /\ Len(s) \in Nat
  BY PpuAssumption
<1>2. \A k \in 1 .. Len(s) : DESC + DataLen(s[k]) \in Nat /\ Weight(s[k]) \in Nat
  BY <1>1, DescFacts
<1>3. Length(s) = Sum(Sizes(s))
  BY DEF Length, Sizes
<1> QED
  BY <1>1, <1>2, <1>3 DEF Sizes, Weights

LEMMA LengthEmpty == Length(<<>>) = 0
<1>1. <<>> \in Seq(Descs) /\ Len(<<>>) = 0
  OBVIOUS
<1> QED
  BY <1>1, SizesTyped, SumEmpty

LEMMA LengthMore ==
  ASSUME NEW s \in Seq(Descs), NEW d \in Descs
  PROVE  Length(s) \in Nat /\ Length(Append(s, d)) = Length(s) + DESC + DataLen(d)
<1> DEFINE t == Append(s, d)
<1>1. /\ t \in Seq(Descs) /\ Len(t) = Len(s) + 1 /\ t[Len(t)] = d /\ Len(s) \in Nat
      /\ \A k \in 1 .. Len(s) : t[k] = s[k] /\ k \in 1 .. Len(t)
      /\ Len(t) \in 1 .. Len(t)
  OBVIOUS
<1> HIDE DEF t
<1>2. Longer(Sizes(s), Sizes(t))
  BY <1>1, SizesTyped DEF Longer, Sizes
<1>3. Sizes(t)[Len(Sizes(t))] = DESC + DataLen(d)
  BY <1>1, SizesTyped DEF Sizes
<1>4. /\ Sizes(s) \in Seq(Nat) /\ Sizes(t) \in Seq(Nat)
      /\ Length(s) = Sum(Sizes(s)) /\ Length(t) = Sum(Sizes(t))
  BY <1>1, SizesTyped
<1>5. Sum(Sizes(s)) \in Nat /\ Sum(Sizes(t)) = Sum(Sizes(s)) + (DESC + DataLen(d))
  BY <1>2, <1>3, <1>4, SumMore
<1>6. DESC \in Nat /\ DataLen(d) \in Nat
  BY PpuAssumption, DescFacts
<1> QED
  BY <1>4, <1>5, <1>6 DEF t

LEMMA SizeInit == Init => SizeInv
BY LengthEmpty, PpuAssumption DEF Init, SizeInv

LEMMA SameSizes ==
  ASSUME SizeInv, UNCHANGED <<buf, databuf_pos>>, pc # "data", pc' # "data"
  PROVE  SizeInv'
BY DEF SizeInv

LEMMA SizeStep ==
  ASSUME LockInv, CallInv, BufInv, SizeInv, [Next]_vars
  PROVE  SizeInv'
<1> USE DEF ppu, kernel, At, Goto
<1>1. ASSUME NEW c, Begin(c) PROVE SizeInv'
  BY <1>1, SameSizes DEF Begin
<1>2. CASE Lock
  BY <1>2, SameSizes DEF Lock
<1>3. CASE Header
  <2>1. /\ buf' = Append(buf, Desc) /\ pc = "room" /\ pc' = "data"
        /\ databuf_pos' = databuf_pos + DESC /\ UNCHANGED <<call, pass, bf_data>>
        /\ ~NoRoom(Desc) /\ ~TooHeavy(Desc)
    BY <1>3 DEF Header
  <2>2. Desc \in Descs /\ Desc' = Desc /\ buf \in Seq(Descs)
    BY <2>1, DescIs DEF Desc, BufInv
  <2>3. DESC \in Nat /\ BUF \in Nat /\ DataLen(Desc) \in Nat
    BY <2>2, DescFacts, PpuAssumption
  <2>4. Length(buf) \in Nat /\ Length(buf') = Length(buf) + DESC + DataLen(Desc)
    BY <2>1, <2>2, LengthMore
  <2>5. databuf_pos = Length(buf)
    <3>1. Length(buf) = databuf_pos + 0
      BY <2>1 DEF SizeInv
    <3>2. databuf_pos \in Nat
      BY <1>3 DEF SizeInv
    <3> QED
      BY <3>1, <3>2
  <2>6. Length(buf') = databuf_pos' + DataLen(Desc') /\ Length(buf') < BUF
    BY <2>1, <2>2, <2>3, <2>4, <2>5 DEF NoRoom
  <2>7. \A i \in 1 .. Len(buf') : ~TooHeavy(buf'[i])
    <3>1. \A i \in 1 .. Len(buf') : (i \in 1 .. Len(buf) /\ buf'[i] = buf[i]) \/ buf'[i] = Desc
      BY <2>1, <2>2
    <3> QED
      BY <2>1, <3>1 DEF SizeInv
  <2>8. databuf_pos' \in Nat
    BY <2>1, <2>3 DEF SizeInv
  <2> QED
    BY <2>1, <2>6, <2>7, <2>8 DEF SizeInv
<1>4. CASE CopyData
  <2>1. /\ buf' = buf /\ pc = "data" /\ pc' = "unlock" /\ databuf_pos' = databuf_pos + DataLen(Desc)
    BY <1>4 DEF CopyData
  <2>2. DataLen(Desc) \in Nat
    BY <2>1, DescIs, DescFacts
  <2>3. databuf_pos' \in Nat /\ Length(buf') = databuf_pos' + 0 /\ Length(buf') < BUF
    BY <2>1, <2>2 DEF SizeInv
  <2>4. \A i \in 1 .. Len(buf') : ~TooHeavy(buf'[i])
    BY <2>1 DEF SizeInv
  <2> QED
    BY <2>1, <2>3, <2>4 DEF SizeInv
<1>5. CASE Unlock
  BY <1>5, SameSizes DEF Unlock
<1>6. CASE Again
  BY <1>6, SameSizes DEF Again
<1>7. CASE WaitFrame
  BY <1>7, SameSizes DEF WaitFrame
<1>8. CASE Woken
  BY <1>8, SameSizes DEF Woken
<1>9. CASE CopyAnswer
  BY <1>9, SameSizes DEF CopyAnswer
<1>10. CASE Taken
  BY <1>10, SameSizes DEF Taken
<1>11. CASE NextPass
  BY <1>11, SameSizes DEF NextPass
<1>12. CASE PpuwdDone
  BY <1>12, SameSizes DEF PpuwdDone, Return
<1>13. CASE Advance
  BY <1>13, SameSizes DEF Advance, Return
<1>14. CASE Nmi
  <2>1. ~locked /\ pc' \in {pc, "lost"} /\ pc # "data" /\ pc' # "data"
    BY <1>14 DEF Nmi, FreeToRun, LockInv, Lost
  <2>2. CASE UNCHANGED <<buf, databuf_pos>>
    BY <2>1, <2>2, SameSizes
  <2>3. CASE Reset
    <3>1. buf' = <<>> /\ databuf_pos' = 0
      BY <2>3 DEF Reset
    <3> QED
      BY <2>1, <3>1, LengthEmpty, PpuAssumption DEF SizeInv
  <2> QED
    BY <1>14, <2>2, <2>3 DEF Nmi, Lost
<1>15. CASE UNCHANGED vars
  <2>1. UNCHANGED <<buf, databuf_pos, pc>> /\ Desc' = Desc
    BY <1>15 DEF vars, Desc
  <2> QED
    BY <2>1 DEF SizeInv
<1> QED
  BY <1>1, <1>2, <1>3, <1>4, <1>5, <1>6, <1>7, <1>8, <1>9, <1>10, <1>11, <1>12, <1>13, <1>14,
     <1>15
  DEF Next, Kernel, PpuPutc, PpuwdRead, PpuwdWrite

(* What FrameFits asks of the costs: a blank line is refused, as it is in  *)
(* the code; one descriptor that is not refused fits; and so do as many    *)
(* characters as there is room for.                                        *)
Sized ==
  /\ TooHeavy(Blank)
  /\ MAXCYCLES <= VBLANK
  /\ \A n \in Nat : n * (DESC + 1) < BUF => BASECYCLES + Weight(Video) * n <= VBLANK

LEMMA Fits ==
  ASSUME LockInv, SizeInv, ~Crossed => QueueInv, Sized
  PROVE  FrameFits
<1>1. ended => databuf_pos = Length(buf) /\ databuf_pos < BUF
  BY DEF LockInv, SizeInv
<1> SUFFICES ASSUME Cycles > VBLANK, QueueInv
             PROVE  Len(buf) > 1 /\ Last(buf).flags \cap {"read", "write"} # {}
  BY <1>1 DEF FrameFits
<1>2. /\ buf \in Seq(Descs) /\ Len(buf) \in Nat /\ Weights(buf) \in Seq(Nat)
      /\ Sizes(buf) \in Seq(Nat) /\ Length(buf) = Sum(Sizes(buf))
      /\ Len(Weights(buf)) = Len(buf) /\ Len(Sizes(buf)) = Len(buf)
      /\ Cycles = BASECYCLES + Sum(Weights(buf))
  BY SizesTyped DEF QueueInv, Cycles, Weights
<1>3. /\ DESC \in Nat /\ BUF \in Nat /\ VBLANK \in Nat /\ MAXCYCLES \in Nat /\ BASECYCLES = 171
  BY PpuAssumption DEF BASECYCLES
<1>4. ASSUME \A i \in 1 .. Len(buf) : buf[i] = Video PROVE Cycles <= VBLANK
  <2>1. Weight(Video) = 94 /\ DataLen(Video) = 1
    BY DEF Weight, DataLen, Video
  <2>2. Sum(Weights(buf)) = 94 * Len(buf)
    <3>1. \A k \in 1 .. Len(Weights(buf)) : Weights(buf)[k] = 94
      BY <1>2, <1>4, <2>1 DEF Weights
    <3>2. Sum(Weights(buf)) = 94 * Len(Weights(buf))
      BY <1>2, <3>1, SumConstant
    <3> QED
      BY <1>2, <3>2
  <2>3. Length(buf) = Len(buf) * (DESC + 1)
    <3> DEFINE c == DESC + 1
    <3>1. \A k \in 1 .. Len(Sizes(buf)) : Sizes(buf)[k] = c
      BY <1>2, <1>4, <2>1 DEF Sizes
    <3>2. c \in Nat
      BY <1>3
    <3> HIDE DEF c
    <3>3. Sum(Sizes(buf)) = c * Len(Sizes(buf))
      BY <1>2, <3>1, <3>2, SumConstant
    <3>4. Length(buf) = Len(buf) * c
      BY <1>2, <3>2, <3>3
    <3> QED
      BY <3>4 DEF c
  <2>4. BASECYCLES + 94 * Len(buf) <= VBLANK
    BY <1>2, <2>1, <2>3 DEF Sized, SizeInv
  <2> QED
    BY <1>2, <2>2, <2>4
<1>5. \A i \in 1 .. Len(buf) : Plain(buf[i]) => buf[i] = Video
  BY DEF Plain, Sized, SizeInv
<1>6. Len(buf) > 1 /\ Last(buf).flags \cap {"read", "write"} # {}
  <2>1. \A i \in 1 .. Len(buf) : i # Len(buf) => Plain(buf[i])
    BY DEF QueueInv
  <2>2. Len(buf) # 0 /\ ~Plain(buf[Len(buf)])
    <3>1. CASE Len(buf) = 0 \/ Plain(buf[Len(buf)])
      <4>1. \A i \in 1 .. Len(buf) : buf[i] = Video
        BY <1>2, <1>5, <2>1, <3>1
      <4>2. Sum(Weights(buf)) \in Nat
        <5>1. PICK g \in [0 .. Len(Weights(buf)) -> Nat] : Sum(Weights(buf)) = g[Len(Weights(buf))]
          BY <1>2, SumIs
        <5> QED
          BY <1>2, <5>1
      <4> QED
        BY <1>2, <1>3, <1>4, <4>1, <4>2
    <3> QED
      BY <3>1
  <2>3. Len(buf) \in 1 .. Len(buf) /\ buf[Len(buf)] \in Descs
    BY <1>2, <2>2
  <2>4. Last(buf).flags \cap {"read", "write"} # {}
    BY <2>2, <2>3, DescFacts DEF Last
  <2>5. Len(buf) # 1
    <3>1. CASE Len(buf) = 1
      <4>1. ~TooHeavy(buf[1]) /\ buf[1] \in Descs
        BY <2>3, <3>1 DEF SizeInv
      <4>2. Weight(buf[1]) \in Nat /\ Weight(buf[1]) + 171 <= MAXCYCLES
        BY <1>3, <4>1, DescFacts DEF TooHeavy
      <4> DEFINE w == Weight(buf[1])
      <4>3. \A k \in 1 .. Len(Weights(buf)) : Weights(buf)[k] = w
        BY <1>2, <3>1 DEF Weights
      <4>4. w \in Nat
        BY <4>2
      <4> HIDE DEF w
      <4>5. Sum(Weights(buf)) = w * Len(Weights(buf))
        BY <1>2, <4>3, <4>4, SumConstant
      <4>6. Cycles = 171 + w
        <5>1. w * 1 = w /\ Len(Weights(buf)) = 1
          BY <1>2, <3>1, <4>4
        <5> QED
          BY <1>2, <1>3, <4>5, <5>1
      <4> QED
        BY <1>3, <4>2, <4>6 DEF Sized, w
    <3> QED
      BY <3>1
  <2> QED
    BY <1>2, <2>2, <2>4, <2>5
<1> QED
  BY <1>6

-----------------------------------------------------------------------------
(* Where blocks are *)

(* Minor numbers are multiples of the blocks of a bank, as 0 and 4096 are: *)
(* blk_bank and blk_base_addr agree then on where a block is.              *)
Aligned == \A m \in Minors : m % PERBANK = 0

LEMMA PlaceFacts ==
  ASSUME NEW b \in Blocks
  PROVE  /\ b[1] \in Nat /\ b[2] \in Nat /\ b[1] \in Minors
         /\ Bank(b) \in Nat /\ LowerByte(b) \in 0 .. NBANKS - 1 /\ Base(b) \in Nat
         /\ \A k \in 0 .. CELLS - 1 : Base(b) + k \in 0 .. PERBANK * CELLS - 1
<1> DEFINE q == (b[2] + b[1]) % PERBANK
<1>1. b[1] \in Minors /\ b[1] \in Nat /\ b[2] \in Nat
  BY PpuAssumption DEF Blocks
<1>2. PERBANK \in Nat \ {0} /\ NBANKS \in Nat \ {0} /\ CELLS \in Nat \ {0}
  BY Numbers
<1>3. Bank(b) \in Nat
  BY <1>1, <1>2, DivMod DEF Bank
<1>4. LowerByte(b) \in 0 .. NBANKS - 1
  BY <1>2, <1>3, DivMod DEF LowerByte
<1>5. q \in 0 .. PERBANK - 1
  <2>1. b[2] + b[1] \in Nat
    BY <1>1
  <2> QED
    BY <1>2, <2>1, DivMod
<1>6. Base(b) = q * CELLS
  BY DEF Base
<1> HIDE DEF q
<1>7. Base(b) = CELLS * q /\ Base(b) \in Nat
  BY <1>2, <1>5, <1>6
<1>8. \A k \in 0 .. CELLS - 1 : CELLS * q + k \in 0 .. PERBANK * CELLS - 1
  BY <1>2, <1>5, PlaceBound
<1> QED
  BY <1>1, <1>3, <1>4, <1>7, <1>8

\* The number without the upper bits of the bank says where a block is.
LEMMA PlaceIs ==
  ASSUME Aligned, NEW b \in Blocks
  PROVE  /\ b[2] % PERBANK \in 0 .. PERBANK - 1
         /\ Base(b) = CELLS * (b[2] % PERBANK)
         /\ Number(b) = PERBANK * LowerByte(b) + (b[2] % PERBANK)
<1> DEFINE x == b[2] % PERBANK
           q == b[2] \div PERBANK
           l == q % NBANKS
           u == q \div NBANKS
           M == PERBANK * NBANKS
           v == b[2] \div M
           y == b[2] % M
<1>1. /\ b[1] \in Nat /\ b[2] \in Nat /\ b[1] % PERBANK = 0
      /\ PERBANK \in Nat \ {0} /\ NBANKS \in Nat \ {0} /\ CELLS \in Nat
  BY PlaceFacts, Numbers DEF Aligned
<1>2. x \in 0 .. PERBANK - 1 /\ q \in Nat /\ b[2] = PERBANK * q + x
  BY <1>1, DivMod
<1>3. Base(b) = CELLS * x
  <2>1. Base(b) = x * CELLS
    <3>1. (b[2] + b[1]) % PERBANK = b[2] % PERBANK
      BY <1>1, ModShift
    <3> QED
      BY <3>1 DEF Base
  <2> HIDE DEF x
  <2> QED
    BY <1>1, <1>2, <2>1
<1>4. l \in 0 .. NBANKS - 1 /\ u \in Nat /\ q = NBANKS * u + l
  <2> HIDE DEF q
  <2> QED
    BY <1>1, <1>2, DivMod
<1>5. M \in Nat \ {0}
  <2> SUFFICES ASSUME M = 0 PROVE FALSE
    BY <1>1
  <2> QED
    BY <1>1
<1>6. y \in 0 .. M - 1 /\ v \in Nat /\ b[2] = M * v + y
  <2> HIDE DEF M
  <2> QED
    BY <1>1, <1>5, DivMod
<1>7. LowerByte(b) = l /\ Number(b) = y
  BY DEF LowerByte, Bank, Number
<1> HIDE DEF x, q, l, u, v, y
<1>8. PERBANK * l + x \in 0 .. NBANKS * PERBANK - 1
  BY <1>1, <1>2, <1>4, PlaceBound
<1> DEFINE w == PERBANK * l + x
<1>9. w \in 0 .. M - 1
  BY <1>1, <1>8
<1>10. M * u + w = b[2]
  <2>1. PERBANK * q = PERBANK * (NBANKS * u) + PERBANK * l
    BY <1>1, <1>2, <1>4
  <2>2. PERBANK * (NBANKS * u) = M * u
    BY <1>1, <1>4
  <2>3. M * u \in Int /\ PERBANK * l \in Int
    BY <1>1, <1>4
  <2> HIDE DEF M
  <2> QED
    BY <1>2, <2>1, <2>2, <2>3
<1> HIDE DEF M, w
<1>11. w = y
  <2>1. M * u + w = M * v + y
    BY <1>6, <1>10
  <2>2. u \in Nat /\ v \in Nat /\ w \in 0 .. M - 1 /\ y \in 0 .. M - 1
    BY <1>4, <1>6, <1>9
  <2> QED
    BY ONLY <1>5, <2>1, <2>2, QuotientUnique
<1> QED
  BY <1>2, <1>3, <1>7, <1>11 DEF w, x

LEMMA PlacesDiffer ==
  ASSUME Aligned, NEW b \in Blocks, NEW c \in Blocks,
         NEW k \in 0 .. CELLS - 1, NEW j \in 0 .. CELLS - 1,
         LowerByte(b) = LowerByte(c), Base(b) + k = Base(c) + j
  PROVE  Number(b) = Number(c) /\ k = j
<1> DEFINE x == b[2] % PERBANK
           y == c[2] % PERBANK
<1>1. /\ x \in 0 .. PERBANK - 1 /\ Base(b) = CELLS * x /\ Number(b) = PERBANK * LowerByte(b) + x
      /\ y \in 0 .. PERBANK - 1 /\ Base(c) = CELLS * y /\ Number(c) = PERBANK * LowerByte(c) + y
  BY PlaceIs
<1> HIDE DEF x, y
<1>2. CELLS \in Nat \ {0} /\ x \in Nat /\ y \in Nat
  BY <1>1, Numbers
<1>3. x = y /\ k = j
  BY <1>1, <1>2, QuotientUnique
<1> QED
  BY <1>1, <1>3

LEMMA PlaceSame ==
  ASSUME Aligned, NEW b \in Blocks, NEW c \in Blocks, Number(b) = Number(c)
  PROVE  LowerByte(b) = LowerByte(c) /\ Base(b) = Base(c)
<1> DEFINE x == b[2] % PERBANK
           y == c[2] % PERBANK
<1>1. /\ x \in 0 .. PERBANK - 1 /\ Base(b) = CELLS * x /\ Number(b) = PERBANK * LowerByte(b) + x
      /\ y \in 0 .. PERBANK - 1 /\ Base(c) = CELLS * y /\ Number(c) = PERBANK * LowerByte(c) + y
  BY PlaceIs
<1> HIDE DEF x, y
<1>2. PERBANK \in Nat \ {0} /\ LowerByte(b) \in Nat /\ LowerByte(c) \in Nat
  BY Numbers, PlaceFacts
<1>3. x = y /\ LowerByte(b) = LowerByte(c)
  BY <1>1, <1>2, QuotientUnique
<1> QED
  BY <1>1, <1>3

\* A pass of a read lies in the block.
LEMMA PassFits ==
  ASSUME NEW p \in 0 .. Passes.read - 1
  PROVE  /\ Start(p) \in Nat /\ Start(0) = 0 /\ Start(p + 1) = Start(p) + ReadCells
         /\ \A k \in 0 .. ReadCells - 1 : Start(p) + k \in 0 .. CELLS - 1
         /\ p + 1 = Passes.read => Start(p) + ReadCells = CELLS
<1>1. /\ ReadCells \in Nat \ {0} /\ Passes.read \in Nat \ {0} /\ ReadCells * Passes.read = CELLS
      /\ Start(p) = p * ReadCells /\ Start(0) = 0 * ReadCells /\ Start(p + 1) = (p + 1) * ReadCells
      /\ p \in Nat
  BY Numbers DEF Start
<1> HIDE DEF ReadCells
<1>2. /\ p * ReadCells = ReadCells * p /\ (p + 1) * ReadCells = p * ReadCells + ReadCells
      /\ 0 * ReadCells = 0 /\ p * ReadCells \in Nat
      /\ Passes.read * ReadCells = CELLS
  BY <1>1
<1>3. \A k \in 0 .. ReadCells - 1 : ReadCells * p + k \in 0 .. Passes.read * ReadCells - 1
  BY <1>1, PlaceBound
<1>4. \A k \in 0 .. ReadCells - 1 : Start(p) + k \in 0 .. CELLS - 1
  BY <1>1, <1>2, <1>3
<1>5. p + 1 = Passes.read => Start(p) + ReadCells = CELLS
  BY <1>1, <1>2
<1> QED
  BY <1>1, <1>2, <1>4, <1>5

-----------------------------------------------------------------------------
(* What the NMI does to the memory *)

Untouched == ~ (Moving /\ Queued) /\ chr' = chr /\ readbuf' = readbuf /\ dirty' = FALSE
WrittenNow ==
  /\ call.op = "write" /\ Queued /\ readbuf' = readbuf /\ dirty' = FALSE
  /\ chr' = [chr EXCEPT ![LowerByte(call.block)][Base(call.block) + pass] = bf_data[pass]]
ReadNow ==
  /\ call.op = "read" /\ chr' = chr /\ dirty' = TRUE
  /\ readbuf' = [k \in 0 .. ReadCells - 1 |->
                   chr[LowerByte(call.block)][Base(call.block) + Start(pass) + k]]

LEMMA NmiMemory ==
  ASSUME CallInv, QueueInv, ~Crossed, Nmi, ~dirty
  PROVE  Untouched \/ WrittenNow \/ ReadNow
<1>1. /\ chr' = AllCarriedOut.chr /\ readbuf' = AllCarriedOut.readbuf
      /\ dirty' = AllCarriedOut.dirty
  BY NmiCases DEF Drained
<1>2. CASE ~ (Moving /\ Queued)
  <2>1. AllCarriedOut = Memory
    BY <1>2, Effect
  <2> QED
    BY <1>1, <1>2, <2>1 DEF Untouched, Memory
<1>3. CASE Moving /\ Queued /\ call.op = "write"
  <2>1. AllCarriedOut = CarriedOut(Memory, Desc)
    BY <1>3, Effect
  <2>2. Desc = WriteDesc(call.block, pass, bf_data[pass])
    BY <1>3 DEF Desc
  <2>3. /\ Desc.flags = {"write"} /\ Desc.bank = LowerByte(call.block)
        /\ Desc.cell = Base(call.block) + pass /\ Desc.data = bf_data[pass]
    BY <1>3, <2>2, FlagsOf DEF WriteDesc
  <2>4. CarriedOut(Memory, Desc) = Stored(Memory, Desc)
    BY <2>3 DEF CarriedOut
  <2>5. /\ Stored(Memory, Desc).chr = [chr EXCEPT ![Desc.bank][Desc.cell] = Desc.data]
        /\ Stored(Memory, Desc).readbuf = readbuf /\ Stored(Memory, Desc).dirty = FALSE
    BY DEF Stored, Memory
  <2> QED
    BY <1>1, <1>3, <2>1, <2>3, <2>4, <2>5 DEF WrittenNow
<1>4. CASE Moving /\ Queued /\ call.op = "read"
  <2>1. AllCarriedOut = CarriedOut(Memory, Desc)
    BY <1>4, Effect
  <2>2. Desc = ReadDesc(call.block, pass)
    BY <1>4 DEF Desc
  <2>3. /\ "read" \in Desc.flags /\ Desc.size = READ /\ Desc.bank = LowerByte(call.block)
        /\ Desc.cell = Base(call.block) + Start(pass)
    BY <1>4, <2>2, FlagsOf DEF ReadDesc
  <2>4. CarriedOut(Memory, Desc) = Fetched(Memory, Desc)
    BY <2>3 DEF CarriedOut
  <2>5. /\ Fetched(Memory, Desc).chr = chr /\ Fetched(Memory, Desc).dirty = TRUE
        /\ Fetched(Memory, Desc).readbuf
             = [k \in 0 .. ReadCells - 1 |->
                  IF k < ReadCells THEN chr[Desc.bank][Desc.cell + k] ELSE readbuf[k]]
    BY <2>3 DEF Fetched, Memory, ReadCells
  <2>6. [k \in 0 .. ReadCells - 1 |->
           IF k < ReadCells THEN chr[Desc.bank][Desc.cell + k] ELSE readbuf[k]]
          = [k \in 0 .. ReadCells - 1 |-> chr[Desc.bank][Desc.cell + k]]
    <3>1. ReadCells \in Nat
      BY Numbers
    <3> HIDE DEF ReadCells
    <3> QED
      BY <3>1
  <2> QED
    BY <1>1, <1>4, <2>1, <2>3, <2>4, <2>5, <2>6 DEF ReadNow
<1> QED
  BY <1>2, <1>3, <1>4 DEF Moving

-----------------------------------------------------------------------------
(* The cells are cells *)

LEMMA WholeTyped == \A d \in Data \cup {None} : Whole(d) \in [0 .. CELLS - 1 -> Cells]
BY DEF Whole, Cell, Cells

LEMMA CellsInit == Init => CellsTyped
<1> SUFFICES ASSUME Init PROVE CellsTyped
  OBVIOUS
<1>1. /\ CELLS \in Nat \ {0} /\ PERBANK \in Nat \ {0} /\ ReadCells \in Nat \ {0}
  BY Numbers
<1>2. \A k \in 0 .. CELLS - 1 : Cell(None, k) \in Cells
  BY DEF Cell, Cells
<1>3. \A k \in 0 .. PERBANK * CELLS - 1 : k \in Nat
  BY <1>1
<1>4. \A k \in Nat : k % CELLS \in 0 .. CELLS - 1
  BY <1>1, DivMod
<1>5. \A k \in 0 .. PERBANK * CELLS - 1 : Cell(None, k % CELLS) \in Cells
  BY <1>2, <1>3, <1>4
<1>6. chr \in [0 .. NBANKS - 1 -> [0 .. PERBANK * CELLS - 1 -> Cells]]
  BY <1>5 DEF Init
<1>7. Cell(None, 0) \in Cells
  BY <1>1, <1>2
<1>8. readbuf \in [0 .. ReadCells - 1 -> Cells]
  BY <1>7 DEF Init
<1>9. disk \in [Blocks -> Data \cup {None}] /\ bf_data \in [0 .. CELLS - 1 -> Cells]
  BY WholeTyped DEF Init
<1> QED
  BY <1>6, <1>8, <1>9 DEF CellsTyped

LEMMA CellsStep ==
  ASSUME CallInv, QueueInv, ~Crossed, CellsTyped, [Next]_vars
  PROVE  CellsTyped'
<1> USE DEF ppu, kernel
<1>1. UNCHANGED <<chr, readbuf, disk, bf_data>> => CellsTyped'
  BY DEF CellsTyped
<1>2. ASSUME NEW c, Begin(c), c.op # "write" PROVE CellsTyped'
  BY <1>1, <1>2 DEF Begin
<1>3. ASSUME NEW b \in Blocks, NEW d \in Data, Begin([op |-> "write", block |-> b, data |-> d])
      PROVE  CellsTyped'
  <2>1. bf_data' = Whole(d) /\ UNCHANGED <<chr, readbuf, disk>>
    BY <1>3 DEF Begin
  <2> QED
    BY <2>1, WholeTyped DEF CellsTyped
<1>4. CASE Lock \/ Header \/ CopyData \/ Unlock \/ Again \/ WaitFrame \/ Woken \/ Taken \/ NextPass
  BY <1>1, <1>4 DEF Lock, Header, CopyData, Unlock, Again, WaitFrame, Woken, Taken, NextPass
<1>5. CASE CopyAnswer
  <2>1. /\ UNCHANGED <<chr, readbuf, disk>>
        /\ bf_data' = [k \in 0 .. CELLS - 1 |->
                         IF k \in Start(pass) .. Start(pass) + ReadCells - 1
                         THEN readbuf[k - Start(pass)] ELSE bf_data[k]]
    BY <1>5 DEF CopyAnswer
  <2>2. pass \in 0 .. Passes.read - 1
    BY <1>5 DEF CopyAnswer, CallInv, Moving
  <2>3. Start(pass) \in Nat /\ ReadCells \in Nat
    BY <2>2, PassFits, Numbers
  <2> HIDE DEF ReadCells
  <2>4. ASSUME NEW k \in 0 .. CELLS - 1, k \in Start(pass) .. Start(pass) + ReadCells - 1
        PROVE  readbuf[k - Start(pass)] \in Cells
    <3>1. k - Start(pass) \in 0 .. ReadCells - 1
      BY <2>3, <2>4
    <3> QED
      BY <3>1 DEF CellsTyped
  <2>5. \A k \in 0 .. CELLS - 1 : bf_data[k] \in Cells
    BY DEF CellsTyped
  <2>6. bf_data' \in [0 .. CELLS - 1 -> Cells]
    BY <2>1, <2>4, <2>5
  <2> QED
    BY <2>1, <2>6 DEF CellsTyped
<1>6. CASE PpuwdDone
  <2>1. /\ UNCHANGED <<chr, readbuf>> /\ bf_data' = Whole(None)
        /\ disk' = IF call.op = "write" THEN [disk EXCEPT ![call.block] = call.data] ELSE disk
    BY <1>6 DEF PpuwdDone, Return
  <2>2. call.op = "write" => call.data \in Data
    BY DEF CallInv
  <2>3. disk' \in [Blocks -> Data \cup {None}]
    BY <2>1, <2>2 DEF CellsTyped
  <2> QED
    BY <2>1, <2>3, WholeTyped DEF CellsTyped
<1>7. CASE Advance
  <2>1. UNCHANGED <<chr, readbuf, disk>> /\ (bf_data' = bf_data \/ bf_data' = Whole(None))
    BY <1>7 DEF Advance, Return
  <2> QED
    BY <2>1, WholeTyped DEF CellsTyped
<1>8. CASE Nmi
  <2>1. UNCHANGED <<disk, bf_data>>
    BY <1>8 DEF Nmi
  <2>2. CASE dirty
    BY <1>1, <1>8, <2>2, NmiCases
  <2>3. CASE ~dirty
    <3>1. CASE Untouched
      BY <1>1, <2>1, <3>1 DEF Untouched
    <3>2. CASE WrittenNow
      <4>1. call.block \in Blocks /\ pass \in 0 .. CELLS - 1
        BY <3>2, Numbers DEF WrittenNow, CallInv, Moving
      <4>2. /\ LowerByte(call.block) \in 0 .. NBANKS - 1
            /\ Base(call.block) + pass \in 0 .. PERBANK * CELLS - 1
        BY <4>1, PlaceFacts
      <4>3. bf_data[pass] \in Cells
        BY <4>1 DEF CellsTyped
      <4> DEFINE x == LowerByte(call.block)
                 y == Base(call.block) + pass
                 v == bf_data[pass]
      <4>4. chr' = [chr EXCEPT ![x][y] = v] /\ readbuf' = readbuf
        BY <3>2 DEF WrittenNow
      <4>5. chr' \in [0 .. NBANKS - 1 -> [0 .. PERBANK * CELLS - 1 -> Cells]]
        <5> HIDE DEF x, y, v
        <5> QED
          BY <4>2, <4>3, <4>4 DEF CellsTyped, x, y, v
      <4> QED
        BY <2>1, <4>4, <4>5 DEF CellsTyped
    <3>3. CASE ReadNow
      <4>1. call.block \in Blocks /\ pass \in 0 .. Passes.read - 1
        BY <3>3 DEF ReadNow, CallInv, Moving
      <4>2. /\ LowerByte(call.block) \in 0 .. NBANKS - 1 /\ Base(call.block) \in Nat
            /\ \A k \in 0 .. CELLS - 1 : Base(call.block) + k \in 0 .. PERBANK * CELLS - 1
        BY <4>1, PlaceFacts
      <4>3. /\ Start(pass) \in Nat /\ \A k \in 0 .. ReadCells - 1 : Start(pass) + k \in 0 .. CELLS - 1
        BY <4>1, PassFits
      <4>4. \A k \in 0 .. ReadCells - 1 :
              chr[LowerByte(call.block)][Base(call.block) + Start(pass) + k] \in Cells
        <5> SUFFICES ASSUME NEW k \in 0 .. ReadCells - 1
                     PROVE  chr[LowerByte(call.block)][Base(call.block) + Start(pass) + k] \in Cells
          OBVIOUS
        <5>1. Base(call.block) + Start(pass) + k \in 0 .. PERBANK * CELLS - 1
          <6>1. Base(call.block) + (Start(pass) + k) \in 0 .. PERBANK * CELLS - 1
            BY <4>2, <4>3
          <6>2. k \in Int
            OBVIOUS
          <6>3. Base(call.block) + (Start(pass) + k) = Base(call.block) + Start(pass) + k
            BY <4>2, <4>3, <6>2
          <6> QED
            BY <6>1, <6>3
        <5> QED
          BY <4>2, <5>1 DEF CellsTyped
      <4>5. readbuf' \in [0 .. ReadCells - 1 -> Cells] /\ chr' = chr
        BY <3>3, <4>4 DEF ReadNow
      <4> QED
        BY <2>1, <4>5 DEF CellsTyped
    <3> QED
      BY <1>8, <2>3, <3>1, <3>2, <3>3, NmiMemory
  <2> QED
    BY <2>2, <2>3
<1>9. CASE UNCHANGED vars
  BY <1>1, <1>9 DEF vars
<1>10. CASE PpuPutc \/ PpuwdRead
  BY <1>2, <1>10 DEF PpuPutc, PpuwdRead
<1>11. CASE PpuwdWrite
  BY <1>3, <1>11 DEF PpuwdWrite
<1> QED
  BY <1>4, <1>5, <1>6, <1>7, <1>8, <1>9, <1>10, <1>11 DEF Next, Kernel

-----------------------------------------------------------------------------
(* The contents of the blocks *)

LEMMA MemoryInit == Init => MemoryInv
<1> SUFFICES ASSUME Init PROVE MemoryInv
  OBVIOUS
<1>1. Kept
  <2> SUFFICES ASSUME NEW b \in Blocks, NEW k \in 0 .. CELLS - 1
               PROVE  In(chr, b, k) = Cell(disk[b], k)
    BY DEF Kept
  <2>1. disk[b] = None
    BY DEF Init
  <2> DEFINE q == (b[2] + b[1]) % PERBANK
             x == Base(b) + k
  <2>2. LowerByte(b) \in 0 .. NBANKS - 1 /\ x \in 0 .. PERBANK * CELLS - 1
    BY PlaceFacts
  <2>3. In(chr, b, k) = Cell(None, x % CELLS)
    <3> HIDE DEF x
    <3>1. chr[LowerByte(b)][x] = Cell(None, x % CELLS)
      BY <2>2 DEF Init
    <3> QED
      BY <3>1 DEF In, x
  <2>4. q \in Nat /\ CELLS \in Nat \ {0} /\ PERBANK * CELLS \in Nat
    <3>1. b[1] \in Nat /\ b[2] \in Nat /\ PERBANK \in Nat \ {0} /\ NBANKS \in Nat
      BY PlaceFacts, Numbers
    <3>2. b[2] + b[1] \in Nat
      BY <3>1
    <3>3. q \in Nat
      BY <3>1, <3>2, DivMod
    <3>4. CELLS \in Nat \ {0} /\ PERBANK * CELLS \in Nat
      BY Numbers
    <3> QED
      BY <3>3, <3>4
  <2>5. Base(b) = q * CELLS
    BY DEF Base
  <2> HIDE DEF q
  <2>6. x = CELLS * q + k /\ x \in Nat
    BY <2>4, <2>5
  <2> HIDE DEF x
  <2> DEFINE y == x \div CELLS
             r == x % CELLS
  <2>7. r \in 0 .. CELLS - 1 /\ y \in Nat /\ x = CELLS * y + r
    BY <2>4, <2>6, DivMod
  <2> HIDE DEF y, r
  <2>8. r = k
    BY <2>4, <2>6, <2>7, QuotientUnique
  <2> QED
    BY <2>1, <2>3, <2>8 DEF r
<1>2. Written /\ Answers /\ Readout
  BY DEF Init, Written, Answers, Readout
<1> QED
  BY <1>1, <1>2 DEF MemoryInv

\* Steps that change neither the memory nor the call, and make no pass of it.
SameMemory == UNCHANGED <<chr, readbuf, disk, call, pass, bf_data>> /\ (dirty' => dirty)

LEMMA SameMemoryKeeps ==
  ASSUME CallInv, MemoryInv, SameMemory,
         call.op = "write" /\ pc' \in {"queued", "next"} /\ buf' = <<>> =>
           pc \in {"queued", "next"} /\ buf = <<>>,
         call.op = "read" => Taking' = Taking \/ pc' \notin {"copied", "next"}
  PROVE  MemoryInv'
<1>1. (\A b : Alone(b)' <=> Alone(b)) /\ Kept'
  BY DEF SameMemory, MemoryInv, Alone, Kept
<1>2. Written'
  BY DEF SameMemory, MemoryInv, Written
<1>3. Answers'
  BY DEF SameMemory, MemoryInv, Answers
<1>4. Readout'
  <2> SUFFICES ASSUME call.op = "read", Alone(call.block), NEW k \in 0 .. CELLS - 1,
                      k < Start(pass) + Taking'
               PROVE  bf_data[k] = Cell(disk[call.block], k)
    BY <1>1 DEF SameMemory, Readout
  <2>1. k < Start(pass) + Taking
    <3>1. CASE Taking' = Taking
      BY <3>1
    <3>2. CASE pc' \notin {"copied", "next"} /\ Taking' # Taking
      <4>1. Taking' = 0 /\ Taking = ReadCells
        BY <3>2 DEF Taking
      <4>2. pass \in 0 .. Passes.read - 1
        BY DEF CallInv, Moving
      <4>3. Start(pass) \in Nat /\ ReadCells \in Nat
        BY <4>2, PassFits, Numbers
      <4> HIDE DEF ReadCells
      <4> QED
        BY <4>1, <4>3
    <3> QED
      BY <3>1, <3>2
  <2> QED
    BY <2>1 DEF MemoryInv, Readout
<1> QED
  BY <1>1, <1>2, <1>3, <1>4 DEF MemoryInv

\* A call begins or ends, and no block is given contents.
LEMMA OtherCall ==
  ASSUME MemoryInv, chr' = chr, disk' = disk, ~dirty', call.op # "write",
         call'.op \in {"read", "write"} => pc' = "queue" /\ pass' = 0
  PROVE  MemoryInv'
<1>1. Kept'
  BY DEF MemoryInv, Alone, Kept
<1>2. Answers'
  BY DEF Answers
<1>3. Written'
  BY DEF Written
<1>4. Start(0) = 0
  BY Numbers DEF Start
<1>5. Readout'
  BY <1>4 DEF Readout, Taking
<1> QED
  BY <1>1, <1>2, <1>3, <1>5 DEF MemoryInv

\* A write in chr: of a block that is not of that number nothing changes.
LEMMA WriteCell ==
  ASSUME Aligned, CallInv, CellsTyped, WrittenNow, NEW b \in Blocks, NEW k \in 0 .. CELLS - 1
  PROVE  In(chr', b, k) = IF Number(b) = Number(call.block) /\ k = pass
                          THEN bf_data[pass] ELSE In(chr, b, k)
<1> DEFINE c == call.block
           x == LowerByte(c)
           y == Base(c) + pass
           v == bf_data[pass]
<1>1. c \in Blocks /\ pass \in 0 .. CELLS - 1
  BY Numbers DEF WrittenNow, CallInv, Moving
<1>2. /\ x \in 0 .. NBANKS - 1 /\ y \in 0 .. PERBANK * CELLS - 1
      /\ LowerByte(b) \in 0 .. NBANKS - 1 /\ Base(b) + k \in 0 .. PERBANK * CELLS - 1
  BY <1>1, PlaceFacts
<1>3. chr' = [chr EXCEPT ![x][y] = v]
  BY DEF WrittenNow
<1>4. \A i \in 0 .. NBANKS - 1, j \in 0 .. PERBANK * CELLS - 1 :
        chr'[i][j] = IF i = x /\ j = y THEN v ELSE chr[i][j]
  <2> HIDE DEF x, y, v
  <2> QED
    BY <1>2, <1>3 DEF CellsTyped
<1>5. In(chr', b, k) = IF LowerByte(b) = x /\ Base(b) + k = y THEN v ELSE In(chr, b, k)
  BY <1>2, <1>4 DEF In
<1>6. LowerByte(b) = x /\ Base(b) + k = y => Number(b) = Number(c) /\ k = pass
  BY <1>1, PlacesDiffer
<1>7. Number(b) = Number(c) => LowerByte(b) = x /\ Base(b) = Base(c)
  BY <1>1, PlaceSame
<1> QED
  BY <1>5, <1>6, <1>7

\* What the NMI reads is what the block has.
LEMMA ReadCell ==
  ASSUME CallInv, ReadNow, NEW k \in 0 .. ReadCells - 1
  PROVE  readbuf'[k] = In(chr, call.block, Start(pass) + k)
<1>1. call.block \in Blocks /\ pass \in 0 .. Passes.read - 1
  BY DEF ReadNow, CallInv, Moving
<1>2. Base(call.block) \in Nat /\ Start(pass) \in Nat /\ k \in Int
  BY <1>1, PlaceFacts, PassFits
<1>3. readbuf'[k] = chr[LowerByte(call.block)][Base(call.block) + Start(pass) + k]
  BY DEF ReadNow
<1>4. Base(call.block) + Start(pass) + k = Base(call.block) + (Start(pass) + k)
  BY <1>2
<1> QED
  BY <1>3, <1>4 DEF In

LEMMA NmiMemoryStep ==
  ASSUME Aligned, CallInv, QueueInv, ~Crossed, CellsTyped, MemoryInv, Nmi
  PROVE  MemoryInv'
<1> USE DEF kernel, ppu
<1>1. UNCHANGED <<pc, call, pass, bf_data, disk>> /\ Taking' = Taking
  BY NmiCases DEF Taking
<1>2. CASE dirty
  <2>1. SameMemory /\ buf' = buf
    BY <1>1, <1>2, NmiCases DEF SameMemory
  <2> QED
    BY <1>1, <2>1, SameMemoryKeeps
<1>3. CASE ~dirty
  <2>1. buf' = <<>>
    BY <1>3, NmiCases DEF Reset
  <2>2. \A b : Alone(b)' <=> Alone(b)
    BY <1>1 DEF Alone
  <2>3. CASE Untouched
    <3>1. SameMemory
      BY <1>1, <2>3 DEF SameMemory, Untouched
    <3>2. call.op = "write" /\ pc \in {"queued", "next"} => buf = <<>>
      BY <2>3 DEF Untouched, QueueInv, Moving
    <3> QED
      BY <1>1, <3>1, <3>2, SameMemoryKeeps
  <2>4. CASE WrittenNow
    <3>1. call.op = "write" /\ dirty' = FALSE
      BY <2>4 DEF WrittenNow
    <3>2. /\ call.block \in Blocks /\ pass \in 0 .. CELLS - 1 /\ call.data \in Data
          /\ bf_data = Whole(call.data)
      BY <3>1, Numbers DEF CallInv, Moving
    <3>3. Kept'
      <4> SUFFICES ASSUME NEW b \in Blocks, Alone(b), Number(call.block) # Number(b),
                          NEW k \in 0 .. CELLS - 1
                   PROVE  In(chr', b, k) = Cell(disk[b], k)
        BY <1>1, <2>2, <3>1 DEF Kept
      <4>1. In(chr', b, k) = In(chr, b, k)
        BY <2>4, WriteCell
      <4> QED
        BY <4>1 DEF MemoryInv, Kept
    <3>4. Written'
      <4> SUFFICES ASSUME NEW k \in 0 .. CELLS - 1, k < pass \/ k = pass
                   PROVE  In(chr', call.block, k) = Cell(call.data, k)
        BY <1>1 DEF Written
      <4>1. In(chr', call.block, k) = IF k = pass THEN bf_data[pass] ELSE In(chr, call.block, k)
        BY <2>4, <3>2, WriteCell
      <4>2. bf_data[pass] = Cell(call.data, pass)
        BY <3>2 DEF Whole
      <4>3. k < pass => In(chr, call.block, k) = Cell(call.data, k)
        BY <3>1 DEF MemoryInv, Written
      <4> QED
        BY <3>2, <4>1, <4>2, <4>3
    <3>5. Answers' /\ Readout'
      BY <1>1, <3>1 DEF Answers, Readout
    <3> QED
      BY <3>3, <3>4, <3>5 DEF MemoryInv
  <2>5. CASE ReadNow
    <3>1. call.op = "read" /\ chr' = chr
      BY <2>5 DEF ReadNow
    <3>2. Kept' /\ Written' /\ Readout'
      BY <1>1, <2>2, <3>1 DEF MemoryInv, Kept, Written, Readout
    <3>3. Answers'
      BY <1>1, <2>5, <3>1, ReadCell DEF Answers
    <3> QED
      BY <3>2, <3>3 DEF MemoryInv
  <2> QED
    BY <1>3, <2>3, <2>4, <2>5, NmiMemory
<1> QED
  BY <1>2, <1>3

LEMMA MemoryStep ==
  ASSUME Aligned, LockInv, CallInv, QueueInv, ~Crossed, CellsTyped, MemoryInv, [Next]_vars
  PROVE  MemoryInv'
<1> USE DEF ppu, kernel, At, Goto
<1>1. ASSUME NEW c, Begin(c), c.op \in {"putc", "newline", "read", "write"} PROVE MemoryInv'
  <2>1. /\ UNCHANGED <<chr, dirty, disk>> /\ pc = "idle" /\ call' = c /\ pass' = 0
        /\ (c.op \in {"read", "write"} => pc' = "queue")
    BY <1>1 DEF Begin
  <2>2. call.op = "none" /\ ~dirty
    BY <2>1 DEF CallInv, QueueInv
  <2>3. CASE c.op # "write"
    BY <2>1, <2>2, <2>3, OtherCall
  <2>4. CASE c.op = "write"
    <3>1. Kept'
      BY <2>1, <2>2 DEF MemoryInv, Alone, Kept
    <3>2. Answers' /\ Readout'
      BY <2>1, <2>2, <2>4 DEF Answers, Readout
    <3>3. Written'
      BY <2>1, <2>4 DEF Written
    <3> QED
      BY <3>1, <3>2, <3>3 DEF MemoryInv
  <2> QED
    BY <2>3, <2>4
<1>2. CASE Lock \/ Header \/ CopyData \/ Again \/ Woken
  <2>1. SameMemory /\ pc' \notin {"queued", "copied", "next"}
    BY <1>2 DEF Lock, Header, CopyData, Again, Woken, SameMemory
  <2> QED
    BY <2>1, SameMemoryKeeps
<1>3. CASE Unlock
  <2>1. SameMemory /\ pc = "unlock" /\ pc' = "queued" /\ buf' = buf
    BY <1>3 DEF Unlock, SameMemory
  <2>2. buf # <<>>
    BY <2>1 DEF QueueInv, Queued
  <2> QED
    BY <2>1, <2>2, SameMemoryKeeps
<1>4. CASE WaitFrame
  <2>1. /\ SameMemory /\ buf' = buf
        /\ pc' = "wait" \/ (pc = "queued" /\ call.op = "write" /\ pc' = "next")
    BY <1>4 DEF WaitFrame, SameMemory
  <2> QED
    BY <2>1, SameMemoryKeeps
<1>5. CASE CopyAnswer
  <2>1. /\ call.op = "read" /\ pc = "queued" /\ pc' = "copied" /\ dirty
        /\ UNCHANGED <<chr, readbuf, dirty, disk, call, pass>>
        /\ bf_data' = [k \in 0 .. CELLS - 1 |->
                         IF k \in Start(pass) .. Start(pass) + ReadCells - 1
                         THEN readbuf[k - Start(pass)] ELSE bf_data[k]]
    BY <1>5 DEF CopyAnswer, Answered
  <2>2. Kept' /\ Written' /\ Answers'
    BY <2>1 DEF MemoryInv, Alone, Kept, Written, Answers
  <2>3. Readout'
    <3> SUFFICES ASSUME Alone(call.block), NEW k \in 0 .. CELLS - 1,
                        k < Start(pass) + ReadCells
                 PROVE  bf_data'[k] = Cell(disk[call.block], k)
      BY <2>1 DEF Readout, Alone, Taking
    <3>1. call.block \in Blocks /\ pass \in 0 .. Passes.read - 1
      BY <2>1 DEF CallInv, Moving
    <3>2. Start(pass) \in Nat /\ ReadCells \in Nat /\ k \in Nat /\ CELLS \in Nat
      BY <3>1, PassFits, Numbers
    <3> HIDE DEF ReadCells
    <3>3. CASE k < Start(pass)
      <4>1. bf_data'[k] = bf_data[k]
        BY <2>1, <3>2, <3>3
      <4>2. k < Start(pass) + Taking
        BY <2>1, <3>2, <3>3 DEF Taking
      <4> QED
        BY <2>1, <4>1, <4>2 DEF MemoryInv, Readout
    <3>4. CASE ~ k < Start(pass)
      <4> DEFINE j == k - Start(pass)
      <4>1. j \in 0 .. ReadCells - 1 /\ Start(pass) + j = k
        BY <3>2, <3>4
      <4>2. bf_data'[k] = readbuf[j]
        BY <2>1, <3>2, <3>4
      <4> HIDE DEF j
      <4>3. readbuf[j] = In(chr, call.block, k)
        BY <2>1, <4>1 DEF MemoryInv, Answers
      <4>4. In(chr, call.block, k) = Cell(disk[call.block], k)
        BY <2>1, <3>1 DEF MemoryInv, Kept
      <4> QED
        BY <4>2, <4>3, <4>4
    <3> QED
      BY <3>3, <3>4
  <2> QED
    BY <2>2, <2>3 DEF MemoryInv
<1>6. CASE Taken
  <2>1. SameMemory /\ pc = "copied" /\ pc' = "next" /\ call.op = "read" /\ buf' = buf
    BY <1>6 DEF Taken, SameMemory, CallInv
  <2>2. Taking' = Taking
    BY <2>1 DEF Taking
  <2> QED
    BY <2>1, <2>2, SameMemoryKeeps
<1>7. CASE NextPass
  <2>1. /\ UNCHANGED <<chr, readbuf, dirty, disk, call, bf_data, buf>>
        /\ pc = "next" /\ pc' = "queue" /\ pass' = pass + 1
        /\ (call.op = "write" => ~waiting)
    BY <1>7 DEF NextPass
  <2>2. Moving /\ ~dirty
    BY <2>1 DEF CallInv, QueueInv
  <2>3. Kept' /\ Answers'
    BY <2>1, <2>2 DEF MemoryInv, Alone, Kept, Answers
  <2>4. Written'
    <3> SUFFICES ASSUME call.op = "write", NEW k \in 0 .. CELLS - 1, k < pass + 1
                 PROVE  In(chr, call.block, k) = Cell(call.data, k)
      BY <2>1 DEF Written
    <3>1. buf = <<>>
      <4>1. SUFFICES ASSUME Queued PROVE FALSE
        BY <2>1 DEF QueueInv
      <4>2. Len(buf) \in 1 .. Len(buf) /\ buf[Len(buf)] = Desc
        BY <4>1 DEF Queued, QueueInv
      <4>3. ~Plain(Desc)
        BY FlagsOf
      <4> QED
        BY <2>1, <4>2, <4>3 DEF QueueInv
    <3>2. k < pass \/ k = pass
      <4>1. pass \in 0 .. CELLS - 1 /\ CELLS \in Nat
        BY Numbers DEF CallInv, Moving
      <4> QED
        BY <4>1
    <3> QED
      BY <2>1, <3>1, <3>2 DEF MemoryInv, Written
  <2>5. Readout'
    <3> SUFFICES ASSUME call.op = "read", Alone(call.block), NEW k \in 0 .. CELLS - 1,
                        k < Start(pass + 1) + 0
                 PROVE  bf_data[k] = Cell(disk[call.block], k)
      BY <2>1 DEF Readout, Alone, Taking
    <3>1. pass \in 0 .. Passes.read - 1
      BY DEF CallInv, Moving
    <3>2. Start(pass) \in Nat /\ ReadCells \in Nat /\ Start(pass + 1) = Start(pass) + ReadCells
      BY <3>1, PassFits, Numbers
    <3>3. Taking = ReadCells
      BY <2>1 DEF Taking
    <3>4. k < Start(pass) + Taking
      <4> HIDE DEF ReadCells
      <4> QED
        BY <3>2, <3>3
    <3> QED
      BY <3>4 DEF MemoryInv, Readout
  <2> QED
    BY <2>3, <2>4, <2>5 DEF MemoryInv
<1>8. CASE PpuwdDone
  <2>1. /\ UNCHANGED <<chr, dirty, buf>> /\ pc = "next" /\ call' = [op |-> "none"]
        /\ disk' = (IF call.op = "write" THEN [disk EXCEPT ![call.block] = call.data] ELSE disk)
        /\ (call.op = "write" => ~waiting) /\ LastPass
    BY <1>8 DEF PpuwdDone, Return
  <2>2. Moving /\ ~dirty
    BY <2>1 DEF CallInv, QueueInv
  <2>3. CASE call.op = "read"
    BY <2>1, <2>2, <2>3, OtherCall
  <2>4. CASE call.op = "write"
    <3> DEFINE c == call.block
    <3>1. /\ c \in Blocks /\ call.data \in Data /\ pass \in 0 .. CELLS - 1 /\ pass + 1 = CELLS
          /\ CELLS \in Nat
      BY <2>1, <2>4, Numbers DEF CallInv, Moving, LastPass
    <3>2. \A b \in Blocks : disk'[b] = IF b = c THEN call.data ELSE disk[b]
      BY <2>1, <2>4 DEF CellsTyped
    <3>3. buf = <<>>
      <4>1. SUFFICES ASSUME Queued PROVE FALSE
        BY <2>1, <2>4 DEF QueueInv
      <4>2. Len(buf) \in 1 .. Len(buf) /\ buf[Len(buf)] = Desc
        BY <4>1 DEF Queued, QueueInv
      <4>3. ~Plain(Desc)
        BY <2>4, FlagsOf
      <4> QED
        BY <2>1, <2>4, <4>2, <4>3 DEF QueueInv
    <3>4. \A k \in 0 .. CELLS - 1 : In(chr, c, k) = Cell(call.data, k)
      <4>1. \A k \in 0 .. CELLS - 1 : k < pass \/ k = pass
        BY <3>1
      <4> QED
        BY <2>1, <2>4, <3>3, <4>1 DEF MemoryInv, Written
    <3>5. ASSUME NEW b \in Blocks, Alone(b)', NEW k \in 0 .. CELLS - 1
          PROVE  In(chr, b, k) = Cell(disk'[b], k)
      <4>1. CASE b = c
        BY <3>2, <3>4, <4>1
      <4>2. CASE b # c /\ Number(b) = Number(c)
        <5>1. disk'[c] = None
          BY <3>1, <3>5, <4>2 DEF Alone
        <5>2. disk'[c] = call.data
          BY <3>1, <3>2
        <5> QED
          BY <3>1, <5>1, <5>2, PpuAssumption
      <4>3. CASE Number(b) # Number(c)
        <5>1. disk'[b] = disk[b]
          BY <3>2, <4>3
        <5>2. Alone(b)
          <6> SUFFICES ASSUME NEW d \in Blocks \ {b}, Number(d) = Number(b)
                       PROVE  disk[d] = None
            BY DEF Alone
          <6>1. disk'[d] = None
            BY <3>5 DEF Alone
          <6>2. d # c
            BY <4>3
          <6> QED
            BY <3>2, <6>1, <6>2
        <5> QED
          BY <4>3, <5>1, <5>2 DEF MemoryInv, Kept
      <4> QED
        BY <4>1, <4>2, <4>3
    <3>6. Kept'
      BY <2>1, <3>5 DEF Kept
    <3>7. Written' /\ Answers' /\ Readout'
      BY <2>1, <2>2 DEF Written, Answers, Readout
    <3> QED
      BY <3>6, <3>7 DEF MemoryInv
  <2> QED
    BY <2>2, <2>3, <2>4 DEF Moving
<1>9. CASE Advance
  <2>1. /\ UNCHANGED <<chr, dirty, disk>> /\ call.op \in {"putc", "newline"}
        /\ call'.op \in {"none", "blank"}
    BY <1>9 DEF Advance, Return
  <2>2. ~dirty
    BY <2>1 DEF QueueInv
  <2> QED
    BY <2>1, <2>2, OtherCall
<1>10. CASE Nmi
  BY <1>10, NmiMemoryStep
<1>11. CASE UNCHANGED vars
  <2>1. SameMemory /\ pc' = pc /\ buf' = buf /\ Taking' = Taking
    BY <1>11 DEF vars, SameMemory, Taking
  <2> QED
    BY <2>1, SameMemoryKeeps
<1>12. CASE PpuPutc \/ PpuwdRead \/ PpuwdWrite
  BY <1>1, <1>12 DEF PpuPutc, PpuwdRead, PpuwdWrite
<1> QED
  BY <1>2, <1>3, <1>4, <1>5, <1>6, <1>7, <1>8, <1>9, <1>10, <1>11, <1>12 DEF Next, Kernel

-----------------------------------------------------------------------------
(* What follows *)

IInv ==
  /\ LockInv /\ CallInv /\ BufInv /\ SizeInv /\ OnceInOrder
  /\ ~Crossed => QueueInv /\ CellsTyped

LEMMA IInvInit == Init => IInv
<1> SUFFICES ASSUME Init PROVE IInv
  OBVIOUS
<1>1. pc = "idle" /\ ended = TRUE /\ locked = FALSE /\ buf = <<>> /\ todo = <<>> /\ order = TRUE
  BY DEF Init
<1>2. LockInv /\ OnceInOrder
  BY <1>1 DEF LockInv, OnceInOrder, At
<1>3. BufInv
  <2>1. <<>> \in Seq(Descs)
    OBVIOUS
  <2> QED
    BY <1>1, <2>1 DEF BufInv
<1> QED
  BY <1>2, <1>3, CallInit, QueueInit, CellsInit, SizeInit DEF IInv

LEMMA LockStep ==
  ASSUME LockInv, [Next]_vars
  PROVE  LockInv'
<1> USE DEF LockInv, At, Goto, ppu, kernel
<1>1. CASE PpuPutc \/ PpuwdRead \/ PpuwdWrite
  BY <1>1 DEF PpuPutc, PpuwdRead, PpuwdWrite, Begin
<1>2. CASE Lock
  BY <1>2 DEF Lock
<1>3. CASE Header
  BY <1>3 DEF Header
<1>4. CASE CopyData
  BY <1>4 DEF CopyData
<1>5. CASE Unlock
  BY <1>5 DEF Unlock
<1>6. CASE Again
  BY <1>6 DEF Again
<1>7. CASE WaitFrame \/ Woken \/ CopyAnswer \/ Taken \/ NextPass
  BY <1>7 DEF WaitFrame, Woken, CopyAnswer, Taken, NextPass
<1>8. CASE PpuwdDone \/ Advance
  BY <1>8 DEF PpuwdDone, Advance, Return
<1>9. CASE Nmi
  <2>1. locked' = locked /\ ended' = ended /\ pc' \in {pc, "lost"} /\ ~locked
    BY <1>9 DEF Nmi, Lost, FreeToRun
  <2> QED
    BY <2>1
<1>10. CASE UNCHANGED vars
  BY <1>10 DEF vars
<1> QED
  BY <1>1, <1>2, <1>3, <1>4, <1>5, <1>6, <1>7, <1>8, <1>9, <1>10 DEF Next, Kernel

LEMMA BufStep ==
  ASSUME CallInv, BufInv, [Next]_vars
  PROVE  BufInv'
<1> USE DEF BufInv, At, Goto, ppu, kernel
<1>1. CASE PpuPutc \/ PpuwdRead \/ PpuwdWrite
  BY <1>1 DEF PpuPutc, PpuwdRead, PpuwdWrite, Begin
<1>2. CASE Header
  <2>1. Desc \in Descs
    BY <1>2, DescIs DEF Header
  <2> QED
    BY <1>2, <2>1 DEF Header
<1>3. CASE Lock \/ CopyData \/ Unlock \/ Again \/ WaitFrame \/ Woken \/ CopyAnswer \/ Taken
           \/ NextPass \/ PpuwdDone \/ Advance \/ UNCHANGED vars
  BY <1>3 DEF Lock, CopyData, Unlock, Again, WaitFrame, Woken, CopyAnswer, Taken, NextPass,
              PpuwdDone, Advance, vars
<1>4. CASE Nmi
  <2>1. buf' = buf \/ buf' = <<>>
    BY <1>4 DEF Nmi, Lost, Reset
  <2>2. <<>> \in Seq(Descs)
    OBVIOUS
  <2> QED
    BY <2>1, <2>2
<1> QED
  BY <1>1, <1>2, <1>3, <1>4 DEF Next, Kernel

LEMMA OrderStep ==
  ASSUME LockInv, CallInv, OnceInOrder, ~Crossed => QueueInv, [Next]_vars
  PROVE  OnceInOrder'
<1> USE DEF OnceInOrder, At, Goto, ppu, kernel
<1>1. CASE pc = "lost"
  <2>1. Crossed'
    BY <1>1, CrossedStays
  <2>2. pc' = "lost"
    <3>1. CASE Nmi
      BY <1>1, <3>1 DEF Nmi, Lost
    <3>2. CASE UNCHANGED vars
      BY <1>1, <3>2 DEF vars
    <3>3. CASE PpuPutc \/ PpuwdRead \/ PpuwdWrite
      BY <1>1, <3>3 DEF PpuPutc, PpuwdRead, PpuwdWrite, Begin
    <3>4. ~Kernel
      BY <1>1 DEF Kernel, Lock, Header, CopyData, Unlock, Again, WaitFrame, Woken, CopyAnswer,
                  Taken, NextPass, PpuwdDone, Advance
    <3> QED
      BY <3>1, <3>2, <3>3, <3>4 DEF Next
  <2> QED
    BY <2>1, <2>2
<1>2. CASE pc # "lost"
  <2>1. order /\ buf = todo
    BY <1>2
  <2>2. CASE pc' # "lost" /\ UNCHANGED <<order, buf, todo>>
    BY <2>1, <2>2
  <2>3. CASE PpuPutc \/ PpuwdRead \/ PpuwdWrite
    BY <2>2, <2>3 DEF PpuPutc, PpuwdRead, PpuwdWrite, Begin
  <2>4. CASE Lock \/ CopyData \/ Unlock \/ Again \/ WaitFrame \/ Woken
    BY <2>2, <2>4 DEF Lock, CopyData, Unlock, Again, WaitFrame, Woken
  <2>5. CASE CopyAnswer \/ Taken \/ NextPass \/ PpuwdDone \/ Advance
    BY <2>2, <2>5 DEF CopyAnswer, Taken, NextPass, PpuwdDone, Advance, Return
  <2>6. CASE Header
    BY <2>1, <2>6 DEF Header
  <2>7. CASE Nmi
    <3>1. ended
      BY <2>7 DEF Nmi, FreeToRun, LockInv
    <3>2. CASE dirty /\ UNCHANGED <<ppu, pc>>
      BY <1>2, <2>2, <3>2
    <3>3. CASE (\E k \in DOMAIN buf : Torn(buf[k])) /\ Lost
      <4>1. Crossed
        BY <3>3, NotTorn
      <4>2. Crossed'
        BY <4>1, CrossedStays
      <4> QED
        BY <3>3, <4>2 DEF Lost
    <3>4. CASE Drained /\ Reset /\ pc' = pc
      BY <1>2, <2>1, <3>1, <3>4 DEF Drained, Reset
    <3> QED
      BY <2>7, <3>2, <3>3, <3>4 DEF Nmi
  <2>8. CASE UNCHANGED vars
    BY <1>2, <2>2, <2>8 DEF vars
  <2> QED
    BY <2>3, <2>4, <2>5, <2>6, <2>7, <2>8 DEF Next, Kernel
<1> QED
  BY <1>1, <1>2

LEMMA IInvStep == IInv /\ [Next]_vars => IInv'
<1> SUFFICES ASSUME IInv, [Next]_vars PROVE IInv'
  OBVIOUS
<1>1. /\ LockInv /\ CallInv /\ BufInv /\ SizeInv /\ OnceInOrder
      /\ ~Crossed => QueueInv /\ CellsTyped
  BY DEF IInv
<1>2. LockInv' /\ CallInv' /\ BufInv' /\ SizeInv' /\ OnceInOrder'
  BY <1>1, LockStep, CallStep, BufStep, SizeStep, OrderStep
<1>3. ~Crossed' => ~Crossed
  BY <1>1, CrossedStays
<1>4. ~Crossed => QueueInv' /\ CellsTyped'
  BY <1>1, QueueStep, CellsStep
<1> QED
  BY <1>2, <1>3, <1>4 DEF IInv

(* The lock of ppu_lock and ppu_unlock is enough: whatever the NMI         *)
(* interrupts, it finds whole descriptors with the 0 after them, and the   *)
(* kernel's view of what is queued is its own; until a block is written    *)
(* whose bank has bits above the low byte, the only one whose descriptor   *)
(* can be torn.                                                            *)
THEOREM NmiInOrder == Spec => []OnceInOrder
<1>1. IInv => OnceInOrder
  BY DEF IInv
<1>2. QED
  BY <1>1, IInvInit, IInvStep, PTL DEF Spec

(* queue_descriptor leaves room for the 0 and for every descriptor it      *)
(* takes, and the frames of the code's sizes (Sized) are long only when a  *)
(* block is moved behind other work.                                       *)
THEOREM FramesFit ==
  ASSUME Sized
  PROVE  Spec => []FrameFits
<1>1. IInv => FrameFits
  BY Fits DEF IInv
<1>2. QED
  BY <1>1, IInvInit, IInvStep, PTL DEF Spec

LEMMA KeepsBlocks ==
  ASSUME IInv, ~Crossed => MemoryInv
  PROVE  BlocksKept
<1> SUFFICES ASSUME ~Crossed
             PROVE  /\ At("idle") => \A b \in Blocks : Alone(b) => InMemory(b) = Whole(disk[b])
                    /\ At("next") /\ LastPass /\ call.op = "read" /\ Alone(call.block) =>
                         bf_data = Whole(disk[call.block])
  BY DEF BlocksKept
<1>1. ASSUME pc = "idle", NEW b \in Blocks, Alone(b)
      PROVE  InMemory(b) = Whole(disk[b])
  <2>1. call.op = "none"
    BY <1>1 DEF IInv, CallInv
  <2>2. \A k \in 0 .. CELLS - 1 : In(chr, b, k) = Cell(disk[b], k)
    BY <1>1, <2>1 DEF MemoryInv, Kept
  <2> QED
    BY <2>2 DEF InMemory, Whole, In
<1>2. ASSUME pc = "next", LastPass, call.op = "read", Alone(call.block)
      PROVE  bf_data = Whole(disk[call.block])
  <2>1. pass \in 0 .. Passes.read - 1 /\ pass + 1 = Passes.read
    BY <1>2 DEF IInv, CallInv, Moving, LastPass
  <2>2. Start(pass) + Taking = CELLS
    BY <1>2, <2>1, PassFits DEF Taking
  <2>3. \A k \in 0 .. CELLS - 1 : k < CELLS
    BY Numbers
  <2>4. \A k \in 0 .. CELLS - 1 : bf_data[k] = Cell(disk[call.block], k)
    BY <1>2, <2>2, <2>3 DEF MemoryInv, Readout
  <2>5. bf_data \in [0 .. CELLS - 1 -> Cells]
    BY DEF IInv, CellsTyped
  <2> QED
    BY <2>4, <2>5 DEF Whole
<1> QED
  BY <1>1, <1>2 DEF At

(* ppuwd_write and ppuwd_read move whole blocks through the NMI, whatever  *)
(* its moments and whatever else is queued: until a block above the first  *)
(* 256 banks is written, a block stays what it was last given, and a read  *)
(* returns it, unless a block that the code does not tell from it was      *)
(* written.                                                                *)
THEOREM BlocksAreKept ==
  ASSUME Aligned
  PROVE  Spec => []BlocksKept
<1> DEFINE J == IInv /\ (~Crossed => MemoryInv)
<1>1. Init => J
  BY IInvInit, MemoryInit
<1>2. J /\ [Next]_vars => J'
  <2> SUFFICES ASSUME J, [Next]_vars PROVE J'
    OBVIOUS
  <2>1. IInv'
    BY IInvStep
  <2>2. ~Crossed' => ~Crossed
    BY CrossedStays DEF IInv
  <2>3. ~Crossed => MemoryInv'
    BY MemoryStep DEF IInv
  <2> QED
    BY <2>1, <2>2, <2>3
<1>3. J => BlocksKept
  BY KeepsBlocks
<1>4. QED
  BY <1>1, <1>2, <1>3, PTL DEF Spec
=============================================================================
