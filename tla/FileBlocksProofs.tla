-------------------------- MODULE FileBlocksProofs --------------------------
(***************************************************************************)
(* That each block in use is in one place of one file, and that files      *)
(* behave as rows of bytes, for any number of files and open file entries  *)
(* and any size of the disk, the blocks and the files.                     *)
(***************************************************************************)
EXTENDS FileBlocks, TLAPS

-----------------------------------------------------------------------------
(* Division *)

LEMMA TimesGrows ==
  ASSUME NEW n \in Nat \ {0}, NEW q \in Nat, NEW r \in Nat, q < r
  PROVE  n * q + n <= n * r
<1>1. r = q + 1 + (r - q - 1) /\ r - q - 1 \in Nat
  OBVIOUS
<1> DEFINE d == r - q - 1
<1>2. d \in Nat /\ r = q + 1 + d
  BY <1>1
<1> HIDE DEF d
<1>3. n * r = n * q + n + n * d
  BY <1>2
<1>4. n * d >= 0 /\ n * q \in Nat /\ n * d \in Nat
  BY <1>2
<1> QED
  BY <1>3, <1>4

LEMMA QuotientUnique ==
  ASSUME NEW n \in Nat \ {0}, NEW q \in Nat, NEW r \in Nat, NEW x \in 0 .. n - 1, NEW y \in 0 .. n - 1,
         n * q + x = n * r + y
  PROVE  q = r /\ x = y
<1>1. n * q \in Nat /\ n * r \in Nat
  OBVIOUS
<1>2. CASE q < r
  <2>1. n * q + n <= n * r
    BY <1>2, TimesGrows
  <2> QED
    BY <1>1, <2>1
<1>3. CASE r < q
  <2>1. n * r + n <= n * q
    BY <1>3, TimesGrows
  <2> QED
    BY <1>1, <2>1
<1> QED
  BY <1>2, <1>3

LEMMA DivMod ==
  ASSUME NEW a \in Nat, NEW n \in Nat \ {0}
  PROVE  a \div n \in Nat /\ a % n \in 0 .. n - 1 /\ a = n * (a \div n) + (a % n)
<1>1. a % n \in 0 .. n - 1
  OBVIOUS
<1>2. a = n * (a \div n) + (a % n)
  OBVIOUS
<1>3. a \div n \in Int
  OBVIOUS
<1>4. a \div n \in Nat
  OBVIOUS
<1> QED
  BY <1>1, <1>2, <1>4

LEMMA DivBelow ==
  ASSUME NEW n \in Nat \ {0}, NEW m \in Nat, NEW a \in 0 .. n * m - 1
  PROVE  a \div n \in 0 .. m - 1
<1>1. a \in Nat /\ n * m \in Nat
  OBVIOUS
<1>2. /\ a = n * (a \div n) + (a % n) /\ a % n \in 0 .. n - 1 /\ a \div n \in Nat
  BY <1>1, DivMod
<1>3. CASE m <= a \div n
  <2>1. n * m <= n * (a \div n)
    <3>1. CASE m = a \div n
      BY <3>1, <1>1
    <3>2. CASE m < a \div n
      <4>1. n * m + n <= n * (a \div n)
        BY <3>2, <1>2, TimesGrows
      <4> QED
        BY <4>1, <1>1, <1>2
    <3> QED
      BY <3>1, <3>2, <1>3, <1>2
  <2> QED
    BY <2>1, <1>1, <1>2
<1> QED
  BY <1>2, <1>3

-----------------------------------------------------------------------------
(* The block map, of any i_addr a and contents c *)

Numbers == Blocks \cup {NULLBLK}
Values == Numbers \cup Bytes \cup {Junk}
Through2(c, b, k) == IF b = NULLBLK THEN NULLBLK ELSE c[b][k]

\* Where in the single and the double indirect blocks a block is looked up.
Single(bn) == bn - ND
Upper(bn) == ((bn - ND - BS) \div BS) % BS
Lower(bn) == (bn - ND - BS) % BS
Look(a, c, f, bn) ==
  IF bn < ND THEN a[f][bn]
  ELSE IF bn - ND < BS THEN Through2(c, a[f][ND], Single(bn))
  ELSE Through2(c, Through2(c, a[f][Double], Upper(bn)), Lower(bn))

Doubles(a) == {a[f][Double] : f \in Files} \ {NULLBLK}
Singles(a, c) ==
  ({a[f][ND] : f \in Files} \cup {c[x][k] : x \in Doubles(a), k \in Cells}) \ {NULLBLK}
Inner(a, c) == Doubles(a) \cup Singles(a, c)
Slots(a, c) == (Files \X (0 .. Double)) \cup (Inner(a, c) \X Cells)
At(a, c, p) == IF p[1] \in Files THEN a[p[1]][p[2]] ELSE c[p[1]][p[2]]

\* The blocks of u are each in one place, and nothing else is.
Typed(a, c) ==
  a \in [Files -> [0 .. Double -> Numbers]] /\ c \in [Blocks -> [Cells -> Values]]
Filled(a, c, u) ==
  /\ \A p \in Slots(a, c) : At(a, c, p) \in u \cup {NULLBLK}
  /\ \A y \in u : \E p \in Slots(a, c) : At(a, c, p) = y
Apart(a, c) ==
  \A p, q \in Slots(a, c) : At(a, c, p) = At(a, c, q) /\ At(a, c, p) # NULLBLK => p = q
Sound(a, c, u) == Typed(a, c) /\ u \subseteq Blocks /\ Filled(a, c, u) /\ Apart(a, c)

LEMMA Constants ==
  /\ BS \in Nat \ {0} /\ ND \in Nat \ {0} /\ Double = ND + 1 /\ NULLBLK = 0
  /\ Files \cap Blocks = {} /\ NULLBLK \notin Blocks
  /\ ND \in 0 .. Double /\ Double \in 0 .. Double
  /\ Cells = 0 .. BS - 1
  /\ \A k \in 0 .. ND - 1 : k \in 0 .. Double /\ k # ND /\ k # Double
BY BlocksAssumption DEF Double, NULLBLK, Cells

(* The slots, one by one. *)
LEMMA SlotFacts ==
  ASSUME NEW a, NEW c, NEW u, Sound(a, c, u)
  PROVE  /\ \A f \in Files, k \in 0 .. Double :
              /\ <<f, k>> \in Slots(a, c) /\ At(a, c, <<f, k>>) = a[f][k]
              /\ a[f][k] \in u \cup {NULLBLK}
         /\ Inner(a, c) \subseteq u
         /\ \A x \in Inner(a, c), k \in Cells :
              /\ <<x, k>> \in Slots(a, c) /\ At(a, c, <<x, k>>) = c[x][k]
              /\ c[x][k] \in u \cup {NULLBLK}
<1>1. \A f \in Files, k \in 0 .. Double :
         /\ <<f, k>> \in Slots(a, c) /\ At(a, c, <<f, k>>) = a[f][k]
         /\ a[f][k] \in u \cup {NULLBLK}
  <2>1. \A f \in Files, k \in 0 .. Double :
          <<f, k>> \in Slots(a, c) /\ At(a, c, <<f, k>>) = a[f][k]
    BY DEF Slots, At
  <2> QED
    BY <2>1 DEF Sound, Filled
<1>2. Doubles(a) \subseteq u
  <2>1. \A f \in Files : a[f][Double] \in u \cup {NULLBLK}
    BY <1>1, Constants
  <2> QED
    BY <2>1 DEF Doubles
<1>3. ASSUME NEW x \in Inner(a, c), x \in u, NEW k \in Cells
      PROVE  /\ <<x, k>> \in Slots(a, c) /\ At(a, c, <<x, k>>) = c[x][k]
             /\ c[x][k] \in u \cup {NULLBLK}
  <2>1. x \notin Files
    BY <1>3, Constants DEF Sound
  <2>2. <<x, k>> \in Slots(a, c)
    BY DEF Slots
  <2>3. At(a, c, <<x, k>>) = c[x][k]
    BY <2>1 DEF At
  <2> QED
    BY <2>2, <2>3 DEF Sound, Filled
<1>4. Singles(a, c) \subseteq u
  <2>1. \A f \in Files : a[f][ND] \in u \cup {NULLBLK}
    BY <1>1, Constants
  <2>2. \A x \in Doubles(a), k \in Cells : c[x][k] \in u \cup {NULLBLK}
    BY <1>2, <1>3 DEF Inner
  <2> QED
    BY <2>1, <2>2 DEF Singles
<1>5. Inner(a, c) \subseteq u
  BY <1>2, <1>4 DEF Inner
<1> QED
  BY <1>1, <1>3, <1>5

(* Two slots with the same block are the same. *)
RootsApart(a) ==
  \A f, g \in Files, k, j \in 0 .. Double :
    a[f][k] = a[g][j] /\ a[f][k] # NULLBLK => f = g /\ k = j
RootNoEntry(a, c) ==
  \A f \in Files, k \in 0 .. Double, x \in Inner(a, c), j \in Cells :
    a[f][k] = c[x][j] => a[f][k] = NULLBLK
EntriesApart(a, c) ==
  \A x, y \in Inner(a, c), k, j \in Cells :
    c[x][k] = c[y][j] /\ c[x][k] # NULLBLK => x = y /\ k = j

LEMMA OneSlot ==
  ASSUME NEW a, NEW c, NEW u, Sound(a, c, u)
  PROVE  RootsApart(a) /\ RootNoEntry(a, c) /\ EntriesApart(a, c)
<1>1. \A f, g \in Files, k, j \in 0 .. Double :
         a[f][k] = a[g][j] /\ a[f][k] # NULLBLK => f = g /\ k = j
  <2> SUFFICES ASSUME NEW f \in Files, NEW g \in Files, NEW k \in 0 .. Double,
                      NEW j \in 0 .. Double, a[f][k] = a[g][j], a[f][k] # NULLBLK
               PROVE  f = g /\ k = j
    OBVIOUS
  <2>1. /\ <<f, k>> \in Slots(a, c) /\ At(a, c, <<f, k>>) = a[f][k]
        /\ <<g, j>> \in Slots(a, c) /\ At(a, c, <<g, j>>) = a[g][j]
    BY SlotFacts
  <2>2. <<f, k>> = <<g, j>>
    BY <2>1, Zenon DEF Sound, Apart
  <2> QED
    BY <2>2
<1>2. ASSUME NEW f \in Files, NEW k \in 0 .. Double, NEW x \in Inner(a, c), NEW j \in Cells,
             a[f][k] = c[x][j]
      PROVE  a[f][k] = NULLBLK
  <2>1. /\ <<f, k>> \in Slots(a, c) /\ At(a, c, <<f, k>>) = a[f][k]
        /\ <<x, j>> \in Slots(a, c) /\ At(a, c, <<x, j>>) = c[x][j]
    BY SlotFacts
  <2>2. a[f][k] # NULLBLK => <<f, k>> = <<x, j>>
    BY <1>2, <2>1, Zenon DEF Sound, Apart
  <2>3. f # x
    BY SlotFacts, Constants DEF Sound
  <2> QED
    BY <2>2, <2>3
<1>3. \A x, y \in Inner(a, c), k, j \in Cells :
         c[x][k] = c[y][j] /\ c[x][k] # NULLBLK => x = y /\ k = j
  <2> SUFFICES ASSUME NEW x \in Inner(a, c), NEW y \in Inner(a, c), NEW k \in Cells,
                      NEW j \in Cells, c[x][k] = c[y][j], c[x][k] # NULLBLK
               PROVE  x = y /\ k = j
    OBVIOUS
  <2>1. /\ <<x, k>> \in Slots(a, c) /\ At(a, c, <<x, k>>) = c[x][k]
        /\ <<y, j>> \in Slots(a, c) /\ At(a, c, <<y, j>>) = c[y][j]
    BY SlotFacts
  <2>2. <<x, k>> = <<y, j>>
    BY <2>1, Zenon DEF Sound, Apart
  <2> QED
    BY <2>2
<1> QED
  BY <1>1, <1>2, <1>3 DEF RootsApart, RootNoEntry, EntriesApart

-----------------------------------------------------------------------------
(* Blocks of a file *)

Blknos == 0 .. NB - 1

LEMMA BlknoFacts ==
  ASSUME NEW bn \in Blknos
  PROVE  /\ bn \in Nat
         /\ bn < ND => bn \in 0 .. ND - 1 /\ bn \in 0 .. Double
         /\ ~ bn < ND /\ bn - ND < BS => Single(bn) \in Cells
         /\ ~ bn < ND /\ ~ bn - ND < BS =>
              /\ Upper(bn) \in Cells /\ Lower(bn) \in Cells
              /\ bn = ND + BS + (BS * Upper(bn) + Lower(bn))
<1>1. /\ bn \in Nat /\ BS \in Nat \ {0} /\ ND \in Nat \ {0} /\ Double = ND + 1
      /\ bn < NB /\ NB \in Nat /\ NB <= ND + BS + BS * BS /\ BS * BS \in Nat
      /\ Cells = 0 .. BS - 1
  BY BlocksAssumption, Constants DEF Blknos
<1>2. bn < ND => bn \in 0 .. ND - 1 /\ bn \in 0 .. Double
  BY <1>1
<1>3. ~ bn < ND /\ bn - ND < BS => Single(bn) \in Cells
  BY <1>1 DEF Single
<1>4. ASSUME ~ bn < ND, ~ bn - ND < BS
      PROVE  /\ Upper(bn) \in Cells /\ Lower(bn) \in Cells
             /\ bn = ND + BS + (BS * Upper(bn) + Lower(bn))
  <2> DEFINE x == bn - ND - BS
             i == x \div BS
             j == x % BS
  <2>1. x \in Nat /\ x < BS * BS /\ bn = ND + BS + x
    BY <1>1, <1>4
  <2>2. x \in 0 .. BS * BS - 1
    BY <1>1, <2>1
  <2> HIDE DEF x
  <2>3. i \in Nat /\ j \in 0 .. BS - 1 /\ x = BS * i + j
    BY <1>1, <2>1, DivMod
  <2>4. i \in 0 .. BS - 1
    BY <1>1, <2>2, DivBelow
  <2> HIDE DEF i
  <2>5. i % BS = i
    BY <1>1, <2>4
  <2>6. Upper(bn) = i /\ Lower(bn) = j
    BY <2>5 DEF Upper, Lower, i, x
  <2> HIDE DEF j
  <2> QED
    BY <1>1, <2>1, <2>3, <2>4, <2>6
<1> QED
  BY <1>1, <1>2, <1>3, <1>4

LEMMA KindsApart ==
  ASSUME NEW a, NEW c, NEW u, Sound(a, c, u)
  PROVE  \A x \in Doubles(a) : x \notin Singles(a, c)
<1> SUFFICES ASSUME NEW x \in Doubles(a), x \in Singles(a, c) PROVE FALSE
  OBVIOUS
<1>0. RootsApart(a) /\ RootNoEntry(a, c) /\ EntriesApart(a, c)
  BY OneSlot
<1>1. PICK f \in Files : x = a[f][Double] /\ x # NULLBLK
  BY DEF Doubles
<1>2. ND \in 0 .. Double /\ Double \in 0 .. Double /\ ND # Double
  BY Constants
<1>3. CASE \E g \in Files : x = a[g][ND]
  <2>1. PICK g \in Files : x = a[g][ND]
    BY <1>3
  <2>2. a[f][Double] = a[g][ND] /\ a[f][Double] # NULLBLK
    BY <1>1, <2>1
  <2> QED
    BY <1>0, <1>2, <2>2 DEF RootsApart
<1>4. CASE \E d \in Doubles(a), k \in Cells : x = c[d][k]
  <2>1. PICK d \in Doubles(a), k \in Cells : x = c[d][k]
    BY <1>4
  <2>2. d \in Inner(a, c)
    BY DEF Inner
  <2> QED
    BY <1>0, <1>1, <1>2, <2>1, <2>2 DEF RootNoEntry
<1> QED
  BY <1>3, <1>4 DEF Singles

\* The slot of block bn of f, and what holds the blocks on the way to it.
InDirect(bn) == bn < ND
InSingle(bn) == ~ bn < ND /\ bn - ND < BS
InDouble(bn) == ~ bn < ND /\ ~ bn - ND < BS
Found(a, c, f, bn) ==
  \/ InDirect(bn) /\ Look(a, c, f, bn) = a[f][bn]
  \/ /\ InSingle(bn) /\ a[f][ND] \in Singles(a, c)
     /\ Look(a, c, f, bn) = c[a[f][ND]][Single(bn)]
  \/ /\ InDouble(bn) /\ a[f][Double] \in Doubles(a)
     /\ c[a[f][Double]][Upper(bn)] \in Singles(a, c)
     /\ Look(a, c, f, bn) = c[c[a[f][Double]][Upper(bn)]][Lower(bn)]

LEMMA LookFound ==
  ASSUME NEW a, NEW c, NEW u, Sound(a, c, u), NEW f \in Files, NEW bn \in Blknos
  PROVE  /\ Look(a, c, f, bn) \in u \cup {NULLBLK}
         /\ Look(a, c, f, bn) # NULLBLK => Found(a, c, f, bn)
<1>1. CASE InDirect(bn)
  <2>1. Look(a, c, f, bn) = a[f][bn]
    BY <1>1 DEF Look, InDirect
  <2>2. bn \in 0 .. Double
    BY <1>1, BlknoFacts DEF InDirect
  <2> QED
    <3>1. a[f][bn] \in u \cup {NULLBLK}
      BY <2>2, SlotFacts
    <3> QED
      BY <1>1, <2>1, <3>1 DEF Found
<1>2. CASE InSingle(bn)
  <2>1. Look(a, c, f, bn) = Through2(c, a[f][ND], Single(bn))
    BY <1>2 DEF Look, InSingle
  <2>2. Single(bn) \in Cells
    BY <1>2, BlknoFacts DEF InSingle
  <2>3. CASE a[f][ND] = NULLBLK
    BY <2>1, <2>3 DEF Through2
  <2>4. CASE a[f][ND] # NULLBLK
    <3>1. a[f][ND] \in Singles(a, c)
      BY <2>4 DEF Singles
    <3>2. Look(a, c, f, bn) = c[a[f][ND]][Single(bn)]
      BY <2>1, <2>4 DEF Through2
    <3>3. c[a[f][ND]][Single(bn)] \in u \cup {NULLBLK}
      <4>1. a[f][ND] \in Inner(a, c)
        BY <3>1 DEF Inner
      <4> QED
        BY <2>2, <4>1, SlotFacts
    <3> QED
      BY <1>2, <3>1, <3>2, <3>3 DEF Found
  <2> QED
    BY <2>3, <2>4
<1>3. CASE InDouble(bn)
  <2> DEFINE d == a[f][Double]
             s == Through2(c, d, Upper(bn))
  <2>1. Look(a, c, f, bn) = Through2(c, s, Lower(bn))
    BY <1>3 DEF Look, InDouble
  <2>2. Upper(bn) \in Cells /\ Lower(bn) \in Cells
    BY <1>3, BlknoFacts DEF InDouble
  <2>3. CASE s = NULLBLK
    BY <2>1, <2>3 DEF Through2
  <2>4. CASE s # NULLBLK
    <3>1. d # NULLBLK /\ s = c[d][Upper(bn)]
      BY <2>4 DEF Through2
    <3>2. d \in Doubles(a)
      BY <3>1 DEF Doubles
    <3>3. s \in Singles(a, c)
      BY <2>2, <2>4, <3>1, <3>2 DEF Singles
    <3>4. Look(a, c, f, bn) = c[s][Lower(bn)]
      BY <2>1, <2>4 DEF Through2
    <3>5. c[s][Lower(bn)] \in u \cup {NULLBLK}
      <4>1. s \in Inner(a, c)
        BY <3>3 DEF Inner
      <4> HIDE DEF s
      <4> QED
        BY <2>2, <4>1, SlotFacts
    <3> QED
      BY <1>3, <3>1, <3>2, <3>3, <3>4, <3>5 DEF Found
  <2> QED
    BY <2>3, <2>4
<1> QED
  BY <1>1, <1>2, <1>3 DEF InDirect, InSingle, InDouble

\* A block with bytes is not one with the numbers of blocks.
LEMMA LookOutside ==
  ASSUME NEW a, NEW c, NEW u, Sound(a, c, u), NEW f \in Files, NEW bn \in Blknos
  PROVE  Look(a, c, f, bn) \notin Inner(a, c)
<1>0. RootsApart(a) /\ RootNoEntry(a, c) /\ EntriesApart(a, c)
  BY OneSlot
<1> DEFINE y == Look(a, c, f, bn)
<1> SUFFICES ASSUME y \in Inner(a, c) PROVE FALSE
  OBVIOUS
<1>1. y # NULLBLK
  BY DEF Inner, Doubles, Singles
<1>2. Found(a, c, f, bn)
  BY <1>1, LookFound
<1>3. Doubles(a) \subseteq Inner(a, c) /\ Singles(a, c) \subseteq Inner(a, c)
  BY DEF Inner
<1>4. ND \in 0 .. Double /\ Double \in 0 .. Double /\ ND # Double
  BY Constants
<1>5. \/ \E g \in Files, k \in {ND, Double} : y = a[g][k]
      \/ \E d \in Doubles(a), k \in Cells : y = c[d][k]
  BY DEF Inner, Doubles, Singles
<1> HIDE DEF y
<1>6. CASE InDirect(bn) /\ y = a[f][bn]
  <2>1. bn \in 0 .. Double /\ bn # ND /\ bn # Double
    BY <1>6, BlknoFacts, Constants DEF InDirect
  <2>2. \A g \in Files, k \in {ND, Double} : y # a[g][k]
    BY <1>0, <1>1, <1>4, <1>6, <2>1 DEF RootsApart
  <2>3. \A d \in Doubles(a), k \in Cells : y # c[d][k]
    BY <1>0, <1>1, <1>3, <1>6, <2>1 DEF RootNoEntry
  <2> QED
    BY <1>5, <2>2, <2>3
<1>7. ASSUME NEW x \in Singles(a, c), NEW j \in Cells, y = c[x][j] PROVE FALSE
  <2>1. x \in Inner(a, c) /\ x \notin Doubles(a)
    BY <1>3, KindsApart
  <2>2. \A g \in Files, k \in {ND, Double} : y # a[g][k]
    BY <1>0, <1>1, <1>4, <1>7, <2>1 DEF RootNoEntry
  <2>3. \A d \in Doubles(a), k \in Cells : y # c[d][k]
    <3> SUFFICES ASSUME NEW d \in Doubles(a), NEW k \in Cells, y = c[d][k] PROVE FALSE
      OBVIOUS
    <3>1. d \in Inner(a, c)
      BY <1>3
    <3>2. x = d
      <4>1. c[x][j] = c[d][k] /\ c[x][j] # NULLBLK
        BY <1>1, <1>7
      <4> QED
        BY <1>0, <2>1, <3>1, <4>1 DEF EntriesApart
    <3> QED
      BY <2>1, <3>2
  <2> QED
    BY <1>5, <2>2, <2>3
<1>8. InSingle(bn) => Single(bn) \in Cells
  BY BlknoFacts DEF InSingle
<1>9. InDouble(bn) => Lower(bn) \in Cells
  BY BlknoFacts DEF InDouble
<1> QED
  BY <1>2, <1>6, <1>7, <1>8, <1>9 DEF Found, y

\* A block is one block of one file.
LEMMA LookApart ==
  ASSUME NEW a, NEW c, NEW u, Sound(a, c, u), NEW f \in Files, NEW bn \in Blknos,
         NEW g \in Files, NEW bm \in Blknos,
         Look(a, c, f, bn) = Look(a, c, g, bm), Look(a, c, f, bn) # NULLBLK
  PROVE  f = g /\ bn = bm
<1>0. RootsApart(a) /\ RootNoEntry(a, c) /\ EntriesApart(a, c)
  BY OneSlot
<1> DEFINE y == Look(a, c, f, bn)
<1>1. Found(a, c, f, bn) /\ Found(a, c, g, bm) /\ y # NULLBLK /\ y = Look(a, c, g, bm)
  BY LookFound
<1>2. ND \in 0 .. Double /\ Double \in 0 .. Double
  BY Constants
<1>3. Doubles(a) \subseteq Inner(a, c) /\ Singles(a, c) \subseteq Inner(a, c)
      /\ NULLBLK \notin Inner(a, c)
  BY DEF Inner, Doubles, Singles
<1>4. CASE InDirect(bn) /\ InDirect(bm)
  <2>1. y = a[f][bn] /\ y = a[g][bm]
    BY <1>1, <1>4 DEF Found, InDirect, InSingle, InDouble
  <2>2. bn \in 0 .. Double /\ bm \in 0 .. Double
    BY <1>4, BlknoFacts DEF InDirect
  <2> QED
    BY <1>0, <1>1, <2>1, <2>2 DEF RootsApart
<1>5. ASSUME NEW e \in Files, NEW bi \in Blknos, NEW h \in Files, NEW bj \in Blknos,
             InDirect(bi), ~InDirect(bj), Found(a, c, e, bi), Found(a, c, h, bj),
             y = Look(a, c, e, bi), y = Look(a, c, h, bj)
      PROVE  FALSE
  <2>1. y = a[e][bi] /\ bi \in 0 .. Double
    BY <1>5, BlknoFacts DEF Found, InDirect, InSingle, InDouble
  <2>2. \E x \in Inner(a, c), k \in Cells : y = c[x][k]
    BY <1>3, <1>5, BlknoFacts DEF Found, InDirect, InSingle, InDouble
  <2> QED
    BY <1>0, <1>1, <2>1, <2>2 DEF RootNoEntry
<1>6. CASE InSingle(bn) /\ InSingle(bm)
  <2> DEFINE x == a[f][ND]
             z == a[g][ND]
  <2>1. /\ x \in Inner(a, c) /\ y = c[x][Single(bn)]
        /\ z \in Inner(a, c) /\ y = c[z][Single(bm)]
    BY <1>1, <1>3, <1>6 DEF Found, InDirect, InSingle, InDouble
  <2>2. Single(bn) \in Cells /\ Single(bm) \in Cells /\ bn \in Nat /\ bm \in Nat /\ ND \in Nat
    BY <1>6, BlknoFacts, Constants DEF InSingle
  <2>3. x = z /\ Single(bn) = Single(bm)
    <3> HIDE DEF x, z
    <3> QED
      <4>1. c[x][Single(bn)] = c[z][Single(bm)] /\ c[x][Single(bn)] # NULLBLK
        BY <1>1, <2>1
      <4> QED
        BY <1>0, <2>1, <2>2, <4>1 DEF EntriesApart
  <2>4. f = g
    BY <1>0, <1>2, <1>3, <2>1, <2>3 DEF RootsApart
  <2> QED
    BY <2>2, <2>3, <2>4 DEF Single
<1>7. CASE InDouble(bn) /\ InDouble(bm)
  <2> DEFINE d == a[f][Double]
             e == a[g][Double]
             x == c[d][Upper(bn)]
             z == c[e][Upper(bm)]
  <2>1. /\ d \in Inner(a, c) /\ x \in Inner(a, c) /\ y = c[x][Lower(bn)]
        /\ e \in Inner(a, c) /\ z \in Inner(a, c) /\ y = c[z][Lower(bm)]
    BY <1>1, <1>3, <1>7 DEF Found, InDirect, InSingle, InDouble
  <2>2. /\ Upper(bn) \in Cells /\ Lower(bn) \in Cells /\ bn = ND + BS + (BS * Upper(bn) + Lower(bn))
        /\ Upper(bm) \in Cells /\ Lower(bm) \in Cells /\ bm = ND + BS + (BS * Upper(bm) + Lower(bm))
    BY <1>7, BlknoFacts DEF InDouble
  <2>3. x = z /\ Lower(bn) = Lower(bm)
    <3> HIDE DEF x, z
    <3> QED
      <4>1. c[x][Lower(bn)] = c[z][Lower(bm)] /\ c[x][Lower(bn)] # NULLBLK
        BY <1>1, <2>1
      <4> QED
        BY <1>0, <2>1, <2>2, <4>1 DEF EntriesApart
  <2>4. d = e /\ Upper(bn) = Upper(bm)
    <3> HIDE DEF d, e
    <3> QED
      BY <1>0, <1>3, <2>1, <2>2, <2>3 DEF EntriesApart
  <2>5. f = g
    BY <1>0, <1>2, <1>3, <2>1, <2>4 DEF RootsApart
  <2> QED
    BY <2>2, <2>3, <2>4, <2>5
<1>8. ASSUME NEW e \in Files, NEW bi \in Blknos, NEW h \in Files, NEW bj \in Blknos,
             InSingle(bi), InDouble(bj), Found(a, c, e, bi), Found(a, c, h, bj),
             y = Look(a, c, e, bi), y = Look(a, c, h, bj)
      PROVE  FALSE
  <2> DEFINE x == a[e][ND]
             d == a[h][Double]
             z == c[d][Upper(bj)]
  <2>1. /\ x \in Inner(a, c) /\ y = c[x][Single(bi)]
        /\ d \in Inner(a, c) /\ z \in Inner(a, c) /\ y = c[z][Lower(bj)]
    BY <1>3, <1>8 DEF Found, InDirect, InSingle, InDouble
  <2>2. Single(bi) \in Cells /\ Upper(bj) \in Cells /\ Lower(bj) \in Cells
    BY <1>8, BlknoFacts DEF InSingle, InDouble
  <2>3. x = z
    <3> HIDE DEF x, z
    <3> QED
      <4>1. c[x][Single(bi)] = c[z][Lower(bj)] /\ c[x][Single(bi)] # NULLBLK
        BY <1>1, <2>1
      <4> QED
        BY <1>0, <2>1, <2>2, <4>1 DEF EntriesApart
  <2> QED
    BY <1>0, <1>2, <1>3, <2>1, <2>2, <2>3 DEF RootNoEntry
<1>9. /\ InDirect(bn) \/ InSingle(bn) \/ InDouble(bn)
      /\ InDirect(bm) \/ InSingle(bm) \/ InDouble(bm)
  BY DEF InDirect, InSingle, InDouble
<1>10. CASE InDirect(bn) /\ ~InDirect(bm)
  BY <1>1, <1>5, <1>10
<1>11. CASE InDirect(bm) /\ ~InDirect(bn)
  BY <1>1, <1>5, <1>11
<1>12. CASE InSingle(bn) /\ InDouble(bm)
  BY <1>1, <1>8, <1>12
<1>13. CASE InSingle(bm) /\ InDouble(bn)
  BY <1>1, <1>8, <1>13
<1> QED
  BY <1>4, <1>6, <1>7, <1>9, <1>10, <1>11, <1>12, <1>13

-----------------------------------------------------------------------------
(* A slot without a block gets block b, which has no numbers in it. *)

\* Slot p gets b, and the other slots keep what they have.
Entered(a, c, a2, c2, b) ==
  /\ \A f \in Files, k \in 0 .. Double :
       a2[f][k] # a[f][k] => a[f][k] = NULLBLK /\ a2[f][k] = b
  /\ \A x \in Inner(a, c), k \in Cells :
       c2[x][k] # c[x][k] => c[x][k] = NULLBLK /\ c2[x][k] = b
  /\ \A k \in Cells : c2[b][k] = NULLBLK
  /\ \A x \in Blocks : x \notin Inner(a, c) \cup {b} => c2[x] = c[x]
Only(a, c, a2, c2, p, b) ==
  /\ p \in Slots(a, c) /\ At(a, c, p) = NULLBLK /\ At(a2, c2, p) = b
  /\ \A q \in Slots(a, c) : q # p => At(a2, c2, q) = At(a, c, q)

LEMMA EnteredInner ==
  ASSUME NEW a, NEW c, NEW u, Sound(a, c, u), NEW a2, NEW c2, NEW b \in Blocks \ u,
         Entered(a, c, a2, c2, b)
  PROVE  Inner(a, c) \subseteq Inner(a2, c2) /\ Inner(a2, c2) \subseteq Inner(a, c) \cup {b}
<1>1. /\ ND \in 0 .. Double /\ Double \in 0 .. Double /\ b # NULLBLK
      /\ \A k \in Cells : c2[b][k] = NULLBLK
  BY Constants DEF Entered
<1>2. \A f \in Files, k \in {ND, Double} :
        a2[f][k] \in {a[f][k], b} /\ (a[f][k] # NULLBLK => a2[f][k] = a[f][k])
  BY <1>1 DEF Entered
<1>3. \A x \in Inner(a, c), k \in Cells :
        c2[x][k] \in {c[x][k], b} /\ (c[x][k] # NULLBLK => c2[x][k] = c[x][k])
  BY DEF Entered
<1>4. Doubles(a) \subseteq Doubles(a2) /\ Doubles(a2) \subseteq Doubles(a) \cup {b}
  BY <1>2 DEF Doubles
<1>5. Doubles(a) \subseteq Inner(a, c)
  BY DEF Inner
<1>6. Singles(a, c) \subseteq Singles(a2, c2)
  <2> SUFFICES ASSUME NEW x \in Singles(a, c) PROVE x \in Singles(a2, c2)
    OBVIOUS
  <2>1. x # NULLBLK
    BY DEF Singles
  <2>2. CASE \E f \in Files : x = a[f][ND]
    BY <1>2, <2>1, <2>2 DEF Singles
  <2>3. CASE \E d \in Doubles(a), k \in Cells : x = c[d][k]
    BY <1>3, <1>4, <1>5, <2>1, <2>3 DEF Singles
  <2> QED
    BY <2>2, <2>3 DEF Singles
<1>7. Singles(a2, c2) \subseteq Singles(a, c) \cup {b}
  <2> SUFFICES ASSUME NEW x \in Singles(a2, c2), x # b PROVE x \in Singles(a, c)
    OBVIOUS
  <2>1. x # NULLBLK
    BY DEF Singles
  <2>2. CASE \E f \in Files : x = a2[f][ND]
    BY <1>2, <2>1, <2>2 DEF Singles
  <2>3. CASE \E d \in Doubles(a2), k \in Cells : x = c2[d][k]
    <3>1. PICK d \in Doubles(a2), k \in Cells : x = c2[d][k]
      BY <2>3
    <3>2. d # b
      BY <1>1, <2>1, <3>1
    <3>3. d \in Doubles(a)
      BY <1>4, <3>2
    <3>4. x = c[d][k]
      BY <1>3, <1>5, <3>1, <3>3
    <3> QED
      BY <2>1, <3>3, <3>4 DEF Singles
  <2> QED
    BY <2>2, <2>3 DEF Singles
<1> QED
  BY <1>4, <1>6, <1>7 DEF Inner

LEMMA EnteredSound ==
  ASSUME NEW a, NEW c, NEW u, Sound(a, c, u), NEW a2, NEW c2, NEW b \in Blocks \ u,
         Typed(a2, c2), Entered(a, c, a2, c2, b), NEW p, Only(a, c, a2, c2, p, b)
  PROVE  Sound(a2, c2, u \cup {b})
<1>1. Slots(a, c) \subseteq Slots(a2, c2)
  BY EnteredInner DEF Slots
<1>2. ASSUME NEW q \in Slots(a2, c2)
      PROVE  /\ q \notin Slots(a, c) => At(a2, c2, q) = NULLBLK
             /\ q \in Slots(a, c) => At(a, c, q) \in u \cup {NULLBLK}
  <2>1. CASE q \notin Slots(a, c)
    <3>1. PICK k \in Cells : q = <<b, k>>
      BY <2>1, EnteredInner DEF Slots
    <3>2. b \notin Files
      BY Constants
    <3>3. At(a2, c2, q) = c2[b][k]
      BY <3>1, <3>2 DEF At
    <3> QED
      BY <2>1, <3>3 DEF Entered
  <2>2. CASE q \in Slots(a, c)
    BY <2>2 DEF Sound, Filled
  <2> QED
    BY <2>1, <2>2
<1>3. \A q \in Slots(a, c) : At(a2, c2, q) = IF q = p THEN b ELSE At(a, c, q)
  BY DEF Only
<1>4. p \in Slots(a, c) /\ p \in Slots(a2, c2) /\ At(a, c, p) = NULLBLK /\ At(a2, c2, p) = b
  BY <1>1 DEF Only
<1>5. b \notin u /\ b # NULLBLK /\ u \subseteq Blocks /\ NULLBLK \notin u
  BY Constants DEF Sound
<1>6. Filled(a2, c2, u \cup {b})
  <2>1. ASSUME NEW q \in Slots(a2, c2) PROVE At(a2, c2, q) \in u \cup {b} \cup {NULLBLK}
    BY <1>2, <1>3
  <2>2. ASSUME NEW y \in u \cup {b} PROVE \E q \in Slots(a2, c2) : At(a2, c2, q) = y
    <3>1. CASE y = b
      BY <1>4, <3>1
    <3>2. CASE y # b
      <4>1. PICK q \in Slots(a, c) : At(a, c, q) = y
        BY <3>2 DEF Sound, Filled
      <4>2. q # p
        BY <1>4, <1>5, <3>2, <4>1
      <4>3. At(a2, c2, q) = y
        BY <1>3, <4>1, <4>2
      <4> QED
        BY <1>1, <4>1, <4>3
    <3> QED
      BY <3>1, <3>2
  <2> QED
    BY <2>1, <2>2 DEF Filled
<1>7. Apart(a2, c2)
  <2> SUFFICES ASSUME NEW q \in Slots(a2, c2), NEW r \in Slots(a2, c2),
                      At(a2, c2, q) = At(a2, c2, r), At(a2, c2, q) # NULLBLK
               PROVE  q = r
    BY DEF Apart
  <2>1. q \in Slots(a, c) /\ r \in Slots(a, c)
    BY <1>2
  <2>2. CASE q = p \/ r = p
    <3>1. \A s \in Slots(a, c) : s # p => At(a2, c2, s) # b
      BY <1>1, <1>2, <1>3, <1>5
    <3> QED
      BY <1>4, <2>1, <2>2, <3>1
  <2>3. CASE q # p /\ r # p
    <3>1. At(a, c, q) = At(a, c, r) /\ At(a, c, q) # NULLBLK
      BY <1>3, <2>1, <2>3
    <3> QED
      BY <2>1, <3>1 DEF Sound, Apart
  <2> QED
    BY <2>2, <2>3
<1>8. u \cup {b} \subseteq Blocks
  BY <1>5
<1> QED
  BY <1>6, <1>7, <1>8 DEF Sound

\* A file has b at the end of its way, or what it had.
LEMMA EnteredLook ==
  ASSUME NEW a, NEW c, NEW u, Sound(a, c, u), NEW a2, NEW c2, NEW b \in Blocks \ u,
         Entered(a, c, a2, c2, b), NEW f \in Files, NEW bn \in Blknos
  PROVE  \/ Look(a2, c2, f, bn) = Look(a, c, f, bn)
         \/ Look(a, c, f, bn) = NULLBLK /\ Look(a2, c2, f, bn) = b
<1>1. /\ ND \in 0 .. Double /\ Double \in 0 .. Double /\ b # NULLBLK
      /\ \A k \in Cells : c2[b][k] = NULLBLK
      /\ \A k \in 0 .. Double : a2[f][k] # a[f][k] => a[f][k] = NULLBLK /\ a2[f][k] = b
      /\ \A x \in Inner(a, c), k \in Cells :
           c2[x][k] # c[x][k] => c[x][k] = NULLBLK /\ c2[x][k] = b
  BY Constants DEF Entered
<1>2. CASE InDirect(bn)
  BY <1>1, <1>2, BlknoFacts DEF InDirect, Look
<1>3. ASSUME NEW x, x = NULLBLK \/ x \in Inner(a, c), NEW x2,
             x2 = x \/ (x = NULLBLK /\ x2 = b), NEW k \in Cells
      PROVE  \/ Through2(c2, x2, k) = Through2(c, x, k)
             \/ Through2(c, x, k) = NULLBLK /\ Through2(c2, x2, k) = b
  <2>1. CASE x2 = x /\ x = NULLBLK
    BY <2>1 DEF Through2
  <2>2. CASE x2 = x /\ x # NULLBLK
    BY <1>1, <1>3, <2>2 DEF Through2
  <2>3. CASE x = NULLBLK /\ x2 = b
    BY <1>1, <2>3 DEF Through2
  <2> QED
    BY <1>3, <2>1, <2>2, <2>3
<1>4. CASE InSingle(bn)
  <2> DEFINE x == a[f][ND]
             x2 == a2[f][ND]
  <2>1. /\ Look(a, c, f, bn) = Through2(c, x, Single(bn))
        /\ Look(a2, c2, f, bn) = Through2(c2, x2, Single(bn))
    BY <1>4 DEF InSingle, Look
  <2>2. Single(bn) \in Cells
    BY <1>4, BlknoFacts DEF InSingle
  <2>3. x = NULLBLK \/ x \in Inner(a, c)
    BY DEF Inner, Singles
  <2>4. x2 = x \/ (x = NULLBLK /\ x2 = b)
    BY <1>1
  <2> HIDE DEF x, x2
  <2> QED
    BY <1>3, <2>1, <2>2, <2>3, <2>4
<1>5. CASE InDouble(bn)
  <2> DEFINE x == a[f][Double]
             x2 == a2[f][Double]
             y == Through2(c, x, Upper(bn))
             y2 == Through2(c2, x2, Upper(bn))
  <2>1. /\ Look(a, c, f, bn) = Through2(c, y, Lower(bn))
        /\ Look(a2, c2, f, bn) = Through2(c2, y2, Lower(bn))
    BY <1>5 DEF InDouble, Look
  <2>2. Upper(bn) \in Cells /\ Lower(bn) \in Cells
    BY <1>5, BlknoFacts DEF InDouble
  <2>3. x = NULLBLK \/ x \in Doubles(a)
    BY DEF Doubles
  <2>4. x2 = x \/ (x = NULLBLK /\ x2 = b)
    BY <1>1
  <2>5. y = NULLBLK \/ y \in Inner(a, c)
    BY <2>2, <2>3 DEF Through2, Inner, Singles
  <2>6. x = NULLBLK \/ x \in Inner(a, c)
    BY <2>3 DEF Inner
  <2> HIDE DEF x, x2
  <2>7. y2 = y \/ (y = NULLBLK /\ y2 = b)
    BY <1>3, <2>2, <2>4, <2>6
  <2> HIDE DEF y, y2
  <2> QED
    BY <1>3, <2>1, <2>2, <2>5, <2>7
<1> QED
  BY <1>2, <1>4, <1>5 DEF InDirect, InSingle, InDouble

\* And its bytes are the same.
ByteOf(a, c, f, bn, k) == Through2(c, Look(a, c, f, bn), k)

LEMMA EnteredBytes ==
  ASSUME NEW a, NEW c, NEW u, Sound(a, c, u), NEW a2, NEW c2, NEW b \in Blocks \ u,
         Entered(a, c, a2, c2, b), NEW f \in Files, NEW bn \in Blknos, NEW k \in Cells
  PROVE  ByteOf(a2, c2, f, bn, k) = ByteOf(a, c, f, bn, k)
<1> DEFINE y == Look(a, c, f, bn)
           y2 == Look(a2, c2, f, bn)
<1>1. y2 = y \/ (y = NULLBLK /\ y2 = b)
  BY EnteredLook
<1>2. y \in u \cup {NULLBLK} /\ y \notin Inner(a, c)
  BY LookFound, LookOutside
<1>3. /\ c2[b][k] = NULLBLK /\ b # NULLBLK /\ u \subseteq Blocks
      /\ \A x \in Blocks : x \notin Inner(a, c) \cup {b} => c2[x] = c[x]
  BY Constants DEF Entered, Sound
<1> HIDE DEF y, y2
<1>4. y # NULLBLK => c2[y] = c[y]
  BY <1>2, <1>3
<1> QED
  BY <1>1, <1>3, <1>4 DEF ByteOf, Through2, y, y2

-----------------------------------------------------------------------------
(* Bytes are put in block x, which has no numbers in it. *)

LEMMA CopiedSound ==
  ASSUME NEW a, NEW c, NEW u, Sound(a, c, u), NEW c2, Typed(a, c2),
         NEW x, x \notin Inner(a, c), \A y \in Blocks : y # x => c2[y] = c[y]
  PROVE  /\ Sound(a, c2, u)
         /\ \A f \in Files, bn \in Blknos : Look(a, c2, f, bn) = Look(a, c, f, bn)
<1>1. Doubles(a) \subseteq Inner(a, c) /\ Inner(a, c) \subseteq Blocks
  BY SlotFacts DEF Inner, Sound
<1>2. \A d \in Inner(a, c) : c2[d] = c[d]
  BY <1>1
<1>3. \A d \in Doubles(a), k \in Cells : c2[d][k] = c[d][k]
  BY <1>1, <1>2
<1>4. Singles(a, c2) = Singles(a, c)
  <2>1. \A y : y \in Singles(a, c2) <=> y \in Singles(a, c)
    BY <1>3 DEF Singles
  <2> QED
    BY <2>1
<1>5. Inner(a, c2) = Inner(a, c)
  BY <1>4 DEF Inner
<1>6. Slots(a, c2) = Slots(a, c)
  BY <1>5 DEF Slots
<1>7. \A p \in Slots(a, c) : At(a, c2, p) = At(a, c, p)
  BY <1>2 DEF At, Slots
<1>8. Filled(a, c2, u) /\ Apart(a, c2)
  BY <1>6, <1>7 DEF Sound, Filled, Apart
<1>9. ASSUME NEW f \in Files, NEW bn \in Blknos
      PROVE  Look(a, c2, f, bn) = Look(a, c, f, bn)
  <2> DEFINE s == a[f][ND]
             d == a[f][Double]
             y == Through2(c, d, Upper(bn))
  <2>1. s = NULLBLK \/ s \in Inner(a, c)
    BY DEF Inner, Singles
  <2>2. d = NULLBLK \/ d \in Doubles(a)
    BY DEF Doubles
  <2>3. InDouble(bn) => y = NULLBLK \/ y \in Inner(a, c)
    BY <2>2, BlknoFacts DEF InDouble, Through2, Inner, Singles
  <2>4. \A z, k : z = NULLBLK \/ z \in Inner(a, c) => Through2(c2, z, k) = Through2(c, z, k)
    BY <1>2 DEF Through2
  <2>5. Through2(c2, s, Single(bn)) = Through2(c, s, Single(bn))
    BY <2>1, <2>4
  <2>6. Through2(c2, d, Upper(bn)) = y
    BY <1>1, <2>2, <2>4
  <2>7. InDouble(bn) => Through2(c2, y, Lower(bn)) = Through2(c, y, Lower(bn))
    BY <2>3, <2>4
  <2> QED
    BY <2>5, <2>6, <2>7 DEF Look, InDouble
<1> QED
  BY <1>8, <1>9 DEF Sound

\* They are the bytes of one block of one file.
LEMMA CopiedBytes ==
  ASSUME NEW a, NEW c, NEW u, Sound(a, c, u), NEW f \in Files, NEW bn \in Blknos,
         NEW x, x = Look(a, c, f, bn), x # NULLBLK, NEW c2, Typed(a, c2),
         \A y \in Blocks : y # x => c2[y] = c[y],
         NEW g \in Files, NEW bm \in Blknos, NEW k \in Cells
  PROVE  ByteOf(a, c2, g, bm, k)
         = IF g = f /\ bm = bn THEN c2[x][k] ELSE ByteOf(a, c, g, bm, k)
<1> DEFINE y == Look(a, c, g, bm)
<1>1. x \notin Inner(a, c)
  BY LookOutside
<1>2. Look(a, c2, g, bm) = y
  BY <1>1, CopiedSound
<1>3. y \in u \cup {NULLBLK} /\ u \subseteq Blocks
  BY LookFound DEF Sound
<1>4. g = f /\ bm = bn => y = x
  OBVIOUS
<1>5. ~(g = f /\ bm = bn) => y = NULLBLK \/ y # x
  BY LookApart
<1> HIDE DEF y
<1> QED
  BY <1>2, <1>3, <1>4, <1>5 DEF ByteOf, Through2, y

-----------------------------------------------------------------------------
(* The blocks of file f are freed, and nothing else changes. *)

InnerOf(a, c, f) ==
  ({a[f][ND], a[f][Double]} \cup {c[x][k] : x \in {a[f][Double]} \ {NULLBLK}, k \in Cells})
  \ {NULLBLK}
SlotsOf(a, c, f) == ({f} \X (0 .. Double)) \cup (InnerOf(a, c, f) \X Cells)
Freed(a, c, f) == {At(a, c, p) : p \in SlotsOf(a, c, f)} \ {NULLBLK}
Cut(a, c, a2, c2, f) ==
  /\ \A g \in Files : g # f => a2[g] = a[g]
  /\ \A k \in 0 .. Double : a2[f][k] = NULLBLK
  /\ \A x \in Blocks : x \notin Freed(a, c, f) => c2[x] = c[x]

LEMMA SlotsByFile ==
  ASSUME NEW a, NEW c
  PROVE  /\ \A x : x \in Inner(a, c) <=> \E f \in Files : x \in InnerOf(a, c, f)
         /\ \A p : p \in Slots(a, c) <=> \E f \in Files : p \in SlotsOf(a, c, f)
<1>1. ASSUME NEW x, x \in Inner(a, c) PROVE \E f \in Files : x \in InnerOf(a, c, f)
  <2>1. x # NULLBLK
    BY <1>1 DEF Inner, Doubles, Singles
  <2>2. CASE \E f \in Files, k \in {ND, Double} : x = a[f][k]
    BY <2>1, <2>2 DEF InnerOf
  <2>3. CASE \E d \in Doubles(a), k \in Cells : x = c[d][k]
    <3>1. PICK d \in Doubles(a), k \in Cells : x = c[d][k]
      BY <2>3
    <3>2. PICK f \in Files : d = a[f][Double] /\ d # NULLBLK
      BY DEF Doubles
    <3>3. x \in InnerOf(a, c, f)
      BY <2>1, <3>1, <3>2 DEF InnerOf
    <3> QED
      BY <3>3
  <2> QED
    BY <1>1, <2>2, <2>3 DEF Inner, Doubles, Singles
<1>2. ASSUME NEW f \in Files, NEW x \in InnerOf(a, c, f) PROVE x \in Inner(a, c)
  <2>1. x # NULLBLK
    BY DEF InnerOf
  <2>2. CASE x \in {a[f][ND], a[f][Double]}
    BY <2>1, <2>2 DEF Inner, Singles, Doubles
  <2>3. CASE \E k \in Cells : a[f][Double] # NULLBLK /\ x = c[a[f][Double]][k]
    <3>1. a[f][Double] \in Doubles(a)
      BY <2>3 DEF Doubles
    <3> QED
      BY <2>1, <2>3, <3>1 DEF Inner, Singles
  <2> QED
    BY <2>2, <2>3 DEF InnerOf
<1> QED
  BY <1>1, <1>2 DEF Slots, SlotsOf

LEMMA FilesApart ==
  ASSUME NEW a, NEW c, NEW u, Sound(a, c, u), NEW f \in Files, NEW g \in Files, f # g
  PROVE  /\ \A p \in SlotsOf(a, c, g) : p \notin SlotsOf(a, c, f)
         /\ \A p \in SlotsOf(a, c, g) : At(a, c, p) \notin Freed(a, c, f)
         /\ \A x \in InnerOf(a, c, g) : x \notin Freed(a, c, f)
<1>0. RootsApart(a) /\ RootNoEntry(a, c) /\ EntriesApart(a, c)
  BY OneSlot
<1>1. ND \in 0 .. Double /\ Double \in 0 .. Double
  BY Constants
<1>2. ASSUME NEW h \in Files, NEW x \in InnerOf(a, c, h)
      PROVE  /\ x \in Inner(a, c) /\ x # NULLBLK
             /\ \/ \E k \in {ND, Double} : x = a[h][k]
                \/ /\ a[h][Double] \in Inner(a, c)
                   /\ \E k \in Cells : x = c[a[h][Double]][k]
  <2>1. a[h][Double] # NULLBLK => a[h][Double] \in Inner(a, c)
    BY DEF Inner, Doubles
  <2> QED
    BY <2>1, SlotsByFile DEF InnerOf
<1>3. ASSUME NEW x \in InnerOf(a, c, f), x \in InnerOf(a, c, g) PROVE FALSE
  <2>0. x # NULLBLK
    BY <1>2
  <2>1. CASE \E k \in {ND, Double} : x = a[f][k]
    <3>1. ~ \E k \in {ND, Double} : x = a[g][k]
      BY <1>0, <1>1, <2>0, <2>1 DEF RootsApart
    <3>2. a[g][Double] \in Inner(a, c) => ~ \E k \in Cells : x = c[a[g][Double]][k]
      BY <1>0, <1>1, <2>0, <2>1 DEF RootNoEntry
    <3> QED
      BY <1>2, <1>3, <3>1, <3>2
  <2>2. CASE a[f][Double] \in Inner(a, c) /\ \E k \in Cells : x = c[a[f][Double]][k]
    <3>1. ~ \E k \in {ND, Double} : x = a[g][k]
      BY <1>0, <1>1, <2>0, <2>2 DEF RootNoEntry
    <3>2. PICK i \in Cells : x = c[a[f][Double]][i]
      BY <2>2
    <3>3. PICK j \in Cells : a[g][Double] \in Inner(a, c) /\ x = c[a[g][Double]][j]
      BY <1>2, <1>3, <3>1
    <3> DEFINE d == a[f][Double]
               e == a[g][Double]
    <3>4. d = e
      <4>1. d \in Inner(a, c) /\ e \in Inner(a, c) /\ c[d][i] = c[e][j] /\ c[d][i] # NULLBLK
        BY <2>0, <2>2, <3>2, <3>3
      <4> HIDE DEF d, e
      <4> QED
        BY <1>0, <4>1 DEF EntriesApart
    <3>5. d # NULLBLK
      BY <2>2 DEF Inner, Doubles, Singles
    <3> QED
      BY <1>0, <1>1, <3>4, <3>5 DEF RootsApart
  <2> QED
    BY <1>2, <2>1, <2>2
<1>4. \A p \in SlotsOf(a, c, g) : p \notin SlotsOf(a, c, f)
  <2>1. \A h \in Files : h \notin Inner(a, c)
    BY SlotFacts, Constants DEF Sound
  <2> QED
    BY <1>2, <1>3, <2>1 DEF SlotsOf
<1>5. ASSUME NEW p \in SlotsOf(a, c, g) PROVE At(a, c, p) \notin Freed(a, c, f)
  <2> SUFFICES ASSUME NEW q \in SlotsOf(a, c, f), At(a, c, p) = At(a, c, q),
                      At(a, c, p) # NULLBLK
               PROVE  FALSE
    BY DEF Freed
  <2>1. p \in Slots(a, c) /\ q \in Slots(a, c)
    BY SlotsByFile
  <2>2. p = q
    BY <2>1 DEF Sound, Apart
  <2> QED
    BY <1>4, <2>2
<1>6. ASSUME NEW x \in InnerOf(a, c, g) PROVE x \notin Freed(a, c, f)
  <2>1. \E p \in SlotsOf(a, c, g) : At(a, c, p) = x
    <3>1. CASE \E k \in {ND, Double} : x = a[g][k]
      <4>1. PICK k \in {ND, Double} : x = a[g][k]
        BY <3>1
      <4>2. <<g, k>> \in SlotsOf(a, c, g) /\ At(a, c, <<g, k>>) = x
        BY <1>1, <4>1 DEF SlotsOf, At
      <4> QED
        BY <4>2
    <3>2. CASE a[g][Double] \in Inner(a, c) /\ \E k \in Cells : x = c[a[g][Double]][k]
      <4>1. PICK k \in Cells : x = c[a[g][Double]][k]
        BY <3>2
      <4>2. a[g][Double] \in InnerOf(a, c, g)
        BY <3>2 DEF InnerOf, Inner, Doubles, Singles
      <4>3. a[g][Double] \notin Files
        BY <3>2, SlotFacts, Constants DEF Sound
      <4>4. <<a[g][Double], k>> \in SlotsOf(a, c, g) /\ At(a, c, <<a[g][Double], k>>) = x
        BY <4>1, <4>2, <4>3 DEF SlotsOf, At
      <4> QED
        BY <4>4
    <3> QED
      BY <1>2, <3>1, <3>2
  <2> QED
    BY <1>5, <2>1
<1> QED
  BY <1>4, <1>5, <1>6

LEMMA CutSound ==
  ASSUME NEW a, NEW c, NEW u, Sound(a, c, u), NEW f \in Files, NEW a2, NEW c2,
         Typed(a2, c2), Cut(a, c, a2, c2, f)
  PROVE  Sound(a2, c2, u \ Freed(a, c, f))
<1>0. ND \in 0 .. Double /\ Double \in 0 .. Double
  BY Constants
<1>1. InnerOf(a2, c2, f) = {}
  BY <1>0 DEF InnerOf, Cut
<1>2. ASSUME NEW g \in Files, g # f
      PROVE  /\ InnerOf(a2, c2, g) = InnerOf(a, c, g)
             /\ \A x \in InnerOf(a, c, g) : c2[x] = c[x]
  <2>1. a2[g] = a[g]
    BY <1>2 DEF Cut
  <2>2. \A x \in InnerOf(a, c, g) : c2[x] = c[x]
    <3>1. InnerOf(a, c, g) \subseteq Blocks
      BY SlotFacts, SlotsByFile DEF Sound
    <3> QED
      BY <1>2, <3>1, FilesApart DEF Cut
  <2>3. a[g][Double] # NULLBLK => a[g][Double] \in InnerOf(a, c, g)
    BY DEF InnerOf
  <2>4. \A y : y \in InnerOf(a2, c2, g) <=> y \in InnerOf(a, c, g)
    BY <2>1, <2>2, <2>3 DEF InnerOf
  <2> QED
    BY <2>2, <2>4
<1>3. ASSUME NEW g \in Files, g # f
      PROVE  /\ SlotsOf(a2, c2, g) = SlotsOf(a, c, g)
             /\ \A p \in SlotsOf(a, c, g) : At(a2, c2, p) = At(a, c, p)
  <2>1. a2[g] = a[g]
    BY <1>3 DEF Cut
  <2>2. \A x \in InnerOf(a, c, g) : x \notin Files
    BY SlotFacts, SlotsByFile, Constants DEF Sound
  <2>3. InnerOf(a2, c2, g) = InnerOf(a, c, g) /\ \A x \in InnerOf(a, c, g) : c2[x] = c[x]
    BY <1>2, <1>3
  <2> QED
    BY <2>1, <2>2, <2>3 DEF SlotsOf, At
<1>4. \A p \in SlotsOf(a2, c2, f) : At(a2, c2, p) = NULLBLK
  BY <1>1 DEF SlotsOf, At, Cut
<1>5. \A p \in Slots(a2, c2) : \E g \in Files : p \in SlotsOf(a2, c2, g)
  BY SlotsByFile
<1>6. \A p \in Slots(a2, c2) : At(a2, c2, p) # NULLBLK =>
        p \in Slots(a, c) /\ At(a2, c2, p) = At(a, c, p) /\ At(a, c, p) \notin Freed(a, c, f)
  <2> SUFFICES ASSUME NEW p \in Slots(a2, c2), At(a2, c2, p) # NULLBLK
               PROVE  /\ p \in Slots(a, c) /\ At(a2, c2, p) = At(a, c, p)
                      /\ At(a, c, p) \notin Freed(a, c, f)
    OBVIOUS
  <2>1. PICK g \in Files : p \in SlotsOf(a2, c2, g)
    BY <1>5
  <2>2. g # f
    BY <1>4, <2>1
  <2>3. p \in SlotsOf(a, c, g) /\ At(a2, c2, p) = At(a, c, p)
    BY <1>3, <2>1, <2>2
  <2>4. p \in Slots(a, c)
    BY <2>3, SlotsByFile
  <2>5. At(a, c, p) \notin Freed(a, c, f)
    BY <2>2, <2>3, FilesApart
  <2> QED
    BY <2>3, <2>4, <2>5
<1>7. Filled(a2, c2, u \ Freed(a, c, f))
  <2>1. \A p \in Slots(a2, c2) : At(a2, c2, p) \in (u \ Freed(a, c, f)) \cup {NULLBLK}
    BY <1>6 DEF Sound, Filled
  <2>2. ASSUME NEW y \in u \ Freed(a, c, f) PROVE \E p \in Slots(a2, c2) : At(a2, c2, p) = y
    <3>1. PICK p \in Slots(a, c) : At(a, c, p) = y
      BY DEF Sound, Filled
    <3>2. PICK g \in Files : p \in SlotsOf(a, c, g)
      BY SlotsByFile
    <3>3. y # NULLBLK
      BY Constants DEF Sound
    <3>4. g # f
      BY <3>1, <3>2, <3>3 DEF Freed
    <3>5. p \in SlotsOf(a2, c2, g) /\ At(a2, c2, p) = y
      BY <1>3, <3>1, <3>2, <3>4
    <3>6. p \in Slots(a2, c2)
      BY <3>5, SlotsByFile
    <3> QED
      BY <3>5, <3>6
  <2> QED
    BY <2>1, <2>2 DEF Filled
<1>8. Apart(a2, c2)
  <2> SUFFICES ASSUME NEW p \in Slots(a2, c2), NEW q \in Slots(a2, c2),
                      At(a2, c2, p) = At(a2, c2, q), At(a2, c2, p) # NULLBLK
               PROVE  p = q
    BY DEF Apart
  <2>1. /\ p \in Slots(a, c) /\ q \in Slots(a, c)
        /\ At(a, c, p) = At(a, c, q) /\ At(a, c, p) # NULLBLK
    BY <1>6
  <2> QED
    BY <2>1 DEF Sound, Apart
<1> QED
  BY <1>7, <1>8 DEF Sound

LEMMA CutBytes ==
  ASSUME NEW a, NEW c, NEW u, Sound(a, c, u), NEW f \in Files, NEW a2, NEW c2,
         Cut(a, c, a2, c2, f), NEW g \in Files, NEW bn \in Blknos, NEW k \in Cells
  PROVE  ByteOf(a2, c2, g, bn, k) = IF g = f THEN NULLBLK ELSE ByteOf(a, c, g, bn, k)
<1>0. ND \in 0 .. Double /\ Double \in 0 .. Double
  BY Constants
<1>1. CASE g = f
  <2>1. Look(a2, c2, f, bn) = NULLBLK
    BY <1>0, BlknoFacts DEF Look, Through2, Cut
  <2> QED
    BY <1>1, <2>1 DEF ByteOf, Through2
<1>2. CASE g # f
  <2> DEFINE s == a[g][ND]
             d == a[g][Double]
             y == Through2(c, d, Upper(bn))
             z == Look(a, c, g, bn)
  <2>1. a2[g] = a[g]
    BY <1>2 DEF Cut
  <2>2. \A x : x = NULLBLK \/ x \in InnerOf(a, c, g) => x = NULLBLK \/ c2[x] = c[x]
    <3>1. InnerOf(a, c, g) \subseteq Blocks
      BY SlotFacts, SlotsByFile DEF Sound
    <3> QED
      BY <1>2, <3>1, FilesApart DEF Cut
  <2>3. s = NULLBLK \/ s \in InnerOf(a, c, g)
    BY DEF InnerOf
  <2>4. d = NULLBLK \/ d \in InnerOf(a, c, g)
    BY DEF InnerOf
  <2>5. InDouble(bn) => y = NULLBLK \/ y \in InnerOf(a, c, g)
    BY BlknoFacts DEF InDouble, Through2, InnerOf
  <2>6. \A x, j : x = NULLBLK \/ x \in InnerOf(a, c, g) => Through2(c2, x, j) = Through2(c, x, j)
    BY <2>2 DEF Through2
  <2>7. Through2(c2, s, Single(bn)) = Through2(c, s, Single(bn))
    BY <2>3, <2>6
  <2>8. Through2(c2, d, Upper(bn)) = y
    BY <2>4, <2>6
  <2>9. InDouble(bn) => Through2(c2, y, Lower(bn)) = Through2(c, y, Lower(bn))
    BY <2>5, <2>6
  <2>10. Look(a2, c2, g, bn) = z
    BY <2>1, <2>7, <2>8, <2>9 DEF Look, InDouble
  <2>11. z = NULLBLK \/ c2[z] = c[z]
    <3> SUFFICES ASSUME z # NULLBLK PROVE c2[z] = c[z]
      OBVIOUS
    <3>1. z \in Blocks
      BY LookFound DEF Sound
    <3>2. \E p \in SlotsOf(a, c, g) : At(a, c, p) = z
      <4>0. /\ \A x \in InnerOf(a, c, g) : x \notin Files
            /\ \A x \in InnerOf(a, c, g), j \in Cells : <<x, j>> \in SlotsOf(a, c, g)
        BY SlotFacts, SlotsByFile, Constants DEF Sound, SlotsOf
      <4>1. CASE InDirect(bn)
        <5>1. z = a[g][bn] /\ bn \in 0 .. Double
          BY <4>1, BlknoFacts DEF Look, InDirect
        <5>2. <<g, bn>> \in SlotsOf(a, c, g) /\ At(a, c, <<g, bn>>) = z
          BY <5>1 DEF SlotsOf, At
        <5> QED
          BY <5>2
      <4>2. ASSUME NEW x, x = NULLBLK \/ x \in InnerOf(a, c, g), NEW j \in Cells,
                   z = Through2(c, x, j)
            PROVE  \E p \in SlotsOf(a, c, g) : At(a, c, p) = z
        <5>1. x \in InnerOf(a, c, g) /\ z = c[x][j]
          BY <4>2 DEF Through2
        <5>2. <<x, j>> \in SlotsOf(a, c, g) /\ At(a, c, <<x, j>>) = z
          BY <4>0, <5>1 DEF At
        <5> QED
          BY <5>2
      <4>3. CASE InSingle(bn)
        <5>1. z = Through2(c, s, Single(bn)) /\ Single(bn) \in Cells
          BY <4>3, BlknoFacts DEF Look, InSingle
        <5> QED
          BY <2>3, <4>2, <5>1
      <4>4. CASE InDouble(bn)
        <5>1. z = Through2(c, y, Lower(bn)) /\ Lower(bn) \in Cells
          BY <4>4, BlknoFacts DEF Look, InDouble
        <5> QED
          BY <2>5, <4>2, <4>4, <5>1
      <4> QED
        BY <4>1, <4>3, <4>4 DEF InDirect, InSingle, InDouble
    <3>3. z \notin Freed(a, c, f)
      BY <1>2, <3>2, FilesApart
    <3> QED
      BY <3>1, <3>3 DEF Cut
  <2> HIDE DEF z
  <2> QED
    BY <1>2, <2>10, <2>11 DEF ByteOf, Through2, z
<1> QED
  BY <1>1, <1>2

-----------------------------------------------------------------------------
(* Positions *)

Offs == [blk : 0 .. WORD - 1, off : Cells]

LEMMA Sizes ==
  /\ BS \in Nat \ {0, 1} /\ NB \in Nat /\ WORD \in Nat \ {0} /\ LIM \in Nat \ {0}
  /\ WORD = 2 * (LIM * BS) /\ LIM * BS \in Nat \ {0}
  /\ NB < WORD /\ NB * BS \in Nat /\ Cells = 0 .. BS - 1
  /\ MaxCount \in Nat /\ MaxCount <= LIM * BS - BS + 1
  /\ \A f \in Files : Room[f] \in 0 .. NB /\ Room[f] * BS \in Nat /\ Room[f] * BS <= NB * BS
<1>1. BS \in Nat \ {0, 1} /\ NB \in Nat /\ LIM \in Nat \ {0}
  BY BlocksAssumption
<1>2. LIM * BS \in Nat \ {0} /\ NB * BS \in Nat
  BY <1>1
<1>3. WORD = 2 * (LIM * BS)
  BY <1>1 DEF WORD
<1>4. (LIM - 1) * BS = LIM * BS - BS
  BY <1>1
<1>5. ASSUME NEW f \in Files
      PROVE  Room[f] \in 0 .. NB /\ Room[f] * BS \in Nat /\ Room[f] * BS <= NB * BS
  <2>1. Room[f] \in 0 .. NB
    BY BlocksAssumption
  <2>2. PICK r \in 0 .. NB : r = Room[f]
    BY <2>1
  <2>3. r * BS \in Nat /\ r * BS <= NB * BS
    BY <1>1, <2>2
  <2> QED
    BY <2>1, <2>2, <2>3
<1> QED
  BY <1>1, <1>2, <1>3, <1>4, <1>5, BlocksAssumption DEF Cells

LEMMA PosType ==
  ASSUME NEW o \in Offs
  PROVE  /\ o.blk \in Nat /\ o.blk < WORD /\ o.off \in Nat /\ o.off < BS /\ Pos(o) \in Nat
         /\ Pos(o) = BS * o.blk + o.off
         /\ Pos(o) \div BS = o.blk /\ Pos(o) % BS = o.off
<1>1. o.blk \in 0 .. WORD - 1 /\ o.off \in 0 .. BS - 1 /\ BS \in Nat \ {0}
  BY Sizes DEF Offs
<1> DEFINE q == o.blk
           r == o.off
           p == Pos(o)
<1>2. q \in Nat /\ r \in 0 .. BS - 1 /\ q < WORD
  BY <1>1, Sizes
<1>3. p = q * BS + r
  BY DEF Pos
<1> HIDE DEF q, r, p
<1>4. p = BS * q + r /\ p \in Nat
  BY <1>1, <1>2, <1>3
<1>5. p \div BS = q /\ p % BS = r
  <2> DEFINE i == p \div BS
             j == p % BS
  <2>1. i \in Nat /\ j \in 0 .. BS - 1 /\ p = BS * i + j
    BY <1>1, <1>4, DivMod
  <2> HIDE DEF i, j
  <2>2. BS * i + j = BS * q + r
    BY <1>4, <2>1
  <2>3. i = q /\ j = r
    BY <1>1, <1>2, <2>1, <2>2, QuotientUnique
  <2> QED
    BY <2>3 DEF i, j
<1>6. r \in Nat /\ r < BS
  BY <1>1, <1>2
<1> QED
  BY <1>2, <1>4, <1>5, <1>6 DEF p, q, r

\* A position within the files is a place in a block.
LEMMA PlaceOf ==
  ASSUME NEW p \in 0 .. NB * BS - 1
  PROVE  p \div BS \in Blknos /\ p % BS \in Cells /\ p = BS * (p \div BS) + (p % BS)
<1>1. p \in Nat /\ BS \in Nat \ {0} /\ NB \in Nat /\ p < NB * BS
  BY Sizes
<1> DEFINE i == p \div BS
           j == p % BS
<1>2. i \in Nat /\ j \in 0 .. BS - 1 /\ p = BS * i + j
  BY <1>1, DivMod
<1> HIDE DEF i, j
<1>3. i < NB
  <2> SUFFICES ASSUME i >= NB PROVE FALSE
    BY <1>1, <1>2
  <2>1. BS * i >= NB * BS
    BY <1>1, <1>2
  <2>2. BS * i \in Nat /\ NB * BS \in Nat
    BY <1>1, <1>2
  <2> HIDE DEF Blknos
  <2> QED
    BY <1>1, <1>2, <2>1, <2>2
<1> QED
  BY <1>1, <1>2, <1>3, Sizes DEF Blknos, i, j

LEMMA AddOffPos ==
  ASSUME NEW o \in Offs, NEW n \in Nat
  PROVE  /\ AddOff(o, n) \in Offs
         /\ Pos(o) + n <= NB * BS => Pos(AddOff(o, n)) = Pos(o) + n
<1>0. o.blk \in Nat /\ o.blk < WORD /\ o.off \in Nat /\ Pos(o) = BS * o.blk + o.off
  BY PosType
<1> DEFINE x == o.off + n
           i == x \div BS
           j == x % BS
           q == o.blk
           m == q + i
<1>1. /\ q \in Nat /\ q < WORD /\ x \in Nat /\ Pos(o) = BS * q + o.off /\ o.off \in Nat
      /\ BS \in Nat \ {0} /\ WORD \in Nat \ {0} /\ NB \in Nat /\ NB < WORD
  BY <1>0, Sizes
<1>2. AddOff(o, n) = [blk |-> m % WORD, off |-> j]
  BY DEF AddOff, U16
<1> HIDE DEF x, q
<1>3. i \in Nat /\ j \in 0 .. BS - 1 /\ x = BS * i + j
  BY <1>1, DivMod
<1> HIDE DEF i, j
<1>4. m \in Nat
  BY <1>1, <1>3
<1>5. m % WORD \in 0 .. WORD - 1
  BY <1>1, <1>4
<1>6. AddOff(o, n) \in Offs
  BY <1>1, <1>2, <1>3, <1>5, Sizes DEF Offs
<1>7. ASSUME Pos(o) + n <= NB * BS PROVE Pos(AddOff(o, n)) = Pos(o) + n
  <2>1. Pos(o) + n = BS * q + BS * i + j /\ BS * q \in Nat /\ BS * i \in Nat
    BY <1>1, <1>3 DEF x
  <2>2. BS * m = BS * q + BS * i
    BY <1>1, <1>3
  <2>3. m <= NB
    <3> SUFFICES ASSUME m > NB PROVE FALSE
      BY <1>1, <1>4
    <3> HIDE DEF m
    <3>1. BS * m >= BS * (NB + 1) /\ BS * (NB + 1) = NB * BS + BS
      BY <1>1, <1>4
    <3>2. BS * m \in Nat /\ NB * BS \in Nat
      BY <1>1, <1>4
    <3> QED
      BY <1>1, <1>3, <1>7, <2>1, <2>2, <3>1, <3>2
  <2>4. m % WORD = m
    BY <1>1, <1>4, <2>3
  <2>5. Pos(AddOff(o, n)) = m * BS + j
    BY <1>2, <2>4 DEF Pos
  <2>6. m * BS = BS * m
    BY <1>1, <1>4
  <2> HIDE DEF m
  <2> QED
    BY <2>1, <2>2, <2>5, <2>6
<1> QED
  BY <1>6, <1>7

-----------------------------------------------------------------------------
(* What a file holds *)

Row(a, c, f) == [p \in 0 .. NB * BS - 1 |-> ByteOf(a, c, f, p \div BS, p % BS)]

LEMMA FileBytesRow ==
  ASSUME NEW f \in Files
  PROVE  /\ FileBytes(f) = Row(addr, content, f)
         /\ FileBytes(f)' = Row(addr', content', f)
<1>1. ASSUME NEW bn \in Blknos PROVE Bmap(f, bn) = Look(addr, content, f, bn)
  BY DEF Bmap, Look, Path, Through, Through2, Single, Upper, Lower
<1>2. ASSUME NEW bn \in Blknos PROVE Bmap(f, bn)' = Look(addr', content', f, bn)
  BY DEF Bmap, Look, Path, Through, Through2, Single, Upper, Lower
<1>3. ASSUME NEW p \in 0 .. NB * BS - 1
      PROVE  /\ ByteAt(f, p) = ByteOf(addr, content, f, p \div BS, p % BS)
             /\ ByteAt(f, p)' = ByteOf(addr', content', f, p \div BS, p % BS)
  <2>1. p \div BS \in Blknos
    BY PlaceOf
  <2> QED
    BY <1>1, <1>2, <2>1 DEF ByteAt, Through, ByteOf, Through2
<1> QED
  BY <1>3 DEF FileBytes, Row

-----------------------------------------------------------------------------
(* The way to block bn of file f, when block at has been reached and path *)
(* is left of it.                                                          *)

On(a, c, at, path, f, bn) ==
  \/ at = NULLBLK /\ path = Path(bn)
  \/ /\ at # NULLBLK
     /\ \/ InSingle(bn) /\ at = a[f][ND] /\ path = <<Single(bn)>>
        \/ InDouble(bn) /\ at = a[f][Double] /\ path = <<Upper(bn), Lower(bn)>>
        \/ /\ InDouble(bn) /\ a[f][Double] # NULLBLK
           /\ at = c[a[f][Double]][Upper(bn)] /\ path = <<Lower(bn)>>
        \/ at = Look(a, c, f, bn) /\ path = <<>>
EntryOf(a, c, at, path, f) == IF at = NULLBLK THEN a[f][path[1]] ELSE c[at][path[1]]

LEMMA PathOf ==
  ASSUME NEW bn \in Blknos
  PROVE  /\ InDirect(bn) => Path(bn) = <<bn>> /\ bn \in 0 .. Double
         /\ InSingle(bn) => Path(bn) = <<ND, Single(bn)>> /\ Single(bn) \in Cells
         /\ InDouble(bn) => /\ Path(bn) = <<Double, Upper(bn), Lower(bn)>>
                            /\ Upper(bn) \in Cells /\ Lower(bn) \in Cells
         /\ InDirect(bn) \/ InSingle(bn) \/ InDouble(bn)
         /\ Path(bn) # <<>>
<1>1. /\ InDirect(bn) => Path(bn) = <<bn>>
      /\ InSingle(bn) => Path(bn) = <<ND, Single(bn)>>
      /\ InDouble(bn) => Path(bn) = <<Double, Upper(bn), Lower(bn)>>
      /\ InDirect(bn) \/ InSingle(bn) \/ InDouble(bn)
  BY DEF Path, InDirect, InSingle, InDouble, Single, Upper, Lower
<1>2. Path(bn) # <<>>
  BY <1>1
<1> QED
  BY <1>1, <1>2, BlknoFacts DEF InDirect, InSingle, InDouble

LEMMA OnHere ==
  ASSUME NEW a, NEW c, NEW u, Sound(a, c, u), NEW f \in Files, NEW bn \in Blknos,
         NEW at, NEW path, On(a, c, at, path, f, bn), path # <<>>
  PROVE  /\ \/ at = NULLBLK /\ path[1] \in 0 .. Double
            \/ at # NULLBLK /\ at \in Inner(a, c) /\ path[1] \in Cells
         /\ EntryOf(a, c, at, path, f) \in u \cup {NULLBLK}
<1>1. ND \in 0 .. Double /\ Double \in 0 .. Double
  BY Constants
<1>2. \/ at = NULLBLK /\ path[1] \in 0 .. Double
      \/ at # NULLBLK /\ at \in Inner(a, c) /\ path[1] \in Cells
  <2>1. CASE at = NULLBLK
    <3>1. path = Path(bn)
      BY <2>1 DEF On
    <3> QED
      BY <1>1, <2>1, <3>1, PathOf
  <2>2. CASE at # NULLBLK /\ InSingle(bn) /\ at = a[f][ND] /\ path = <<Single(bn)>>
    BY <2>2, PathOf DEF Inner, Singles
  <2>3. CASE at # NULLBLK /\ InDouble(bn) /\ at = a[f][Double] /\ path = <<Upper(bn), Lower(bn)>>
    BY <2>3, PathOf DEF Inner, Doubles
  <2>4. CASE /\ at # NULLBLK /\ InDouble(bn) /\ a[f][Double] # NULLBLK
             /\ at = c[a[f][Double]][Upper(bn)] /\ path = <<Lower(bn)>>
    <3>1. a[f][Double] \in Doubles(a) /\ Upper(bn) \in Cells /\ Lower(bn) \in Cells
      BY <2>4, PathOf DEF Doubles
    <3>2. at \in Singles(a, c)
      BY <2>4, <3>1 DEF Singles
    <3> QED
      BY <2>4, <3>1, <3>2 DEF Inner
  <2> QED
    BY <2>1, <2>2, <2>3, <2>4 DEF On
<1> QED
  BY <1>2, SlotFacts DEF EntryOf

\* A block that is entered at the place reached is the next one on the way.
LEMMA Advance ==
  ASSUME NEW a, NEW c, NEW f \in Files, NEW bn \in Blknos, NEW at, NEW path,
         On(a, c, at, path, f, bn), path # <<>>,
         NEW b, b = EntryOf(a, c, at, path, f), b # NULLBLK
  PROVE  On(a, c, b, Tail(path), f, bn)
<1>1. CASE at = NULLBLK
  <2>1. path = Path(bn) /\ b = a[f][path[1]]
    BY <1>1 DEF On, EntryOf
  <2>2. CASE InDirect(bn)
    <3>0. path = <<bn>>
      BY <2>1, <2>2, PathOf
    <3>1. Tail(path) = <<>> /\ b = a[f][bn]
      BY <2>1, <3>0
    <3> QED
      BY <2>2, <3>1 DEF On, Look, InDirect
  <2>3. CASE InSingle(bn)
    <3>0. path = <<ND, Single(bn)>>
      BY <2>1, <2>3, PathOf
    <3>1. Tail(path) = <<Single(bn)>> /\ b = a[f][ND]
      BY <2>1, <3>0
    <3> QED
      BY <2>3, <3>1 DEF On
  <2>4. CASE InDouble(bn)
    <3>0. path = <<Double, Upper(bn), Lower(bn)>>
      BY <2>1, <2>4, PathOf
    <3>1. Tail(path) = <<Upper(bn), Lower(bn)>> /\ b = a[f][Double]
      BY <2>1, <3>0
    <3> QED
      BY <2>4, <3>1 DEF On
  <2> QED
    BY <2>2, <2>3, <2>4, PathOf
<1>2. CASE at # NULLBLK /\ InSingle(bn) /\ at = a[f][ND] /\ path = <<Single(bn)>>
  <2>1. Tail(path) = <<>> /\ b = c[a[f][ND]][Single(bn)]
    BY <1>2 DEF EntryOf
  <2>2. b = Look(a, c, f, bn)
    BY <1>2, <2>1 DEF Look, Through2, InSingle
  <2> QED
    BY <2>1, <2>2 DEF On
<1>3. CASE at # NULLBLK /\ InDouble(bn) /\ at = a[f][Double] /\ path = <<Upper(bn), Lower(bn)>>
  <2>1. Tail(path) = <<Lower(bn)>> /\ b = c[a[f][Double]][Upper(bn)]
    BY <1>3 DEF EntryOf
  <2> QED
    BY <1>3, <2>1 DEF On
<1>4. CASE /\ at # NULLBLK /\ InDouble(bn) /\ a[f][Double] # NULLBLK
           /\ at = c[a[f][Double]][Upper(bn)] /\ path = <<Lower(bn)>>
  <2>1. Tail(path) = <<>> /\ b = c[at][Lower(bn)]
    BY <1>4 DEF EntryOf
  <2>2. b = Look(a, c, f, bn)
    BY <1>4, <2>1 DEF Look, Through2, InDouble
  <2> QED
    BY <2>1, <2>2 DEF On
<1> QED
  BY <1>1, <1>2, <1>3, <1>4 DEF On

LEMMA OnEntered ==
  ASSUME NEW a, NEW c, NEW u, Sound(a, c, u), NEW f \in Files, NEW bn \in Blknos,
         NEW at, NEW path, On(a, c, at, path, f, bn),
         NEW a2, NEW c2, NEW b \in Blocks \ u, Entered(a, c, a2, c2, b)
  PROVE  On(a2, c2, at, path, f, bn)
<1>1. ND \in 0 .. Double /\ Double \in 0 .. Double
  BY Constants
<1>2. \A k \in {ND, Double} : a[f][k] # NULLBLK => a2[f][k] = a[f][k]
  BY <1>1 DEF Entered
<1>3. a[f][Double] # NULLBLK => a[f][Double] \in Inner(a, c)
  BY DEF Inner, Doubles
<1>4. ASSUME a[f][Double] # NULLBLK, InDouble(bn), c[a[f][Double]][Upper(bn)] # NULLBLK
      PROVE  c2[a[f][Double]][Upper(bn)] = c[a[f][Double]][Upper(bn)]
  BY <1>3, <1>4, PathOf DEF Entered
<1>5. Look(a, c, f, bn) # NULLBLK => Look(a2, c2, f, bn) = Look(a, c, f, bn)
  BY EnteredLook
<1> QED
  BY <1>2, <1>4, <1>5 DEF On

\* What Extend changes.
LEMMA Extends ==
  ASSUME NEW a, NEW c, NEW u, Sound(a, c, u), NEW f \in Files, NEW bn \in Blknos,
         NEW at, NEW path, On(a, c, at, path, f, bn), path # <<>>,
         EntryOf(a, c, at, path, f) = NULLBLK, NEW b \in Blocks \ u, NEW a2, NEW c2,
         IF at = NULLBLK
         THEN a2 = [a EXCEPT ![f][path[1]] = b] /\ c2 = [c EXCEPT ![b] = Zeros]
         ELSE a2 = a /\ c2 = [c EXCEPT ![b] = Zeros, ![at][path[1]] = b]
  PROVE  /\ Typed(a2, c2) /\ Entered(a, c, a2, c2, b)
         /\ \E p : Only(a, c, a2, c2, p, b)
         /\ EntryOf(a2, c2, at, path, f) = b
<1> DEFINE k == path[1]
<1>1. /\ a \in [Files -> [0 .. Double -> Numbers]] /\ c \in [Blocks -> [Cells -> Values]]
      /\ Inner(a, c) \subseteq u /\ u \subseteq Blocks /\ b \in Blocks /\ b # NULLBLK
      /\ b \in Values /\ b \in Numbers /\ Files \cap Blocks = {} /\ b \notin Inner(a, c)
  BY SlotFacts, Constants DEF Sound, Typed, Values, Numbers
<1>2. Zeros \in [Cells -> Values] /\ \A j \in Cells : Zeros[j] = NULLBLK
  BY DEF Zeros, Values, Numbers, NULLBLK
<1>3. \/ at = NULLBLK /\ k \in 0 .. Double
      \/ at # NULLBLK /\ at \in Inner(a, c) /\ k \in Cells
  BY OnHere
<1> HIDE DEF k
<1>4. CASE at = NULLBLK
  <2>1. k \in 0 .. Double /\ a[f][k] = NULLBLK
    BY <1>3, <1>4 DEF EntryOf, k
  <2>2. a2 = [a EXCEPT ![f][k] = b] /\ c2 = [c EXCEPT ![b] = Zeros]
    BY <1>4 DEF k
  <2>3. Typed(a2, c2)
    BY <1>1, <1>2, <2>1, <2>2 DEF Typed
  <2>4. /\ \A g \in Files, j \in 0 .. Double :
             a2[g][j] = IF g = f /\ j = k THEN b ELSE a[g][j]
        /\ c2[b] = Zeros /\ \A x \in Blocks : x # b => c2[x] = c[x]
    BY <1>1, <2>1, <2>2
  <2>5. Entered(a, c, a2, c2, b)
    BY <1>1, <1>2, <2>1, <2>4 DEF Entered
  <2>6. Only(a, c, a2, c2, <<f, k>>, b)
    <3>1. <<f, k>> \in Slots(a, c) /\ At(a, c, <<f, k>>) = NULLBLK /\ At(a2, c2, <<f, k>>) = b
      BY <2>1, <2>4 DEF Slots, At
    <3>2. \A q \in Slots(a, c) : q # <<f, k>> => At(a2, c2, q) = At(a, c, q)
      BY <1>1, <2>1, <2>4 DEF Slots, At
    <3> QED
      BY <3>1, <3>2 DEF Only
  <2>7. EntryOf(a2, c2, at, path, f) = b
    BY <1>4, <2>1, <2>4 DEF EntryOf, k
  <2> QED
    BY <2>3, <2>5, <2>6, <2>7
<1>5. CASE at # NULLBLK
  <2>1. k \in Cells /\ at \in Inner(a, c) /\ at \in Blocks /\ at # b /\ c[at][k] = NULLBLK
    BY <1>1, <1>3, <1>5 DEF EntryOf, k
  <2>2. a2 = a /\ c2 = [c EXCEPT ![b] = Zeros, ![at][k] = b]
    BY <1>5 DEF k
  <2>3. Typed(a2, c2)
    BY <1>1, <1>2, <2>1, <2>2 DEF Typed
  <2>4. /\ c2[b] = Zeros /\ \A x \in Blocks : x \notin {b, at} => c2[x] = c[x]
        /\ \A j \in Cells : c2[at][j] = IF j = k THEN b ELSE c[at][j]
    BY <1>1, <2>1, <2>2
  <2>5. Entered(a, c, a2, c2, b)
    <3>1. \A x \in Inner(a, c), j \in Cells :
            c2[x][j] # c[x][j] => c[x][j] = NULLBLK /\ c2[x][j] = b
      BY <1>1, <2>1, <2>4
    <3> QED
      BY <1>1, <1>2, <2>1, <2>2, <2>4, <3>1 DEF Entered
  <2>6. Only(a, c, a2, c2, <<at, k>>, b)
    <3>0. at \notin Files
      BY <1>1, <2>1
    <3>1. <<at, k>> \in Slots(a, c) /\ At(a, c, <<at, k>>) = NULLBLK /\ At(a2, c2, <<at, k>>) = b
      BY <2>1, <2>4, <3>0 DEF Slots, At
    <3>2. \A q \in Slots(a, c) : q # <<at, k>> => At(a2, c2, q) = At(a, c, q)
      BY <1>1, <2>1, <2>2, <2>4 DEF Slots, At
    <3> QED
      BY <3>1, <3>2 DEF Only
  <2>7. EntryOf(a2, c2, at, path, f) = b
    BY <1>5, <2>1, <2>4 DEF EntryOf, k
  <2> QED
    BY <2>3, <2>5, <2>6, <2>7
<1> QED
  BY <1>4, <1>5

-----------------------------------------------------------------------------
(* The inductive invariant *)

CallType ==
  [file : Files, oft : Ofts, byte : Bytes, count : 1 .. MaxCount, towrite : 0 .. MaxCount,
   offset : Offs, at : Numbers, path : Seq(Nat), before : [0 .. NB * BS - 1 -> Values]]

\* What is left to write, what is written, and where the call is on its way.
Stored(r, start) ==
  [p \in 0 .. NB * BS - 1 |->
     IF p \in Pos(start) .. Pos(r.offset) - 1 THEN r.byte ELSE r.before[p]]
CallInv(a, c, r, start) ==
  /\ r \in CallType
  /\ Pos(r.offset) + r.towrite = Pos(start) + r.count
  /\ r.towrite <= r.count
  /\ Pos(start) + r.count <= Room[r.file] * BS
  /\ Row(a, c, r.file) = Stored(r, start)
  /\ r.towrite > 0 => On(a, c, r.at, r.path, r.file, r.offset.blk)

TypeInv ==
  /\ size \in [Files -> Offs]
  /\ \A f \in Files : Pos(size[f]) <= Room[f] * BS
  /\ file \in [Ofts -> Files]
  /\ ptr \in [Ofts -> Offs]
IInv ==
  /\ Sound(addr, content, used)
  /\ TypeInv
  /\ Writing => /\ call.file = file[call.oft]
                /\ CallInv(addr, content, call, ptr[call.oft])

LEMMA StartType == Start \in Offs /\ Pos(Start) = 0
  BY Sizes DEF Start, Offs, Pos

LEMMA InitInv == Init => IInv
<1> SUFFICES ASSUME Init PROVE IInv
  OBVIOUS
<1>1. Typed(addr, content)
  BY DEF Init, Typed, NoBlocks, OnFreeList, Numbers, Values
<1>2. \A f \in Files, k \in 0 .. Double : addr[f][k] = NULLBLK
  BY DEF Init, NoBlocks
<1>3. Doubles(addr) = {}
  BY <1>2, Constants DEF Doubles
<1>4. Inner(addr, content) = {}
  BY <1>2, <1>3, Constants DEF Inner, Singles
<1>5. \A p \in Slots(addr, content) : At(addr, content, p) = NULLBLK
  BY <1>2, <1>4 DEF Slots, At
<1>6. Sound(addr, content, used)
  BY <1>1, <1>5 DEF Init, Sound, Filled, Apart
<1>7. TypeInv
  <2>1. \A f \in Files : 0 <= Room[f] * BS
    BY Sizes
  <2> QED
    BY <2>1, StartType DEF Init, TypeInv
<1> QED
  BY <1>6, <1>7 DEF Init, IInv, Writing

LEMMA RowType ==
  ASSUME NEW a, NEW c, NEW u, Sound(a, c, u), NEW f \in Files
  PROVE  Row(a, c, f) \in [0 .. NB * BS - 1 -> Values]
<1>1. ASSUME NEW bn \in Blknos, NEW k \in Cells PROVE ByteOf(a, c, f, bn, k) \in Values
  <2>1. Look(a, c, f, bn) \in Blocks \cup {NULLBLK}
    BY LookFound DEF Sound
  <2> QED
    BY <2>1 DEF ByteOf, Through2, Sound, Typed, Values, Numbers
<1> QED
  BY <1>1, PlaceOf DEF Row

\* While there is something to write.
LEMMA CallFacts ==
  ASSUME NEW a, NEW c, NEW r, NEW start \in Offs, CallInv(a, c, r, start)
  PROVE  /\ r.file \in Files /\ r.oft \in Ofts /\ r.byte \in Bytes /\ r.at \in Numbers
         /\ r.count \in 1 .. MaxCount /\ r.towrite \in 0 .. MaxCount
         /\ r.towrite <= r.count
         /\ r.offset \in Offs /\ r.offset.blk \in Nat
         /\ Pos(start) \in Nat /\ Pos(r.offset) \in Nat
         /\ Pos(r.offset) = Pos(start) + r.count - r.towrite
         /\ Pos(start) <= Pos(r.offset) /\ Pos(r.offset) <= Room[r.file] * BS
         /\ Pos(r.offset) + r.towrite <= Room[r.file] * BS
         /\ r.towrite > 0 => r.offset.blk \in Blknos
<1>1. r \in CallType
  BY DEF CallInv
<1>2. /\ r.file \in Files /\ r.oft \in Ofts /\ r.byte \in Bytes /\ r.at \in Numbers
      /\ r.count \in 1 .. MaxCount /\ r.towrite \in 0 .. MaxCount /\ r.offset \in Offs
  BY <1>1 DEF CallType
<1>3. Pos(start) \in Nat
  BY PosType
<1>4. PICK o \in Offs : o = r.offset
  BY <1>2
<1>5. o.blk \in Nat /\ o.off \in Nat /\ Pos(o) \in Nat /\ Pos(o) = BS * o.blk + o.off
  BY PosType
<1>6. /\ Pos(r.offset) + r.towrite = Pos(start) + r.count
      /\ r.towrite <= r.count
      /\ Pos(start) + r.count <= Room[r.file] * BS
  BY DEF CallInv
<1>7. Room[r.file] * BS \in Nat /\ Room[r.file] * BS <= NB * BS /\ MaxCount \in Nat
  BY <1>2, Sizes
<1> DEFINE limit == Room[r.file] * BS
           from == Pos(start)
           to == Pos(r.offset)
           n == r.count
           left == r.towrite
<1>8. /\ limit \in Nat /\ limit <= NB * BS /\ from \in Nat /\ to \in Nat /\ n \in Nat /\ left \in Nat
      /\ to + left = from + n /\ left <= n /\ from + n <= limit
  BY <1>2, <1>3, <1>4, <1>5, <1>6, <1>7
<1> HIDE DEF limit, from, to, n, left
<1>9. to = from + n - left /\ from <= to /\ to <= limit /\ to + left <= limit
  BY <1>8
<1>10. left > 0 => o.blk \in Blknos
  <2> SUFFICES ASSUME left > 0 PROVE o.blk \in Blknos
    OBVIOUS
  <2>1. to < NB * BS /\ NB * BS \in Nat
    BY <1>8, <1>9, Sizes
  <2>2. to \in 0 .. NB * BS - 1
    BY <1>8, <2>1
  <2>3. to \div BS = o.blk
    BY <1>4, PosType DEF to
  <2>4. to \div BS \in Blknos
    BY <2>2, PlaceOf
  <2> QED
    BY <2>3, <2>4
<1> QED
  BY <1>2, <1>4, <1>5, <1>8, <1>9, <1>10 DEF limit, from, to, n, left

-----------------------------------------------------------------------------
(* The steps *)

LEMMA U16Type ==
  ASSUME NEW x \in Int
  PROVE  U16(x) \in 0 .. WORD - 1 /\ (0 <= x /\ x < WORD => U16(x) = x)
BY Sizes DEF U16

LEMMA I16Type ==
  ASSUME NEW x \in Int
  PROVE  I16(x) \in Int /\ (0 <= x /\ x < LIM * BS => I16(x) = x)
<1> DEFINE H == LIM * BS
           y == U16(x)
<1>1. H \in Nat \ {0} /\ WORD = 2 * H
  BY Sizes
<1>2. y \in 0 .. WORD - 1 /\ (0 <= x /\ x < WORD => y = x)
  BY U16Type
<1>3. I16(x) = IF y >= WORD \div 2 THEN y - WORD ELSE y
  BY DEF I16
<1> HIDE DEF H, y
<1>4. WORD \div 2 = H /\ WORD \in Nat
  BY <1>1
<1>5. I16(x) \in Int /\ (0 <= x /\ x < H => I16(x) = x)
  BY <1>1, <1>2, <1>3, <1>4
<1> QED
  BY <1>5 DEF H

(* How much readi reads: all that is asked for, or what is left.  The     *)
(* differences of 16 bits do not wrap around before the end of the file.  *)
LEMMA LimitedFacts ==
  ASSUME size \in [Files -> Offs], NEW f \in Files, NEW o \in Offs, NEW n \in 1 .. MaxCount
  PROVE  /\ Limited(f, o, n) \in Nat
         /\ Pos(o) <= Pos(size[f]) => Limited(f, o, n) = B!Shorter(n, Pos(size[f]) - Pos(o))
         /\ n < LIM * BS
<1> DEFINE s == size[f]
           sb == s.blk
           so == s.off
           ob == o.blk
           oo == o.off
           d == sb - ob
           u == U16(d)
           rest == BS * d + so - oo
           H == LIM * BS
<1>1. s \in Offs
  OBVIOUS
<1>2. /\ sb \in Nat /\ sb < WORD /\ so \in Nat /\ so < BS /\ Pos(s) = BS * sb + so
      /\ Pos(s) \in Nat
  <2> HIDE DEF s
  <2> QED
    BY <1>1, PosType
<1>3. /\ ob \in Nat /\ ob < WORD /\ oo \in Nat /\ oo < BS /\ Pos(o) = BS * ob + oo
      /\ Pos(o) \in Nat
  BY PosType
<1>4. Limited(f, o, n) = IF u >= LIM THEN n ELSE U16(Shorter(I16(n), I16(BS * u + so - oo)))
  BY DEF Limited, Rest
<1>5. /\ H \in Nat \ {0} /\ WORD = 2 * H /\ WORD \in Nat \ {0} /\ BS \in Nat \ {0, 1}
      /\ MaxCount \in Nat /\ MaxCount <= H - BS + 1 /\ LIM \in Nat \ {0}
  BY Sizes
<1>6. n \in Nat /\ 1 <= n /\ n <= MaxCount /\ n < H
  BY <1>5
<1> HIDE DEF s, sb, so, ob, oo, H
<1>7. d \in Int
  BY <1>2, <1>3
<1>8. u \in 0 .. WORD - 1 /\ (0 <= d /\ d < WORD => u = d)
  BY <1>7, U16Type
<1> HIDE DEF u, d
<1>9. BS * u + so - oo \in Int /\ I16(n) \in Int /\ I16(n) = n
  <2>1. BS * u \in Int
    BY <1>5, <1>8
  <2> QED
    BY <1>2, <1>3, <1>6, <2>1, I16Type DEF H
<1>10. I16(BS * u + so - oo) \in Int
  <2> DEFINE y == BS * u + so - oo
  <2>1. y \in Int
    BY <1>9
  <2> HIDE DEF y
  <2>2. I16(y) \in Int
    BY <2>1, I16Type
  <2> QED
    BY <2>2 DEF y
<1>11. Limited(f, o, n) \in Nat
  <2> DEFINE z == I16(BS * u + so - oo)
             y == Shorter(n, z)
  <2>1. z \in Int
    BY <1>10
  <2> HIDE DEF z
  <2>2. y \in Int
    BY <1>6, <2>1 DEF Shorter
  <2> HIDE DEF y
  <2>3. U16(y) \in Nat
    BY <1>5, <2>2, U16Type
  <2> QED
    BY <1>4, <1>6, <1>9, <2>3 DEF z, y
<1>12. ASSUME Pos(o) <= Pos(s) PROVE Limited(f, o, n) = B!Shorter(n, Pos(s) - Pos(o))
  <2>1. ob <= sb
    <3> SUFFICES ASSUME sb < ob PROVE FALSE
      BY <1>2, <1>3
    <3>1. BS * sb + BS <= BS * ob
      BY <1>2, <1>3, <1>5, TimesGrows
    <3>2. BS * sb \in Nat /\ BS * ob \in Nat
      BY <1>2, <1>3, <1>5
    <3> DEFINE p == BS * sb
               q == BS * ob
    <3>3. p \in Nat /\ q \in Nat /\ p + BS <= q /\ Pos(s) = p + so /\ Pos(o) = q + oo
      BY <1>2, <1>3, <3>1, <3>2
    <3> HIDE DEF p, q
    <3> QED
      BY <1>2, <1>3, <1>5, <1>12, <3>3
  <2>2. d \in Nat /\ d < WORD /\ u = d /\ BS * d = BS * sb - BS * ob
    BY <1>2, <1>3, <1>5, <1>8, <2>1 DEF d
  <2>3. /\ BS * sb \in Nat /\ BS * ob \in Nat /\ BS * d \in Nat
        /\ rest \in Int /\ Pos(s) - Pos(o) = rest /\ rest >= 0
    <3>1. BS * sb \in Nat /\ BS * ob \in Nat /\ BS * d \in Nat
      BY <1>2, <1>3, <1>5, <2>2
    <3> QED
      BY <1>2, <1>3, <1>12, <2>2, <3>1
  <2>4. CASE d >= LIM
    <3>1. BS * d >= H
      <4>1. BS * LIM = H
        BY <1>5 DEF H
      <4>2. CASE d = LIM
        BY <4>1, <4>2, <1>5, <2>2
      <4>3. CASE LIM < d
        <5>1. BS * LIM + BS <= BS * d
          BY <1>5, <2>2, <4>3, TimesGrows
        <5> QED
          BY <1>5, <2>3, <4>1, <5>1
      <4> QED
        BY <1>5, <2>2, <2>4, <4>2, <4>3
    <3>2. n <= rest
      BY <1>2, <1>3, <1>5, <1>6, <2>3, <3>1 DEF rest
    <3>3. Limited(f, o, n) = n
      BY <1>4, <2>2, <2>4
    <3>4. B!Shorter(n, rest) = n
      <4> HIDE DEF rest
      <4> QED
        BY <1>6, <2>3, <3>2 DEF B!Shorter
    <3> QED
      BY <2>3, <3>3, <3>4
  <2>5. CASE d < LIM
    <3>1. BS * d + BS <= H
      <4>1. BS * d + BS <= BS * LIM
        BY <1>5, <2>2, <2>5, TimesGrows
      <4>2. BS * LIM = H
        BY <1>5 DEF H
      <4> QED
        BY <4>1, <4>2
    <3>2. rest < H
      BY <1>2, <1>3, <1>5, <2>3, <3>1 DEF rest
    <3>3. I16(rest) = rest
      <4> HIDE DEF rest
      <4> QED
        BY <2>3, <3>2, I16Type DEF H
    <3>4. Limited(f, o, n) = U16(Shorter(n, rest))
      BY <1>4, <1>5, <1>9, <2>2, <2>5, <3>3
    <3> HIDE DEF rest
    <3> DEFINE y == Shorter(n, rest)
    <3>5. y \in Int /\ 0 <= y /\ y < WORD
      BY <1>5, <1>6, <2>3 DEF Shorter
    <3>6. y = B!Shorter(n, rest)
      BY DEF Shorter, B!Shorter
    <3> HIDE DEF y
    <3>7. U16(y) = y
      BY <3>5, U16Type
    <3> QED
      BY <2>3, <3>4, <3>6, <3>7 DEF y
  <2> QED
    BY <1>5, <2>2, <2>4, <2>5
<1> QED
  BY <1>6, <1>11, <1>12 DEF s, H

\* What a program sees of a file while a call goes on.
Shown(a, c, r, f) == IF r # Idle /\ r.file = f THEN r.before ELSE Row(a, c, f)

LEMMA ContentsShown ==
  ASSUME NEW f \in Files
  PROVE  /\ Contents(f) = Shown(addr, content, call, f)
         /\ Contents(f)' = Shown(addr', content', call', f)
BY FileBytesRow DEF Contents, Shown, Writing

LEMMA SeesTheSame ==
  ASSUME \A f \in Files : Shown(addr', content', call', f) = Shown(addr, content, call, f)
  PROVE  [f \in Files |-> Contents(f)]' = [f \in Files |-> Contents(f)]
BY ContentsShown

LEMMA AddOffType ==
  ASSUME NEW o \in Offs, NEW n \in Int
  PROVE  AddOff(o, n) \in Offs
<1> DEFINE x == o.off + n
           i == x \div BS
<1>1. o.blk \in Nat /\ x \in Int /\ BS \in Nat \ {0}
  BY PosType, Sizes
<1> HIDE DEF x
<1>2. i \in Int /\ x % BS \in Cells
  BY <1>1 DEF Cells
<1> HIDE DEF i
<1>3. U16(o.blk + i) \in 0 .. WORD - 1
  BY <1>1, <1>2, U16Type
<1> QED
  BY <1>2, <1>3 DEF AddOff, Offs, x, i

LEMMA ReadStep ==
  ASSUME IInv, NEW o \in Ofts, NEW n \in 1 .. MaxCount, Read(o, n)
  PROVE  IInv' /\ B!Next
<1> DEFINE f == file[o]
           from == Pos(ptr[o])
           count == Limited(f, ptr[o], n)
           length == Pos(size[f])
<1>1. /\ call = Idle
      /\ answer' = Answer(n, Copied(f, ptr[o], count), FALSE)
      /\ ptr' = [ptr EXCEPT ![o] = AddOff(@, I16(count))]
      /\ UNCHANGED <<addr, size, content, used, file, call>>
  BY DEF Read
<1>2. /\ f \in Files /\ ptr[o] \in Offs /\ size[f] \in Offs /\ size \in [Files -> Offs]
      /\ ptr \in [Ofts -> Offs] /\ length <= Room[f] * BS
  BY DEF IInv, TypeInv
<1>3. /\ count \in Nat
      /\ from <= length => count = B!Shorter(n, length - from)
      /\ n < LIM * BS /\ LIM * BS \in Nat
  BY <1>2, LimitedFacts, Sizes
<1>4. from \in Nat /\ length \in Nat /\ length <= NB * BS /\ n \in Nat /\ MaxCount \in Nat
      /\ NB * BS \in Nat
  <2>1. from \in Nat
    BY <1>2, PosType
  <2>2. length \in Nat
    BY <1>2, PosType
  <2>3. Room[f] * BS \in Nat /\ Room[f] * BS <= NB * BS /\ NB * BS \in Nat /\ MaxCount \in Nat
    BY <1>2, Sizes
  <2> QED
    BY <1>2, <2>1, <2>2, <2>3
<1>5. /\ AddOff(ptr[o], I16(count)) \in Offs
      /\ from + count <= NB * BS => Pos(AddOff(ptr[o], count)) = from + count
  <2>1. I16(count) \in Int
    BY <1>3, I16Type
  <2> QED
    BY <1>2, <1>3, <2>1, AddOffPos, AddOffType
<1>6. /\ ptr' \in [Ofts -> Offs] /\ ptr'[o] = AddOff(ptr[o], I16(count))
      /\ \A p \in Ofts \ {o} : ptr'[p] = ptr[p]
  BY <1>1, <1>2, <1>5
<1>7. IInv'
  <2>1. TypeInv'
    BY <1>1, <1>6 DEF IInv, TypeInv, Pos
  <2>2. ~Writing'
    BY <1>1 DEF Writing
  <2> QED
    BY <1>1, <2>1, <2>2 DEF IInv
<1>8. [g \in Files |-> Contents(g)]' = [g \in Files |-> Contents(g)]
  BY <1>1, SeesTheSame
<1>9. [g \in Files |-> Pos(size[g])]' = [g \in Files |-> Pos(size[g])]
  BY <1>1 DEF Pos
<1>10. CASE from <= length
  <2>1. /\ count = B!Shorter(n, length - from) /\ from + count <= length
        /\ I16(count) = count /\ ~Backward(count)
    <3>1. count = B!Shorter(n, length - from) /\ from + count <= length /\ count <= n
      BY <1>3, <1>4, <1>10 DEF B!Shorter
    <3>2. I16(count) = count
      BY <1>3, <1>4, <3>1, I16Type
    <3> QED
      BY <1>3, <3>1, <3>2 DEF Backward
  <2>2. ASSUME NEW i \in 1 .. count
        PROVE  ByteAt(f, from + i - 1) = [g \in Files |-> Contents(g)][f][from + i - 1]
    <3>1. from + i - 1 \in 0 .. NB * BS - 1
      BY <1>3, <1>4, <2>1
    <3>2. Contents(f) = FileBytes(f)
      BY <1>1 DEF Contents, Writing
    <3>3. FileBytes(f)[from + i - 1] = ByteAt(f, from + i - 1)
      BY <3>1 DEF FileBytes
    <3> QED
      BY <1>2, <3>2, <3>3
  <2>3. answer' = B!Answer(n, [i \in 1 .. count |->
                                 [g \in Files |-> Contents(g)][f][from + i - 1]], FALSE)
    <3>1. [i \in 1 .. count |-> ByteAt(f, from + i - 1)]
          = [i \in 1 .. count |-> [g \in Files |-> Contents(g)][f][from + i - 1]]
      BY <2>2
    <3>2. Copied(f, ptr[o], count) = [i \in 1 .. count |-> ByteAt(f, from + i - 1)]
      BY <2>1 DEF Copied
    <3> HIDE DEF f, from, count
    <3> QED
      BY <1>1, <3>1, <3>2 DEF Answer, B!Answer
  <2>4. [p \in Ofts |-> Pos(ptr[p])]'
        = [[p \in Ofts |-> Pos(ptr[p])] EXCEPT ![o] = @ + count]
    <3>1. Pos(ptr'[o]) = from + count
      BY <1>3, <1>4, <1>5, <1>6, <2>1, SMT
    <3>2. \A p \in Ofts \ {o} : Pos(ptr'[p]) = Pos(ptr[p])
      BY <1>6
    <3>3. [p \in Ofts |-> Pos(ptr[p])]' = [p \in Ofts |-> Pos(ptr'[p])]
      BY DEF Pos
    <3> HIDE DEF count
    <3> QED
      BY <3>1, <3>2, <3>3
  <2>5. [p \in Ofts |-> Pos(ptr[p])][o] = from /\ [g \in Files |-> Pos(size[g])][f] = length
    BY <1>2
  <2> DEFINE C == [g \in Files |-> Contents(g)]
             L == [g \in Files |-> Pos(size[g])]
             P == [p \in Ofts |-> Pos(ptr[p])]
             asked == B!Shorter(n, L[f] - P[o])
  <2>6. B!Read(o, n)
    <3>1. asked = count /\ L[f] = length /\ P[o] = from
      BY <2>1, <2>5
    <3>2. answer' = B!Answer(n, [i \in 1 .. asked |-> C[f][P[o] + i - 1]], FALSE)
      <4> HIDE DEF C, L, P, asked, from, count, length, f
      <4> QED
        BY <2>3, <3>1 DEF C
    <3>3. P' = [P EXCEPT ![o] = @ + asked]
      <4> HIDE DEF asked, count
      <4> QED
        BY <2>4, <3>1
    <3>4. P[o] <= L[f] /\ UNCHANGED <<C, L, file>>
      BY <1>1, <1>8, <1>9, <1>10, <3>1
    <3> QED
      BY <3>2, <3>3, <3>4, Zenon DEF B!Read
  <2>7. n \in 0 .. MaxCount
    BY <1>4
  <2> QED
    BY <1>7, <2>6, <2>7 DEF B!Next
<1>11. CASE ~ from <= length
  <2>1. [p \in Ofts |-> Pos(ptr[p])][o] = from /\ [g \in Files |-> Pos(size[g])][f] = length
    BY <1>2
  <2>2. \A p \in Ofts \ {o} : [q \in Ofts |-> Pos(ptr[q])]'[p] = [q \in Ofts |-> Pos(ptr[q])][p]
    BY <1>6 DEF Pos
  <2>3. from > length
    BY <1>4, <1>11
  <2>4. B!ReadPast(o)
    <3> HIDE DEF from, length
    <3> QED
      BY <1>1, <1>8, <1>9, <2>1, <2>2, <2>3 DEF B!ReadPast, f
  <2> QED
    BY <1>7, <2>4 DEF B!Next
<1> QED
  BY <1>10, <1>11

LEMMA NotIdle ==
  ASSUME NEW r \in CallType
  PROVE  r # Idle
<1>1. "oft" \in DOMAIN r /\ "oft" \notin DOMAIN Idle
  BY DEF CallType, Idle
<1> QED
  BY <1>1

LEMMA PathType ==
  ASSUME NEW bn \in Nat
  PROVE  Path(bn) \in Seq(Nat)
<1>1. ND \in Nat /\ Double \in Nat /\ BS \in Nat \ {0} /\ \A x \in Int : x % BS \in Nat
  BY Constants
<1>2. CASE bn < ND
  <2>1. Path(bn) = <<bn>>
    BY <1>2 DEF Path
  <2> QED
    BY <2>1
<1>3. CASE ~ bn < ND /\ bn - ND < BS
  <2> DEFINE i == bn - ND
  <2>1. Path(bn) = <<ND, i>> /\ i \in Nat
    BY <1>1, <1>3 DEF Path
  <2> HIDE DEF i
  <2> QED
    BY <1>1, <2>1
<1>4. CASE ~ bn < ND /\ ~ bn - ND < BS
  <2> DEFINE i == ((bn - ND - BS) \div BS) % BS
             j == (bn - ND - BS) % BS
  <2>1. Path(bn) = <<Double, i, j>>
    BY <1>4 DEF Path
  <2>2. i \in Nat /\ j \in Nat
    BY <1>1
  <2> HIDE DEF i, j
  <2> QED
    BY <1>1, <2>1, <2>2
<1> QED
  BY <1>2, <1>3, <1>4

LEMMA WriteStartStep ==
  ASSUME IInv, NEW o \in Ofts, NEW n \in 1 .. MaxCount, NEW b \in Bytes, WriteStart(o, n, b)
  PROVE  IInv' /\ B!Next
<1> DEFINE f == file[o]
           start == ptr[o]
<1>1. /\ call = Idle /\ Pos(start) + n <= Room[f] * BS
      /\ call' = [file |-> f, oft |-> o, byte |-> b, count |-> n, towrite |-> n,
                  offset |-> start, at |-> NULLBLK, path |-> Path(start.blk),
                  before |-> FileBytes(f)]
      /\ answer' = Nothing
      /\ UNCHANGED <<addr, size, content, used, file, ptr>>
  BY DEF WriteStart
<1>2. f \in Files /\ start \in Offs /\ Pos(start) \in Nat
  <2>1. f \in Files /\ start \in Offs
    BY DEF IInv, TypeInv
  <2> QED
    BY <2>1, PosType
<1>3. n \in Nat /\ n >= 1 /\ n \in 0 .. MaxCount /\ Room[f] * BS \in Nat /\ Room[f] * BS <= NB * BS
      /\ NB * BS \in Nat
  BY <1>2, Sizes
<1>4. start.blk \in Blknos
  <2> DEFINE p == Pos(start)
             limit == Room[f] * BS
  <2>1. p + n <= limit /\ limit \in Nat /\ limit <= NB * BS /\ p \in Nat
    BY <1>1, <1>2, <1>3
  <2>2. p \div BS = start.blk
    BY <1>2, PosType
  <2> HIDE DEF p, limit
  <2>3. p \in 0 .. NB * BS - 1
    BY <1>3, <2>1
  <2>4. p \div BS \in Blknos
    BY <2>3, PlaceOf
  <2> QED
    BY <2>2, <2>4
<1>5. FileBytes(f) = Row(addr, content, f) /\ Row(addr, content, f) \in [0 .. NB * BS - 1 -> Values]
  BY <1>2, FileBytesRow, RowType DEF IInv
<1>6. call' \in CallType
  <2>1. Path(start.blk) \in Seq(Nat) /\ NULLBLK \in Numbers
    BY <1>2, PosType, PathType DEF Numbers
  <2> HIDE DEF f, start
  <2> QED
    BY <1>1, <1>2, <1>3, <1>5, <2>1 DEF CallType
<1>7. CallInv(addr, content, call', start)
  <2> DEFINE r == call'
  <2>1. /\ r.file = f /\ r.offset = start /\ r.towrite = n /\ r.count = n /\ r.at = NULLBLK
        /\ r.path = Path(start.blk) /\ r.before = Row(addr, content, f)
    BY <1>1, <1>5
  <2>2. Stored(r, start) = Row(addr, content, f)
    <3>1. Pos(start) .. Pos(start) - 1 = {}
      BY <1>2
    <3>2. Stored(r, start) = [p \in 0 .. NB * BS - 1 |-> r.before[p]]
      BY <2>1, <3>1 DEF Stored
    <3>3. Row(addr, content, f) = [p \in 0 .. NB * BS - 1 |-> Row(addr, content, f)[p]]
      BY DEF Row
    <3> QED
      BY <2>1, <3>2, <3>3
  <2>3. On(addr, content, r.at, r.path, r.file, r.offset.blk)
    BY <2>1 DEF On
  <2>4. r \in CallType
    BY <1>6
  <2>5. /\ Pos(r.offset) + r.towrite = Pos(start) + r.count
        /\ r.towrite <= r.count /\ Pos(start) + r.count <= Room[r.file] * BS
    <3> HIDE DEF r
    <3> QED
      BY <1>1, <1>3, <2>1
  <2>6. Row(addr, content, r.file) = Stored(r, start)
    BY <2>1, <2>2
  <2> HIDE DEF r, f, start
  <2>7. CallInv(addr, content, r, start)
    BY <2>3, <2>4, <2>5, <2>6 DEF CallInv
  <2> QED
    BY <2>7 DEF r
<1>8. IInv'
  <2>1. TypeInv'
    BY <1>1 DEF IInv, TypeInv, Pos
  <2>2. call'.file = f /\ call'.oft = o
    BY <1>1
  <2>3. addr' = addr /\ content' = content /\ used' = used /\ file' = file /\ ptr' = ptr
    BY <1>1
  <2>4. call'.file = file'[call'.oft] /\ CallInv(addr', content', call', ptr'[call'.oft])
    BY <1>7, <2>2, <2>3
  <2> QED
    BY <2>1, <2>3, <2>4 DEF IInv
<1>9. ASSUME NEW g \in Files
      PROVE  Shown(addr', content', call', g) = Shown(addr, content, call, g)
  <2>1. call'.file = f /\ call'.before = Row(addr, content, f)
    BY <1>1, <1>5
  <2> QED
    BY <1>1, <2>1 DEF Shown
<1>10. [g \in Files |-> Contents(g)]' = [g \in Files |-> Contents(g)]
  BY <1>9, SeesTheSame
<1>11. B!Move(o)
  <2>1. [g \in Files |-> Pos(size[g])]' = [g \in Files |-> Pos(size[g])]
        /\ [p \in Ofts |-> Pos(ptr[p])]' = [p \in Ofts |-> Pos(ptr[p])]
    BY <1>1 DEF Pos
  <2>2. answer' = B!Nothing
    BY <1>1 DEF Nothing, Answer, B!Nothing, B!Answer
  <2> QED
    BY <1>1, <1>10, <2>1, <2>2 DEF B!Move
<1> QED
  BY <1>8, <1>11 DEF B!Next

\* A byte-file step of a program that only moves in the file.
LEMMA MoveStep ==
  ASSUME IInv, NEW o \in Ofts, call = Idle, UNCHANGED <<addr, size, content, used, call>>,
         answer' = Nothing,
         file' \in [Ofts -> Files], ptr' \in [Ofts -> Offs],
         \A p \in Ofts \ {o} : file'[p] = file[p] /\ ptr'[p] = ptr[p]
  PROVE  IInv' /\ B!Next
<1>1. IInv'
  <2>1. TypeInv'
    BY DEF IInv, TypeInv, Pos
  <2> QED
    BY <2>1 DEF IInv, Writing
<1>2. [g \in Files |-> Contents(g)]' = [g \in Files |-> Contents(g)]
  BY SeesTheSame
<1>3. [g \in Files |-> Pos(size[g])]' = [g \in Files |-> Pos(size[g])]
  BY DEF Pos
<1>4. \A p \in Ofts \ {o} : [q \in Ofts |-> Pos(ptr[q])]'[p] = [q \in Ofts |-> Pos(ptr[q])][p]
  BY DEF Pos
<1>5. answer' = B!Nothing
  BY DEF Nothing, Answer, B!Nothing, B!Answer
<1>6. B!Move(o)
  BY <1>2, <1>3, <1>4, <1>5 DEF B!Move
<1> QED
  BY <1>1, <1>6 DEF B!Next

LEMMA OpenStep ==
  ASSUME IInv, NEW o \in Ofts, NEW f \in Files, Open(o, f)
  PROVE  IInv' /\ B!Next
<1>1. file' \in [Ofts -> Files] /\ ptr' \in [Ofts -> Offs]
  BY StartType DEF Open, IInv, TypeInv
<1>2. \A p \in Ofts \ {o} : file'[p] = file[p] /\ ptr'[p] = ptr[p]
  BY DEF Open, IInv, TypeInv
<1> QED
  BY <1>1, <1>2, MoveStep DEF Open

LEMMA SettledType ==
  ASSUME NEW blk \in Int, NEW off \in Int
  PROVE  Settled(blk, off) \in Offs
<1> DEFINE u == U16(off)
           i == u \div BS
           j == u % BS
<1>1. u \in Nat
  BY U16Type, Sizes
<1> HIDE DEF u
<1>2. BS \in Nat \ {0} /\ Cells = 0 .. BS - 1
  BY Sizes
<1>3. i \in Nat /\ j \in Cells
  BY <1>1, <1>2, DivMod
<1>4. Settled(blk, off) = [blk |-> U16(blk + i), off |-> j]
  BY DEF Settled, u
<1> HIDE DEF i, j
<1>5. blk + i \in Int
  BY <1>3
<1>6. U16(blk + i) \in 0 .. WORD - 1
  BY <1>5, U16Type
<1> QED
  BY <1>3, <1>4, <1>6 DEF Offs

LEMMA SeekStep ==
  ASSUME IInv, NEW o \in Ofts, NEW flag \in 0 .. 5, NEW offset \in Offsets, Seek(o, flag, offset)
  PROVE  IInv' /\ B!Next
<1> DEFINE p == ptr[o]
           s == size[file[o]]
<1>1. p \in Offs /\ s \in Offs /\ ptr \in [Ofts -> Offs] /\ file \in [Ofts -> Files]
  BY DEF IInv, TypeInv
<1>2. offset \in Int
  BY BlocksAssumption, Sizes
<1>3. Sought(o, flag, offset) \in Offs
  <2> HIDE DEF p, s
  <2>1. p.blk \in Nat /\ p.off \in Nat /\ s.blk \in Nat /\ s.off \in Nat
    BY <1>1, PosType
  <2>2. /\ p.blk \in Int /\ p.off \in Int /\ s.blk \in Int /\ s.off \in Int /\ 0 \in Int
        /\ p.off + offset \in Int /\ s.off + offset \in Int
        /\ p.blk + offset \in Int /\ s.blk + offset \in Int
    BY <1>2, <2>1
  <2>3. \/ Sought(o, flag, offset) = Settled(0, offset)
        \/ Sought(o, flag, offset) = Settled(p.blk, p.off + offset)
        \/ Sought(o, flag, offset) = Settled(s.blk, s.off + offset)
        \/ Sought(o, flag, offset) = Settled(offset, p.off)
        \/ Sought(o, flag, offset) = Settled(p.blk + offset, p.off)
        \/ Sought(o, flag, offset) = Settled(s.blk + offset, p.off)
    BY DEF Sought, p, s
  <2> QED
    BY <1>2, <2>2, <2>3, SettledType
<1>4. ptr' \in [Ofts -> Offs] /\ \A q \in Ofts \ {o} : ptr'[q] = ptr[q]
  BY <1>1, <1>3 DEF Seek
<1> QED
  BY <1>1, <1>4, MoveStep DEF Seek

LEMMA WritingFacts ==
  ASSUME IInv, Writing
  PROVE  /\ CallInv(addr, content, call, ptr[call.oft]) /\ call \in CallType
         /\ call.file = file[call.oft] /\ call.file \in Files /\ call.oft \in Ofts
         /\ ptr[call.oft] \in Offs /\ Sound(addr, content, used)
<1>1. CallInv(addr, content, call, ptr[call.oft]) /\ call \in CallType /\ call.file = file[call.oft]
  BY DEF IInv, CallInv
<1>2. call.file \in Files /\ call.oft \in Ofts
  BY <1>1 DEF CallType
<1> QED
  BY <1>1, <1>2 DEF IInv, TypeInv

LEMMA LookingFacts ==
  ASSUME IInv, Looking
  PROVE  /\ call.offset.blk \in Blknos
         /\ On(addr, content, call.at, call.path, call.file, call.offset.blk)
         /\ Entry = EntryOf(addr, content, call.at, call.path, call.file)
         /\ Entry \in used \cup {NULLBLK}
<1>1. Writing /\ call.towrite > 0 /\ call.path # <<>>
  BY DEF Looking
<1>2. /\ CallInv(addr, content, call, ptr[call.oft]) /\ ptr[call.oft] \in Offs
      /\ Sound(addr, content, used) /\ call.file \in Files
  BY <1>1, WritingFacts
<1>3. call.offset.blk \in Blknos
  BY <1>1, <1>2, CallFacts
<1>4. On(addr, content, call.at, call.path, call.file, call.offset.blk)
  BY <1>1, <1>2 DEF CallInv
<1>5. Entry = EntryOf(addr, content, call.at, call.path, call.file)
  BY DEF Entry, InInode, EntryOf
<1>6. EntryOf(addr, content, call.at, call.path, call.file) \in used \cup {NULLBLK}
  BY <1>1, <1>2, <1>3, <1>4, OnHere
<1> QED
  BY <1>3, <1>4, <1>5, <1>6

\* The call goes on to block b.
ToBlock(r, b) == [r EXCEPT !.at = b, !.path = Tail(@)]

Reaches(a, c, r, start, a2, c2, b, r2) ==
  /\ CallInv(a, c, r, start) /\ Row(a2, c2, r.file) = Row(a, c, r.file)
  /\ r.path # <<>> /\ b \in Numbers
  /\ On(a2, c2, b, Tail(r.path), r.file, r.offset.blk)
  /\ r2 = ToBlock(r, b)

LEMMA ReachedInv ==
  ASSUME NEW a, NEW c, NEW r, NEW start, NEW a2, NEW c2, NEW b, NEW r2,
         Reaches(a, c, r, start, a2, c2, b, r2)
  PROVE  /\ CallInv(a2, c2, r2, start) /\ r2 # Idle
         /\ r2.file = r.file /\ r2.oft = r.oft /\ r2.before = r.before
<1>0. /\ CallInv(a, c, r, start) /\ Row(a2, c2, r.file) = Row(a, c, r.file)
      /\ r.path # <<>> /\ b \in Numbers
      /\ On(a2, c2, b, Tail(r.path), r.file, r.offset.blk)
      /\ r2 = ToBlock(r, b)
  BY DEF Reaches
<1>1. r \in CallType
  BY <1>0 DEF CallInv
<1>2. r.path \in Seq(Nat)
  BY <1>1 DEF CallType
<1>3. Tail(r.path) \in Seq(Nat)
  BY <1>0, <1>2
<1>4. r2 \in CallType
  BY <1>0, <1>1, <1>3 DEF CallType, ToBlock
<1>5. /\ r2.file = r.file /\ r2.oft = r.oft /\ r2.before = r.before /\ r2.byte = r.byte
      /\ r2.count = r.count /\ r2.towrite = r.towrite /\ r2.offset = r.offset
      /\ r2.at = b /\ r2.path = Tail(r.path)
  BY <1>0, <1>1 DEF CallType, ToBlock
<1>6. Stored(r2, start) = Stored(r, start)
  BY <1>5 DEF Stored
<1>7. Row(a2, c2, r2.file) = Stored(r2, start)
  BY <1>0, <1>5, <1>6 DEF CallInv
<1>8. /\ Pos(r2.offset) + r2.towrite = Pos(start) + r2.count /\ r2.towrite <= r2.count
      /\ Pos(start) + r2.count <= Room[r2.file] * BS
  BY <1>0, <1>5 DEF CallInv
<1>9. On(a2, c2, r2.at, r2.path, r2.file, r2.offset.blk)
  BY <1>0, <1>5
<1> QED
  BY <1>4, <1>5, <1>7, <1>8, <1>9, NotIdle DEF CallInv

\* A step within a call, of which the program sees nothing.
LEMMA WithinStep ==
  ASSUME IInv, Writing, UNCHANGED <<size, file, ptr, answer>>,
         Sound(addr', content', used'), CallInv(addr', content', call', ptr[call.oft]),
         call' # Idle, call'.file = call.file, call'.oft = call.oft, call'.before = call.before,
         \A f \in Files : f # call.file => Row(addr', content', f) = Row(addr, content, f)
  PROVE  IInv' /\ UNCHANGED B!vars
<1>1. call.file = file[call.oft]
  BY WritingFacts
<1>2. IInv'
  <2>1. TypeInv'
    BY DEF IInv, TypeInv, Pos
  <2>2. call'.file = file'[call'.oft] /\ CallInv(addr', content', call', ptr'[call'.oft])
    BY <1>1
  <2> QED
    BY <2>1, <2>2 DEF IInv
<1>3. ASSUME NEW f \in Files
      PROVE  Shown(addr', content', call', f) = Shown(addr, content, call, f)
  BY DEF Shown, Writing
<1>4. [f \in Files |-> Contents(f)]' = [f \in Files |-> Contents(f)]
  BY <1>3, SeesTheSame
<1>5. /\ [f \in Files |-> Pos(size[f])]' = [f \in Files |-> Pos(size[f])]
      /\ [o \in Ofts |-> Pos(ptr[o])]' = [o \in Ofts |-> Pos(ptr[o])]
  BY DEF Pos
<1> QED
  BY <1>2, <1>4, <1>5 DEF B!vars

LEMMA FollowStep ==
  ASSUME IInv, Follow
  PROVE  IInv' /\ UNCHANGED B!vars
<1>1. /\ Looking /\ Entry # NULLBLK /\ Writing /\ call.path # <<>>
      /\ UNCHANGED <<addr, size, content, used, file, ptr, answer>>
      /\ call' = [call EXCEPT !.at = Entry, !.path = Tail(@)]
  BY DEF Follow, Looking, Reached
<1>2. /\ CallInv(addr, content, call, ptr[call.oft]) /\ call \in CallType
      /\ call.file = file[call.oft] /\ call.file \in Files /\ call.oft \in Ofts
      /\ ptr[call.oft] \in Offs /\ Sound(addr, content, used)
  BY <1>1, WritingFacts
<1>3. /\ call.offset.blk \in Blknos
      /\ On(addr, content, call.at, call.path, call.file, call.offset.blk)
      /\ Entry = EntryOf(addr, content, call.at, call.path, call.file)
      /\ Entry \in used \cup {NULLBLK}
  BY <1>1, LookingFacts
<1>4. On(addr, content, Entry, Tail(call.path), call.file, call.offset.blk)
  BY <1>1, <1>2, <1>3, Advance
<1>5. Entry \in Numbers
  BY <1>2, <1>3 DEF Sound, Numbers
<1> DEFINE b == Entry
<1>6. b \in Numbers /\ On(addr, content, b, Tail(call.path), call.file, call.offset.blk)
      /\ call' = ToBlock(call, b)
  BY <1>1, <1>4, <1>5 DEF ToBlock
<1> HIDE DEF b
<1>7. /\ CallInv(addr, content, call', ptr[call.oft]) /\ call' # Idle
      /\ call'.file = call.file /\ call'.oft = call.oft /\ call'.before = call.before
  <2>1. Reaches(addr, content, call, ptr[call.oft], addr, content, b, call')
    BY <1>1, <1>2, <1>6 DEF Reaches
  <2> QED
    BY <2>1, ReachedInv
<1>8. /\ Sound(addr', content', used') /\ CallInv(addr', content', call', ptr[call.oft])
      /\ \A f \in Files : Row(addr', content', f) = Row(addr, content, f)
  BY <1>1, <1>2, <1>7
<1> QED
  BY <1>1, <1>7, <1>8, WithinStep

LEMMA ExtendStep ==
  ASSUME IInv, Extend
  PROVE  IInv' /\ UNCHANGED B!vars
<1>1. /\ Looking /\ Entry = NULLBLK /\ Writing /\ call.path # <<>>
      /\ UNCHANGED <<size, file, ptr, answer>>
  BY DEF Extend, Looking
<1>2. PICK b \in Blocks \ used :
        /\ used' = used \cup {b}
        /\ call' = ToBlock(call, b)
        /\ IF call.at = NULLBLK
           THEN /\ addr' = [addr EXCEPT ![call.file][call.path[1]] = b]
                /\ content' = [content EXCEPT ![b] = Zeros]
           ELSE /\ content' = [content EXCEPT ![b] = Zeros, ![call.at][call.path[1]] = b]
                /\ addr' = addr
  BY DEF Extend, Reached, ToBlock, InInode, Fresh
<1>3. /\ CallInv(addr, content, call, ptr[call.oft]) /\ call \in CallType
      /\ call.file \in Files /\ Sound(addr, content, used)
  BY <1>1, WritingFacts
<1>4. /\ call.offset.blk \in Blknos
      /\ On(addr, content, call.at, call.path, call.file, call.offset.blk)
      /\ EntryOf(addr, content, call.at, call.path, call.file) = NULLBLK
  BY <1>1, LookingFacts
<1> DEFINE f == call.file
           bn == call.offset.blk
           at == call.at
           path == call.path
           a2 == addr'
           c2 == content'
<1>5. /\ f \in Files /\ bn \in Blknos /\ On(addr, content, at, path, f, bn) /\ path # <<>>
      /\ EntryOf(addr, content, at, path, f) = NULLBLK
      /\ IF at = NULLBLK
         THEN a2 = [addr EXCEPT ![f][path[1]] = b] /\ c2 = [content EXCEPT ![b] = Zeros]
         ELSE a2 = addr /\ c2 = [content EXCEPT ![b] = Zeros, ![at][path[1]] = b]
  BY <1>1, <1>2, <1>3, <1>4
<1> HIDE DEF f, bn, at, path, a2, c2
<1>6. /\ Typed(a2, c2) /\ Entered(addr, content, a2, c2, b)
      /\ \E p : Only(addr, content, a2, c2, p, b)
      /\ EntryOf(a2, c2, at, path, f) = b
  BY <1>3, <1>5, Extends
<1>7. Sound(a2, c2, used \cup {b})
  BY <1>3, <1>6, EnteredSound
<1>8. On(a2, c2, at, path, f, bn)
  BY <1>3, <1>5, <1>6, OnEntered
<1>9. b \in Numbers /\ b # NULLBLK
  BY Constants DEF Numbers
<1>10. On(a2, c2, b, Tail(path), f, bn)
  BY <1>5, <1>6, <1>8, <1>9, Advance
<1>11. ASSUME NEW g \in Files PROVE Row(a2, c2, g) = Row(addr, content, g)
  <2>1. ASSUME NEW p \in 0 .. NB * BS - 1
        PROVE  ByteOf(a2, c2, g, p \div BS, p % BS) = ByteOf(addr, content, g, p \div BS, p % BS)
    <3>1. p \div BS \in Blknos /\ p % BS \in Cells
      BY PlaceOf
    <3> QED
      BY <1>3, <1>6, <3>1, EnteredBytes
  <2> QED
    BY <2>1 DEF Row
<1>12. /\ Row(a2, c2, call.file) = Row(addr, content, call.file)
       /\ On(a2, c2, b, Tail(call.path), call.file, call.offset.blk)
       /\ CallInv(addr, content, call, ptr[call.oft]) /\ call.path # <<>>
       /\ call' = ToBlock(call, b)
  BY <1>1, <1>2, <1>3, <1>10, <1>11 DEF f, bn, path
<1>13. /\ CallInv(a2, c2, call', ptr[call.oft]) /\ call' # Idle
       /\ call'.file = call.file /\ call'.oft = call.oft /\ call'.before = call.before
  <2>1. Reaches(addr, content, call, ptr[call.oft], a2, c2, b, call')
    BY <1>9, <1>12 DEF Reaches
  <2> QED
    BY <2>1, ReachedInv
<1> QED
  BY <1>1, <1>2, <1>7, <1>11, <1>13, WithinStep DEF a2, c2

\* What has been written counts.
LEMMA EndStep ==
  ASSUME IInv, Writing, NEW error, WriteEnd(error), UNCHANGED <<addr, content, used, file>>,
         error = (call.towrite > 0)
  PROVE  IInv' /\ B!Next
<1> DEFINE o == call.oft
           f == file[o]
           n == call.count
           left == call.towrite
           from == Pos(ptr[o])
           end == Pos(call.offset)
           done == n - left
<1>0. f = call.file
  BY WritingFacts
<1>1. /\ answer' = Answer(n, <<>>, error)
      /\ size' = [size EXCEPT ![f] = Grown(f, call.offset)]
      /\ ptr' = [ptr EXCEPT ![o] = call.offset]
      /\ call' = Idle
  BY <1>0 DEF WriteEnd
<1>2. /\ CallInv(addr, content, call, ptr[o]) /\ f \in Files /\ o \in Ofts
      /\ ptr[o] \in Offs /\ Sound(addr, content, used)
      /\ size \in [Files -> Offs] /\ ptr \in [Ofts -> Offs] /\ file \in [Ofts -> Files]
      /\ \A g \in Files : Pos(size[g]) <= Room[g] * BS
  BY <1>0, WritingFacts DEF IInv, TypeInv
<1>3. /\ call.offset \in Offs /\ from \in Nat /\ end \in Nat /\ end = from + n - left
      /\ end <= Room[f] * BS /\ n \in 1 .. MaxCount /\ left \in 0 .. MaxCount /\ left <= n
      /\ call.byte \in Bytes
  BY <1>0, <1>2, CallFacts
<1>4. /\ Grown(f, call.offset) \in Offs
      /\ Pos(Grown(f, call.offset)) = IF end > Pos(size[f]) THEN end ELSE Pos(size[f])
      /\ Pos(Grown(f, call.offset)) <= Room[f] * BS
  BY <1>2, <1>3 DEF Grown
<1>5. /\ size' \in [Files -> Offs] /\ ptr' \in [Ofts -> Offs]
      /\ size'[f] = Grown(f, call.offset) /\ \A g \in Files \ {f} : size'[g] = size[g]
      /\ ptr'[o] = call.offset /\ \A p \in Ofts \ {o} : ptr'[p] = ptr[p]
  BY <1>1, <1>2, <1>3, <1>4
<1>6. IInv'
  <2>1. \A g \in Files : Pos(size'[g]) <= Room[g] * BS
    BY <1>2, <1>4, <1>5
  <2>2. TypeInv'
    BY <1>2, <1>5, <2>1 DEF TypeInv, Pos
  <2>3. ~Writing'
    BY <1>1 DEF Writing
  <2> QED
    BY <1>2, <2>2, <2>3 DEF IInv
<1>7. /\ \A g \in Files : Contents(g)' = Row(addr, content, g)
      /\ \A g \in Files \ {f} : Contents(g) = Row(addr, content, g)
      /\ Contents(f) = call.before
      /\ Row(addr, content, f) = Stored(call, ptr[o])
  <2>1. \A g \in Files : Contents(g)' = Row(addr, content, g)
    BY <1>1, ContentsShown DEF Shown
  <2>2. \A g \in Files \ {f} : Contents(g) = Row(addr, content, g)
    BY <1>0, ContentsShown DEF Shown
  <2>3. Contents(f) = call.before
    BY <1>0, <1>2 DEF Contents
  <2> QED
    BY <1>0, <1>2, <2>1, <2>2, <2>3 DEF CallInv
<1> DEFINE C == [g \in Files |-> Contents(g)]
           L == [g \in Files |-> Pos(size[g])]
           P == [p \in Ofts |-> Pos(ptr[p])]
<1>8. done \in 0 .. n /\ n \in 0 .. MaxCount /\ end = from + done /\ MaxCount \in Nat
  BY <1>3, Sizes
<1>9. P[o] = from /\ L[f] = Pos(size[f]) /\ C[f] = call.before
  BY <1>2, <1>7
<1>10. C' = [C EXCEPT ![f] = [p \in B!Positions |->
                                IF p \in P[o] .. (P[o] + done) - 1 THEN call.byte ELSE @[p]]]
  <2> DEFINE written == [p \in B!Positions |->
                           IF p \in P[o] .. (P[o] + done) - 1 THEN call.byte ELSE C[f][p]]
  <2>1. written = Stored(call, ptr[o])
    <3>1. (P[o] + done) - 1 = Pos(call.offset) - 1 /\ P[o] = Pos(ptr[o])
      <4> HIDE DEF P, done
      <4> QED
        BY <1>3, <1>8, <1>9
    <3> QED
      BY <1>9, <3>1 DEF Stored, B!Positions
  <2>2. C'[f] = written
    BY <1>2, <1>7, <2>1
  <2>3. \A g \in Files \ {f} : C'[g] = C[g]
    BY <1>7
  <2>4. C' = [g \in Files |-> C'[g]] /\ C = [g \in Files |-> C[g]]
    OBVIOUS
  <2> HIDE DEF C, written
  <2>5. C' = [C EXCEPT ![f] = written]
    BY <1>2, <2>2, <2>3, <2>4
  <2> QED
    BY <2>5 DEF written
<1>11. L' = [L EXCEPT ![f] = IF P[o] + done > @ THEN P[o] + done ELSE @]
  <2>1. \A g \in Files : L'[g] = Pos(size'[g]) /\ L[g] = Pos(size[g])
    BY DEF Pos
  <2>2. L'[f] = IF P[o] + done > L[f] THEN P[o] + done ELSE L[f]
    BY <1>2, <1>4, <1>5, <1>8, <1>9, <2>1
  <2>3. \A g \in Files \ {f} : L'[g] = L[g]
    BY <1>5, <2>1
  <2>4. L' = [g \in Files |-> L'[g]] /\ L = [g \in Files |-> L[g]]
    OBVIOUS
  <2> HIDE DEF L, P
  <2> QED
    BY <1>2, <2>2, <2>3, <2>4
<1>12. P' = [P EXCEPT ![o] = P[o] + done]
  <2>1. \A p \in Ofts : P'[p] = Pos(ptr'[p]) /\ P[p] = Pos(ptr[p])
    BY DEF Pos
  <2>2. P'[o] = P[o] + done
    BY <1>2, <1>5, <1>8, <1>9, <2>1
  <2>3. \A p \in Ofts \ {o} : P'[p] = P[p]
    BY <1>5, <2>1
  <2>4. P' = [p \in Ofts |-> P'[p]] /\ P = [p \in Ofts |-> P[p]]
    OBVIOUS
  <2> HIDE DEF P, done, o
  <2> QED
    BY <1>2, <2>2, <2>3, <2>4
<1>13. answer' = B!Answer(n, <<>>, done < n)
  <2>1. (done < n) = (left > 0)
    BY <1>3
  <2>2. error = (done < n)
    BY <2>1
  <2> HIDE DEF n, done
  <2> QED
    BY <1>1, <2>2 DEF Answer, B!Answer
<1>14. B!Write(o, n, done, call.byte)
  <2>1. UNCHANGED file
    OBVIOUS
  <2> QED
    BY <1>10, <1>11, <1>12, <1>13, <2>1, Zenon DEF B!Write
<1> QED
  <2>1. \E d \in 0 .. n, b \in Bytes : B!Write(o, n, d, b)
    <3> HIDE DEF n, done, o
    <3> QED
      BY <1>3, <1>8, <1>14
  <2> HIDE DEF n, o
  <2> QED
    BY <1>2, <1>6, <1>8, <2>1 DEF B!Next

LEMMA DoneStep ==
  ASSUME IInv, Done
  PROVE  IInv' /\ B!Next
<1>1. FALSE = (call.towrite > 0)
  BY DEF Done
<1> QED
  BY <1>1, EndStep DEF Done

LEMMA DiskFullStep ==
  ASSUME IInv, DiskFull
  PROVE  IInv' /\ B!Next
<1>1. TRUE = (call.towrite > 0) /\ Writing
  BY DEF DiskFull, Looking
<1> QED
  BY <1>1, EndStep DEF DiskFull

LEMMA CopyStep ==
  ASSUME IInv, Copy
  PROVE  IInv' /\ UNCHANGED B!vars
<1> DEFINE f == call.file
           x == call.at
           start == ptr[call.oft]
           from == Pos(start)
           to == Pos(call.offset)
           bn == call.offset.blk
           off == call.offset.off
           left == call.towrite
           n == Amount
           o == AddOff(call.offset, n)
           c2 == content'
<1>1. /\ Writing /\ left > 0 /\ call.path = <<>>
      /\ c2 = [content EXCEPT ![x] =
                 [k \in Cells |-> IF k \in off .. off + n - 1 THEN call.byte ELSE @[k]]]
      /\ call' = [call EXCEPT !.offset = o, !.towrite = left - n,
                              !.at = NULLBLK, !.path = Path(o.blk)]
      /\ UNCHANGED <<addr, size, used, file, ptr, answer>>
  BY DEF Copy
<1>2. /\ CallInv(addr, content, call, start) /\ call \in CallType
      /\ f \in Files /\ start \in Offs /\ Sound(addr, content, used)
  BY <1>1, WritingFacts
<1>3. /\ call.offset \in Offs /\ left \in 0 .. MaxCount /\ call.byte \in Bytes
      /\ from \in Nat /\ to \in Nat /\ from <= to /\ to + left <= Room[f] * BS
      /\ to = from + call.count - left /\ call.count \in 1 .. MaxCount /\ left <= call.count
      /\ bn \in Blknos
  BY <1>1, <1>2, CallFacts
<1>4. /\ bn \in Nat /\ off \in Nat /\ off < BS /\ to = BS * bn + off /\ BS \in Nat
      /\ Cells = 0 .. BS - 1
  <2>1. BS \in Nat /\ Cells = 0 .. BS - 1
    BY Sizes
  <2> QED
    BY <1>3, <2>1, PosType
<1>5. n \in Nat /\ 1 <= n /\ n <= left /\ off + n <= BS /\ MaxCount \in Nat
  <2>1. n = IF left < BS - off THEN left ELSE BS - off
    BY DEF Amount, Shorter
  <2>2. MaxCount \in Nat
    BY Sizes
  <2> HIDE DEF n, left, off
  <2> QED
    BY <1>1, <1>3, <1>4, <2>1, <2>2
<1>6. /\ o \in Offs /\ Pos(o) = to + n /\ o.blk \in Nat
  <2>1. to + n <= NB * BS
    <3>1. Room[f] * BS \in Nat /\ Room[f] * BS <= NB * BS /\ NB * BS \in Nat
      BY <1>2, Sizes
    <3> HIDE DEF to, n, left
    <3> QED
      BY <1>3, <1>5, <3>1
  <2>2. /\ AddOff(call.offset, n) \in Offs
        /\ Pos(call.offset) + n <= NB * BS => Pos(AddOff(call.offset, n)) = Pos(call.offset) + n
    BY <1>3, <1>5, AddOffPos
  <2>3. o \in Offs /\ Pos(o) = to + n
    BY <2>1, <2>2
  <2> HIDE DEF o
  <2> QED
    BY <2>3, PosType
<1>7. x = Look(addr, content, f, bn) /\ x # NULLBLK /\ x \in Blocks /\ x \notin Inner(addr, content)
  <2>1. On(addr, content, x, call.path, f, bn)
    BY <1>1, <1>2 DEF CallInv
  <2>2. call.path = <<>> /\ Path(bn) # <<>>
    BY <1>1, <1>3, PathOf
  <2>3. x = Look(addr, content, f, bn) /\ x # NULLBLK
    BY <2>1, <2>2 DEF On
  <2>4. Look(addr, content, f, bn) \in used \cup {NULLBLK}
    BY <1>2, <1>3, LookFound
  <2>5. Look(addr, content, f, bn) \notin Inner(addr, content)
    BY <1>2, <1>3, LookOutside
  <2> QED
    BY <1>2, <2>3, <2>4, <2>5 DEF Sound
<1> HIDE DEF f, x, start, from, to, bn, off, left, n, o, c2
<1>8. Typed(addr, content)
  BY <1>2 DEF Sound
<1>9. /\ \A k \in Cells : c2[x][k] = IF k \in off .. off + n - 1 THEN call.byte ELSE content[x][k]
      /\ \A y \in Blocks : y # x => c2[y] = content[y]
      /\ Typed(addr, c2)
  <2>1. content \in [Blocks -> [Cells -> Values]] /\ call.byte \in Values
    BY <1>3, <1>8 DEF Typed, Values
  <2> QED
    BY <1>1, <1>7, <1>8, <2>1 DEF Typed
<1>10. Sound(addr, c2, used)
  BY <1>2, <1>7, <1>9, CopiedSound
<1>11. ASSUME NEW g \in Files, NEW p \in 0 .. NB * BS - 1
       PROVE  Row(addr, c2, g)[p]
              = IF g = f /\ p \in to .. to + n - 1 THEN call.byte ELSE Row(addr, content, g)[p]
  <2> DEFINE bm == p \div BS
             k == p % BS
  <2>1. /\ bm \in Blknos /\ bm \in Nat /\ k \in Cells /\ k \in 0 .. BS - 1 /\ p = BS * bm + k
    BY <1>4, PlaceOf, BlknoFacts
  <2>2. /\ Row(addr, c2, g)[p] = ByteOf(addr, c2, g, bm, k)
        /\ Row(addr, content, g)[p] = ByteOf(addr, content, g, bm, k)
    BY DEF Row
  <2> HIDE DEF bm, k
  <2>3. ByteOf(addr, c2, g, bm, k)
        = IF g = f /\ bm = bn THEN c2[x][k] ELSE ByteOf(addr, content, g, bm, k)
    BY <1>2, <1>3, <1>7, <1>9, <2>1, CopiedBytes DEF f
  <2>4. ByteOf(addr, content, f, bn, k) = content[x][k]
    BY <1>7 DEF ByteOf, Through2
  <2>5. bm = bn => (p \in to .. to + n - 1 <=> k \in off .. off + n - 1)
    BY <1>4, <1>5, <2>1
  <2>6. p \in to .. to + n - 1 => bm = bn
    <3> SUFFICES ASSUME p \in to .. to + n - 1 PROVE bm = bn
      OBVIOUS
    <3>1. p - BS * bn \in 0 .. BS - 1 /\ BS * bn \in Nat
      BY <1>4, <1>5, <2>1
    <3> DEFINE j == p - BS * bn
    <3>2. BS * bn + j = BS * bm + k /\ j \in 0 .. BS - 1
      BY <2>1, <3>1
    <3> HIDE DEF j
    <3>3. BS \in Nat \ {0}
      BY Sizes
    <3> QED
      BY <1>4, <2>1, <3>2, <3>3, QuotientUnique
  <2> QED
    BY <1>9, <2>1, <2>2, <2>3, <2>4, <2>5, <2>6
<1>12. \A g \in Files : g # f => Row(addr, c2, g) = Row(addr, content, g)
  BY <1>11 DEF Row
<1> DEFINE r == call'
<1>13. /\ r \in CallType
       /\ r.file = f /\ r.oft = call.oft /\ r.before = call.before /\ r.byte = call.byte
       /\ r.count = call.count /\ r.towrite = left - n /\ r.offset = o
       /\ r.at = NULLBLK /\ r.path = Path(o.blk)
  <2>1. left - n \in 0 .. MaxCount /\ NULLBLK \in Numbers
    BY <1>3, <1>5 DEF Numbers
  <2>2. Path(o.blk) \in Seq(Nat)
    BY <1>6, PathType
  <2> QED
    BY <1>1, <1>2, <1>6, <2>1, <2>2 DEF CallType, f
<1> HIDE DEF r
<1>14. Row(addr, c2, f) = Stored(r, start)
  <2>1. Row(addr, content, f) = Stored(call, start)
    BY <1>2 DEF CallInv, f
  <2>2. ASSUME NEW p \in 0 .. NB * BS - 1 PROVE Row(addr, c2, f)[p] = Stored(r, start)[p]
    <3>1. Stored(call, start)[p] = IF p \in from .. to - 1 THEN call.byte ELSE call.before[p]
      BY DEF Stored, from, to
    <3>2. Stored(r, start)[p] = IF p \in from .. (to + n) - 1 THEN call.byte ELSE call.before[p]
      BY <1>6, <1>13 DEF Stored, from
    <3>3. p \in from .. (to + n) - 1 <=> p \in from .. to - 1 \/ p \in to .. to + n - 1
      BY <1>3, <1>5
    <3>4. Row(addr, c2, f)[p] = IF p \in to .. to + n - 1 THEN call.byte
                                ELSE Row(addr, content, f)[p]
      BY <1>2, <1>11
    <3> QED
      BY <2>1, <3>1, <3>2, <3>3, <3>4
  <2>3. /\ Row(addr, c2, f) = [p \in 0 .. NB * BS - 1 |-> Row(addr, c2, f)[p]]
        /\ Stored(r, start) = [p \in 0 .. NB * BS - 1 |-> Stored(r, start)[p]]
    BY DEF Row, Stored
  <2> QED
    BY <2>2, <2>3
<1>15. CallInv(addr, c2, r, start)
  <2>1. from + call.count <= Room[f] * BS
    BY <1>2 DEF CallInv, from, f
  <2>2. Pos(r.offset) + r.towrite = from + r.count /\ r.towrite <= r.count
    BY <1>3, <1>5, <1>6, <1>13
  <2>3. On(addr, c2, r.at, r.path, r.file, r.offset.blk)
    BY <1>13 DEF On
  <2> QED
    BY <1>13, <1>14, <2>1, <2>2, <2>3 DEF CallInv, from
<1>16. r # Idle
  BY <1>13, NotIdle
<1> QED
  BY <1>1, <1>10, <1>12, <1>13, <1>15, <1>16, WithinStep DEF r, c2, f, start

LEMMA LevelsAreInner ==
  ASSUME NEW f \in Files
  PROVE  Level1(f) \cup Level2(f) = InnerOf(addr, content, f)
BY DEF Level1, Level2, Below, InnerOf

LEMMA FreedIsFreed ==
  ASSUME NEW f \in Files, NEW u, Sound(addr, content, u)
  PROVE  FreedBlocks(f) = Freed(addr, content, f)
<1> DEFINE d == addr[f][Double]
           s == addr[f][ND]
<1>1. /\ \A k : k \in 0 .. Double <=> k \in 0 .. ND - 1 \/ k = ND \/ k = Double
  BY Constants
<1>2. \A x \in InnerOf(addr, content, f) : x \notin Files
  BY SlotFacts, SlotsByFile, Constants DEF Sound
<1>3. \A y : y \in Freed(addr, content, f) <=>
        /\ y # NULLBLK
        /\ \/ \E k \in 0 .. Double : y = addr[f][k]
           \/ \E x \in InnerOf(addr, content, f), k \in Cells : y = content[x][k]
  <2>1. \A k \in 0 .. Double : At(addr, content, <<f, k>>) = addr[f][k]
    BY DEF At
  <2>2. \A x \in InnerOf(addr, content, f), k \in Cells : At(addr, content, <<x, k>>) = content[x][k]
    BY <1>2 DEF At
  <2>3. \A p \in SlotsOf(addr, content, f) :
          \/ \E k \in 0 .. Double : p = <<f, k>>
          \/ \E x \in InnerOf(addr, content, f), k \in Cells : p = <<x, k>>
    BY DEF SlotsOf
  <2>4. /\ \A k \in 0 .. Double : <<f, k>> \in SlotsOf(addr, content, f)
        /\ \A x \in InnerOf(addr, content, f), k \in Cells : <<x, k>> \in SlotsOf(addr, content, f)
    BY DEF SlotsOf
  <2>5. \A y : y \in Freed(addr, content, f) <=>
          y # NULLBLK /\ \E p \in SlotsOf(addr, content, f) : y = At(addr, content, p)
    BY DEF Freed
  <2>6. ASSUME NEW y
        PROVE  (\E p \in SlotsOf(addr, content, f) : y = At(addr, content, p)) <=>
               \/ \E k \in 0 .. Double : y = addr[f][k]
               \/ \E x \in InnerOf(addr, content, f), k \in Cells : y = content[x][k]
    <3>1. (\E p \in SlotsOf(addr, content, f) : y = At(addr, content, p)) =>
             \/ \E k \in 0 .. Double : y = addr[f][k]
             \/ \E x \in InnerOf(addr, content, f), k \in Cells : y = content[x][k]
      BY <2>1, <2>2, <2>3
    <3>2. ASSUME NEW k \in 0 .. Double, y = addr[f][k]
          PROVE  \E p \in SlotsOf(addr, content, f) : y = At(addr, content, p)
      BY <2>1, <2>4, <3>2
    <3>3. ASSUME NEW x \in InnerOf(addr, content, f), NEW k \in Cells, y = content[x][k]
          PROVE  \E p \in SlotsOf(addr, content, f) : y = At(addr, content, p)
      BY <2>2, <2>4, <3>3
    <3> QED
      BY <3>1, <3>2, <3>3
  <2>7. ASSUME NEW y
        PROVE  y \in Freed(addr, content, f) <=>
                 /\ y # NULLBLK
                 /\ \/ \E k \in 0 .. Double : y = addr[f][k]
                    \/ \E x \in InnerOf(addr, content, f), k \in Cells : y = content[x][k]
    <3>1. (\E p \in SlotsOf(addr, content, f) : y = At(addr, content, p)) <=>
             \/ \E k \in 0 .. Double : y = addr[f][k]
             \/ \E x \in InnerOf(addr, content, f), k \in Cells : y = content[x][k]
      BY <2>6
    <3>2. y \in Freed(addr, content, f) <=>
            y # NULLBLK /\ \E p \in SlotsOf(addr, content, f) : y = At(addr, content, p)
      BY <2>5
    <3> QED
      BY <3>1, <3>2
  <2> QED
    BY <2>7
<1>4. \A x : x \in InnerOf(addr, content, f) <=>
        x # NULLBLK /\ (x = s \/ x = d \/ (d # NULLBLK /\ \E k \in Cells : x = content[d][k]))
  BY DEF InnerOf
<1>5. /\ \A y : y \in Direct(f) <=> y # NULLBLK /\ \E k \in 0 .. ND - 1 : y = addr[f][k]
      /\ \A b, y : y \in Below(b) <=>
           y # NULLBLK /\ b # NULLBLK /\ \E k \in Cells : y = content[b][k]
      /\ \A y : y \in Level2(f) <=> y # NULLBLK /\ y = d
  BY DEF Direct, Below, Level2
<1>6. \A y : y \in Level1(f) <=> y # NULLBLK /\ (y = s \/ y \in Below(d))
  BY DEF Level1
<1>7. \A y : y \in FreedBlocks(f) <=>
        y \in Direct(f) \/ y \in Level1(f) \/ y \in Level2(f) \/ \E b \in Level1(f) : y \in Below(b)
  BY DEF FreedBlocks
<1> HIDE DEF s, d
<1>8. ASSUME NEW y, y \in FreedBlocks(f) PROVE y \in Freed(addr, content, f)
  <2>1. \A b \in Level1(f) : b \in InnerOf(addr, content, f)
    BY <1>4, <1>5, <1>6
  <2>2. d # NULLBLK => d \in InnerOf(addr, content, f)
    BY <1>4
  <2>3. (y = s \/ y = d) => \E k \in 0 .. Double : y = addr[f][k]
    BY <1>1 DEF s, d
  <2>4. CASE y \in Direct(f)
    BY <1>1, <1>3, <1>5, <2>4
  <2>5. CASE y \in Level1(f)
    BY <1>3, <1>5, <1>6, <2>2, <2>3, <2>5
  <2>6. CASE y \in Level2(f)
    BY <1>3, <1>5, <2>3, <2>6
  <2>7. CASE \E b \in Level1(f) : y \in Below(b)
    BY <1>3, <1>5, <2>1, <2>7
  <2> QED
    BY <1>7, <1>8, <2>4, <2>5, <2>6, <2>7
<1>9. ASSUME NEW y, y \in Freed(addr, content, f) PROVE y \in FreedBlocks(f)
  <2>1. y # NULLBLK
    BY <1>3, <1>9
  <2>2. CASE \E k \in 0 .. Double : y = addr[f][k]
    BY <1>1, <1>5, <1>6, <1>7, <2>1, <2>2 DEF s, d
  <2>3. CASE \E x \in InnerOf(addr, content, f), k \in Cells : y = content[x][k]
    <3>1. PICK x \in InnerOf(addr, content, f), k \in Cells : y = content[x][k]
      BY <2>3
    <3>2. y \in Below(x)
      BY <1>4, <1>5, <2>1, <3>1
    <3>3. x = d \/ x \in Level1(f)
      BY <1>4, <1>5, <1>6
    <3> QED
      BY <1>6, <1>7, <2>1, <3>2, <3>3
  <2> QED
    BY <1>3, <1>9, <2>2, <2>3
<1> QED
  BY <1>8, <1>9

\* f_trunc frees what the file has.
LEMMA TruncateStep ==
  ASSUME IInv, NEW f \in Files, Truncate(f)
  PROVE  IInv' /\ B!Next
<1> DEFINE a2 == addr'
           c2 == content'
           D == Freed(addr, content, f)
<1>1. /\ call = Idle
      /\ used' = used \ FreedBlocks(f)
      /\ c2 = [b \in Blocks |-> IF b \in FreedBlocks(f) THEN OnFreeList ELSE content[b]]
      /\ a2 = [addr EXCEPT ![f] = NoBlocks]
      /\ size' = [size EXCEPT ![f] = Start]
      /\ ptr' = [o \in Ofts |-> IF file[o] = f THEN Start ELSE ptr[o]]
      /\ answer' = Nothing /\ UNCHANGED <<file, call>>
  BY DEF Truncate
<1>2. /\ Sound(addr, content, used) /\ Typed(addr, content)
      /\ size \in [Files -> Offs] /\ ptr \in [Ofts -> Offs] /\ file \in [Ofts -> Files]
      /\ \A g \in Files : Pos(size[g]) <= Room[g] * BS
  BY DEF IInv, TypeInv, Sound
<1>3. FreedBlocks(f) = D
  BY <1>2, FreedIsFreed
<1>4. Typed(a2, c2)
  <2>1. NoBlocks \in [0 .. Double -> Numbers] /\ OnFreeList \in [Cells -> Values]
    BY DEF NoBlocks, OnFreeList, Numbers, Values
  <2> QED
    BY <1>1, <1>2, <2>1 DEF Typed
<1>5. Cut(addr, content, a2, c2, f)
  <2>1. \A g \in Files : g # f => a2[g] = addr[g]
    BY <1>1, <1>2 DEF Typed
  <2>2. \A k \in 0 .. Double : a2[f][k] = NULLBLK
    BY <1>1, <1>2 DEF Typed, NoBlocks
  <2>3. \A x \in Blocks : x \notin D => c2[x] = content[x]
    BY <1>1, <1>3
  <2> QED
    BY <2>1, <2>2, <2>3 DEF Cut
<1> HIDE DEF a2, c2, D
<1>6. Sound(a2, c2, used')
  <2>1. Sound(a2, c2, used \ Freed(addr, content, f))
    BY <1>2, <1>4, <1>5, CutSound
  <2> QED
    BY <1>1, <1>3, <2>1 DEF D
<1>7. \A g \in Files : Row(a2, c2, g) = IF g = f THEN B!Empty ELSE Row(addr, content, g)
  <2>1. ASSUME NEW g \in Files, NEW p \in 0 .. NB * BS - 1
        PROVE  ByteOf(a2, c2, g, p \div BS, p % BS)
               = IF g = f THEN 0 ELSE ByteOf(addr, content, g, p \div BS, p % BS)
    <3>1. p \div BS \in Blknos /\ p % BS \in Cells
      BY PlaceOf
    <3>2. ByteOf(a2, c2, g, p \div BS, p % BS)
          = IF g = f THEN NULLBLK ELSE ByteOf(addr, content, g, p \div BS, p % BS)
      BY <1>2, <1>5, <3>1, CutBytes
    <3> QED
      BY <3>2 DEF NULLBLK
  <2> QED
    BY <2>1 DEF Row, B!Empty, B!Positions
<1>8. IInv'
  <2>1. /\ size' \in [Files -> Offs] /\ ptr' \in [Ofts -> Offs]
        /\ size'[f] = Start /\ \A g \in Files : g # f => size'[g] = size[g]
    BY <1>1, <1>2, StartType
  <2>2. \A g \in Files : Pos(size'[g]) <= Room[g] * BS
    <3>1. 0 <= Room[f] * BS
      BY Sizes
    <3> QED
      BY <1>2, <2>1, <3>1, StartType
  <2>3. TypeInv'
    BY <1>1, <1>2, <2>1, <2>2 DEF TypeInv, Pos
  <2>4. ~Writing'
    BY <1>1 DEF Writing
  <2> QED
    BY <1>6, <2>3, <2>4 DEF IInv, a2, c2
<1> DEFINE C == [g \in Files |-> Contents(g)]
           L == [g \in Files |-> Pos(size[g])]
           P == [p \in Ofts |-> Pos(ptr[p])]
<1>9. C' = [C EXCEPT ![f] = B!Empty]
  <2>1. \A g \in Files : C'[g] = Row(a2, c2, g) /\ C[g] = Row(addr, content, g)
    BY <1>1, ContentsShown DEF Shown, a2, c2
  <2>2. C' = [g \in Files |-> C'[g]] /\ C = [g \in Files |-> C[g]]
    OBVIOUS
  <2> HIDE DEF C
  <2> QED
    BY <1>7, <2>1, <2>2
<1>10. L' = [L EXCEPT ![f] = 0]
  <2>1. \A g \in Files : L'[g] = Pos(size'[g]) /\ L[g] = Pos(size[g])
    BY DEF Pos
  <2>2. \A g \in Files : size'[g] = IF g = f THEN Start ELSE size[g]
    BY <1>1, <1>2
  <2>3. L' = [g \in Files |-> L'[g]] /\ L = [g \in Files |-> L[g]]
    OBVIOUS
  <2> HIDE DEF L
  <2> QED
    BY <2>1, <2>2, <2>3, StartType
<1>11. P' = [o \in Ofts |-> IF file[o] = f THEN 0 ELSE P[o]]
  <2>1. \A o \in Ofts : P'[o] = Pos(ptr'[o]) /\ P[o] = Pos(ptr[o])
    BY DEF Pos
  <2>2. \A o \in Ofts : ptr'[o] = IF file[o] = f THEN Start ELSE ptr[o]
    BY <1>1
  <2>3. P' = [o \in Ofts |-> P'[o]]
    OBVIOUS
  <2> HIDE DEF P
  <2> QED
    BY <2>1, <2>2, <2>3, StartType
<1>12. answer' = B!Nothing /\ UNCHANGED file
  BY <1>1 DEF Nothing, Answer, B!Nothing, B!Answer
<1>13. B!Truncate(f)
  BY <1>9, <1>10, <1>11, <1>12, Zenon DEF B!Truncate
<1> QED
  BY <1>8, <1>13 DEF B!Next

-----------------------------------------------------------------------------
(* The theorems *)

LEMMA StepInv ==
  ASSUME IInv, [Next]_vars
  PROVE  IInv' /\ [B!Next]_(B!vars)
<1>1. CASE \E o \in Ofts, n \in 1 .. MaxCount : Read(o, n)
  BY <1>1, ReadStep
<1>2. CASE \E o \in Ofts, n \in 1 .. MaxCount, b \in Bytes : WriteStart(o, n, b)
  BY <1>2, WriteStartStep
<1>3. CASE \E o \in Ofts, f \in Files : Open(o, f)
  BY <1>3, OpenStep
<1>4. CASE \E o \in Ofts, flag \in 0 .. 5, offset \in Offsets : Seek(o, flag, offset)
  BY <1>4, SeekStep
<1>5. CASE Follow
  BY <1>5, FollowStep
<1>6. CASE Extend
  BY <1>6, ExtendStep
<1>7. CASE DiskFull
  BY <1>7, DiskFullStep
<1>8. CASE Copy
  BY <1>8, CopyStep
<1>9. CASE Done
  BY <1>9, DoneStep
<1>10. CASE \E f \in Files : Truncate(f)
  BY <1>10, TruncateStep
<1>11. CASE UNCHANGED vars
  <2>1. UNCHANGED <<addr, size, content, used, file, ptr, call, answer>>
    BY <1>11 DEF vars
  <2>2. IInv'
    BY <2>1 DEF IInv, TypeInv, Writing, Pos
  <2>3. [f \in Files |-> Contents(f)]' = [f \in Files |-> Contents(f)]
    BY <2>1, SeesTheSame
  <2> QED
    BY <2>1, <2>2, <2>3 DEF B!vars, Pos
<1> QED
  BY <1>1, <1>2, <1>3, <1>4, <1>5, <1>6, <1>7, <1>8, <1>9, <1>10, <1>11 DEF Next

(* Each block that is not free is in one place of one file (OnePlaceEach): *)
(* the way a write goes through the block map (bmap), what it leaves when  *)
(* the disk is full, and f_trunc keep the blocks of the files apart.       *)
THEOREM BlocksHaveOnePlace == Spec => []OnePlaceEach
<1>1. IInv => OnePlaceEach
  <2> SUFFICES ASSUME IInv PROVE OnePlaceEach
    OBVIOUS
  <2>1. Sound(addr, content, used)
    BY DEF IInv
  <2>2. Places = Slots(addr, content) /\ \A p : Held(p) = At(addr, content, p)
    <3>1. \A x : x \in Indirect <=> x \in Inner(addr, content)
      BY SlotsByFile, LevelsAreInner DEF Indirect
    <3>2. Indirect = Inner(addr, content)
      BY <3>1
    <3> QED
      BY <3>2 DEF Places, Slots, Held, At
  <2>3. NULLBLK \notin used
    BY <2>1, Constants DEF Sound
  <2>4. {Held(p) : p \in Places} \ {NULLBLK} = used
    <3>1. \A p \in Places : Held(p) \in used \cup {NULLBLK}
      BY <2>1, <2>2 DEF Sound, Filled
    <3>2. \A y \in used : \E p \in Places : Held(p) = y
      BY <2>1, <2>2 DEF Sound, Filled
    <3> QED
      BY <2>3, <3>1, <3>2
  <2>5. \A p, q \in Places : Held(p) = Held(q) /\ Held(p) # NULLBLK => p = q
    BY <2>1, <2>2 DEF Sound, Apart
  <2> QED
    BY <2>4, <2>5 DEF OnePlaceEach
<1> QED
  BY <1>1, InitInv, StepInv, PTL DEF Spec

(* Files are rows of bytes (ByteFile): read, write, seek and truncation    *)
(* over the block map do to them what a program expects, a write at the    *)
(* moment it returns.                                                      *)
THEOREM FilesAreRowsOfBytes == Spec => Implements
<1>1. Init => B!Init
  <2> SUFFICES ASSUME Init PROVE B!Init
    OBVIOUS
  <2>0. IInv
    BY InitInv
  <2>1. ASSUME NEW f \in Files PROVE Contents(f) = B!Empty
    <3>1. Contents(f) = Row(addr, content, f)
      BY ContentsShown DEF Init, Shown
    <3>2. ASSUME NEW p \in 0 .. NB * BS - 1
          PROVE  ByteOf(addr, content, f, p \div BS, p % BS) = 0
      <4>1. p \div BS \in Blknos
        BY PlaceOf
      <4>2. Look(addr, content, f, p \div BS) \in {} \cup {NULLBLK}
        BY <2>0, <4>1, LookFound DEF Init, IInv
      <4> QED
        BY <4>2 DEF ByteOf, Through2, NULLBLK
    <3> QED
      BY <3>1, <3>2 DEF Row, B!Empty, B!Positions
  <2>2. \A f \in Files : Pos(size[f]) = 0
    BY StartType DEF Init
  <2>3. \A o \in Ofts : Pos(ptr[o]) = 0
    BY StartType DEF Init
  <2>4. file \in [Ofts -> Files] /\ answer = B!Nothing
    BY DEF Init, Nothing, Answer, B!Nothing, B!Answer
  <2> QED
    BY <2>1, <2>2, <2>3, <2>4 DEF B!Init
<1> QED
  BY <1>1, InitInv, StepInv, PTL DEF Spec, Implements, B!Spec
=============================================================================
