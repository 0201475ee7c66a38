---------------------------- MODULE MemoryProofs ----------------------------
(***************************************************************************)
(* Theorems about paging (Tables, of Paging), as an instance in MCMemory,  *)
(* for every value of the constants.                                       *)
(*                                                                         *)
(* A call is a function from a record to the next, so each such function   *)
(* has a lemma that it keeps States, the records of which the types hold   *)
(* and GivenOnce: the frames given lie below the one in which the free     *)
(* block starts, each given once.  Four of them are loops (three in        *)
(* clone_higher_half, one over the pages of a program); lemmas about loops *)
(* and quotients come first, then what the processor's walk finds.         *)
(*                                                                         *)
(* From "The tables that a walk passes" on, the subject is the shape of    *)
(* the tables.  A level is given to each frame in use as a table (0 to the *)
(* others), and the tables form a Forest: an entry that names a table      *)
(* names one of the next level, no two entries the same one.  Then two     *)
(* pages share their way through the tables only as far as their indices   *)
(* agree, and a write to one entry moves the pages behind it alone.  While *)
(* clone_higher_half copies, the entries it has not come to are pending:   *)
(* they still name what others name.                                       *)
(***************************************************************************)
EXTENDS MCMemory, PmmProofs

-----------------------------------------------------------------------------
(* Quotients and loops.                                                    *)

\* A quotient is the number that the remainder leaves.
LEMMA QuotientIs ==
    ASSUME NEW a \in Nat \ {0}, NEW x \in Nat, NEW q \in Int, NEW r \in 0 .. a - 1,
           x = a * q + r
    PROVE  x \div a = q
<1> DEFINE p == x \div a
           t == x % a
<1>1. p \in Int /\ t \in 0 .. a - 1 /\ x = a * p + t
    BY DivisionOf
<1> HIDE DEF p, t
<1>2. CASE p >= q + 1
    <2>1. a * (p - q) >= a
        <3>1. p - q >= 1
            BY <1>1, <1>2
        <3> QED BY <1>1, <3>1, ProductAtLeast
    <2>2. a * (p - q) = a * p - a * q
        BY <1>1
    <2> DEFINE ap == a * p
               aq == a * q
               ad == a * (p - q)
    <2>3. ap \in Int /\ aq \in Int /\ ad \in Int
        BY <1>1
    <2> HIDE DEF ap, aq, ad
    <2>4. ad >= a /\ ad = ap - aq /\ x = ap + t /\ x = aq + r
        BY <1>1, <2>1, <2>2 DEF ap, aq, ad
    <2> QED BY <1>1, <2>3, <2>4
<1>3. CASE q >= p + 1
    <2>1. a * (q - p) >= a
        <3>1. q - p >= 1
            BY <1>1, <1>3
        <3> QED BY <1>1, <3>1, ProductAtLeast
    <2>2. a * (q - p) = a * q - a * p
        BY <1>1
    <2> DEFINE ap == a * p
               aq == a * q
               ad == a * (q - p)
    <2>3. ap \in Int /\ aq \in Int /\ ad \in Int
        BY <1>1
    <2> HIDE DEF ap, aq, ad
    <2>4. ad >= a /\ ad = aq - ap /\ x = ap + t /\ x = aq + r
        BY <1>1, <2>1, <2>2 DEF ap, aq, ad
    <2> QED BY <1>1, <2>3, <2>4
<1> QED BY <1>1, <1>2, <1>3 DEF p

\* The greatest multiple that is not above a number.
LEMMA MultipleBelow ==
    ASSUME NEW a \in Nat \ {0}, NEW x \in Nat
    PROVE  (x \div a) * a = x - (x % a)
<1> DEFINE q == x \div a
           r == x % a
<1>1. q \in Int /\ r \in Int /\ x = a * q + r
    BY DivisionOf
<1> HIDE DEF q, r
<1>2. q * a = a * q /\ a * q \in Int
    BY <1>1
<1> DEFINE y == a * q
<1>3. y \in Int /\ q * a = y /\ x = y + r
    BY <1>1, <1>2
<1> HIDE DEF y
<1>4. q * a = x - r
    BY <1>1, <1>3
<1> QED BY <1>4 DEF q, r

\* A divisor more is one more.
LEMMA NextQuotient ==
    ASSUME NEW a \in Nat \ {0}, NEW x \in Nat, NEW n \in Nat
    PROVE  (x + a * n) \div a = (x \div a) + n
<1> DEFINE p == x \div a
           r == x % a
<1>1. p \in Int /\ r \in 0 .. a - 1 /\ x = a * p + r
    BY DivisionOf
<1> HIDE DEF p, r
<1>2. a * (p + n) = a * p + a * n /\ a * n \in Nat
    BY <1>1
<1> DEFINE ap == a * p
           an == a * n
           as == a * (p + n)
<1>3. ap \in Int /\ an \in Nat /\ as \in Int /\ as = ap + an /\ x = ap + r
    BY <1>1, <1>2
<1> HIDE DEF ap, an, as
<1>4. x + an = as + r /\ x + an \in Nat
    BY <1>1, <1>3
<1>5. x + an = a * (p + n) + r
    BY <1>4 DEF as
<1>6. (x + an) \div a = p + n
    <2> SUFFICES ASSUME NEW y \in Nat, y = x + an PROVE y \div a = p + n
        BY <1>4
    <2>1. p + n \in Int /\ y = a * (p + n) + r
        BY <1>1, <1>5
    <2> QED BY <1>1, <2>1, QuotientIs
<1> QED BY <1>6 DEF an, p

LEMMA QuotientsFollow ==
    ASSUME NEW a \in Nat \ {0}, NEW x \in Nat, NEW y \in Nat, x <= y
    PROVE  x \div a <= y \div a
<1> DEFINE p == x \div a
           r == x % a
           q == y \div a
           t == y % a
<1>1. p \in Int /\ r \in 0 .. a - 1 /\ x = a * p + r
    BY DivisionOf
<1>2. q \in Int /\ t \in 0 .. a - 1 /\ y = a * q + t
    BY DivisionOf
<1> HIDE DEF p, q, r, t
<1>3. SUFFICES ASSUME p - q >= 1 PROVE FALSE
    BY <1>1, <1>2 DEF p, q
<1>4. a * (p - q) >= a /\ a * (p - q) = a * p - a * q
    BY <1>1, <1>2, <1>3, ProductAtLeast
<1> DEFINE ap == a * p
           aq == a * q
           ad == a * (p - q)
<1>5. ap \in Int /\ aq \in Int /\ ad \in Int /\ ad >= a /\ ad = ap - aq
    BY <1>1, <1>2, <1>4
<1>6. x = ap + r /\ y = aq + t
    BY <1>1, <1>2
<1> HIDE DEF ap, aq, ad
<1> QED BY <1>1, <1>2, <1>5, <1>6

\* A number below a multiple has a quotient below the factor.
LEMMA QuotientBelow ==
    ASSUME NEW a \in Nat \ {0}, NEW x \in Nat, NEW n \in Nat, x < n * a
    PROVE  x \div a \in 0 .. n - 1
<1> DEFINE p == x \div a
           r == x % a
<1>1. p \in Int /\ r \in 0 .. a - 1 /\ x = a * p + r
    BY DivisionOf
<1> HIDE DEF p, r
<1>2. p >= 0
    <2>1. SUFFICES ASSUME -p >= 1 PROVE FALSE
        BY <1>1
    <2>2. a * (-p) >= a /\ a * (-p) = -(a * p) /\ a * p \in Int
        BY <1>1, <2>1, ProductAtLeast
    <2> QED BY <1>1, <2>2
<1>3. p <= n - 1
    <2>1. SUFFICES ASSUME p - n >= 0 PROVE FALSE
        BY <1>1
    <2>2. a * (p - n) >= 0
        <3> DEFINE d == p - n
        <3>1. d \in Nat
            BY <1>1, <2>1
        <3> HIDE DEF d
        <3>2. a * d \in Nat
            BY <3>1
        <3> QED BY <3>2 DEF d
    <2>3. a * (p - n) = a * p - n * a
        BY <1>1
    <2> DEFINE ap == a * p
               an == n * a
               ad == a * (p - n)
    <2>4. ap \in Int /\ an \in Int /\ ad \in Int /\ ad >= 0 /\ ad = ap - an /\ x = ap + r /\ x < an
        BY <1>1, <2>2, <2>3
    <2> HIDE DEF ap, an, ad
    <2> QED BY <1>1, <2>4
<1> QED BY <1>1, <1>2, <1>3 DEF p

\* What every step of a loop keeps holds after each of its n steps.
LEMMA LoopKeeps ==
    ASSUME NEW n \in Nat, NEW S, NEW f, f[0] \in S,
           \A i \in 1 .. n : f[i - 1] \in S => f[i] \in S
    PROVE  \A i \in 0 .. n : f[i] \in S
<1> DEFINE Bad == {i \in 0 .. n : f[i] \notin S}
<1>1. SUFFICES ASSUME Bad # {} PROVE FALSE
    OBVIOUS
<1>2. Bad \subseteq Nat
    OBVIOUS
<1>3. PICK i \in Bad : \A j \in Bad : i <= j
    BY <1>1, <1>2, LeastNumber
<1>4. i \in 1 .. n /\ i - 1 \in 0 .. n
    BY <1>2, <1>3
<1>5. i - 1 \notin Bad
    BY <1>3, <1>4
<1> QED BY <1>3, <1>4, <1>5

\* A loop of n steps, each a function on the states S, can be run.
LEMMA LoopRuns ==
    ASSUME NEW n \in Nat, NEW S, NEW s \in S, NEW step \in [1 .. n -> [S -> S]]
    PROVE  \E f : f = [i \in 0 .. n |-> IF i = 0 THEN s ELSE step[i][f[i - 1]]]
<1> DEFINE Runs(j, f) == f = [i \in 0 .. j |-> IF i = 0 THEN s ELSE step[i][f[i - 1]]]
           Bad == {j \in 0 .. n : ~ \E f : Runs(j, f)}
<1>1. SUFFICES ASSUME Bad # {} PROVE FALSE
    <2>1. n \in 0 .. n
        OBVIOUS
    <2>2. n \notin Bad => \E f : Runs(n, f)
        <3> HIDE DEF Runs
        <3> QED BY <2>1
    <2> QED BY <2>2
<1>2. Bad \subseteq Nat
    OBVIOUS
<1>3. PICK j \in Bad : \A x \in Bad : j <= x
    <2> HIDE DEF Bad
    <2> QED BY <1>1, <1>2, LeastNumber
<1>4. j # 0
    <2>1. SUFFICES ASSUME j = 0 PROVE FALSE
        OBVIOUS
    <2> DEFINE f == [i \in 0 .. 0 |-> s]
    <2>2. Runs(0, f)
        OBVIOUS
    <2> HIDE DEF f, Runs
    <2> QED BY <1>3, <2>1, <2>2
<1>5. PICK g : Runs(j - 1, g)
    <2>1. j - 1 \in 0 .. n /\ ~ (j <= j - 1)
        BY <1>2, <1>3, <1>4
    <2> HIDE DEF Runs
    <2> QED BY <1>3, <2>1
<1> DEFINE f == [i \in 0 .. j |-> IF i = j THEN step[j][g[j - 1]] ELSE g[i]]
<1>6. j \in Nat \ {0}
    BY <1>2, <1>3, <1>4
<1>7. ASSUME NEW i \in 0 .. j
      PROVE  f[i] = IF i = 0 THEN s ELSE step[i][f[i - 1]]
    <2>1. CASE i = j
        <3>1. j - 1 \in 0 .. j /\ j - 1 # j
            BY <1>6
        <3> QED BY <2>1, <3>1, <1>6
    <2>2. CASE i # j
        <3>1. i \in 0 .. j - 1 /\ (i # 0 => i - 1 \in 0 .. j /\ i - 1 # j)
            BY <1>6, <2>2
        <3>2. f[i] = g[i] /\ (i # 0 => f[i - 1] = g[i - 1])
            BY <2>2, <3>1
        <3>3. g[i] = IF i = 0 THEN s ELSE step[i][g[i - 1]]
            BY <1>5, <3>1
        <3> HIDE DEF f
        <3> QED BY <3>2, <3>3
    <2> QED BY <2>1, <2>2
<1>8. f = [i \in 0 .. j |-> f[i]]
    OBVIOUS
<1>9. Runs(j, f)
    <2> HIDE DEF f
    <2> QED BY <1>7, <1>8
<1> HIDE DEF f, Runs
<1> QED BY <1>3, <1>9

\* ... through these states only.
LEMMA LoopRunsInside ==
    ASSUME NEW n \in Nat, NEW S, NEW s \in S, NEW step \in [1 .. n -> [S -> S]]
    PROVE  \E f : /\ f = [i \in 0 .. n |-> IF i = 0 THEN s ELSE step[i][f[i - 1]]]
                  /\ \A i \in 0 .. n : f[i] \in S
<1>1. PICK f : f = [i \in 0 .. n |-> IF i = 0 THEN s ELSE step[i][f[i - 1]]]
    BY LoopRuns
<1>2. f[0] \in S
    BY <1>1
<1>3. \A i \in 1 .. n : f[i - 1] \in S => f[i] \in S
    BY <1>1
<1>4. \A i \in 0 .. n : f[i] \in S
    BY <1>2, <1>3, LoopKeeps
<1> QED BY <1>1, <1>4

-----------------------------------------------------------------------------
(* The walk.                                                               *)

Memories == [Tables!Frame -> [Tables!Index -> Tables!Entry]]

LEMMA SpanTypes == \A level \in 1 .. 4 : Tables!Span[level] \in Nat \ {0}
<1>1. Entries * Entries \in Nat \ {0}
    BY MachineAssumption
<1> DEFINE square == Entries * Entries
<1>2. Entries * square \in Nat \ {0}
    <2>1. square \in Nat \ {0}
        BY <1>1
    <2> HIDE DEF square
    <2> QED BY <2>1, MachineAssumption
<1>3. Entries * Entries * Entries = Entries * square
    BY MachineAssumption
<1>4. /\ Tables!Span[1] = 1 /\ Tables!Span[2] = Entries
      /\ Tables!Span[3] = Entries * Entries /\ Tables!Span[4] = Entries * Entries * Entries
    BY DEF Tables!Span
<1>5. \A level \in 1 .. 4 : level \in {1, 2, 3, 4}
    OBVIOUS
<1> QED BY <1>1, <1>2, <1>3, <1>4, <1>5, MachineAssumption

LEMMA IndexTypes ==
    ASSUME NEW page \in Nat, NEW level \in 1 .. 4
    PROVE  Tables!At(page, level) \in Tables!Index
<1>1. PICK d \in Nat : d = page \div Tables!Span[level]
    <2>1. Tables!Span[level] \in Nat \ {0}
        BY SpanTypes
    <2> QED BY <2>1
<1>2. d % Entries \in 0 .. Entries - 1
    BY MachineAssumption
<1> QED BY <1>1, <1>2 DEF Tables!At, Tables!Index

\* The entries that the walk looks at, from the level above on.
Follows(m, root, page, walk) ==
    walk = [level \in 1 .. 4 |->
                m[IF level = 4 THEN root ELSE walk[level + 1].frame][Tables!At(page, level)]]

Ends(walk, level) == \/ ~walk[level].present
                     \/ walk[level].large /\ level # 4
                     \/ level = 1

LastLevel(walk) == CHOOSE level \in 1 .. 4 :
    Ends(walk, level) /\ \A above \in level + 1 .. 4 : ~Ends(walk, above)

Reached(walk, last, page) ==
    IF walk[last].present
      THEN (walk[last].frame - (walk[last].frame % Tables!Span[last])) + (page % Tables!Span[last])
      ELSE Tables!Unmapped

LEMMA ResolveUnfolds ==
    ASSUME NEW m, NEW root, NEW page
    PROVE  LET walk == CHOOSE walk : Follows(m, root, page, walk)
           IN  Tables!Resolve(m, root, page) = Reached(walk, LastLevel(walk), page)
BY Zenon DEF Tables!Resolve, Follows, LastLevel, Ends, Reached

\* The entry of each level, from the root downwards.
EntryOf4(m, root, page) == m[root][Tables!At(page, 4)]
EntryOf3(m, root, page) == m[EntryOf4(m, root, page).frame][Tables!At(page, 3)]
EntryOf2(m, root, page) == m[EntryOf3(m, root, page).frame][Tables!At(page, 2)]
EntryOf1(m, root, page) == m[EntryOf2(m, root, page).frame][Tables!At(page, 1)]

LEMMA EntriesFollow ==
    ASSUME NEW m, NEW root, NEW page
    PROVE  LET walk == CHOOSE walk : Follows(m, root, page, walk)
           IN  /\ walk[4] = EntryOf4(m, root, page) /\ walk[3] = EntryOf3(m, root, page)
               /\ walk[2] = EntryOf2(m, root, page) /\ walk[1] = EntryOf1(m, root, page)
<1> DEFINE e4 == EntryOf4(m, root, page)
           e3 == EntryOf3(m, root, page)
           e2 == EntryOf2(m, root, page)
           e1 == EntryOf1(m, root, page)
           w == [level \in 1 .. 4 |-> IF level = 4 THEN e4 ELSE IF level = 3 THEN e3
                                      ELSE IF level = 2 THEN e2 ELSE e1]
           v == [level \in 1 .. 4 |->
                    m[IF level = 4 THEN root ELSE w[level + 1].frame][Tables!At(page, level)]]
<1>1. w[4] = e4 /\ w[3] = e3 /\ w[2] = e2 /\ w[1] = e1
    OBVIOUS
<1>2. /\ e4 = m[root][Tables!At(page, 4)] /\ e3 = m[e4.frame][Tables!At(page, 3)]
      /\ e2 = m[e3.frame][Tables!At(page, 2)] /\ e1 = m[e2.frame][Tables!At(page, 1)]
    BY DEF EntryOf4, EntryOf3, EntryOf2, EntryOf1
<1> HIDE DEF e4, e3, e2, e1
<1>3. ASSUME NEW level \in 1 .. 4 PROVE w[level] = v[level]
    <2> HIDE DEF w
    <2>1. /\ v[4] = m[root][Tables!At(page, 4)] /\ v[3] = m[w[4].frame][Tables!At(page, 3)]
          /\ v[2] = m[w[3].frame][Tables!At(page, 2)] /\ v[1] = m[w[2].frame][Tables!At(page, 1)]
        OBVIOUS
    <2>2. level = 4 \/ level = 3 \/ level = 2 \/ level = 1
        OBVIOUS
    <2> HIDE DEF v
    <2> QED BY <2>1, <2>2, <1>1, <1>2
<1>4. w = v
    BY <1>3
<1>5. Follows(m, root, page, w)
    <2> HIDE DEF w
    <2> QED BY <1>4 DEF Follows
<1> DEFINE walk == CHOOSE walk : Follows(m, root, page, walk)
<1>6. Follows(m, root, page, walk)
    <2> HIDE DEF w
    <2> QED BY <1>5
<1> HIDE DEF walk
<1>7. walk[4] = e4
    <2>1. walk[4] = m[root][Tables!At(page, 4)]
        BY <1>6 DEF Follows
    <2> QED BY <2>1, <1>2
<1>8. walk[3] = e3
    <2>1. walk[3] = m[walk[4].frame][Tables!At(page, 3)]
        BY <1>6 DEF Follows
    <2> QED BY <2>1, <1>2, <1>7
<1>9. walk[2] = e2
    <2>1. walk[2] = m[walk[3].frame][Tables!At(page, 2)]
        BY <1>6 DEF Follows
    <2> QED BY <2>1, <1>2, <1>8
<1>10. walk[1] = e1
    <2>1. walk[1] = m[walk[2].frame][Tables!At(page, 1)]
        BY <1>6 DEF Follows
    <2> QED BY <2>1, <1>2, <1>9
<1> QED BY <1>7, <1>8, <1>9, <1>10 DEF walk, e4, e3, e2, e1

LEMMA LastLevelIs ==
    ASSUME NEW walk, NEW last \in 1 .. 4, Ends(walk, last),
           \A above \in last + 1 .. 4 : ~Ends(walk, above)
    PROVE  LastLevel(walk) = last
<1> DEFINE IsLast(level) == Ends(walk, level) /\ \A above \in level + 1 .. 4 : ~Ends(walk, above)
<1>1. ASSUME NEW level \in 1 .. 4, IsLast(level)
      PROVE  level = last
    <2>1. ~ (level < last)
        <3>1. level < last => last \in level + 1 .. 4
            OBVIOUS
        <3> QED BY <1>1, <3>1
    <2>2. ~ (last < level)
        <3>1. last < level => level \in last + 1 .. 4
            OBVIOUS
        <3> QED BY <1>1, <3>1
    <2> QED BY <2>1, <2>2
<1>2. IsLast(last)
    OBVIOUS
<1>3. LastLevel(walk) = CHOOSE level \in 1 .. 4 : IsLast(level)
    BY DEF LastLevel
<1> HIDE DEF IsLast
<1> QED BY <1>1, <1>2, <1>3

LEMMA EntryTypes ==
    ASSUME NEW m \in Memories, NEW root \in Tables!Frame, NEW page \in Nat
    PROVE  /\ EntryOf4(m, root, page) \in Tables!Entry /\ EntryOf3(m, root, page) \in Tables!Entry
           /\ EntryOf2(m, root, page) \in Tables!Entry /\ EntryOf1(m, root, page) \in Tables!Entry
<1>1. \A level \in 1 .. 4 : Tables!At(page, level) \in Tables!Index
    BY IndexTypes
<1>2. \A table \in Tables!Frame, i \in Tables!Index :
         m[table][i] \in Tables!Entry /\ m[table][i].frame \in Tables!Frame
    BY DEF Memories, Tables!Entry
<1>3. EntryOf4(m, root, page) \in Tables!Entry /\ EntryOf4(m, root, page).frame \in Tables!Frame
    BY <1>1, <1>2 DEF EntryOf4
<1>4. EntryOf3(m, root, page) \in Tables!Entry /\ EntryOf3(m, root, page).frame \in Tables!Frame
    BY <1>1, <1>2, <1>3 DEF EntryOf3
<1>5. EntryOf2(m, root, page) \in Tables!Entry /\ EntryOf2(m, root, page).frame \in Tables!Frame
    BY <1>1, <1>2, <1>4 DEF EntryOf2
<1>6. EntryOf1(m, root, page) \in Tables!Entry
    BY <1>1, <1>2, <1>5 DEF EntryOf1
<1> QED BY <1>3, <1>4, <1>5, <1>6

\* Where the page is, level by level.
InLarge(e, level, page) == (e.frame - (e.frame % Tables!Span[level])) + (page % Tables!Span[level])

WalkedTo(m, root, page) ==
    LET e4 == EntryOf4(m, root, page)
        e3 == EntryOf3(m, root, page)
        e2 == EntryOf2(m, root, page)
        e1 == EntryOf1(m, root, page)
    IN  IF ~e4.present \/ ~e3.present THEN Tables!Unmapped
        ELSE IF e3.large THEN InLarge(e3, 3, page)
        ELSE IF ~e2.present THEN Tables!Unmapped
        ELSE IF e2.large THEN InLarge(e2, 2, page)
        ELSE IF e1.present THEN e1.frame
        ELSE Tables!Unmapped

LEMMA ResolveIs ==
    ASSUME NEW m \in Memories, NEW root \in Tables!Frame, NEW page \in Nat
    PROVE  Tables!Resolve(m, root, page) = WalkedTo(m, root, page)
<1> DEFINE walk == CHOOSE w : Follows(m, root, page, w)
<1>1. Tables!Resolve(m, root, page) = Reached(walk, LastLevel(walk), page)
    BY ResolveUnfolds
<1>2. /\ walk[4] = EntryOf4(m, root, page) /\ walk[3] = EntryOf3(m, root, page)
      /\ walk[2] = EntryOf2(m, root, page) /\ walk[1] = EntryOf1(m, root, page)
    BY EntriesFollow
<1> HIDE DEF walk
<1>3. CASE ~walk[4].present
    <2>1. LastLevel(walk) = 4
        BY <1>3, LastLevelIs DEF Ends
    <2> QED BY <1>1, <1>2, <1>3, <2>1 DEF Reached, WalkedTo
<1>4. CASE walk[4].present /\ (~walk[3].present \/ walk[3].large)
    <2>1. Ends(walk, 3) /\ \A above \in 3 + 1 .. 4 : ~Ends(walk, above)
        BY <1>4 DEF Ends
    <2>2. LastLevel(walk) = 3
        BY <2>1, LastLevelIs
    <2> QED BY <1>1, <1>2, <1>4, <2>2 DEF Reached, WalkedTo, InLarge
<1>5. CASE walk[4].present /\ walk[3].present /\ ~walk[3].large
    <2>1. ~Ends(walk, 4) /\ ~Ends(walk, 3)
        BY <1>5 DEF Ends
    <2>2. CASE ~walk[2].present \/ walk[2].large
        <3>1. Ends(walk, 2) /\ \A above \in 2 + 1 .. 4 : ~Ends(walk, above)
            BY <2>1, <2>2 DEF Ends
        <3>2. LastLevel(walk) = 2
            BY <3>1, LastLevelIs
        <3> QED BY <1>1, <1>2, <1>5, <2>2, <3>2 DEF Reached, WalkedTo, InLarge
    <2>3. CASE walk[2].present /\ ~walk[2].large
        <3>1. Ends(walk, 1) /\ \A above \in 1 + 1 .. 4 : ~Ends(walk, above)
            BY <2>1, <2>3 DEF Ends
        <3>2. LastLevel(walk) = 1
            BY <3>1, LastLevelIs
        <3>3. walk[1].frame \in Nat
            BY <1>2, EntryTypes DEF Tables!Entry, Tables!Frame
        <3>4. (walk[1].frame - (walk[1].frame % Tables!Span[1])) + (page % Tables!Span[1]) = walk[1].frame
            <4>1. Tables!Span[1] = 1
                BY DEF Tables!Span
            <4>2. \A x \in Nat : x % 1 = 0
                OBVIOUS
            <4> QED BY <3>3, <4>1, <4>2
        <3> QED BY <1>1, <1>2, <1>5, <2>3, <3>2, <3>4 DEF Reached, WalkedTo
    <2> QED BY <2>2, <2>3
<1> QED BY <1>3, <1>4, <1>5

\* A multiple of the size of a large page and the rest.
LEMMA LargeIs ==
    ASSUME NEW e \in Tables!Entry, NEW level \in 1 .. 4, NEW page \in Nat
    PROVE  ((e.frame \div Tables!Span[level]) * Tables!Span[level]) + (page % Tables!Span[level])
              = InLarge(e, level, page)
<1>1. e.frame \in Nat /\ Tables!Span[level] \in Nat \ {0}
    BY SpanTypes DEF Tables!Entry, Tables!Frame
<1>2. \A w \in Nat \ {0}, f \in Nat : (f \div w) * w = f - (f % w)
    BY MultipleBelow
<1> QED BY <1>1, <1>2 DEF InLarge

LEMMA TranslateAgrees ==
    ASSUME mem \in Memories, cr3 \in Tables!Frame, Pages \subseteq Nat
    PROVE  Tables!TranslateIsWalk
<1> SUFFICES ASSUME NEW page \in Pages PROVE Tables!Translate(page) = Tables!Where(page)
    BY DEF Tables!TranslateIsWalk
<1> DEFINE e4 == EntryOf4(mem, cr3, page)
           e3 == EntryOf3(mem, cr3, page)
           e2 == EntryOf2(mem, cr3, page)
           e1 == EntryOf1(mem, cr3, page)
<1>1. Tables!Where(page) = WalkedTo(mem, cr3, page)
    BY ResolveIs DEF Tables!Where
<1>2. e3 \in Tables!Entry /\ e2 \in Tables!Entry
    BY EntryTypes
<1> DEFINE giga == ((e3.frame \div Tables!Span[3]) * Tables!Span[3]) + (page % Tables!Span[3])
           mega == ((e2.frame \div Tables!Span[2]) * Tables!Span[2]) + (page % Tables!Span[2])
<1>3. giga = InLarge(e3, 3, page) /\ mega = InLarge(e2, 2, page)
    BY <1>2, LargeIs
<1>4. Tables!Translate(page) =
         CASE ~e4.present -> Tables!Unmapped
           [] e4.present /\ ~e3.present -> Tables!Unmapped
           [] e4.present /\ e3.present /\ e3.large -> giga
           [] OTHER -> IF ~e2.present THEN Tables!Unmapped
                       ELSE IF e2.large THEN mega
                       ELSE IF e1.present THEN e1.frame ELSE Tables!Unmapped
    BY Zenon DEF Tables!Translate, EntryOf4, EntryOf3, EntryOf2, EntryOf1
<1>5. WalkedTo(mem, cr3, page) =
         IF ~e4.present \/ ~e3.present THEN Tables!Unmapped
         ELSE IF e3.large THEN giga
         ELSE IF ~e2.present THEN Tables!Unmapped
         ELSE IF e2.large THEN mega
         ELSE IF e1.present THEN e1.frame
         ELSE Tables!Unmapped
    BY <1>3 DEF WalkedTo
<1> HIDE DEF e4, e3, e2, e1, giga, mega
<1>6. CASE ~e4.present
    BY <1>1, <1>4, <1>5, <1>6
<1>7. CASE e4.present /\ ~e3.present
    BY <1>1, <1>4, <1>5, <1>7
<1>8. CASE e4.present /\ e3.present /\ e3.large
    BY <1>1, <1>4, <1>5, <1>8
<1>9. CASE e4.present /\ e3.present /\ ~e3.large
    BY <1>1, <1>4, <1>5, <1>9
<1> QED BY <1>6, <1>7, <1>8, <1>9

-----------------------------------------------------------------------------
(* The states of memory between the steps of a call.                       *)

\* What has been given are distinct frames, from the first free one to the one
\* that the free block starts in.
GivenOnce(gave, start) ==
    /\ \A k \in DOMAIN gave : gave[k] \in FirstFree \div Unit .. (start \div Unit) - 1
    /\ \A j, k \in DOMAIN gave : gave[j] = gave[k] => j = k

States ==
    {s \in [mem : Memories, next : FirstFree .. EndFree, given : Seq(Nat), orderly : BOOLEAN,
            flushed : SUBSET Nat, complete : BOOLEAN] : GivenOnce(s.given, s.next)}

LEMMA StateWith ==
    ASSUME NEW s \in States, NEW m \in Memories, NEW n \in FirstFree .. EndFree,
           NEW g \in Seq(Nat), GivenOnce(g, n)
    PROVE  LET r == [s EXCEPT !.mem = m, !.next = n, !.given = g]
           IN  r \in States /\ r.next = n /\ r.complete = s.complete
BY DEF States

\* Taking memory only moves the start of the free block.
LEMMA GivenStays ==
    ASSUME NEW s \in States, NEW n \in s.next .. EndFree
    PROVE  /\ n \in FirstFree .. EndFree
           /\ (s.next \div Unit) <= (n \div Unit)
           /\ s.next \div Unit \in Nat /\ n \div Unit \in Nat
           /\ FirstFree \div Unit \in Nat /\ FirstFree \div Unit <= s.next \div Unit
           /\ GivenOnce(s.given, n)
<1>1. s.next \in FirstFree .. EndFree /\ GivenOnce(s.given, s.next)
    BY DEF States
<1>2. FirstFree \in Nat /\ EndFree \in Nat /\ Unit \in Nat \ {0}
    BY MachineAssumption
<1>3. s.next \in Nat /\ n \in Nat /\ n \in FirstFree .. EndFree
    BY <1>1, <1>2
<1>4. /\ s.next \div Unit <= n \div Unit
      /\ FirstFree \div Unit <= s.next \div Unit
    BY <1>1, <1>2, <1>3, QuotientsFollow
<1>5. s.next \div Unit \in Nat /\ n \div Unit \in Nat /\ FirstFree \div Unit \in Nat
    BY <1>2, <1>3
<1> QED BY <1>1, <1>3, <1>4, <1>5 DEF GivenOnce

\* Frames that the free block leaves when its start moves are given for the first
\* time.
LEMMA GiveOne ==
    ASSUME NEW s \in States, NEW n \in s.next .. EndFree,
           NEW f \in (s.next \div Unit) .. (n \div Unit) - 1
    PROVE  Append(s.given, f) \in Seq(Nat) /\ GivenOnce(Append(s.given, f), n)
<1>1. s.given \in Seq(Nat) /\ GivenOnce(s.given, s.next)
    BY DEF States
<1>2. /\ s.next \div Unit \in Nat /\ n \div Unit \in Nat
      /\ FirstFree \div Unit \in Nat /\ FirstFree \div Unit <= s.next \div Unit
      /\ GivenOnce(s.given, n)
    BY GivenStays
<1> DEFINE first == s.next \div Unit
           end == n \div Unit
           low == FirstFree \div Unit
           g == s.given
           h == Append(g, f)
<1>3. \A k \in DOMAIN g : g[k] \in low .. first - 1 /\ g[k] \in low .. end - 1
    BY <1>1, <1>2 DEF GivenOnce
<1>4. \A j, k \in DOMAIN g : g[j] = g[k] => j = k
    BY <1>1 DEF GivenOnce
<1>5. first \in Nat /\ end \in Nat /\ low \in Nat /\ low <= first /\ f \in first .. end - 1 /\ g \in Seq(Nat)
    BY <1>1, <1>2
<1> HIDE DEF first, end, low, g
<1>6. f \in Nat /\ f \in low .. end - 1
    BY <1>5
<1>7. /\ h \in Seq(Nat) /\ DOMAIN h = DOMAIN g \cup {Len(g) + 1}
      /\ h[Len(g) + 1] = f /\ \A k \in DOMAIN g : h[k] = g[k]
    BY <1>5, <1>6
<1> HIDE DEF h
<1>8. \A k \in DOMAIN h : h[k] \in low .. end - 1
    BY <1>3, <1>6, <1>7
<1>9. \A k \in DOMAIN g : g[k] # f
    BY <1>3, <1>5
<1>10. \A j, k \in DOMAIN h : h[j] = h[k] => j = k
    BY <1>4, <1>7, <1>9
<1>11. GivenOnce(h, n)
    BY <1>8, <1>10 DEF GivenOnce, low, end
<1> QED BY <1>7, <1>11 DEF h, g

LEMMA EntryWritten ==
    ASSUME NEW s \in States, NEW table \in Tables!Frame, NEW i \in Tables!Index,
           NEW e \in Tables!Entry
    PROVE  /\ Tables!SetEntry(s, table, i, e) \in States
           /\ Tables!SetEntry(s, table, i, e).next = s.next
           /\ Tables!SetEntry(s, table, i, e).complete = s.complete
           /\ Tables!SetEntry(s, table, i, e).mem[table][i] = e
<1> DEFINE m == [s.mem EXCEPT ![table] = [s.mem[table] EXCEPT ![i] = e]]
<1>1. s.mem \in Memories
    BY DEF States
<1>2. [s.mem[table] EXCEPT ![i] = e] \in [Tables!Index -> Tables!Entry]
    BY <1>1 DEF Memories
<1>3. m \in Memories /\ m[table][i] = e
    BY <1>1, <1>2 DEF Memories
<1>4. Tables!SetEntry(s, table, i, e) = [s EXCEPT !.mem = m]
    BY DEF Tables!SetEntry, States
<1> HIDE DEF m
<1> QED BY <1>3, <1>4 DEF States

LEMMA DisorderlyKeeps ==
    ASSUME NEW s \in States, NEW bad
    PROVE  /\ Tables!Disorderly(s, bad) \in States
           /\ Tables!Disorderly(s, bad).mem = s.mem
           /\ Tables!Disorderly(s, bad).next = s.next
           /\ Tables!Disorderly(s, bad).given = s.given
           /\ Tables!Disorderly(s, bad).complete = s.complete
BY DEF Tables!Disorderly, States

-----------------------------------------------------------------------------
(* The calls.                                                              *)

\* A unit of the free block starts in a frame that it then leaves.
LEMMA UnitTaken ==
    ASSUME NEW s \in States, Tables!HasMemory(s, Unit)
    PROVE  /\ s.next + Unit \in s.next .. EndFree
           /\ s.next \div Unit \in (s.next \div Unit) .. ((s.next + Unit) \div Unit) - 1
           /\ s.next \div Unit \in Tables!Frame
<1>1. s.next \in FirstFree .. EndFree
    BY DEF States
<1>2. /\ FirstFree \in Nat /\ EndFree \in Nat /\ Unit \in Nat \ {0} /\ Frames \in Nat \ {0}
      /\ EndFree <= Frames * Unit /\ Frames * Unit \in Nat
    BY MachineAssumption
<1>3. s.next \in Nat /\ s.next + Unit <= EndFree
    BY <1>1, <1>2 DEF Tables!HasMemory
<1> DEFINE top == Frames * Unit
<1>4. top \in Nat /\ EndFree <= top
    BY <1>2
<1>5. s.next < top
    <2> HIDE DEF top
    <2> QED BY <1>2, <1>3, <1>4
<1>6. s.next \div Unit \in 0 .. Frames - 1
    BY <1>2, <1>3, <1>5, QuotientBelow
<1>7. (s.next + Unit * 1) \div Unit = (s.next \div Unit) + 1
    BY <1>2, <1>3, NextQuotient
<1>8. Unit * 1 = Unit
    BY <1>2
<1>9. s.next \div Unit \in Nat
    BY <1>6
<1> HIDE DEF top
<1>10. s.next + Unit \in s.next .. EndFree
    BY <1>2, <1>3
<1>11. (s.next + Unit) \div Unit = (s.next \div Unit) + 1
    BY <1>7, <1>8
<1> DEFINE q == s.next \div Unit
           z == (s.next + Unit) \div Unit
<1>12. q \in Nat /\ z = q + 1
    BY <1>9, <1>11
<1>13. q \in q .. z - 1
    <2> HIDE DEF q, z
    <2> QED BY <1>12
<1> QED BY <1>6, <1>10, <1>13 DEF Tables!Frame

LEMMA CreateTableKeeps ==
    ASSUME NEW s \in States, NEW table \in Tables!Frame, NEW i \in Tables!Index
    PROVE  Tables!CreateTable(s, table, i) \in States
<1>1. CASE s.mem[table][i].present
    BY <1>1 DEF Tables!CreateTable
<1>2. CASE ~s.mem[table][i].present /\ ~Tables!HasMemory(s, Unit)
    BY <1>2, DisorderlyKeeps DEF Tables!CreateTable
<1>3. CASE ~s.mem[table][i].present /\ Tables!HasMemory(s, Unit)
    <2> DEFINE f == s.next \div Unit
               e == [present |-> TRUE, large |-> (s.next \div 2) % 2 = 1, frame |-> f]
               taken == Tables!Took(s, Unit)
               r == [Tables!SetEntry(taken, table, i, e) EXCEPT !.given = Append(@, f)]
               m == [s.mem EXCEPT ![table] = [s.mem[table] EXCEPT ![i] = e]]
               bad == e.large \/ ~Tables!Empty(s.mem[f])
    <2>1. /\ s.next + Unit \in s.next .. EndFree
          /\ f \in f .. ((s.next + Unit) \div Unit) - 1
          /\ f \in Tables!Frame
        BY <1>3, UnitTaken
    <2>2. Tables!CreateTable(s, table, i) = Tables!Disorderly(r, bad)
        BY Zenon, <1>3 DEF Tables!CreateTable
    <2>3. e \in Tables!Entry
        BY <2>1 DEF Tables!Entry
    <2> HIDE DEF e
    <2>4. m \in Memories
        <3>1. s.mem \in Memories
            BY DEF States
        <3> QED BY <2>3, <3>1 DEF Memories
    <2>5. Append(s.given, f) \in Seq(Nat) /\ GivenOnce(Append(s.given, f), s.next + Unit)
        BY <2>1, GiveOne
    <2>6. s.next + Unit \in FirstFree .. EndFree
        BY <2>1, GivenStays
    <2>7. taken = [s EXCEPT !.next = s.next + Unit]
        BY <1>3 DEF Tables!Took, States
    <2>8. r = [s EXCEPT !.mem = m, !.next = s.next + Unit, !.given = Append(s.given, f)]
        BY <2>7 DEF Tables!SetEntry, States
    <2> DEFINE n == s.next + Unit
               g == Append(s.given, f)
    <2>9. r \in States
        <3>1. r = [s EXCEPT !.mem = m, !.next = n, !.given = g]
            BY <2>8
        <3>2. n \in FirstFree .. EndFree /\ g \in Seq(Nat) /\ GivenOnce(g, n)
            BY <2>5, <2>6
        <3> HIDE DEF f, m, r, n, g
        <3>3. [s EXCEPT !.mem = m, !.next = n, !.given = g] \in States
            BY <2>4, <3>2, StateWith
        <3> QED BY <3>1, <3>3
    <2> HIDE DEF r
    <2> QED BY <2>2, <2>9, DisorderlyKeeps
<1> QED BY <1>1, <1>2, <1>3

LEMMA GetTableKeeps ==
    ASSUME NEW d, d.s \in States, d.table \in Tables!Frame, NEW page \in Nat, NEW level \in 1 .. 4
    PROVE  /\ Tables!GetTable(d, page, level).s \in States
           /\ Tables!GetTable(d, page, level).table \in Tables!Frame
<1> DEFINE i == Tables!At(page, level)
           s == Tables!CreateTable(d.s, d.table, i)
           e == s.mem[d.table][i]
<1>1. i \in Tables!Index
    BY IndexTypes
<1>2. s \in States
    BY <1>1, CreateTableKeeps
<1> HIDE DEF s
<1>3. e \in Tables!Entry
    BY <1>1, <1>2 DEF States, Memories
<1>4. Tables!GetTable(d, page, level) =
         [s |-> Tables!Disorderly(s, e.present /\ e.large),
          table |-> IF e.present THEN e.frame ELSE Tables!NULL]
    BY Zenon DEF Tables!GetTable, s
<1>5. 0 \in Tables!Frame
    BY MachineAssumption DEF Tables!Frame
<1> HIDE DEF e
<1>6. (IF e.present THEN e.frame ELSE Tables!NULL) \in Tables!Frame
    BY <1>3, <1>5 DEF Tables!Entry, Tables!NULL
<1>7. Tables!Disorderly(s, e.present /\ e.large) \in States
    BY <1>2, DisorderlyKeeps
<1> QED BY <1>4, <1>6, <1>7

LEMMA DirectoryKeeps ==
    ASSUME NEW s \in States, cr3 \in Tables!Frame, NEW page \in Nat
    PROVE  /\ Tables!Directory(s, page).s \in States
           /\ Tables!Directory(s, page).table \in Tables!Frame
<1> DEFINE d == [s |-> s, table |-> cr3]
<1>1. d.s \in States /\ d.table \in Tables!Frame
    OBVIOUS
<1> HIDE DEF d
<1>2. 4 \in 1 .. 4 /\ 3 \in 1 .. 4
    OBVIOUS
<1>3. /\ Tables!GetTable(d, page, 4).s \in States
      /\ Tables!GetTable(d, page, 4).table \in Tables!Frame
    BY Zenon, <1>1, <1>2, GetTableKeeps
<1>4. /\ Tables!GetTable(Tables!GetTable(d, page, 4), page, 3).s \in States
      /\ Tables!GetTable(Tables!GetTable(d, page, 4), page, 3).table \in Tables!Frame
    BY Zenon, <1>2, <1>3, GetTableKeeps
<1> QED BY <1>4 DEF Tables!Directory, d

LEMMA Map4kbKeeps ==
    ASSUME NEW s \in States, cr3 \in Tables!Frame, NEW page \in Nat, NEW frame \in Tables!Frame
    PROVE  Tables!Map4kb(s, page, frame) \in States
<1> DEFINE d == Tables!PageTable(s, page)
           i == Tables!At(page, 1)
           old == d.s.mem[d.table][i]
           written == Tables!SetEntry(d.s, d.table, i, Tables!Leaf(frame))
<1>1. d.s \in States /\ d.table \in Tables!Frame
    BY DirectoryKeeps, GetTableKeeps DEF Tables!PageTable
<1>2. i \in Tables!Index
    BY IndexTypes
<1>3. Tables!Leaf(frame) \in Tables!Entry
    BY DEF Tables!Leaf, Tables!Entry
<1> HIDE DEF d, i
<1>4. written \in States
    BY <1>1, <1>2, <1>3, EntryWritten
<1>5. Tables!Map4kb(s, page, frame) =
         Tables!Disorderly(written, old.present /\ old.frame # frame)
    BY Zenon DEF Tables!Map4kb, d, i
<1> HIDE DEF written, old
<1> QED BY <1>4, <1>5, DisorderlyKeeps

LEMMA Map2mbKeeps ==
    ASSUME NEW s \in States, cr3 \in Tables!Frame, NEW page \in Nat, NEW frame,
           Tables!WithLargeBit(frame) \in Tables!Frame
    PROVE  Tables!Map2mb(s, page, frame) \in States
<1> DEFINE d == Tables!Directory(s, page)
           i == Tables!At(page, 2)
           leaf == Tables!Leaf(Tables!WithLargeBit(frame))
           written == Tables!SetEntry(d.s, d.table, i, leaf)
<1>1. d.s \in States /\ d.table \in Tables!Frame
    BY DirectoryKeeps
<1>2. i \in Tables!Index
    BY IndexTypes
<1>3. leaf \in Tables!Entry
    BY DEF Tables!Leaf, Tables!Entry
<1> HIDE DEF d, i, leaf
<1>4. written \in States
    BY <1>1, <1>2, <1>3, EntryWritten
<1>5. Tables!Map2mb(s, page, frame) = Tables!Disorderly(written, TRUE)
    BY Zenon DEF Tables!Map2mb, d, i, leaf
<1> HIDE DEF written
<1> QED BY <1>4, <1>5, DisorderlyKeeps

LEMMA UnmapKeeps ==
    ASSUME NEW s \in States, cr3 \in Tables!Frame, NEW page \in Nat
    PROVE  Tables!Unmap(s, page) \in States
<1> DEFINE pml4e == s.mem[cr3][Tables!At(page, 4)]
           pdpte == s.mem[pml4e.frame][Tables!At(page, 3)]
           pde == s.mem[pdpte.frame][Tables!At(page, 2)]
           large == Tables!SetEntry(s, pdpte.frame, Tables!At(page, 2), Tables!Zero)
           small == Tables!SetEntry(s, pde.frame, Tables!At(page, 1), Tables!Zero)
           flushed == [small EXCEPT !.flushed = @ \cup {page}]
<1>1. s.mem \in Memories
    BY DEF States
<1>2. /\ pml4e = EntryOf4(s.mem, cr3, page) /\ pdpte = EntryOf3(s.mem, cr3, page)
      /\ pde = EntryOf2(s.mem, cr3, page)
    BY DEF EntryOf4, EntryOf3, EntryOf2
<1>3. pdpte.frame \in Tables!Frame /\ pde.frame \in Tables!Frame
    BY <1>1, <1>2, EntryTypes DEF Tables!Entry
<1>4. Tables!Unmap(s, page) =
         IF ~pml4e.present \/ ~pdpte.present THEN s
         ELSE IF Tables!LargeBit(pde.frame) THEN Tables!Disorderly(large, TRUE)
         ELSE IF ~pde.present THEN s
         ELSE Tables!Disorderly(flushed, pde.large)
    BY Zenon DEF Tables!Unmap
<1> HIDE DEF pml4e, pdpte, pde
<1>5. Tables!Zero \in Tables!Entry
    BY MachineAssumption DEF Tables!Zero, Tables!Entry, Tables!Frame
<1>6. Tables!At(page, 2) \in Tables!Index /\ Tables!At(page, 1) \in Tables!Index
    BY IndexTypes
<1>7. large \in States /\ small \in States
    BY <1>3, <1>5, <1>6, EntryWritten
<1> HIDE DEF large, small
<1>8. flushed \in States
    BY <1>7 DEF States
<1> HIDE DEF flushed
<1> QED BY <1>4, <1>7, <1>8, DisorderlyKeeps

-----------------------------------------------------------------------------
(* The copy of the tables.                                                 *)

LEMMA AlignedTaken ==
    ASSUME NEW s \in States, Tables!HasMemory(s, Tables!AlignedSize)
    PROVE  /\ s.next + Tables!AlignedSize \in s.next .. EndFree
           /\ Tables!AlignedFrame(s) \in
                 (s.next \div Unit) .. ((s.next + Tables!AlignedSize) \div Unit) - 1
           /\ Tables!AlignedFrame(s) \in Tables!Frame
<1> DEFINE x == s.next + Unit - 1 + Pointer
           n == s.next + Tables!AlignedSize
           top == Frames * Unit
<1>1. s.next \in FirstFree .. EndFree
    BY DEF States
<1>2. /\ FirstFree \in Nat /\ EndFree \in Nat /\ Unit \in Nat \ {0} /\ Frames \in Nat \ {0}
      /\ EndFree <= Frames * Unit /\ Frames * Unit \in Nat /\ Pointer \in Nat
    BY MachineAssumption
<1>3. n <= EndFree
    BY DEF Tables!HasMemory
<1>4. top \in Nat /\ EndFree <= top
    BY <1>2
<1>5. n = x + Unit /\ x \in Nat /\ s.next \in Nat /\ s.next <= x /\ n \in s.next .. EndFree
    <2> HIDE DEF top
    <2>1. Tables!AlignedSize = Unit + Unit - 1 + Pointer
        BY DEF Tables!AlignedSize
    <2> QED BY <1>1, <1>2, <1>3, <2>1
<1>6. x < top
    <2> HIDE DEF top, x, n
    <2> QED BY <1>2, <1>3, <1>4, <1>5
<1>7. Tables!AlignedFrame(s) = x \div Unit
    BY DEF Tables!AlignedFrame
<1> HIDE DEF x, n
<1>8. x \div Unit \in 0 .. Frames - 1
    BY <1>2, <1>5, <1>6, QuotientBelow
<1>9. s.next \div Unit <= x \div Unit
    BY <1>2, <1>5, QuotientsFollow
<1>10. (x + Unit * 1) \div Unit = (x \div Unit) + 1
    BY <1>2, <1>5, NextQuotient
<1>11. n \div Unit = (x \div Unit) + 1
    <2>1. x + Unit * 1 = n
        BY <1>2, <1>5
    <2> QED BY <1>10, <2>1
<1>12. s.next \div Unit \in Nat /\ x \div Unit \in Nat
    BY <1>2, <1>5, <1>8
<1> DEFINE q == s.next \div Unit
           f == x \div Unit
           z == n \div Unit
<1>13. q \in Nat /\ f \in Nat /\ q <= f /\ z = f + 1
    BY <1>9, <1>11, <1>12
<1>14. f \in q .. z - 1
    <2> HIDE DEF q, f, z
    <2> QED BY <1>13
<1> HIDE DEF top
<1> QED BY <1>5, <1>7, <1>8, <1>14 DEF Tables!Frame, n

\* A loop over a table goes on only while the table is one.
Complete(table) == {s \in States : s.complete => table \in Tables!Frame}

LEMMA CopyTableKeeps ==
    ASSUME NEW s \in States, NEW source \in Tables!Frame
    PROVE  Tables!CopyTable(s, source) \in Complete(Tables!AlignedFrame(s))
<1> DEFINE f == Tables!AlignedFrame(s)
           n == s.next + Tables!AlignedSize
           m == [s.mem EXCEPT ![f] = s.mem[source]]
           g == Append(s.given, f)
<1>1. CASE Tables!HasMemory(s, Tables!AlignedSize)
    <2>1. n \in s.next .. EndFree /\ f \in Tables!Frame
        BY <1>1, AlignedTaken
    <2>2. g \in Seq(Nat) /\ GivenOnce(g, n)
        BY <1>1, AlignedTaken, GiveOne
    <2>3. n \in FirstFree .. EndFree
        BY <2>1, GivenStays
    <2>4. m \in Memories
        <3>1. s.mem \in Memories
            BY DEF States
        <3> QED BY <2>1, <3>1 DEF Memories
    <2>5. Tables!CopyTable(s, source) =
             [Tables!Took(s, Tables!AlignedSize) EXCEPT !.mem[f] = s.mem[source],
                                                        !.given = Append(@, f)]
        BY Zenon, <1>1 DEF Tables!CopyTable
    <2>6. Tables!Took(s, Tables!AlignedSize) = [s EXCEPT !.next = n]
        BY <1>1 DEF Tables!Took, States
    <2>7. Tables!CopyTable(s, source) = [s EXCEPT !.mem = m, !.next = n, !.given = g]
        BY <2>5, <2>6 DEF States
    <2> HIDE DEF f, n, m, g
    <2>8. [s EXCEPT !.mem = m, !.next = n, !.given = g] \in States
        BY <2>2, <2>3, <2>4, StateWith
    <2> QED BY <2>1, <2>7, <2>8 DEF Complete, f
<1>2. CASE ~Tables!HasMemory(s, Tables!AlignedSize)
    <2>1. Tables!CopyTable(s, source) = [s EXCEPT !.complete = FALSE]
        BY <1>2 DEF Tables!CopyTable
    <2>2. [s EXCEPT !.complete = FALSE] \in States /\ ~[s EXCEPT !.complete = FALSE].complete
        BY DEF States
    <2> QED BY <2>1, <2>2 DEF Complete
<1> QED BY <1>1, <1>2

LEMMA CopyTargetKeeps ==
    ASSUME NEW s \in States, NEW table \in Tables!Frame, NEW i \in Tables!Index
    PROVE  Tables!CopyTarget(s, table, i) \in Complete(Tables!AlignedFrame(s))
<1> DEFINE f == Tables!AlignedFrame(s)
           source == s.mem[table][i].frame
           e == [s.mem[table][i] EXCEPT !.frame = f]
           named == IF Tables!HasMemory(s, Tables!AlignedSize)
                      THEN [s EXCEPT !.mem[table][i].frame = f] ELSE s
<1>1. s.mem \in Memories
    BY DEF States
<1>2. s.mem[table][i] \in Tables!Entry /\ source \in Tables!Frame
    BY <1>1 DEF Memories, Tables!Entry
<1>3. Tables!CopyTarget(s, table, i) = Tables!CopyTable(named, source)
    BY Zenon DEF Tables!CopyTarget
<1>4. named \in States /\ named.next = s.next
    <2>1. CASE Tables!HasMemory(s, Tables!AlignedSize)
        <3>1. f \in Tables!Frame
            BY <2>1, AlignedTaken
        <3>2. e \in Tables!Entry
            BY <1>2, <3>1 DEF Tables!Entry
        <3>3. [s EXCEPT !.mem[table][i].frame = f] = Tables!SetEntry(s, table, i, e)
            BY <1>1 DEF Tables!SetEntry, States, Memories
        <3>4. named = Tables!SetEntry(s, table, i, e)
            BY <2>1, <3>3
        <3> HIDE DEF named, e
        <3> QED BY <3>2, <3>4, EntryWritten
    <2>2. CASE ~Tables!HasMemory(s, Tables!AlignedSize)
        BY <2>2
    <2> QED BY <2>1, <2>2
<1>5. Tables!AlignedFrame(named) = f
    <2> HIDE DEF named
    <2> QED BY <1>4 DEF Tables!AlignedFrame
<1> HIDE DEF named, source, f
<1>6. Tables!CopyTable(named, source) \in Complete(f)
    BY <1>2, <1>4, <1>5, CopyTableKeeps
<1> QED BY <1>3, <1>6 DEF f

LEMMA ClonePdeKeeps ==
    ASSUME NEW s \in States, NEW table \in Tables!Frame, NEW i \in Tables!Index
    PROVE  Tables!ClonePde(s, table, i) \in States
BY CopyTargetKeeps DEF Tables!ClonePde, Complete

\* The loops over a page directory, over the table of those, and over the root.
EachPde(s, table) == Tables!ForEachPresent(s, table, Tables!ClonePde)
EachPdpte(s, table) == Tables!ForEachPresent(s, table, Tables!ClonePdpte)
EachPml4e(s, table) == Tables!ForEachPresent(s, table, Tables!ClonePml4e)

LEMMA EachPdeRuns ==
    ASSUME NEW table, NEW s \in Complete(table)
    PROVE  \E after :
              /\ after[0] = s
              /\ \A i \in 1 .. Entries :
                    after[i] = IF after[i - 1].complete /\ after[i - 1].mem[table][i - 1].present
                                 THEN Tables!ClonePde(after[i - 1], table, i - 1) ELSE after[i - 1]
              /\ \A i \in 0 .. Entries : after[i] \in Complete(table)
              /\ EachPde(s, table) = after[Entries]
<1> DEFINE S == Complete(table)
           Step(t, i) == IF t.complete /\ t.mem[table][i].present
                           THEN Tables!ClonePde(t, table, i) ELSE t
           step == [i \in 1 .. Entries |-> [t \in S |-> Step(t, i - 1)]]
           Solves(f) == f = [i \in 0 .. Entries |-> IF i = 0 THEN s ELSE Step(f[i - 1], i - 1)]
           after == CHOOSE f : Solves(f)
<1>1. Entries \in Nat
    BY MachineAssumption
<1>2. ASSUME NEW t \in S, NEW i \in 1 .. Entries PROVE Step(t, i - 1) \in S
    <2>1. i - 1 \in Tables!Index
        BY <1>1 DEF Tables!Index
    <2>2. CASE t.complete /\ t.mem[table][i - 1].present
        <3>1. t \in States /\ table \in Tables!Frame
            BY <2>2 DEF Complete
        <3>2. Tables!ClonePde(t, table, i - 1) \in States
            BY <2>1, <3>1, ClonePdeKeeps
        <3> QED BY <2>2, <3>1, <3>2 DEF Complete
    <2>3. CASE ~(t.complete /\ t.mem[table][i - 1].present)
        BY <2>3
    <2> QED BY <2>2, <2>3
<1>3. step \in [1 .. Entries -> [S -> S]]
    <2> HIDE DEF S, Step
    <2> QED BY <1>2
<1>4. Solves(after)
    <2>1. PICK f : /\ f = [i \in 0 .. Entries |-> IF i = 0 THEN s ELSE step[i][f[i - 1]]]
                   /\ \A i \in 0 .. Entries : f[i] \in S
        <3>1. s \in S
            OBVIOUS
        <3> HIDE DEF S, Step, step, Solves, after
        <3>2. \A g \in [1 .. Entries -> [S -> S]] :
                 \E f : /\ f = [i \in 0 .. Entries |-> IF i = 0 THEN s ELSE g[i][f[i - 1]]]
                       /\ \A i \in 0 .. Entries : f[i] \in S
            BY <1>1, <3>1, LoopRunsInside
        <3> QED BY <1>3, <3>2
    <2>2. ASSUME NEW i \in 1 .. Entries PROVE step[i][f[i - 1]] = Step(f[i - 1], i - 1)
        <3>1. i - 1 \in 0 .. Entries
            BY <1>1
        <3> HIDE DEF S, Step
        <3> QED BY <2>1, <3>1
    <2>3. \A i \in 0 .. Entries : i = 0 \/ i \in 1 .. Entries
        BY <1>1
    <2>4. Solves(f)
        <3> HIDE DEF S, Step, step
        <3> QED BY <2>1, <2>2, <2>3
    <2> HIDE DEF Solves
    <2> QED BY <2>4
<1>5. EachPde(s, table) = after[Entries]
    BY Zenon DEF Tables!ForEachPresent, EachPde
<1>6. after[0] = s /\ \A i \in 1 .. Entries : after[i] = Step(after[i - 1], i - 1)
    <2> HIDE DEF S, Step, after
    <2> QED BY <1>1, <1>4
<1>7. after[0] \in S
    BY <1>6
<1> HIDE DEF S, Step, after
<1>8. \A i \in 1 .. Entries : after[i - 1] \in S => after[i] \in S
    BY <1>2, <1>6
<1>9. \A i \in 0 .. Entries : after[i] \in S
    BY <1>1, <1>7, <1>8, LoopKeeps
<1> QED BY Zenon, <1>5, <1>6, <1>9 DEF S, Step

LEMMA EachPdeKeeps ==
    ASSUME NEW table, NEW s \in Complete(table)
    PROVE  EachPde(s, table) \in Complete(table)
<1>1. Entries \in 0 .. Entries
    BY MachineAssumption
<1> QED BY <1>1, EachPdeRuns

LEMMA ClonePdpteKeeps ==
    ASSUME NEW s \in States, NEW table \in Tables!Frame, NEW i \in Tables!Index
    PROVE  Tables!ClonePdpte(s, table, i) \in States
<1> DEFINE f == Tables!AlignedFrame(s)
           copy == Tables!CopyTarget(s, table, i)
           all == EachPde(copy, f)
<1>1. copy \in Complete(f)
    BY CopyTargetKeeps
<1>2. all \in Complete(f)
    <2> HIDE DEF f, copy
    <2> QED BY <1>1, EachPdeKeeps
<1>3. Tables!ClonePdpte(s, table, i) = Tables!Disorderly(all, s.mem[table][i].large)
    BY Zenon DEF Tables!ClonePdpte, EachPde
<1> HIDE DEF f, all
<1> QED BY <1>2, <1>3, DisorderlyKeeps DEF Complete

LEMMA EachPdpteRuns ==
    ASSUME NEW table, NEW s \in Complete(table)
    PROVE  \E after :
              /\ after[0] = s
              /\ \A i \in 1 .. Entries :
                    after[i] = IF after[i - 1].complete /\ after[i - 1].mem[table][i - 1].present
                                 THEN Tables!ClonePdpte(after[i - 1], table, i - 1) ELSE after[i - 1]
              /\ \A i \in 0 .. Entries : after[i] \in Complete(table)
              /\ EachPdpte(s, table) = after[Entries]
<1> DEFINE S == Complete(table)
           Step(t, i) == IF t.complete /\ t.mem[table][i].present
                           THEN Tables!ClonePdpte(t, table, i) ELSE t
           step == [i \in 1 .. Entries |-> [t \in S |-> Step(t, i - 1)]]
           Solves(f) == f = [i \in 0 .. Entries |-> IF i = 0 THEN s ELSE Step(f[i - 1], i - 1)]
           after == CHOOSE f : Solves(f)
<1>1. Entries \in Nat
    BY MachineAssumption
<1>2. ASSUME NEW t \in S, NEW i \in 1 .. Entries PROVE Step(t, i - 1) \in S
    <2>1. i - 1 \in Tables!Index
        BY <1>1 DEF Tables!Index
    <2>2. CASE t.complete /\ t.mem[table][i - 1].present
        <3>1. t \in States /\ table \in Tables!Frame
            BY <2>2 DEF Complete
        <3>2. Tables!ClonePdpte(t, table, i - 1) \in States
            BY <2>1, <3>1, ClonePdpteKeeps
        <3> QED BY <2>2, <3>1, <3>2 DEF Complete
    <2>3. CASE ~(t.complete /\ t.mem[table][i - 1].present)
        BY <2>3
    <2> QED BY <2>2, <2>3
<1>3. step \in [1 .. Entries -> [S -> S]]
    <2> HIDE DEF S, Step
    <2> QED BY <1>2
<1>4. Solves(after)
    <2>1. PICK f : /\ f = [i \in 0 .. Entries |-> IF i = 0 THEN s ELSE step[i][f[i - 1]]]
                   /\ \A i \in 0 .. Entries : f[i] \in S
        <3>1. s \in S
            OBVIOUS
        <3> HIDE DEF S, Step, step, Solves, after
        <3>2. \A g \in [1 .. Entries -> [S -> S]] :
                 \E f : /\ f = [i \in 0 .. Entries |-> IF i = 0 THEN s ELSE g[i][f[i - 1]]]
                       /\ \A i \in 0 .. Entries : f[i] \in S
            BY <1>1, <3>1, LoopRunsInside
        <3> QED BY <1>3, <3>2
    <2>2. ASSUME NEW i \in 1 .. Entries PROVE step[i][f[i - 1]] = Step(f[i - 1], i - 1)
        <3>1. i - 1 \in 0 .. Entries
            BY <1>1
        <3> HIDE DEF S, Step
        <3> QED BY <2>1, <3>1
    <2>3. \A i \in 0 .. Entries : i = 0 \/ i \in 1 .. Entries
        BY <1>1
    <2>4. Solves(f)
        <3> HIDE DEF S, Step, step
        <3> QED BY <2>1, <2>2, <2>3
    <2> HIDE DEF Solves
    <2> QED BY <2>4
<1>5. EachPdpte(s, table) = after[Entries]
    BY Zenon DEF Tables!ForEachPresent, EachPdpte
<1>6. after[0] = s /\ \A i \in 1 .. Entries : after[i] = Step(after[i - 1], i - 1)
    <2> HIDE DEF S, Step, after
    <2> QED BY <1>1, <1>4
<1>7. after[0] \in S
    BY <1>6
<1> HIDE DEF S, Step, after
<1>8. \A i \in 1 .. Entries : after[i - 1] \in S => after[i] \in S
    BY <1>2, <1>6
<1>9. \A i \in 0 .. Entries : after[i] \in S
    BY <1>1, <1>7, <1>8, LoopKeeps
<1> QED BY Zenon, <1>5, <1>6, <1>9 DEF S, Step

LEMMA EachPdpteKeeps ==
    ASSUME NEW table, NEW s \in Complete(table)
    PROVE  EachPdpte(s, table) \in Complete(table)
<1>1. Entries \in 0 .. Entries
    BY MachineAssumption
<1> QED BY <1>1, EachPdpteRuns

LEMMA ClonePml4eKeeps ==
    ASSUME NEW s \in States, NEW table \in Tables!Frame, NEW i \in Tables!Index
    PROVE  Tables!ClonePml4e(s, table, i) \in States
<1> DEFINE f == Tables!AlignedFrame(s)
           copy == Tables!CopyTarget(s, table, i)
<1>1. copy \in Complete(f)
    BY CopyTargetKeeps
<1>2. Tables!ClonePml4e(s, table, i) = EachPdpte(copy, f)
    BY Zenon DEF Tables!ClonePml4e, EachPdpte
<1> HIDE DEF f, copy
<1> QED BY <1>1, <1>2, EachPdpteKeeps DEF Complete

LEMMA EachPml4eRuns ==
    ASSUME NEW table, NEW s \in Complete(table)
    PROVE  \E after :
              /\ after[0] = s
              /\ \A i \in 1 .. Entries :
                    after[i] = IF after[i - 1].complete /\ after[i - 1].mem[table][i - 1].present
                                 THEN Tables!ClonePml4e(after[i - 1], table, i - 1) ELSE after[i - 1]
              /\ \A i \in 0 .. Entries : after[i] \in Complete(table)
              /\ EachPml4e(s, table) = after[Entries]
<1> DEFINE S == Complete(table)
           Step(t, i) == IF t.complete /\ t.mem[table][i].present
                           THEN Tables!ClonePml4e(t, table, i) ELSE t
           step == [i \in 1 .. Entries |-> [t \in S |-> Step(t, i - 1)]]
           Solves(f) == f = [i \in 0 .. Entries |-> IF i = 0 THEN s ELSE Step(f[i - 1], i - 1)]
           after == CHOOSE f : Solves(f)
<1>1. Entries \in Nat
    BY MachineAssumption
<1>2. ASSUME NEW t \in S, NEW i \in 1 .. Entries PROVE Step(t, i - 1) \in S
    <2>1. i - 1 \in Tables!Index
        BY <1>1 DEF Tables!Index
    <2>2. CASE t.complete /\ t.mem[table][i - 1].present
        <3>1. t \in States /\ table \in Tables!Frame
            BY <2>2 DEF Complete
        <3>2. Tables!ClonePml4e(t, table, i - 1) \in States
            BY <2>1, <3>1, ClonePml4eKeeps
        <3> QED BY <2>2, <3>1, <3>2 DEF Complete
    <2>3. CASE ~(t.complete /\ t.mem[table][i - 1].present)
        BY <2>3
    <2> QED BY <2>2, <2>3
<1>3. step \in [1 .. Entries -> [S -> S]]
    <2> HIDE DEF S, Step
    <2> QED BY <1>2
<1>4. Solves(after)
    <2>1. PICK f : /\ f = [i \in 0 .. Entries |-> IF i = 0 THEN s ELSE step[i][f[i - 1]]]
                   /\ \A i \in 0 .. Entries : f[i] \in S
        <3>1. s \in S
            OBVIOUS
        <3> HIDE DEF S, Step, step, Solves, after
        <3>2. \A g \in [1 .. Entries -> [S -> S]] :
                 \E f : /\ f = [i \in 0 .. Entries |-> IF i = 0 THEN s ELSE g[i][f[i - 1]]]
                       /\ \A i \in 0 .. Entries : f[i] \in S
            BY <1>1, <3>1, LoopRunsInside
        <3> QED BY <1>3, <3>2
    <2>2. ASSUME NEW i \in 1 .. Entries PROVE step[i][f[i - 1]] = Step(f[i - 1], i - 1)
        <3>1. i - 1 \in 0 .. Entries
            BY <1>1
        <3> HIDE DEF S, Step
        <3> QED BY <2>1, <3>1
    <2>3. \A i \in 0 .. Entries : i = 0 \/ i \in 1 .. Entries
        BY <1>1
    <2>4. Solves(f)
        <3> HIDE DEF S, Step, step
        <3> QED BY <2>1, <2>2, <2>3
    <2> HIDE DEF Solves
    <2> QED BY <2>4
<1>5. EachPml4e(s, table) = after[Entries]
    BY Zenon DEF Tables!ForEachPresent, EachPml4e
<1>6. after[0] = s /\ \A i \in 1 .. Entries : after[i] = Step(after[i - 1], i - 1)
    <2> HIDE DEF S, Step, after
    <2> QED BY <1>1, <1>4
<1>7. after[0] \in S
    BY <1>6
<1> HIDE DEF S, Step, after
<1>8. \A i \in 1 .. Entries : after[i - 1] \in S => after[i] \in S
    BY <1>2, <1>6
<1>9. \A i \in 0 .. Entries : after[i] \in S
    BY <1>1, <1>7, <1>8, LoopKeeps
<1> QED BY Zenon, <1>5, <1>6, <1>9 DEF S, Step

LEMMA EachPml4eKeeps ==
    ASSUME NEW table, NEW s \in Complete(table)
    PROVE  EachPml4e(s, table) \in Complete(table)
<1>1. Entries \in 0 .. Entries
    BY MachineAssumption
<1> QED BY <1>1, EachPml4eRuns

\* The whole copy: when it is complete, its root is a frame.
LEMMA CloneKeeps ==
    ASSUME NEW s \in States, NEW root \in Tables!Frame
    PROVE  Tables!CloneHigherHalf(s, root) \in Complete(Tables!AlignedFrame(s))
<1> DEFINE f == Tables!AlignedFrame(s)
           copy == Tables!CopyTable(s, root)
<1>1. copy \in Complete(f)
    BY CopyTableKeeps
<1>2. Tables!CloneHigherHalf(s, root) = EachPml4e(copy, f)
    BY Zenon DEF Tables!CloneHigherHalf, EachPml4e
<1> HIDE DEF f, copy
<1>3. Tables!CloneHigherHalf(s, root) \in Complete(f)
    BY <1>1, <1>2, EachPml4eKeeps
<1> QED BY <1>3 DEF f

-----------------------------------------------------------------------------
(* A program's memory.                                                     *)

LEMMA TookKeeps ==
    ASSUME NEW s \in States, NEW size \in Nat
    PROVE  Tables!Took(s, size) \in States
<1> DEFINE n == s.next + size
<1>1. s.next \in Int /\ EndFree \in Int /\ s \in States
    BY MachineAssumption DEF States
<1>2. CASE Tables!HasMemory(s, size)
    <2>1. n \in s.next .. EndFree
        BY <1>1, <1>2 DEF Tables!HasMemory
    <2>2. n \in FirstFree .. EndFree /\ GivenOnce(s.given, n)
        BY <2>1, GivenStays
    <2>3. Tables!Took(s, size) = [s EXCEPT !.next = n]
        BY <1>2 DEF Tables!Took, States
    <2> HIDE DEF n
    <2> QED BY <2>2, <2>3 DEF States
<1>3. CASE ~Tables!HasMemory(s, size)
    BY <1>3 DEF Tables!Took
<1> QED BY <1>2, <1>3

LEMMA MapProgramRuns ==
    ASSUME NEW s \in States, cr3 \in Tables!Frame, NEW address \in Nat,
           \A i \in 1 .. ProgramPages : (address \div Unit) + i - 1 \in Tables!Frame
    PROVE  \E after :
              /\ after[0] = s
              /\ \A i \in 1 .. ProgramPages :
                    after[i] = Tables!Unmap(Tables!Map4kb(after[i - 1], ProgramStart + i - 1,
                                                         (address \div Unit) + i - 1),
                                           (address \div Unit) + i - 1)
              /\ \A i \in 0 .. ProgramPages : after[i] \in States
              /\ Tables!MapProgram(s, address) = after[ProgramPages]
<1> DEFINE Step(t, i) == Tables!Unmap(Tables!Map4kb(t, ProgramStart + i - 1, (address \div Unit) + i - 1),
                                      (address \div Unit) + i - 1)
           step == [i \in 1 .. ProgramPages |-> [t \in States |-> Step(t, i)]]
           Solves(f) == f = [i \in 0 .. ProgramPages |-> IF i = 0 THEN s ELSE Step(f[i - 1], i)]
           after == CHOOSE f : Solves(f)
<1>1. ProgramPages \in Nat /\ ProgramStart \in Nat
    BY CallsAssumption
<1>2. ASSUME NEW t \in States, NEW i \in 1 .. ProgramPages PROVE Step(t, i) \in States
    <2>1. (address \div Unit) + i - 1 \in Tables!Frame /\ (address \div Unit) + i - 1 \in Nat
        BY DEF Tables!Frame
    <2>2. ProgramStart + i - 1 \in Nat
        BY <1>1
    <2>3. Tables!Map4kb(t, ProgramStart + i - 1, (address \div Unit) + i - 1) \in States
        BY <2>1, <2>2, Map4kbKeeps
    <2> QED BY <2>1, <2>3, UnmapKeeps
<1>3. step \in [1 .. ProgramPages -> [States -> States]]
    <2> HIDE DEF Step
    <2> QED BY <1>2
<1>4. Solves(after)
    <2>1. PICK f : /\ f = [i \in 0 .. ProgramPages |-> IF i = 0 THEN s ELSE step[i][f[i - 1]]]
                   /\ \A i \in 0 .. ProgramPages : f[i] \in States
        <3> HIDE DEF Step, step, Solves, after
        <3>1. \A g \in [1 .. ProgramPages -> [States -> States]] :
                 \E f : /\ f = [i \in 0 .. ProgramPages |-> IF i = 0 THEN s ELSE g[i][f[i - 1]]]
                        /\ \A i \in 0 .. ProgramPages : f[i] \in States
            BY <1>1, LoopRunsInside
        <3> QED BY <1>3, <3>1
    <2>2. ASSUME NEW i \in 1 .. ProgramPages PROVE step[i][f[i - 1]] = Step(f[i - 1], i)
        <3>1. i - 1 \in 0 .. ProgramPages
            BY <1>1
        <3> HIDE DEF Step
        <3> QED BY <2>1, <3>1
    <2>3. \A i \in 0 .. ProgramPages : i = 0 \/ i \in 1 .. ProgramPages
        BY <1>1
    <2>4. Solves(f)
        <3> HIDE DEF Step, step
        <3> QED BY <2>1, <2>2, <2>3
    <2> HIDE DEF Solves
    <2> QED BY <2>4
<1>5. Tables!MapProgram(s, address) = after[ProgramPages]
    BY Zenon DEF Tables!MapProgram
<1>6. after[0] = s /\ \A i \in 1 .. ProgramPages : after[i] = Step(after[i - 1], i)
    <2> HIDE DEF Step, after
    <2> QED BY <1>1, <1>4
<1>7. after[0] \in States
    BY <1>6
<1> HIDE DEF Step, after
<1>8. \A i \in 1 .. ProgramPages : after[i - 1] \in States => after[i] \in States
    BY <1>2, <1>6
<1>9. \A i \in 0 .. ProgramPages : after[i] \in States
    BY <1>1, <1>7, <1>8, LoopKeeps
<1> QED BY Zenon, <1>5, <1>6, <1>9 DEF Step

LEMMA MapProgramKeeps ==
    ASSUME NEW s \in States, cr3 \in Tables!Frame, NEW address \in Nat,
           \A i \in 1 .. ProgramPages : (address \div Unit) + i - 1 \in Tables!Frame
    PROVE  Tables!MapProgram(s, address) \in States
<1>1. ProgramPages \in 0 .. ProgramPages
    BY CallsAssumption
<1> QED BY <1>1, MapProgramRuns

\* The frames of a program follow each other, and none has been given before.
LEMMA GiveRun ==
    ASSUME NEW s \in States, NEW pages \in Nat, NEW n \in s.next .. EndFree,
           n = s.next + pages * Unit, NEW run,
           run = [k \in 1 .. pages |-> (s.next \div Unit) + k - 1]
    PROVE  /\ s.given \o run \in Seq(Nat) /\ GivenOnce(s.given \o run, n)
           /\ n \div Unit = (s.next \div Unit) + pages
<1>1. s.given \in Seq(Nat) /\ GivenOnce(s.given, s.next) /\ s.next \in FirstFree .. EndFree
    BY DEF States
<1>2. FirstFree \in Nat /\ EndFree \in Nat /\ Unit \in Nat \ {0}
    BY MachineAssumption
<1>3. s.next \in Nat
    BY <1>1, <1>2
<1>4. n \div Unit = (s.next \div Unit) + pages
    <2>1. s.next + Unit * pages = n
        <3> DEFINE pu == pages * Unit
                   up == Unit * pages
        <3>1. pu = up
            BY <1>2
        <3>2. n = s.next + pu
            OBVIOUS
        <3> HIDE DEF pu, up
        <3>3. s.next + up = n
            BY <3>1, <3>2
        <3> QED BY <3>3 DEF up
    <2>2. (s.next + Unit * pages) \div Unit = (s.next \div Unit) + pages
        BY <1>2, <1>3, NextQuotient
    <2> QED BY <2>1, <2>2
<1>5. /\ s.next \div Unit \in Nat /\ n \div Unit \in Nat
      /\ FirstFree \div Unit \in Nat /\ FirstFree \div Unit <= s.next \div Unit
      /\ GivenOnce(s.given, n)
    BY GivenStays
<1> DEFINE first == s.next \div Unit
           end == n \div Unit
           low == FirstFree \div Unit
           g == s.given
           h == g \o run
<1>6. \A k \in DOMAIN g : g[k] \in low .. first - 1
    BY <1>1 DEF GivenOnce
<1>7. \A j, k \in DOMAIN g : g[j] = g[k] => j = k
    BY <1>1 DEF GivenOnce
<1>8. /\ first \in Nat /\ end = first + pages /\ low \in Nat /\ low <= first /\ g \in Seq(Nat)
      /\ run = [k \in 1 .. pages |-> first + k - 1]
    BY <1>1, <1>4, <1>5
<1> HIDE DEF first, end, low, g
<1>9. run \in Seq(Nat) /\ Len(run) = pages /\ \A k \in 1 .. pages : run[k] = first + k - 1
    <2>1. \A k \in 1 .. pages : first + k - 1 \in Nat
        BY <1>8
    <2> SUFFICES ASSUME NEW r, r = [k \in 1 .. pages |-> first + k - 1]
                 PROVE  r \in Seq(Nat) /\ Len(r) = pages /\ \A k \in 1 .. pages : r[k] = first + k - 1
        BY Zenon, <1>8
    <2>2. r \in [1 .. pages -> Nat]
        BY <2>1
    <2>3. r \in Seq(Nat)
        BY <2>2
    <2>4. Len(r) = pages
        BY <2>2
    <2> QED BY <2>3, <2>4
<1>10. /\ h \in Seq(Nat) /\ DOMAIN h = 1 .. Len(g) + pages
       /\ \A k \in DOMAIN h : h[k] = IF k \in 1 .. Len(g) THEN g[k] ELSE first + (k - Len(g)) - 1
       /\ DOMAIN g = 1 .. Len(g) /\ Len(g) \in Nat
    BY <1>8, <1>9
<1> HIDE DEF h
<1> DEFINE l == Len(g)
<1>11. l \in Nat /\ DOMAIN g = 1 .. l /\ DOMAIN h = 1 .. l + pages
       /\ \A k \in DOMAIN h : h[k] = IF k \in 1 .. l THEN g[k] ELSE first + (k - l) - 1
    BY <1>10
<1> HIDE DEF l
<1>12. ASSUME NEW k \in DOMAIN h PROVE h[k] \in low .. end - 1
    <2>1. CASE k \in 1 .. l
        BY <1>6, <1>8, <1>11, <2>1
    <2>2. CASE k \notin 1 .. l
        BY <1>8, <1>11, <2>2
    <2> QED BY <2>1, <2>2
<1>13. ASSUME NEW j \in DOMAIN h, NEW k \in DOMAIN h, h[j] = h[k] PROVE j = k
    <2>1. CASE j \in 1 .. l /\ k \in 1 .. l
        BY <1>7, <1>11, <1>13, <2>1
    <2>2. CASE j \in 1 .. l /\ k \notin 1 .. l
        BY <1>6, <1>8, <1>11, <1>13, <2>2
    <2>3. CASE j \notin 1 .. l /\ k \in 1 .. l
        BY <1>6, <1>8, <1>11, <1>13, <2>3
    <2>4. CASE j \notin 1 .. l /\ k \notin 1 .. l
        BY <1>8, <1>11, <1>13, <2>4
    <2> QED BY <2>1, <2>2, <2>3, <2>4
<1>14. GivenOnce(h, n)
    BY <1>12, <1>13 DEF GivenOnce, low, end
<1> QED BY <1>4, <1>10, <1>14 DEF h, g

\* What init_user_program_memory takes: the frames of the program and one for its
\* stack.
ProgramTook(s) == Tables!Took(s, ProgramPages * Unit)
ProgramFits(s) ==
    Tables!HasMemory(s, ProgramPages * Unit) /\ Tables!HasMemory(ProgramTook(s), Unit)
ProgramStack(s) == ProgramTook(s).next \div Unit
ProgramTaken(s) ==
    [Tables!Took(ProgramTook(s), Unit) EXCEPT
        !.given = @ \o [k \in 1 .. ProgramPages |-> (s.next \div Unit) + k - 1]
                    \o <<ProgramStack(s)>>]

LEMMA InitUserProgramIs ==
    ASSUME NEW s
    PROVE  Tables!InitUserProgram(s) =
              IF ProgramFits(s)
                THEN Tables!Map4kb(Tables!MapProgram(ProgramTaken(s), s.next),
                                   StackPage, ProgramStack(s))
                ELSE Tables!Took(ProgramTook(s), Unit)
BY Zenon DEF Tables!InitUserProgram, ProgramFits, ProgramTook, ProgramStack, ProgramTaken

LEMMA ProgramTakenIs ==
    ASSUME NEW s \in States, ProgramFits(s)
    PROVE  /\ ProgramTaken(s) \in States /\ ProgramStack(s) \in Tables!Frame
           /\ s.next \in Nat
           /\ \A i \in 1 .. ProgramPages : (s.next \div Unit) + i - 1 \in Tables!Frame
           /\ \E n \in s.next .. EndFree, g \in Seq(Nat) :
                 ProgramTaken(s) = [s EXCEPT !.next = n, !.given = g]
<1> DEFINE program == ProgramPages * Unit
           s1 == Tables!Took(s, program)
           s2 == Tables!Took(s1, Unit)
           stack == s1.next \div Unit
           run == [k \in 1 .. ProgramPages |-> (s.next \div Unit) + k - 1]
           s3 == [s2 EXCEPT !.given = @ \o run \o <<stack>>]
           fits == Tables!HasMemory(s, program) /\ Tables!HasMemory(s1, Unit)
<1>1. ProgramPages \in Nat /\ Unit \in Nat \ {0} /\ program \in Nat
    BY MachineAssumption, CallsAssumption
<1>2. fits /\ ProgramTaken(s) = s3 /\ ProgramStack(s) = stack
    BY DEF ProgramFits, ProgramTaken, ProgramTook, ProgramStack
<1> DEFINE n == s.next + program
           m == n + Unit
           g == s.given \o run
           t == [s EXCEPT !.next = n, !.given = g]
           first == s.next \div Unit
<1>3. s1 = [s EXCEPT !.next = n] /\ s1.next = n
    BY <1>2 DEF Tables!Took, States
<1>4. s.next \in Nat /\ s.next \in FirstFree .. EndFree /\ EndFree \in Nat /\ FirstFree \in Nat
    BY MachineAssumption DEF States
<1>5. n \in s.next .. EndFree
    <2> HIDE DEF program
    <2> QED BY <1>1, <1>4, <1>2 DEF Tables!HasMemory
<1>6. g \in Seq(Nat) /\ GivenOnce(g, n) /\ n \div Unit = first + ProgramPages
    BY <1>1, <1>5, GiveRun
<1>7. t \in States /\ t.next = n /\ t.given = g
    <2> HIDE DEF n, g
    <2> QED BY <1>5, <1>6, GivenStays DEF States
<1> HIDE DEF program, run
<1>8. Tables!HasMemory(t, Unit)
    <2> HIDE DEF s1, t
    <2> QED BY <1>3, <1>7, <1>2 DEF Tables!HasMemory
<1>9. m \in n .. EndFree /\ stack \in stack .. (m \div Unit) - 1 /\ stack \in Tables!Frame
    <2> HIDE DEF s1, t, n
    <2> QED BY <1>3, <1>7, <1>8, UnitTaken
<1>10. Append(g, stack) \in Seq(Nat) /\ GivenOnce(Append(g, stack), m)
    <2> HIDE DEF s1, t, n, m, g
    <2> QED BY <1>3, <1>7, <1>9, GiveOne
<1>11. g \o <<stack>> = Append(g, stack)
    <2> HIDE DEF g
    <2> QED BY <1>6, <1>9
<1>12. s3 = [s EXCEPT !.next = m, !.given = g \o <<stack>>]
    <2>1. s2 = [s EXCEPT !.next = m]
        BY <1>3, <1>2 DEF Tables!Took, States
    <2> HIDE DEF s2, stack, m
    <2> QED BY <2>1 DEF States
<1>13. s3 \in States
    <2>1. m \in FirstFree .. EndFree
        <3> HIDE DEF m, n
        <3> QED BY <1>4, <1>5, <1>9
    <2> HIDE DEF m, g, s3, stack
    <2> QED BY <1>10, <1>11, <1>12, <2>1 DEF States
<1>14. \A i \in 1 .. ProgramPages : first + i - 1 \in Tables!Frame
    <2>1. stack = first + ProgramPages
        BY <1>3, <1>6
    <2>2. first \in Nat
        BY <1>1, <1>4
    <2> HIDE DEF stack, first
    <2> QED BY <1>1, <1>9, <2>1, <2>2, MachineAssumption DEF Tables!Frame
<1> HIDE DEF s3
<1>15. m \in s.next .. EndFree /\ g \o <<stack>> \in Seq(Nat)
    <2>1. m \in s.next .. EndFree
        <3> HIDE DEF m, n
        <3> QED BY <1>4, <1>5, <1>9
    <2> QED BY <1>10, <1>11, <2>1
<1> DEFINE h == g \o <<stack>>
<1>16. \E x \in s.next .. EndFree, y \in Seq(Nat) : s3 = [s EXCEPT !.next = x, !.given = y]
    <2>1. m \in s.next .. EndFree /\ h \in Seq(Nat) /\ s3 = [s EXCEPT !.next = m, !.given = h]
        BY <1>12, <1>15
    <2> HIDE DEF m, h, s3
    <2> QED BY <2>1
<1> HIDE DEF s3, stack
<1> QED BY <1>2, <1>4, <1>9, <1>13, <1>14, <1>16

LEMMA InitUserProgramKeeps ==
    ASSUME NEW s \in States, cr3 \in Tables!Frame
    PROVE  Tables!InitUserProgram(s) \in States
<1>1. ProgramPages * Unit \in Nat /\ Unit \in Nat /\ StackPage \in Nat
    BY MachineAssumption, CallsAssumption
<1>2. Tables!Took(ProgramTook(s), Unit) \in States
    BY <1>1, TookKeeps DEF ProgramTook
<1>3. ASSUME ProgramFits(s)
      PROVE  Tables!Map4kb(Tables!MapProgram(ProgramTaken(s), s.next), StackPage, ProgramStack(s))
                \in States
    <2>1. Tables!MapProgram(ProgramTaken(s), s.next) \in States
        BY <1>3, ProgramTakenIs, MapProgramKeeps
    <2> QED BY <1>1, <1>3, <2>1, ProgramTakenIs, Map4kbKeeps
<1> QED BY <1>2, <1>3, InitUserProgramIs

-----------------------------------------------------------------------------
(* The theorems about paging.                                              *)

\* Between the calls: memory holds tables of entries, CR3 and the remembered root
\* are frames, and what was given was given once.
TablesInv ==
    /\ Tables!Now \in States
    /\ cr3 \in Tables!Frame
    /\ bootboot_paging \in Tables!Frame

LEMMA NowIs ==
    ASSUME Tables!Now \in States
    PROVE  /\ mem \in Memories /\ next \in FirstFree .. EndFree /\ given \in Seq(Nat)
           /\ orderly \in BOOLEAN /\ GivenOnce(given, next)
BY DEF Tables!Now, States

LEMMA TablesInit == Tables!Init => TablesInv
<1> SUFFICES ASSUME Tables!Init PROVE TablesInv
    OBVIOUS
<1>1. 0 \in Tables!Frame
    BY MachineAssumption DEF Tables!Frame
<1>2. Tables!NoTable \in [Tables!Index -> Tables!Entry]
    BY <1>1 DEF Tables!NoTable, Tables!Zero, Tables!Entry
<1>3. mem \in Memories
    BY <1>2, LoaderAssumption DEF Tables!Init, Memories
<1>4. next \in FirstFree .. EndFree
    BY MachineAssumption DEF Tables!Init
<1>5. given \in Seq(Nat) /\ GivenOnce(given, next)
    BY DEF Tables!Init, GivenOnce
<1>6. Tables!Now \in States
    BY <1>3, <1>4, <1>5 DEF Tables!Now, Tables!Init, States
<1> QED BY <1>1, <1>6, LoaderAssumption DEF Tables!Init, Tables!NULL, TablesInv

\* A call leads to one of the states, whose root is a frame.
LEMMA BecomeKeeps ==
    ASSUME NEW s \in States, NEW root \in Tables!Frame, Tables!Become(s, root)
    PROVE  (Tables!Now \in States)' /\ cr3' \in Tables!Frame
<1>1. /\ mem' = s.mem /\ next' = s.next /\ given' = s.given /\ orderly' = s.orderly
      /\ cr3' = root
    BY DEF Tables!Become
<1>2. s.mem \in Memories /\ s.next \in FirstFree .. EndFree /\ s.given \in Seq(Nat)
      /\ s.orderly \in BOOLEAN /\ GivenOnce(s.given, s.next)
    BY DEF States
<1> QED BY <1>1, <1>2 DEF Tables!Now, States

LEMMA TablesStep == TablesInv /\ [Tables!Next]_(Tables!vars) => TablesInv'
<1> SUFFICES ASSUME TablesInv, [Tables!Next]_(Tables!vars) PROVE TablesInv'
    OBVIOUS
<1> DEFINE now == Tables!Now
<1>1. now \in States /\ cr3 \in Tables!Frame /\ bootboot_paging \in Tables!Frame
    BY DEF TablesInv
<1> HIDE DEF now
<1>2. ASSUME NEW d \in Devices, Tables!MapDevice(d) PROVE TablesInv'
    <2>1. d.page \in Nat /\ d.frame \in Tables!Frame
        BY CallsAssumption
    <2>2. Tables!Map4kb(now, d.page, d.frame) \in States
        BY <1>1, <2>1, Map4kbKeeps
    <2> QED BY <1>1, <1>2, <2>2, BecomeKeeps DEF TablesInv, Tables!MapDevice, now
<1>3. ASSUME NEW d \in Mappings, Tables!CallMap(d) PROVE TablesInv'
    <2>1. d.page \in Nat /\ d.frame \in Tables!Frame
        BY CallsAssumption
    <2>2. Tables!Map4kb(now, d.page, d.frame) \in States
        BY <1>1, <2>1, Map4kbKeeps
    <2> QED BY <1>1, <1>3, <2>2, BecomeKeeps DEF TablesInv, Tables!CallMap, now
<1>4. ASSUME NEW d \in LargeMappings, Tables!CallMapLarge(d) PROVE TablesInv'
    <2>1. d.page \in Nat /\ Tables!WithLargeBit(d.frame) \in Tables!Frame
        BY CallsAssumption
    <2>2. Tables!Map2mb(now, d.page, d.frame) \in States
        BY <1>1, <2>1, Map2mbKeeps
    <2> QED BY <1>1, <1>4, <2>2, BecomeKeeps DEF TablesInv, Tables!CallMapLarge, now
<1>5. ASSUME NEW p \in Unmappings, Tables!CallUnmap(p) PROVE TablesInv'
    <2>1. Tables!Unmap(now, p) \in States
        BY <1>1, CallsAssumption, UnmapKeeps
    <2> QED BY <1>1, <1>5, <2>1, BecomeKeeps DEF TablesInv, Tables!CallUnmap, now
<1>6. CASE Tables!InitUserProgramMemory
    <2>1. Tables!InitUserProgram(now) \in States
        BY <1>1, InitUserProgramKeeps
    <2> QED BY <1>1, <1>6, <2>1, BecomeKeeps DEF TablesInv, Tables!InitUserProgramMemory, now
<1>7. ASSUME NEW size \in OtherSizes, Tables!OtherAllocation(size) PROVE TablesInv'
    <2>1. Tables!Took(now, size) \in States
        BY <1>1, CallsAssumption, TookKeeps
    <2> QED BY <1>1, <1>7, <2>1, BecomeKeeps DEF TablesInv, Tables!OtherAllocation, now
<1>8. CASE Tables!NewPaging
    <2> DEFINE root == IF bootboot_paging = Tables!NULL THEN cr3 ELSE bootboot_paging
               s == Tables!CloneHigherHalf(now, root)
               new == IF s.complete THEN Tables!AlignedFrame(now) ELSE cr3
    <2>1. root \in Tables!Frame
        BY <1>1
    <2>2. bootboot_paging' = root /\ Tables!Become(s, new)
        BY Zenon, <1>8 DEF Tables!NewPaging, now
    <2>3. s \in Complete(Tables!AlignedFrame(now))
        <3> HIDE DEF root
        <3> QED BY <1>1, <2>1, CloneKeeps
    <2> HIDE DEF root, s
    <2>4. s \in States /\ new \in Tables!Frame
        BY <1>1, <2>3 DEF Complete
    <2> HIDE DEF new
    <2> QED BY <2>1, <2>2, <2>4, BecomeKeeps DEF TablesInv
<1>9. CASE UNCHANGED Tables!vars
    BY <1>1, <1>9 DEF TablesInv, Tables!vars, Tables!Now, now
<1> QED BY <1>2, <1>3, <1>4, <1>5, <1>6, <1>7, <1>8, <1>9 DEF Tables!Next

LEMMA TablesInvariant == Tables!Spec => []TablesInv
BY TablesInit, TablesStep, PTL DEF Tables!Spec

\* No frame is given twice, and none that the loader's tables take.
LEMMA GivenOnceImplies == TablesInv => Tables!FramesGivenOnce
<1> SUFFICES ASSUME TablesInv PROVE Tables!FramesGivenOnce
    OBVIOUS
<1>1. given \in Seq(Nat) /\ GivenOnce(given, next) /\ next \in FirstFree .. EndFree
    BY NowIs DEF TablesInv
<1>2. next \div Unit <= EndFree \div Unit /\ next \div Unit \in Nat /\ EndFree \div Unit \in Nat
      /\ FirstFree \div Unit \in Nat
    <2>1. next \in Nat /\ EndFree \in Nat /\ next <= EndFree /\ Unit \in Nat \ {0} /\ FirstFree \in Nat
        BY <1>1, MachineAssumption
    <2> QED BY <2>1, QuotientsFollow
<1>3. Tables!IsInjective(given)
    BY <1>1 DEF GivenOnce, Tables!IsInjective
<1>4. ASSUME NEW f \in Tables!ToSet(given) PROVE f \notin DOMAIN LoaderTables
    <2>1. PICK k \in DOMAIN given : f = given[k]
        BY DEF Tables!ToSet
    <2>2. f \in FirstFree \div Unit .. (next \div Unit) - 1
        BY <1>1, <2>1 DEF GivenOnce
    <2> QED BY <1>2, <2>2, LoaderAssumption
<1> QED BY <1>3, <1>4 DEF Tables!FramesGivenOnce

LEMMA TranslateImplies == TablesInv => Tables!TranslateIsWalk
BY NowIs, TranslateAgrees, CallsAssumption DEF TablesInv

-----------------------------------------------------------------------------
(* Both systems side by side.                                              *)

\* A behaviour of MCMemory is one of the block manager and one of paging.
THEOREM MemoryIsPmm == AllSpec => Spec
<1>1. AllInit => Init
    BY DEF AllInit
<1>2. [AllNext]_<<active, vars, tableVars>> => [Next]_vars
    BY DEF AllNext
<1> QED BY <1>1, <1>2, PTL DEF AllSpec, Spec

THEOREM MemoryIsPaging == AllSpec => Tables!Spec
<1>1. AllInit => Tables!Init
    BY DEF AllInit
<1>2. [AllNext]_<<active, vars, tableVars>> => [Tables!Next]_(Tables!vars)
    BY DEF AllNext, tableVars, Tables!vars
<1> QED BY <1>1, <1>2, PTL DEF AllSpec, Tables!Spec

\* No two tables, and no table and a program or the loader's tables, share a
\* frame, although what allocate_memory returns is not aligned to pages.
THEOREM MemoryFramesGivenOnce == AllSpec => []FramesGivenOnce
<1>1. TablesInv => FramesGivenOnce
    BY GivenOnceImplies DEF FramesGivenOnce
<1> QED BY <1>1, MemoryIsPaging, TablesInvariant, PTL

\* translate_virtual_to_physical finds what the processor's walk finds, on
\* whatever the calls have made of the tables.
THEOREM MemoryTranslateIsWalk == AllSpec => []TranslateIsWalk
<1>1. TablesInv => TranslateIsWalk
    BY TranslateImplies DEF TranslateIsWalk
<1> QED BY <1>1, MemoryIsPaging, TablesInvariant, PTL

-----------------------------------------------------------------------------
(* The tables that a walk passes.                                          *)

\* The table of a level that the walk gets to, and whether it does.
TableOf(m, root, page, level) ==
    CASE level = 4 -> root
      [] level = 3 -> EntryOf4(m, root, page).frame
      [] level = 2 -> EntryOf3(m, root, page).frame
      [] level = 1 -> EntryOf2(m, root, page).frame

NamesTable(e) == e.present /\ ~e.large

Gets(m, root, page, level) ==
    /\ level <= 3 => EntryOf4(m, root, page).present
    /\ level <= 2 => NamesTable(EntryOf3(m, root, page))
    /\ level <= 1 => NamesTable(EntryOf2(m, root, page))

LEMMA TableOfIs ==
    ASSUME NEW m, NEW root, NEW page
    PROVE  /\ TableOf(m, root, page, 4) = root
           /\ TableOf(m, root, page, 3) = EntryOf4(m, root, page).frame
           /\ TableOf(m, root, page, 2) = EntryOf3(m, root, page).frame
           /\ TableOf(m, root, page, 1) = EntryOf2(m, root, page).frame
           /\ EntryOf4(m, root, page) = m[TableOf(m, root, page, 4)][Tables!At(page, 4)]
           /\ EntryOf3(m, root, page) = m[TableOf(m, root, page, 3)][Tables!At(page, 3)]
           /\ EntryOf2(m, root, page) = m[TableOf(m, root, page, 2)][Tables!At(page, 2)]
           /\ EntryOf1(m, root, page) = m[TableOf(m, root, page, 1)][Tables!At(page, 1)]
<1>1. /\ TableOf(m, root, page, 4) = root
      /\ TableOf(m, root, page, 3) = EntryOf4(m, root, page).frame
      /\ TableOf(m, root, page, 2) = EntryOf3(m, root, page).frame
      /\ TableOf(m, root, page, 1) = EntryOf2(m, root, page).frame
    BY DEF TableOf
<1> QED BY <1>1 DEF EntryOf4, EntryOf3, EntryOf2, EntryOf1

SameLooks(m, n, root, page) ==
    \A level \in 1 .. 4 : Gets(m, root, page, level) =>
        n[TableOf(m, root, page, level)][Tables!At(page, level)]
           = m[TableOf(m, root, page, level)][Tables!At(page, level)]

\* A walk finds the same when the entries it looks at are the same.
LEMMA SameEntries ==
    ASSUME NEW m, NEW n, NEW root, NEW page, SameLooks(m, n, root, page)
    PROVE  /\ WalkedTo(n, root, page) = WalkedTo(m, root, page)
           /\ \A level \in 1 .. 4 : Gets(m, root, page, level) =>
                 /\ Gets(n, root, page, level)
                 /\ TableOf(n, root, page, level) = TableOf(m, root, page, level)
<1> DEFINE e4 == EntryOf4(m, root, page)
           e3 == EntryOf3(m, root, page)
           e2 == EntryOf2(m, root, page)
           e1 == EntryOf1(m, root, page)
           f4 == EntryOf4(n, root, page)
           f3 == EntryOf3(n, root, page)
           f2 == EntryOf2(n, root, page)
           f1 == EntryOf1(n, root, page)
<1>1. f4 = e4
    <2>1. Gets(m, root, page, 4)
        BY DEF Gets
    <2>2. 4 \in 1 .. 4
        OBVIOUS
    <2>3. n[TableOf(m, root, page, 4)][Tables!At(page, 4)] = m[TableOf(m, root, page, 4)][Tables!At(page, 4)]
        BY <2>1, <2>2 DEF SameLooks
    <2> QED BY <2>3, TableOfIs
<1>2. e4.present => f3 = e3
    <2>1. SUFFICES ASSUME e4.present PROVE f3 = e3
        OBVIOUS
    <2>2. Gets(m, root, page, 3) /\ 3 \in 1 .. 4
        BY <2>1 DEF Gets
    <2>3. n[TableOf(m, root, page, 3)][Tables!At(page, 3)] = m[TableOf(m, root, page, 3)][Tables!At(page, 3)]
        BY <2>2 DEF SameLooks
    <2>4. TableOf(n, root, page, 3) = TableOf(m, root, page, 3)
        BY <1>1, TableOfIs
    <2> QED BY <2>3, <2>4, TableOfIs
<1>3. e4.present /\ NamesTable(e3) => f2 = e2
    <2>1. SUFFICES ASSUME e4.present, NamesTable(e3) PROVE f2 = e2
        OBVIOUS
    <2>2. Gets(m, root, page, 2) /\ 2 \in 1 .. 4
        BY <2>1 DEF Gets
    <2>3. n[TableOf(m, root, page, 2)][Tables!At(page, 2)] = m[TableOf(m, root, page, 2)][Tables!At(page, 2)]
        BY <2>2 DEF SameLooks
    <2>4. TableOf(n, root, page, 2) = TableOf(m, root, page, 2)
        BY <1>2, <2>1, TableOfIs
    <2> QED BY <2>3, <2>4, TableOfIs
<1>4. e4.present /\ NamesTable(e3) /\ NamesTable(e2) => f1 = e1
    <2>1. SUFFICES ASSUME e4.present, NamesTable(e3), NamesTable(e2) PROVE f1 = e1
        OBVIOUS
    <2>2. Gets(m, root, page, 1) /\ 1 \in 1 .. 4
        BY <2>1 DEF Gets
    <2>3. n[TableOf(m, root, page, 1)][Tables!At(page, 1)] = m[TableOf(m, root, page, 1)][Tables!At(page, 1)]
        BY <2>2 DEF SameLooks
    <2>4. TableOf(n, root, page, 1) = TableOf(m, root, page, 1)
        BY <1>3, <2>1, TableOfIs
    <2> QED BY <2>3, <2>4, TableOfIs
<1>5. WalkedTo(m, root, page) =
         IF ~e4.present \/ ~e3.present THEN Tables!Unmapped
         ELSE IF e3.large THEN InLarge(e3, 3, page)
         ELSE IF ~e2.present THEN Tables!Unmapped
         ELSE IF e2.large THEN InLarge(e2, 2, page)
         ELSE IF e1.present THEN e1.frame
         ELSE Tables!Unmapped
    BY Zenon DEF WalkedTo
<1>6. WalkedTo(n, root, page) =
         IF ~f4.present \/ ~f3.present THEN Tables!Unmapped
         ELSE IF f3.large THEN InLarge(f3, 3, page)
         ELSE IF ~f2.present THEN Tables!Unmapped
         ELSE IF f2.large THEN InLarge(f2, 2, page)
         ELSE IF f1.present THEN f1.frame
         ELSE Tables!Unmapped
    BY Zenon DEF WalkedTo
<1>7. ASSUME NEW level \in 1 .. 4, Gets(m, root, page, level)
      PROVE  /\ Gets(n, root, page, level)
             /\ TableOf(n, root, page, level) = TableOf(m, root, page, level)
    <2>1. Gets(n, root, page, level)
        BY <1>1, <1>2, <1>3, <1>7 DEF Gets
    <2>2. /\ level <= 3 => e4.present
          /\ level <= 2 => NamesTable(e3)
          /\ level <= 1 => NamesTable(e2)
        BY <1>7 DEF Gets
    <2>3. level = 4 \/ level = 3 \/ level = 2 \/ level = 1
        OBVIOUS
    <2> HIDE DEF e4, e3, e2, e1, f4, f3, f2, f1
    <2>4. /\ TableOf(m, root, page, 4) = root /\ TableOf(n, root, page, 4) = root
          /\ TableOf(m, root, page, 3) = e4.frame /\ TableOf(n, root, page, 3) = f4.frame
          /\ TableOf(m, root, page, 2) = e3.frame /\ TableOf(n, root, page, 2) = f3.frame
          /\ TableOf(m, root, page, 1) = e2.frame /\ TableOf(n, root, page, 1) = f2.frame
        BY TableOfIs DEF e4, e3, e2, e1, f4, f3, f2, f1
    <2> QED BY <1>1, <1>2, <1>3, <2>1, <2>2, <2>3, <2>4
<1> HIDE DEF e4, e3, e2, e1, f4, f3, f2, f1
<1>8. WalkedTo(n, root, page) = WalkedTo(m, root, page)
    BY <1>1, <1>2, <1>3, <1>4, <1>5, <1>6 DEF NamesTable
<1> QED BY <1>7, <1>8

-----------------------------------------------------------------------------
(* The shape of the tables.                                                *)

\* The level of each frame that is a table, 0 of the others.
Levels == [Tables!Frame -> 0 .. 4]

Names(m, lev, f, i) == lev[f] >= 2 /\ NamesTable(m[f][i])

\* An entry names a table of the next level, and no other entry names the same
\* one, those of pending apart; large pages are of level 2 only.
Forest(m, lev, pending) ==
    /\ \A f \in Tables!Frame, i \in Tables!Index :
          lev[f] >= 3 /\ m[f][i].present => ~m[f][i].large
    /\ \A f \in Tables!Frame, i \in Tables!Index :
          Names(m, lev, f, i) => lev[m[f][i].frame] = lev[f] - 1
    /\ \A f, g \in Tables!Frame, i, j \in Tables!Index :
          /\ Names(m, lev, f, i) /\ <<f, i>> \notin pending
          /\ Names(m, lev, g, j) /\ <<g, j>> \notin pending
          /\ m[f][i].frame = m[g][j].frame
          => f = g /\ i = j

\* The walk goes from level to level.
LEMMA WalkLevels ==
    ASSUME NEW m \in Memories, NEW lev \in Levels, NEW pending, Forest(m, lev, pending),
           NEW root \in Tables!Frame, lev[root] = 4, NEW page \in Nat
    PROVE  \A level \in 1 .. 4 :
              /\ TableOf(m, root, page, level) \in Tables!Frame
              /\ Gets(m, root, page, level) => lev[TableOf(m, root, page, level)] = level
              /\ Gets(m, root, page, level) /\ level # 1
                 /\ NamesTable(m[TableOf(m, root, page, level)][Tables!At(page, level)])
                    => Gets(m, root, page, level - 1)
<1> DEFINE e4 == EntryOf4(m, root, page)
           e3 == EntryOf3(m, root, page)
           e2 == EntryOf2(m, root, page)
           T(level) == TableOf(m, root, page, level)
           A(level) == Tables!At(page, level)
<1>1. e4 \in Tables!Entry /\ e3 \in Tables!Entry /\ e2 \in Tables!Entry
    BY EntryTypes
<1>2. A(4) \in Tables!Index /\ A(3) \in Tables!Index /\ A(2) \in Tables!Index
    BY IndexTypes
<1>3. /\ T(4) = root /\ T(3) = e4.frame /\ T(2) = e3.frame /\ T(1) = e2.frame
      /\ e4 = m[T(4)][A(4)] /\ e3 = m[T(3)][A(3)] /\ e2 = m[T(2)][A(2)]
    BY TableOfIs
<1> HIDE DEF e4, e3, e2, T, A
<1>4. T(4) \in Tables!Frame /\ T(3) \in Tables!Frame /\ T(2) \in Tables!Frame /\ T(1) \in Tables!Frame
    BY <1>1, <1>3 DEF Tables!Entry
<1>5. \A f \in Tables!Frame, i \in Tables!Index :
          /\ lev[f] >= 3 /\ m[f][i].present => ~m[f][i].large
          /\ lev[f] >= 2 /\ NamesTable(m[f][i]) => lev[m[f][i].frame] = lev[f] - 1
    BY DEF Forest, Names
<1>6. e4.present => lev[T(3)] = 3
    <2>1. lev[T(4)] = 4
        BY <1>3
    <2>2. e4.present => ~e4.large
        BY <1>2, <1>3, <1>4, <1>5, <2>1
    <2>3. NamesTable(e4) => lev[e4.frame] = 4 - 1
        BY <1>2, <1>3, <1>4, <1>5, <2>1
    <2> QED BY <1>3, <2>2, <2>3 DEF NamesTable
<1>7. e4.present /\ NamesTable(e3) => lev[T(2)] = 2
    BY <1>2, <1>3, <1>4, <1>5, <1>6
<1>8. e4.present /\ NamesTable(e3) /\ NamesTable(e2) => lev[T(1)] = 1
    BY <1>2, <1>3, <1>4, <1>5, <1>7
<1>9. /\ Gets(m, root, page, 3) <=> e4.present
      /\ Gets(m, root, page, 2) <=> e4.present /\ NamesTable(e3)
      /\ Gets(m, root, page, 1) <=> e4.present /\ NamesTable(e3) /\ NamesTable(e2)
    BY DEF Gets, e4, e3, e2
<1>10. ASSUME NEW level \in 1 .. 4
       PROVE  /\ T(level) \in Tables!Frame
              /\ Gets(m, root, page, level) => lev[T(level)] = level
              /\ Gets(m, root, page, level) /\ level # 1 /\ NamesTable(m[T(level)][A(level)])
                    => Gets(m, root, page, level - 1)
    <2>1. CASE level = 4
        BY <1>3, <1>4, <1>9, <2>1 DEF NamesTable
    <2>2. CASE level = 3
        BY <1>3, <1>4, <1>6, <1>9, <2>2
    <2>3. CASE level = 2
        BY <1>3, <1>4, <1>7, <1>9, <2>3
    <2>4. CASE level = 1
        BY <1>4, <1>8, <1>9, <2>4
    <2> QED BY <2>1, <2>2, <2>3, <2>4
<1> QED BY <1>10 DEF T, A

\* Two walks that get to the same table start at one root and have the same
\* indexes above.
LEMMA PathUnique ==
    ASSUME NEW m \in Memories, NEW lev \in Levels, Forest(m, lev, {}),
           NEW r \in Tables!Frame, lev[r] = 4, NEW p \in Nat,
           NEW q \in Tables!Frame, lev[q] = 4, NEW u \in Nat,
           NEW level \in 1 .. 4, Gets(m, r, p, level), Gets(m, q, u, level),
           TableOf(m, r, p, level) = TableOf(m, q, u, level)
    PROVE  r = q /\ \A above \in level + 1 .. 4 : Tables!At(p, above) = Tables!At(u, above)
<1> DEFINE S(l) == TableOf(m, r, p, l)
           T(l) == TableOf(m, q, u, l)
           I(l) == Tables!At(p, l)
           J(l) == Tables!At(u, l)
<1>1. \A l \in 1 .. 4 : /\ S(l) \in Tables!Frame /\ T(l) \in Tables!Frame
                        /\ I(l) \in Tables!Index /\ J(l) \in Tables!Index
                        /\ Gets(m, r, p, l) => lev[S(l)] = l
                        /\ Gets(m, q, u, l) => lev[T(l)] = l
    BY WalkLevels, IndexTypes
<1>2. ASSUME NEW l \in 2 .. 4, Gets(m, r, p, l - 1), Gets(m, q, u, l - 1), S(l - 1) = T(l - 1)
      PROVE  S(l) = T(l) /\ I(l) = J(l) /\ Gets(m, r, p, l) /\ Gets(m, q, u, l)
    <2>1. Gets(m, r, p, l) /\ Gets(m, q, u, l)
        BY <1>2 DEF Gets
    <2>2. l \in 1 .. 4 /\ l - 1 \in 1 .. 4 /\ l >= 2
        OBVIOUS
    <2>3. lev[S(l)] = l /\ lev[T(l)] = l
        BY <1>1, <2>1, <2>2
    <2>4. \A root, page : Gets(m, root, page, l - 1) /\ (l = 4 => lev[root] = 4 /\ root \in Tables!Frame /\ Tables!At(page, 4) \in Tables!Index) =>
             /\ m[TableOf(m, root, page, l)][Tables!At(page, l)].frame = TableOf(m, root, page, l - 1)
             /\ NamesTable(m[TableOf(m, root, page, l)][Tables!At(page, l)])
        <3>1. SUFFICES ASSUME NEW root, NEW page, Gets(m, root, page, l - 1),
                              l = 4 => lev[root] = 4 /\ root \in Tables!Frame /\ Tables!At(page, 4) \in Tables!Index
                       PROVE  /\ m[TableOf(m, root, page, l)][Tables!At(page, l)].frame = TableOf(m, root, page, l - 1)
                              /\ NamesTable(m[TableOf(m, root, page, l)][Tables!At(page, l)])
            BY Zenon
        <3>2. CASE l = 4
            <4>1. Gets(m, root, page, 3) /\ EntryOf4(m, root, page).present
                BY <3>1, <3>2 DEF Gets
            <4>2. EntryOf4(m, root, page) = m[root][Tables!At(page, 4)]
                BY DEF EntryOf4
            <4>3. ~EntryOf4(m, root, page).large
                BY <3>1, <3>2, <4>1, <4>2 DEF Forest
            <4> QED BY <3>2, <4>1, <4>3, TableOfIs DEF NamesTable
        <3>3. CASE l = 3
            <4>1. NamesTable(EntryOf3(m, root, page))
                BY <3>1, <3>3 DEF Gets
            <4> QED BY <3>3, <4>1, TableOfIs
        <3>4. CASE l = 2
            <4>1. NamesTable(EntryOf2(m, root, page))
                BY <3>1, <3>4 DEF Gets
            <4> QED BY <3>4, <4>1, TableOfIs
        <3> QED BY <3>2, <3>3, <3>4
    <2>5. m[S(l)][I(l)].frame = S(l - 1) /\ NamesTable(m[S(l)][I(l)])
        BY <1>1, <1>2, <2>2, <2>4
    <2>6. m[T(l)][J(l)].frame = T(l - 1) /\ NamesTable(m[T(l)][J(l)])
        BY <1>1, <1>2, <2>2, <2>4
    <2>7. /\ S(l) \in Tables!Frame /\ T(l) \in Tables!Frame
          /\ I(l) \in Tables!Index /\ J(l) \in Tables!Index
        BY <1>1, <2>2
    <2> HIDE DEF S, T, I, J
    <2>8. Names(m, lev, S(l), I(l)) /\ Names(m, lev, T(l), J(l))
        BY <2>2, <2>3, <2>5, <2>6 DEF Names
    <2>9. m[S(l)][I(l)].frame = m[T(l)][J(l)].frame
        BY <1>2, <2>5, <2>6
    <2>10. S(l) = T(l) /\ I(l) = J(l)
        BY <2>7, <2>8, <2>9 DEF Forest
    <2> QED BY <2>1, <2>10
<1>3. S(4) = r /\ T(4) = q
    BY TableOfIs
<1> HIDE DEF S, T, I, J
<1>4. S(level) = T(level)
    BY DEF S, T
<1>5. CASE level = 4
    BY <1>3, <1>4, <1>5
<1>6. CASE level = 3
    <2>1. S(4) = T(4) /\ I(4) = J(4)
        BY <1>2, <1>4, <1>6
    <2> QED BY <1>3, <1>6, <2>1 DEF I, J
<1>7. CASE level = 2
    <2>1. S(3) = T(3) /\ I(3) = J(3) /\ Gets(m, r, p, 3) /\ Gets(m, q, u, 3)
        BY <1>2, <1>4, <1>7
    <2>2. S(4) = T(4) /\ I(4) = J(4)
        BY <1>2, <2>1
    <2>3. \A above \in 2 + 1 .. 4 : above = 3 \/ above = 4
        OBVIOUS
    <2> QED BY <1>3, <1>7, <2>1, <2>2, <2>3 DEF I, J
<1>8. CASE level = 1
    <2>1. S(2) = T(2) /\ I(2) = J(2) /\ Gets(m, r, p, 2) /\ Gets(m, q, u, 2)
        BY <1>2, <1>4, <1>8
    <2>2. S(3) = T(3) /\ I(3) = J(3) /\ Gets(m, r, p, 3) /\ Gets(m, q, u, 3)
        BY <1>2, <2>1
    <2>3. S(4) = T(4) /\ I(4) = J(4)
        BY <1>2, <2>2
    <2>4. \A above \in 1 + 1 .. 4 : above = 2 \/ above = 3 \/ above = 4
        OBVIOUS
    <2> QED BY <1>3, <1>8, <2>1, <2>2, <2>3, <2>4 DEF I, J
<1> QED BY <1>5, <1>6, <1>7, <1>8

-----------------------------------------------------------------------------
(* The address space.                                                      *)

LEMMA QuotientOfQuotient ==
    ASSUME NEW a \in Nat \ {0}, NEW b \in Nat \ {0}, NEW x \in Nat
    PROVE  (x \div a) \div b = x \div (a * b)
<1> DEFINE y == x \div a
           r == x % a
           z == y \div b
           t == y % b
           c == a * b
           k == a * t + r
<1>1. y \in Int /\ r \in 0 .. a - 1 /\ x = a * y + r
    BY DivisionOf
<1>2. y \in Nat
    OBVIOUS
<1> HIDE DEF y, r
<1>3. z \in Int /\ t \in 0 .. b - 1 /\ y = b * z + t
    BY <1>2, DivisionOf
<1> HIDE DEF z, t
<1>4. c \in Nat \ {0}
    OBVIOUS
<1>5. x = c * z + k
    <2>1. a * y = a * (b * z) + a * t
        BY <1>3
    <2>2. a * (b * z) = c * z
        BY <1>3
    <2> DEFINE az == a * (b * z)
               at == a * t
               ay == a * y
               cz == c * z
    <2>3. ay = az + at /\ az = cz /\ x = ay + r
        BY <1>1, <2>1, <2>2
    <2>4. az \in Int /\ at \in Int /\ ay \in Int /\ r \in Int
        BY <1>1, <1>2, <1>3
    <2>5. x = cz + (at + r)
        <3> HIDE DEF az, at, ay, cz
        <3> QED BY <2>3, <2>4
    <2> QED BY <2>5
<1>6. k \in 0 .. c - 1
    <2>1. a * (b - t) >= a
        <3>1. b - t >= 1 /\ b - t \in Int
            BY <1>3
        <3> QED BY <3>1, ProductAtLeast
    <2>2. a * (b - t) = c - a * t
        BY <1>3
    <2>3. a * t \in Nat
        BY <1>3
    <2> DEFINE at == a * t
               ab == a * (b - t)
    <2>4. ab >= a /\ ab = c - at /\ at \in Nat
        BY <2>1, <2>2, <2>3
    <2>5. k = at + r
        OBVIOUS
    <2> HIDE DEF at, ab, c, k
    <2> QED BY <1>1, <1>4, <2>4, <2>5
<1> HIDE DEF c, k
<1>7. x \div c = z
    BY <1>3, <1>4, <1>5, <1>6, QuotientIs
<1> QED BY <1>7 DEF c, z, y

\* Numbers with one quotient and one remainder are the same.
LEMMA DigitsAgree ==
    ASSUME NEW a \in Nat \ {0}, NEW x \in Nat, NEW y \in Nat,
           x \div a = y \div a, x % a = y % a
    PROVE  x = y
<1>1. x = a * (x \div a) + (x % a) /\ y = a * (y \div a) + (y % a)
    BY DivisionOf
<1> QED BY <1>1

SamePage(p, q) == \A level \in 1 .. 4 : Tables!At(p, level) = Tables!At(q, level)

\* Different pages of the address space differ in an index.
LEMMA PagesDiffer ==
    ASSUME NEW p \in 0 .. Space - 1, NEW q \in 0 .. Space - 1, SamePage(p, q)
    PROVE  p = q
<1> DEFINE E == Entries
           E2 == Entries * Entries
           E3 == Entries * Entries * Entries
<1>1. Entries \in Nat \ {0}
    BY MachineAssumption
<1>2. /\ Tables!Span[1] = 1 /\ Tables!Span[2] = E /\ Tables!Span[3] = E2 /\ Tables!Span[4] = E3
      /\ Space = E * E3
    BY DEF Tables!Span, Space
<1>3. /\ Tables!Span[2] \in Nat \ {0} /\ Tables!Span[3] \in Nat \ {0} /\ Tables!Span[4] \in Nat \ {0}
    BY SpanTypes
<1>4. E2 = E * E /\ E3 = E2 * E /\ E * E3 = E3 * E
    BY <1>1
<1> HIDE DEF E2, E3
<1>5. E \in Nat \ {0} /\ E2 \in Nat \ {0} /\ E3 \in Nat \ {0}
    BY <1>1, <1>2, <1>3
<1>6. p \in Nat /\ q \in Nat /\ p < E * E3 /\ q < E * E3
    <2> DEFINE n == E * E3
    <2>1. p \in 0 .. n - 1 /\ q \in 0 .. n - 1 /\ n \in Nat
        BY <1>2, <1>5
    <2> HIDE DEF n
    <2>2. p \in Nat /\ q \in Nat /\ p < n /\ q < n
        BY <2>1
    <2> QED BY <2>2 DEF n
<1>7. ASSUME NEW x \in Nat
      PROVE  /\ (x \div E) \div E = x \div E2
             /\ (x \div E2) \div E = x \div E3
             /\ x \div E \in Nat /\ x \div E2 \in Nat /\ x \div E3 \in Nat
    <2>1. (x \div E) \div E = x \div (E * E) /\ (x \div E2) \div E = x \div (E2 * E)
        BY <1>5, QuotientOfQuotient
    <2> HIDE DEF E
    <2> QED BY <1>4, <1>5, <2>1
<1>8. /\ (p \div 1) % E = (q \div 1) % E /\ (p \div E) % E = (q \div E) % E
      /\ (p \div E2) % E = (q \div E2) % E /\ (p \div E3) % E = (q \div E3) % E
    <2>1. /\ Tables!At(p, 1) = Tables!At(q, 1) /\ Tables!At(p, 2) = Tables!At(q, 2)
          /\ Tables!At(p, 3) = Tables!At(q, 3) /\ Tables!At(p, 4) = Tables!At(q, 4)
        BY DEF SamePage
    <2> QED BY <1>2, <2>1 DEF Tables!At
<1>9. p \div 1 = p /\ q \div 1 = q
    BY <1>6
<1> HIDE DEF E
<1>10. p \div E3 = q \div E3
    <2>1. p \div E3 \in 0 .. E - 1 /\ q \div E3 \in 0 .. E - 1
        BY <1>5, <1>6, QuotientBelow
    <2>2. \A a \in Nat \ {0} : \A x \in 0 .. a - 1 : x % a = x
        OBVIOUS
    <2> QED BY <1>5, <1>8, <2>1, <2>2
<1>11. p \div E2 = q \div E2
    BY <1>5, <1>6, <1>7, <1>8, <1>10, DigitsAgree
<1>12. p \div E = q \div E
    BY <1>5, <1>6, <1>7, <1>8, <1>11, DigitsAgree
<1>13. p % E = q % E
    BY <1>8, <1>9
<1> QED BY <1>5, <1>6, <1>12, <1>13, DigitsAgree

-----------------------------------------------------------------------------
(* What a write to one entry changes.                                      *)

\* The walk one level further, and where it ends.
LEMMA StepDown ==
    ASSUME NEW m, NEW root, NEW page, NEW level \in 2 .. 4, Gets(m, root, page, level),
           NamesTable(m[TableOf(m, root, page, level)][Tables!At(page, level)])
    PROVE  /\ Gets(m, root, page, level - 1)
           /\ TableOf(m, root, page, level - 1)
                 = m[TableOf(m, root, page, level)][Tables!At(page, level)].frame
<1> DEFINE e4 == EntryOf4(m, root, page)
           e3 == EntryOf3(m, root, page)
           e2 == EntryOf2(m, root, page)
           e == m[TableOf(m, root, page, level)][Tables!At(page, level)]
<1>1. /\ Gets(m, root, page, 3) <=> e4.present
      /\ Gets(m, root, page, 2) <=> e4.present /\ NamesTable(e3)
      /\ Gets(m, root, page, 1) <=> e4.present /\ NamesTable(e3) /\ NamesTable(e2)
    BY DEF Gets
<1>2. level = 4 \/ level = 3 \/ level = 2
    OBVIOUS
<1>3. /\ level = 4 => e = e4 /\ TableOf(m, root, page, 3) = e4.frame
      /\ level = 3 => e = e3 /\ TableOf(m, root, page, 2) = e3.frame
      /\ level = 2 => e = e2 /\ TableOf(m, root, page, 1) = e2.frame
    BY TableOfIs
<1>4. NamesTable(e)
    OBVIOUS
<1> HIDE DEF e4, e3, e2, e
<1>5. CASE level = 4
    BY <1>1, <1>3, <1>4, <1>5 DEF e, NamesTable
<1>6. CASE level = 3
    BY <1>1, <1>3, <1>4, <1>6 DEF e
<1>7. CASE level = 2
    BY <1>1, <1>3, <1>4, <1>7 DEF e
<1> QED BY <1>2, <1>5, <1>6, <1>7

LEMMA EndsAbsent ==
    ASSUME NEW m, NEW root, NEW page, NEW level \in 1 .. 4, Gets(m, root, page, level),
           ~m[TableOf(m, root, page, level)][Tables!At(page, level)].present
    PROVE  WalkedTo(m, root, page) = Tables!Unmapped
<1> DEFINE e4 == EntryOf4(m, root, page)
           e3 == EntryOf3(m, root, page)
           e2 == EntryOf2(m, root, page)
           e1 == EntryOf1(m, root, page)
           e == m[TableOf(m, root, page, level)][Tables!At(page, level)]
<1>1. /\ level <= 3 => e4.present
      /\ level <= 2 => NamesTable(e3)
      /\ level <= 1 => NamesTable(e2)
    BY DEF Gets
<1>2. level = 4 \/ level = 3 \/ level = 2 \/ level = 1
    OBVIOUS
<1>3. /\ level = 4 => e = e4
      /\ level = 3 => e = e3
      /\ level = 2 => e = e2
      /\ level = 1 => e = e1
    BY TableOfIs
<1>4. WalkedTo(m, root, page) =
         IF ~e4.present \/ ~e3.present THEN Tables!Unmapped
         ELSE IF e3.large THEN InLarge(e3, 3, page)
         ELSE IF ~e2.present THEN Tables!Unmapped
         ELSE IF e2.large THEN InLarge(e2, 2, page)
         ELSE IF e1.present THEN e1.frame
         ELSE Tables!Unmapped
    BY Zenon DEF WalkedTo
<1>5. ~e.present
    OBVIOUS
<1> HIDE DEF e4, e3, e2, e1, e
<1> QED BY <1>1, <1>2, <1>3, <1>4, <1>5 DEF NamesTable

LEMMA EndsInPage ==
    ASSUME NEW m, NEW root, NEW page, Gets(m, root, page, 1),
           m[TableOf(m, root, page, 1)][Tables!At(page, 1)].present
    PROVE  WalkedTo(m, root, page) = m[TableOf(m, root, page, 1)][Tables!At(page, 1)].frame
BY TableOfIs DEF Gets, NamesTable, WalkedTo

\* The walk gets to the same table when the entries above are the same.
LEMMA SamePrefix ==
    ASSUME NEW m, NEW n, NEW root, NEW page, NEW level \in 1 .. 4,
           Gets(m, root, page, level),
           \A above \in level + 1 .. 4 :
              n[TableOf(m, root, page, above)][Tables!At(page, above)]
                 = m[TableOf(m, root, page, above)][Tables!At(page, above)]
    PROVE  Gets(n, root, page, level) /\ TableOf(n, root, page, level) = TableOf(m, root, page, level)
<1> DEFINE e4 == EntryOf4(m, root, page)
           e3 == EntryOf3(m, root, page)
           e2 == EntryOf2(m, root, page)
           f4 == EntryOf4(n, root, page)
           f3 == EntryOf3(n, root, page)
           f2 == EntryOf2(n, root, page)
           Same(above) == n[TableOf(m, root, page, above)][Tables!At(page, above)]
                             = m[TableOf(m, root, page, above)][Tables!At(page, above)]
<1>1. /\ level <= 3 => Same(4)
      /\ level <= 2 => Same(3)
      /\ level <= 1 => Same(2)
    <2>1. /\ level <= 3 => 4 \in level + 1 .. 4
          /\ level <= 2 => 3 \in level + 1 .. 4
          /\ level <= 1 => 2 \in level + 1 .. 4
        OBVIOUS
    <2> QED BY <2>1
<1>2. Same(4) => f4 = e4
    BY TableOfIs
<1>3. Same(4) /\ Same(3) => f3 = e3
    BY <1>2, TableOfIs
<1>4. Same(4) /\ Same(3) /\ Same(2) => f2 = e2
    BY <1>3, TableOfIs
<1>5. /\ TableOf(m, root, page, 4) = root /\ TableOf(n, root, page, 4) = root
      /\ TableOf(m, root, page, 3) = e4.frame /\ TableOf(n, root, page, 3) = f4.frame
      /\ TableOf(m, root, page, 2) = e3.frame /\ TableOf(n, root, page, 2) = f3.frame
      /\ TableOf(m, root, page, 1) = e2.frame /\ TableOf(n, root, page, 1) = f2.frame
    BY TableOfIs
<1>6. /\ level <= 3 => e4.present
      /\ level <= 2 => NamesTable(e3)
      /\ level <= 1 => NamesTable(e2)
    BY DEF Gets
<1>7. Gets(n, root, page, level) <=> /\ level <= 3 => f4.present
                                     /\ level <= 2 => NamesTable(f3)
                                     /\ level <= 1 => NamesTable(f2)
    BY DEF Gets
<1>8. level = 4 \/ level = 3 \/ level = 2 \/ level = 1
    OBVIOUS
<1> HIDE DEF e4, e3, e2, f4, f3, f2, Same
<1>9. /\ level <= 3 => f4 = e4
      /\ level <= 2 => f3 = e3
      /\ level <= 1 => f2 = e2
    BY <1>1, <1>2, <1>3, <1>4
<1> QED BY <1>5, <1>6, <1>7, <1>8, <1>9

\* n and m differ in one entry at most.
Agrees(m, n, t, i) ==
    \A g \in Tables!Frame, j \in Tables!Index : g # t \/ j # i => n[g][j] = m[g][j]

\* The walk passes the entry: it does so at one level only.
Passes(m, lev, root, page, t, i) ==
    /\ lev[t] # 0
    /\ Gets(m, root, page, lev[t])
    /\ TableOf(m, root, page, lev[t]) = t
    /\ Tables!At(page, lev[t]) = i

LEMMA WriteElsewhere ==
    ASSUME NEW m \in Memories, NEW n, NEW lev \in Levels, NEW pending, Forest(m, lev, pending),
           NEW root \in Tables!Frame, lev[root] = 4, NEW page \in Nat,
           NEW t \in Tables!Frame, NEW i \in Tables!Index, Agrees(m, n, t, i),
           ~Passes(m, lev, root, page, t, i)
    PROVE  /\ WalkedTo(n, root, page) = WalkedTo(m, root, page)
           /\ \A level \in 1 .. 4 : Gets(m, root, page, level) =>
                 /\ Gets(n, root, page, level)
                 /\ TableOf(n, root, page, level) = TableOf(m, root, page, level)
<1>1. ASSUME NEW level \in 1 .. 4, Gets(m, root, page, level)
      PROVE  n[TableOf(m, root, page, level)][Tables!At(page, level)]
                = m[TableOf(m, root, page, level)][Tables!At(page, level)]
    <2>1. /\ TableOf(m, root, page, level) \in Tables!Frame
          /\ lev[TableOf(m, root, page, level)] = level
        BY <1>1, WalkLevels
    <2>2. Tables!At(page, level) \in Tables!Index
        BY IndexTypes
    <2>3. TableOf(m, root, page, level) # t \/ Tables!At(page, level) # i
        BY <1>1, <2>1 DEF Passes
    <2> QED BY <2>1, <2>2, <2>3 DEF Agrees
<1>2. SameLooks(m, n, root, page)
    BY <1>1 DEF SameLooks
<1> QED BY <1>2, SameEntries

\* A walk that passes the entry still gets there.
LEMMA WritePasses ==
    ASSUME NEW m \in Memories, NEW n, NEW lev \in Levels, NEW pending, Forest(m, lev, pending),
           NEW root \in Tables!Frame, lev[root] = 4, NEW page \in Nat,
           NEW t \in Tables!Frame, NEW i \in Tables!Index, Agrees(m, n, t, i),
           Passes(m, lev, root, page, t, i)
    PROVE  Gets(n, root, page, lev[t]) /\ TableOf(n, root, page, lev[t]) = t
<1>1. lev[t] \in 1 .. 4
    BY DEF Levels, Passes
<1>2. ASSUME NEW above \in lev[t] + 1 .. 4
      PROVE  n[TableOf(m, root, page, above)][Tables!At(page, above)]
                = m[TableOf(m, root, page, above)][Tables!At(page, above)]
    <2>1. above \in 1 .. 4 /\ lev[t] < above
        BY <1>1
    <2>2. Gets(m, root, page, above)
        BY <1>1, <2>1 DEF Passes, Gets
    <2>3. /\ TableOf(m, root, page, above) \in Tables!Frame
          /\ lev[TableOf(m, root, page, above)] = above
        BY <2>1, <2>2, WalkLevels
    <2>4. TableOf(m, root, page, above) # t
        BY <1>1, <2>1, <2>3
    <2> QED BY <2>1, <2>3, <2>4, IndexTypes DEF Agrees
<1> DEFINE l == lev[t]
<1>3. l \in 1 .. 4 /\ Gets(m, root, page, l) /\ TableOf(m, root, page, l) = t
    BY <1>1 DEF Passes
<1>4. \A above \in l + 1 .. 4 :
         n[TableOf(m, root, page, above)][Tables!At(page, above)]
            = m[TableOf(m, root, page, above)][Tables!At(page, above)]
    BY <1>2
<1> HIDE DEF l
<1>5. Gets(n, root, page, l) /\ TableOf(n, root, page, l) = t
    BY <1>3, <1>4, SamePrefix
<1> QED BY <1>5 DEF l

-----------------------------------------------------------------------------
(* A new table.                                                            *)

WalksSame(m, n, lev) ==
    \A root \in Tables!Frame, page \in Nat :
        lev[root] = 4 => WalkedTo(n, root, page) = WalkedTo(m, root, page)

\* An empty table that is named by an entry which was free continues the tree,
\* and every walk finds what it found.
LEMMA GrowForest ==
    ASSUME NEW m \in Memories, NEW lev \in Levels, Forest(m, lev, {}),
           NEW t \in Tables!Frame, NEW i \in Tables!Index, lev[t] >= 2, ~m[t][i].present,
           NEW f \in Tables!Frame, lev[f] = 0, Tables!Empty(m[f])
    PROVE  LET n == [m EXCEPT ![t] = [m[t] EXCEPT ![i] = Tables!Leaf(f)]]
               grown == [lev EXCEPT ![f] = lev[t] - 1]
           IN  grown \in Levels /\ Forest(n, grown, {}) /\ WalksSame(m, n, lev)
<1> DEFINE n == [m EXCEPT ![t] = [m[t] EXCEPT ![i] = Tables!Leaf(f)]]
           grown == [lev EXCEPT ![f] = lev[t] - 1]
<1>1. /\ Tables!Leaf(f).present /\ ~Tables!Leaf(f).large /\ Tables!Leaf(f).frame = f
      /\ ~Tables!Zero.present
    BY DEF Tables!Leaf, Tables!Zero
<1>2. /\ n[t][i] = Tables!Leaf(f)
      /\ \A g \in Tables!Frame, j \in Tables!Index : g # t \/ j # i => n[g][j] = m[g][j]
    BY DEF Memories
<1>3. lev[t] \in 2 .. 4 /\ f # t
    BY DEF Levels
<1>4. \A j \in Tables!Index : ~n[f][j].present
    BY <1>1, <1>2, <1>3 DEF Tables!Empty
<1>5. \A g \in Tables!Frame : grown[g] = IF g = f THEN lev[t] - 1 ELSE lev[g]
    BY DEF Levels
<1>6. grown \in Levels
    BY <1>3 DEF Levels
<1>7. \A g \in Tables!Frame, j \in Tables!Index : m[g][j].frame \in Tables!Frame
    BY DEF Memories, Tables!Entry
<1>8. \A g \in Tables!Frame : lev[g] \in 0 .. 4
    BY DEF Levels
<1> HIDE DEF n, grown
<1>9. ASSUME NEW g \in Tables!Frame, NEW j \in Tables!Index, g # t \/ j # i,
             Names(n, grown, g, j)
      PROVE  /\ Names(m, lev, g, j) /\ n[g][j] = m[g][j] /\ g # f
             /\ m[g][j].frame # f /\ lev[m[g][j].frame] = lev[g] - 1
    <2>1. g # f
        BY <1>4, <1>9 DEF Names, NamesTable
    <2>2. Names(m, lev, g, j) /\ n[g][j] = m[g][j]
        BY <1>2, <1>5, <1>9, <2>1 DEF Names
    <2>3. lev[m[g][j].frame] = lev[g] - 1
        BY <2>2 DEF Forest
    <2>4. lev[g] >= 2
        BY <2>2 DEF Names
    <2>5. m[g][j].frame # f
        BY <1>8, <2>3, <2>4
    <2> QED BY <2>1, <2>2, <2>3, <2>5
<1>10. ASSUME NEW g \in Tables!Frame, NEW j \in Tables!Index, grown[g] >= 3, n[g][j].present
       PROVE  ~n[g][j].large
    <2>1. g # f
        BY <1>4, <1>10
    <2>2. CASE g = t /\ j = i
        BY <1>1, <1>2, <2>2
    <2>3. CASE g # t \/ j # i
        <3>1. n[g][j] = m[g][j] /\ lev[g] >= 3
            BY <1>2, <1>5, <1>10, <2>1, <2>3
        <3> QED BY <1>10, <3>1 DEF Forest
    <2> QED BY <2>2, <2>3
<1>11. ASSUME NEW g \in Tables!Frame, NEW j \in Tables!Index, Names(n, grown, g, j)
       PROVE  grown[n[g][j].frame] = grown[g] - 1
    <2>1. CASE g = t /\ j = i
        BY <1>1, <1>2, <1>3, <1>5, <2>1
    <2>2. CASE g # t \/ j # i
        <3>1. /\ n[g][j] = m[g][j] /\ g # f
              /\ m[g][j].frame # f /\ lev[m[g][j].frame] = lev[g] - 1
            BY <1>9, <1>11, <2>2
        <3> QED BY <1>5, <1>7, <3>1
    <2> QED BY <2>1, <2>2
<1>12. ASSUME NEW g \in Tables!Frame, NEW h \in Tables!Frame,
              NEW j \in Tables!Index, NEW k \in Tables!Index,
              Names(n, grown, g, j), Names(n, grown, h, k), n[g][j].frame = n[h][k].frame
       PROVE  g = h /\ j = k
    <2>1. CASE (g = t /\ j = i) /\ (h = t /\ k = i)
        BY <2>1
    <2>2. CASE (g = t /\ j = i) /\ (h # t \/ k # i)
        <3>1. n[h][k].frame # f
            BY <1>9, <1>12, <2>2
        <3> QED BY <1>1, <1>2, <1>12, <2>2, <3>1
    <2>3. CASE (g # t \/ j # i) /\ (h = t /\ k = i)
        <3>1. n[g][j].frame # f
            BY <1>9, <1>12, <2>3
        <3> QED BY <1>1, <1>2, <1>12, <2>3, <3>1
    <2>4. CASE (g # t \/ j # i) /\ (h # t \/ k # i)
        <3>1. /\ Names(m, lev, g, j) /\ n[g][j] = m[g][j]
              /\ Names(m, lev, h, k) /\ n[h][k] = m[h][k]
            BY <1>9, <1>12, <2>4
        <3> QED BY <1>12, <3>1 DEF Forest
    <2> QED BY <2>1, <2>2, <2>3, <2>4
<1>13. Forest(n, grown, {})
    BY <1>10, <1>11, <1>12 DEF Forest
<1>14. ASSUME NEW root \in Tables!Frame, NEW page \in Nat, lev[root] = 4
       PROVE  WalkedTo(n, root, page) = WalkedTo(m, root, page)
    <2>1. Agrees(m, n, t, i)
        BY <1>2 DEF Agrees
    <2>2. CASE ~Passes(m, lev, root, page, t, i)
        BY <1>14, <2>1, <2>2, WriteElsewhere
    <2>3. CASE Passes(m, lev, root, page, t, i)
        <3> DEFINE l == lev[t]
        <3>1. Gets(n, root, page, l) /\ TableOf(n, root, page, l) = t
            BY <1>14, <2>1, <2>3, WritePasses
        <3>2. /\ Gets(m, root, page, l) /\ TableOf(m, root, page, l) = t
              /\ Tables!At(page, l) = i
            BY <2>3 DEF Passes
        <3>3. l \in 2 .. 4 /\ l \in 1 .. 4 /\ l - 1 \in 1 .. 4
            BY <1>3
        <3> HIDE DEF l
        <3>4. WalkedTo(m, root, page) = Tables!Unmapped
            BY <3>2, <3>3, EndsAbsent
        <3>5. NamesTable(n[TableOf(n, root, page, l)][Tables!At(page, l)])
            BY <1>1, <1>2, <3>1, <3>2 DEF NamesTable
        <3>6. /\ Gets(n, root, page, l - 1)
              /\ TableOf(n, root, page, l - 1) = f
            BY <1>1, <1>2, <3>1, <3>2, <3>3, <3>5, StepDown
        <3>7. ~n[TableOf(n, root, page, l - 1)][Tables!At(page, l - 1)].present
            BY <1>4, <3>3, <3>6, IndexTypes
        <3>8. WalkedTo(n, root, page) = Tables!Unmapped
            BY <3>3, <3>6, <3>7, EndsAbsent
        <3> QED BY <3>4, <3>8
    <2> QED BY <2>2, <2>3
<1> QED BY <1>6, <1>13, <1>14 DEF WalksSame, n, grown

-----------------------------------------------------------------------------
(* Mapping a page.                                                         *)

\* The frames that allocate_memory can still give.
Fresh(start) == (start \div Unit) .. (EndFree \div Unit) - 1

Shape(s, lev) ==
    /\ lev \in Levels /\ Forest(s.mem, lev, {})
    /\ \A f \in Tables!Frame : f \in Fresh(s.next) => lev[f] = 0

\* Tables stay tables of their level.
Keeps(lev, grown) == \A f \in Tables!Frame : lev[f] # 0 => grown[f] = lev[f]

\* What was fresh is, or has been given since.
LEMMA FreshLess ==
    ASSUME NEW s \in States, NEW n \in s.next .. EndFree
    PROVE  /\ Fresh(n) \subseteq Fresh(s.next)
           /\ \A f \in (s.next \div Unit) .. (n \div Unit) - 1 : f \in Fresh(s.next) /\ f \notin Fresh(n)
<1>1. /\ n \in FirstFree .. EndFree /\ (s.next \div Unit) <= (n \div Unit)
      /\ s.next \div Unit \in Nat /\ n \div Unit \in Nat
    BY GivenStays
<1>2. /\ FirstFree \in Nat /\ EndFree \in Nat /\ Unit \in Nat \ {0}
    BY MachineAssumption
<1>3. n \div Unit <= EndFree \div Unit /\ EndFree \div Unit \in Nat
    <2>1. n \in Nat /\ n <= EndFree
        BY <1>1, <1>2
    <2> QED BY <1>2, <2>1, QuotientsFollow
<1> DEFINE a == s.next \div Unit
           b == n \div Unit
           c == EndFree \div Unit
<1>4. a \in Nat /\ b \in Nat /\ c \in Nat /\ a <= b /\ b <= c
    BY <1>1, <1>3
<1> HIDE DEF a, b, c
<1>5. /\ b .. c - 1 \subseteq a .. c - 1
      /\ \A f \in a .. b - 1 : f \in a .. c - 1 /\ f \notin b .. c - 1
    BY <1>4
<1> QED BY <1>5 DEF a, b, c, Fresh

LEMMA CreateTableIs ==
    ASSUME NEW s \in States, NEW t \in Tables!Frame, NEW i \in Tables!Index,
           Tables!CreateTable(s, t, i).orderly
    PROVE  LET r == Tables!CreateTable(s, t, i)
               f == s.next \div Unit
           IN  /\ s.orderly /\ r.flushed = s.flushed
               /\ s.mem[t][i].present => r = s
               /\ ~s.mem[t][i].present =>
                     /\ f \in Tables!Frame /\ f \in Fresh(s.next)
                     /\ f \notin Fresh(r.next) /\ Fresh(r.next) \subseteq Fresh(s.next)
                     /\ Tables!Empty(s.mem[f])
                     /\ r.mem = [s.mem EXCEPT ![t] = [s.mem[t] EXCEPT ![i] = Tables!Leaf(f)]]
<1> DEFINE r == Tables!CreateTable(s, t, i)
           f == s.next \div Unit
<1>1. CASE s.mem[t][i].present
    BY <1>1 DEF Tables!CreateTable
<1>2. CASE ~s.mem[t][i].present /\ ~Tables!HasMemory(s, Unit)
    <2>1. r = Tables!Disorderly(s, TRUE)
        BY <1>2 DEF Tables!CreateTable
    <2>2. ~Tables!Disorderly(s, TRUE).orderly
        BY DEF Tables!Disorderly, States
    <2> QED BY <2>1, <2>2
<1>3. CASE ~s.mem[t][i].present /\ Tables!HasMemory(s, Unit)
    <2> DEFINE large == (s.next \div 2) % 2 = 1
               e == [present |-> TRUE, large |-> large, frame |-> f]
               taken == Tables!Took(s, Unit)
               w == [Tables!SetEntry(taken, t, i, e) EXCEPT !.given = Append(@, f)]
               m == [s.mem EXCEPT ![t] = [s.mem[t] EXCEPT ![i] = e]]
               bad == e.large \/ ~Tables!Empty(s.mem[f])
    <2>1. /\ s.next + Unit \in s.next .. EndFree
          /\ f \in f .. ((s.next + Unit) \div Unit) - 1
          /\ f \in Tables!Frame
        BY <1>3, UnitTaken
    <2>2. r = Tables!Disorderly(w, bad)
        BY Zenon, <1>3 DEF Tables!CreateTable
    <2>3. taken = [s EXCEPT !.next = s.next + Unit]
        BY <1>3 DEF Tables!Took, States
    <2>4. w = [s EXCEPT !.mem = m, !.next = s.next + Unit, !.given = Append(s.given, f)]
        <3> HIDE DEF e
        <3> QED BY <2>3 DEF Tables!SetEntry, States
    <2>5. /\ w.mem = m /\ w.next = s.next + Unit /\ w.orderly = s.orderly
          /\ w.flushed = s.flushed
        <3> HIDE DEF m, f
        <3> QED BY <2>4 DEF States
    <2>6. /\ r.mem = m /\ r.next = s.next + Unit /\ r.flushed = s.flushed
          /\ r.orderly = (s.orderly /\ ~bad)
        <3>1. w = [s EXCEPT !.mem = w.mem, !.next = w.next, !.given = w.given]
            <4> HIDE DEF m, f
            <4> QED BY <2>4 DEF States
        <3> HIDE DEF w, bad, m
        <3>2. /\ Tables!Disorderly(w, bad).mem = w.mem /\ Tables!Disorderly(w, bad).next = w.next
              /\ Tables!Disorderly(w, bad).flushed = w.flushed
              /\ Tables!Disorderly(w, bad).orderly = (w.orderly /\ ~bad)
            BY <3>1 DEF Tables!Disorderly, States
        <3> QED BY <2>2, <2>5, <3>2
    <2>7. ~large /\ Tables!Empty(s.mem[f]) /\ s.orderly
        BY <2>6
    <2>8. e = Tables!Leaf(f)
        <3>1. large = FALSE
            BY <2>7
        <3> HIDE DEF large
        <3> QED BY <3>1 DEF Tables!Leaf
    <2>9. f \in Fresh(s.next) /\ f \notin Fresh(r.next) /\ Fresh(r.next) \subseteq Fresh(s.next)
        <3>1. r.next = s.next + Unit
            BY <2>6
        <3> DEFINE n == s.next + Unit
        <3>2. n \in s.next .. EndFree /\ f \in (s.next \div Unit) .. (n \div Unit) - 1
            BY <2>1
        <3> HIDE DEF n, f
        <3>3. f \in Fresh(s.next) /\ f \notin Fresh(n) /\ Fresh(n) \subseteq Fresh(s.next)
            BY <3>2, FreshLess
        <3> QED BY <3>1, <3>3 DEF n
    <2> HIDE DEF f, bad, e, large
    <2> QED BY <1>3, <2>1, <2>6, <2>7, <2>8, <2>9 DEF f
<1> QED BY <1>1, <1>2, <1>3

\* Tables have grown, and every walk is as it was.
Grown(s, r, lev, grown) ==
    /\ Shape(r, grown) /\ Keeps(lev, grown)
    /\ WalksSame(s.mem, r.mem, lev)
    /\ r.flushed = s.flushed

LEMMA GrownTwice ==
    ASSUME NEW s, NEW r, NEW t, NEW lev \in Levels, NEW mid \in Levels, NEW grown,
           Grown(s, r, lev, mid), Grown(r, t, mid, grown)
    PROVE  Grown(s, t, lev, grown)
<1>1. \A f \in Tables!Frame : lev[f] # 0 => mid[f] = lev[f] /\ grown[f] = lev[f]
    BY DEF Grown, Keeps
<1>2. \A root \in Tables!Frame : lev[root] = 4 => mid[root] = 4
    BY <1>1
<1>3. WalksSame(s.mem, t.mem, lev)
    BY <1>2 DEF Grown, WalksSame
<1> QED BY <1>1, <1>3 DEF Grown, Keeps

LEMMA TableCreated ==
    ASSUME NEW s \in States, NEW lev, Shape(s, lev),
           NEW t \in Tables!Frame, NEW i \in Tables!Index, lev[t] >= 2,
           Tables!CreateTable(s, t, i).orderly
    PROVE  LET r == Tables!CreateTable(s, t, i)
           IN  /\ s.orderly /\ Agrees(s.mem, r.mem, t, i) /\ r.mem[t][i].present
               /\ \E grown : Grown(s, r, lev, grown)
<1> DEFINE r == Tables!CreateTable(s, t, i)
           f == s.next \div Unit
           l == [lev EXCEPT ![f] = lev[t] - 1]
<1>1. /\ s.orderly /\ r.flushed = s.flushed
      /\ s.mem[t][i].present => r = s
      /\ ~s.mem[t][i].present =>
            /\ f \in Tables!Frame /\ f \in Fresh(s.next)
            /\ f \notin Fresh(r.next) /\ Fresh(r.next) \subseteq Fresh(s.next)
            /\ Tables!Empty(s.mem[f])
            /\ r.mem = [s.mem EXCEPT ![t] = [s.mem[t] EXCEPT ![i] = Tables!Leaf(f)]]
    BY CreateTableIs
<1>2. s.mem \in Memories
    BY DEF States
<1> HIDE DEF r, f
<1>3. CASE s.mem[t][i].present
    <2>1. Grown(s, r, lev, lev)
        BY <1>1, <1>3 DEF Grown, Keeps, WalksSame
    <2> QED BY <1>1, <1>3, <2>1 DEF Agrees, r
<1>4. CASE ~s.mem[t][i].present
    <2>1. lev \in Levels /\ lev[f] = 0
        BY <1>1, <1>4 DEF Shape
    <2>2. l \in Levels /\ Forest(r.mem, l, {}) /\ WalksSame(s.mem, r.mem, lev)
        <3> DEFINE m == s.mem
                   n == [m EXCEPT ![t] = [m[t] EXCEPT ![i] = Tables!Leaf(f)]]
        <3>1. /\ m \in Memories /\ Forest(m, lev, {}) /\ ~m[t][i].present
              /\ f \in Tables!Frame /\ lev[f] = 0 /\ Tables!Empty(m[f]) /\ r.mem = n
            BY <1>1, <1>2, <1>4, <2>1 DEF Shape
        <3> HIDE DEF m
        <3>2. l \in Levels /\ Forest(n, l, {}) /\ WalksSame(m, n, lev)
            BY <2>1, <3>1, GrowForest
        <3> QED BY <3>1, <3>2 DEF m
    <2>3. \A g \in Tables!Frame : l[g] = IF g = f THEN lev[t] - 1 ELSE lev[g]
        BY <2>1 DEF Levels
    <2> HIDE DEF l
    <2>4. Shape(r, l) /\ Keeps(lev, l)
        BY <1>1, <1>4, <2>1, <2>2, <2>3 DEF Shape, Keeps
    <2>5. Grown(s, r, lev, l)
        BY <1>1, <2>2, <2>4 DEF Grown
    <2>6. r.mem[t][i] = Tables!Leaf(f) /\ Agrees(s.mem, r.mem, t, i)
        BY <1>1, <1>2, <1>4 DEF Memories, Agrees
    <2> QED BY <1>1, <2>5, <2>6 DEF Tables!Leaf, r
<1> QED BY <1>3, <1>4

\* d.table is the table of a level that the walk of the page gets to.
OnPath(d, lev, page, level) ==
    /\ d.s \in States /\ d.table \in Tables!Frame
    /\ Shape(d.s, lev) /\ lev[cr3] = 4
    /\ Gets(d.s.mem, cr3, page, level) /\ TableOf(d.s.mem, cr3, page, level) = d.table

LEMMA TableReached ==
    ASSUME cr3 \in Tables!Frame, NEW d, NEW page \in Nat, NEW level \in 2 .. 4, NEW lev,
           OnPath(d, lev, page, level), Tables!GetTable(d, page, level).s.orderly
    PROVE  /\ d.s.orderly
           /\ \E grown : /\ OnPath(Tables!GetTable(d, page, level), grown, page, level - 1)
                         /\ Grown(d.s, Tables!GetTable(d, page, level).s, lev, grown)
<1> DEFINE i == Tables!At(page, level)
           t == d.table
           s == Tables!CreateTable(d.s, t, i)
           e == s.mem[t][i]
           g == Tables!GetTable(d, page, level)
<1>1. g = [s |-> Tables!Disorderly(s, e.present /\ e.large),
           table |-> IF e.present THEN e.frame ELSE Tables!NULL]
    BY Zenon DEF Tables!GetTable
<1>2. i \in Tables!Index /\ level \in 1 .. 4 /\ level >= 2
    BY IndexTypes
<1>3. /\ d.s \in States /\ t \in Tables!Frame /\ Shape(d.s, lev) /\ lev[cr3] = 4
      /\ Gets(d.s.mem, cr3, page, level) /\ TableOf(d.s.mem, cr3, page, level) = t
      /\ d.s.mem \in Memories /\ lev \in Levels /\ Forest(d.s.mem, lev, {})
    BY DEF OnPath, Shape, States
<1>4. lev[t] = level
    <2> DEFINE m == d.s.mem
    <2>1. m \in Memories /\ Forest(m, lev, {}) /\ Gets(m, cr3, page, level)
          /\ TableOf(m, cr3, page, level) = t
        BY <1>3
    <2> HIDE DEF m, t
    <2>2. lev[TableOf(m, cr3, page, level)] = level
        BY <1>2, <1>3, <2>1, WalkLevels
    <2> QED BY <2>1, <2>2
<1>5. s \in States
    BY <1>2, <1>3, CreateTableKeeps
<1>6. g.s \in States /\ g.table \in Tables!Frame
    BY <1>2, <1>3, GetTableKeeps
<1> HIDE DEF s, i, t
<1>7. /\ g.s = Tables!Disorderly(s, e.present /\ e.large)
      /\ g.table = IF e.present THEN e.frame ELSE Tables!NULL
    BY <1>1
<1> HIDE DEF g
<1>8. s.orderly /\ ~(e.present /\ e.large)
    <2>1. g.s.orderly
        BY DEF g
    <2> HIDE DEF e
    <2> QED BY <1>5, <1>7, <2>1 DEF Tables!Disorderly, States
<1>9. /\ g.s.mem = s.mem /\ g.s.next = s.next /\ g.s.flushed = s.flushed
    BY <1>5, <1>7 DEF Tables!Disorderly, States
<1>10. /\ d.s.orderly /\ Agrees(d.s.mem, s.mem, t, i) /\ e.present
       /\ \E grown : Grown(d.s, s, lev, grown)
    <2>1. Tables!CreateTable(d.s, t, i).orderly /\ lev[t] >= 2
        BY <1>2, <1>4, <1>8 DEF s
    <2> QED BY <1>2, <1>3, <2>1, TableCreated DEF s
<1>11. PICK grown : Grown(d.s, s, lev, grown)
    BY <1>10
<1>12. Shape(g.s, grown) /\ Grown(d.s, g.s, lev, grown)
    BY <1>9, <1>11 DEF Grown, Shape
<1>13. NamesTable(e) /\ g.table = e.frame
    BY <1>7, <1>8, <1>10 DEF NamesTable
<1>14. grown[cr3] = 4
    BY <1>3, <1>12 DEF Grown, Keeps
<1>15. Gets(s.mem, cr3, page, level) /\ TableOf(s.mem, cr3, page, level) = t
    <2> DEFINE m == d.s.mem
               n == s.mem
    <2>1. /\ m \in Memories /\ Forest(m, lev, {}) /\ Agrees(m, n, t, i)
          /\ Passes(m, lev, cr3, page, t, i)
        BY <1>2, <1>3, <1>4, <1>10 DEF Passes, i
    <2> HIDE DEF m, n
    <2>2. Gets(n, cr3, page, lev[t]) /\ TableOf(n, cr3, page, lev[t]) = t
        BY <1>2, <1>3, <2>1, WritePasses
    <2> QED BY <1>4, <2>2 DEF n
<1>16. /\ Gets(s.mem, cr3, page, level - 1)
       /\ TableOf(s.mem, cr3, page, level - 1) = e.frame
    <2>1. NamesTable(s.mem[TableOf(s.mem, cr3, page, level)][Tables!At(page, level)])
        BY <1>13, <1>15 DEF i
    <2>2. e = s.mem[TableOf(s.mem, cr3, page, level)][Tables!At(page, level)]
        BY <1>15 DEF i
    <2> QED BY <1>15, <2>1, <2>2, StepDown
<1>17. OnPath(g, grown, page, level - 1)
    BY <1>6, <1>9, <1>12, <1>13, <1>14, <1>16 DEF OnPath
<1> QED BY <1>10, <1>12, <1>17 DEF g

\* A call is orderly only when those before it were.
LEMMA GetTableOrderly ==
    ASSUME NEW d, d.s \in States, d.table \in Tables!Frame, NEW page \in Nat, NEW level \in 2 .. 4,
           Tables!GetTable(d, page, level).s.orderly
    PROVE  d.s.orderly
<1> DEFINE i == Tables!At(page, level)
           c == Tables!CreateTable(d.s, d.table, i)
           e == c.mem[d.table][i]
<1>1. i \in Tables!Index
    BY IndexTypes
<1>2. c \in States
    BY <1>1, CreateTableKeeps
<1>3. Tables!GetTable(d, page, level).s = Tables!Disorderly(c, e.present /\ e.large)
    BY DEF Tables!GetTable
<1> HIDE DEF c, e, i
<1>4. c.orderly
    BY <1>2, <1>3 DEF Tables!Disorderly, States
<1> QED BY <1>1, <1>4, CreateTableIs DEF c

LEMMA PageTableOrderly ==
    ASSUME cr3 \in Tables!Frame, NEW s \in States, NEW page \in Nat
    PROVE  /\ Tables!PageTable(s, page).s.orderly => Tables!Directory(s, page).s.orderly
           /\ Tables!Directory(s, page).s.orderly =>
                 /\ Tables!GetTable([s |-> s, table |-> cr3], page, 4).s.orderly
                 /\ s.orderly
<1> DEFINE d4 == [s |-> s, table |-> cr3]
           d3 == Tables!GetTable(d4, page, 4)
           d2 == Tables!GetTable(d3, page, 3)
           d1 == Tables!GetTable(d2, page, 2)
<1>1. Tables!PageTable(s, page) = d1 /\ Tables!Directory(s, page) = d2 /\ d4.s = s
    BY DEF Tables!PageTable, Tables!Directory
<1>2. 4 \in 1 .. 4 /\ 3 \in 1 .. 4 /\ 4 \in 2 .. 4 /\ 3 \in 2 .. 4 /\ 2 \in 2 .. 4
    OBVIOUS
<1>3. d4.s \in States /\ d4.table \in Tables!Frame
    OBVIOUS
<1> HIDE DEF d4
<1>4. d3.s \in States /\ d3.table \in Tables!Frame /\ (d3.s.orderly => d4.s.orderly)
    BY <1>2, <1>3, GetTableKeeps, GetTableOrderly
<1> HIDE DEF d3
<1>5. d2.s \in States /\ d2.table \in Tables!Frame /\ (d2.s.orderly => d3.s.orderly)
    BY <1>2, <1>4, GetTableKeeps, GetTableOrderly
<1> HIDE DEF d2
<1>6. d1.s.orderly => d2.s.orderly
    BY <1>2, <1>5, GetTableOrderly
<1> HIDE DEF d1
<1> QED BY <1>1, <1>4, <1>5, <1>6 DEF d3, d4

LEMMA PageTableReached ==
    ASSUME cr3 \in Tables!Frame, NEW s \in States, NEW lev, Shape(s, lev), lev[cr3] = 4,
           NEW page \in Nat, Tables!PageTable(s, page).s.orderly
    PROVE  /\ s.orderly
           /\ \E grown : /\ OnPath(Tables!PageTable(s, page), grown, page, 1)
                         /\ Grown(s, Tables!PageTable(s, page).s, lev, grown)
<1> DEFINE d4 == [s |-> s, table |-> cr3]
           d3 == Tables!GetTable(d4, page, 4)
           d2 == Tables!GetTable(d3, page, 3)
           d1 == Tables!GetTable(d2, page, 2)
<1>1. Tables!PageTable(s, page) = d1
    BY DEF Tables!PageTable, Tables!Directory
<1>2. OnPath(d4, lev, page, 4) /\ d4.s = s
    BY TableOfIs DEF OnPath, Gets
<1> HIDE DEF d4
<1>3. 4 \in 2 .. 4 /\ 3 \in 2 .. 4 /\ 2 \in 2 .. 4 /\ 4 - 1 = 3 /\ 3 - 1 = 2 /\ 2 - 1 = 1
    OBVIOUS
<1>4. \A d, l, k : OnPath(d, l, page, k) => d.s \in States /\ l \in Levels
    BY DEF OnPath, Shape
<1>5. \A d, k : d.s \in States /\ d.table \in Tables!Frame /\ k \in 1 .. 4 =>
         Tables!GetTable(d, page, k).s \in States
    BY GetTableKeeps
<1>6. d1.s.orderly
    BY <1>1
<1> HIDE DEF d1
<1>7. ASSUME NEW d, NEW l, OnPath(d, l, page, 2), Tables!GetTable(d, page, 2).s.orderly
      PROVE  d.s.orderly /\ \E grown : OnPath(Tables!GetTable(d, page, 2), grown, page, 1)
                                       /\ Grown(d.s, Tables!GetTable(d, page, 2).s, l, grown)
    BY <1>3, <1>7, TableReached
<1>8. ASSUME NEW d, NEW l, OnPath(d, l, page, 3), Tables!GetTable(d, page, 3).s.orderly
      PROVE  d.s.orderly /\ \E grown : OnPath(Tables!GetTable(d, page, 3), grown, page, 2)
                                       /\ Grown(d.s, Tables!GetTable(d, page, 3).s, l, grown)
    BY <1>3, <1>8, TableReached
<1>9. ASSUME NEW d, NEW l, OnPath(d, l, page, 4), Tables!GetTable(d, page, 4).s.orderly
      PROVE  d.s.orderly /\ \E grown : OnPath(Tables!GetTable(d, page, 4), grown, page, 3)
                                       /\ Grown(d.s, Tables!GetTable(d, page, 4).s, l, grown)
    BY <1>3, <1>9, TableReached
<1>12. d2.s.orderly /\ d3.s.orderly
    <2>1. Tables!PageTable(s, page).s.orderly
        OBVIOUS
    <2>2. Tables!Directory(s, page).s.orderly
        BY <2>1, PageTableOrderly
    <2>3. Tables!GetTable([s |-> s, table |-> cr3], page, 4).s.orderly
        BY <2>2, PageTableOrderly
    <2> QED BY <2>2, <2>3 DEF d4, Tables!Directory
<1>13. s.orderly /\ \E l3 : OnPath(d3, l3, page, 3) /\ Grown(d4.s, d3.s, lev, l3)
    BY <1>2, <1>9, <1>12
<1>14. PICK l3 : OnPath(d3, l3, page, 3) /\ Grown(s, d3.s, lev, l3)
    BY <1>2, <1>13
<1> HIDE DEF d3
<1>15. PICK l2 : OnPath(d2, l2, page, 2) /\ Grown(d3.s, d2.s, l3, l2)
    BY <1>8, <1>12, <1>14
<1> HIDE DEF d2
<1>16. PICK l1 : OnPath(d1, l1, page, 1) /\ Grown(d2.s, d1.s, l2, l1)
    BY <1>6, <1>7, <1>15 DEF d1
<1>17. lev \in Levels /\ l3 \in Levels /\ l2 \in Levels
    BY <1>4, <1>14, <1>15 DEF Shape
<1>18. Grown(s, d2.s, lev, l2)
    BY <1>14, <1>15, <1>17, GrownTwice
<1>19. Grown(s, d1.s, lev, l1)
    BY <1>16, <1>17, <1>18, GrownTwice
<1> QED BY <1>1, <1>13, <1>16, <1>19

LEMMA SamePath ==
    ASSUME NEW m, NEW root, NEW p, NEW q, SamePage(q, p)
    PROVE  /\ Gets(m, root, q, 1) <=> Gets(m, root, p, 1)
           /\ TableOf(m, root, q, 1) = TableOf(m, root, p, 1)
<1>1. /\ Tables!At(q, 4) = Tables!At(p, 4) /\ Tables!At(q, 3) = Tables!At(p, 3)
      /\ Tables!At(q, 2) = Tables!At(p, 2)
    BY DEF SamePage
<1>2. /\ EntryOf4(m, root, q) = EntryOf4(m, root, p) /\ EntryOf3(m, root, q) = EntryOf3(m, root, p)
      /\ EntryOf2(m, root, q) = EntryOf2(m, root, p)
    BY <1>1 DEF EntryOf4, EntryOf3, EntryOf2
<1> QED BY <1>2, TableOfIs DEF Gets

\* Every walk is as it was, that to one page under one root apart.
WalksButOne(m, n, lev, r, p, place) ==
    \A root \in Tables!Frame, q \in Nat : lev[root] = 4 =>
        WalkedTo(n, root, q) =
           IF root = r /\ SamePage(q, p) THEN place ELSE WalkedTo(m, root, q)

Place(e) == IF e.present THEN e.frame ELSE Tables!Unmapped

\* An entry of a page table is that of one page under one root.
LEMMA LeafWritten ==
    ASSUME NEW m \in Memories, NEW lev \in Levels, Forest(m, lev, {}),
           NEW r \in Tables!Frame, lev[r] = 4, NEW p \in Nat, Gets(m, r, p, 1),
           NEW e \in Tables!Entry
    PROVE  LET t == TableOf(m, r, p, 1)
               n == [m EXCEPT ![t] = [m[t] EXCEPT ![Tables!At(p, 1)] = e]]
           IN  Forest(n, lev, {}) /\ WalksButOne(m, n, lev, r, p, Place(e))
<1> DEFINE t == TableOf(m, r, p, 1)
           i == Tables!At(p, 1)
           n == [m EXCEPT ![t] = [m[t] EXCEPT ![i] = e]]
<1>1. 1 \in 1 .. 4
    OBVIOUS
<1>2. t \in Tables!Frame /\ lev[t] = 1 /\ i \in Tables!Index
    BY <1>1, WalkLevels, IndexTypes
<1>3. /\ n[t][i] = e
      /\ \A g \in Tables!Frame, j \in Tables!Index : g # t \/ j # i => n[g][j] = m[g][j]
    BY <1>2 DEF Memories
<1>0. t = TableOf(m, r, p, 1) /\ i = Tables!At(p, 1)
    OBVIOUS
<1> HIDE DEF n, t, i
<1>4. \A g \in Tables!Frame, j \in Tables!Index : lev[g] >= 2 => n[g][j] = m[g][j]
    BY <1>2, <1>3
<1>5. Forest(n, lev, {})
    <2>1. \A g \in Tables!Frame, j \in Tables!Index : Names(n, lev, g, j) => Names(m, lev, g, j) /\ n[g][j] = m[g][j]
        BY <1>4 DEF Names
    <2>2. \A g \in Tables!Frame, j \in Tables!Index : lev[g] >= 3 => n[g][j] = m[g][j]
        <3>1. \A g \in Tables!Frame : lev[g] >= 3 => lev[g] >= 2
            BY DEF Levels
        <3> QED BY <1>4, <3>1
    <2>3. \A g \in Tables!Frame, j \in Tables!Index :
             lev[g] >= 3 /\ n[g][j].present => ~n[g][j].large
        BY <2>2 DEF Forest
    <2>4. \A g \in Tables!Frame, j \in Tables!Index :
             Names(n, lev, g, j) => lev[n[g][j].frame] = lev[g] - 1
        BY <2>1 DEF Forest
    <2>5. ASSUME NEW f \in Tables!Frame, NEW g \in Tables!Frame,
                 NEW j \in Tables!Index, NEW k \in Tables!Index,
                 Names(n, lev, f, j), Names(n, lev, g, k), n[f][j].frame = n[g][k].frame
          PROVE  f = g /\ j = k
        <3>1. /\ Names(m, lev, f, j) /\ Names(m, lev, g, k)
              /\ m[f][j].frame = m[g][k].frame
            BY <2>1, <2>5
        <3> QED BY <3>1 DEF Forest
    <2> QED BY <2>3, <2>4, <2>5 DEF Forest
<1>6. ASSUME NEW root \in Tables!Frame, NEW q \in Nat, lev[root] = 4
      PROVE  WalkedTo(n, root, q) =
                IF root = r /\ SamePage(q, p) THEN Place(e) ELSE WalkedTo(m, root, q)
    <2>1. Agrees(m, n, t, i)
        BY <1>3 DEF Agrees
    <2>2. Passes(m, lev, root, q, t, i) <=> root = r /\ SamePage(q, p)
        <3>1. ASSUME root = r, SamePage(q, p) PROVE Passes(m, lev, root, q, t, i)
            <4>1. Gets(m, root, q, 1) /\ TableOf(m, root, q, 1) = t
                BY <1>0, <3>1, SamePath
            <4>2. Tables!At(q, 1) = i
                BY <1>0, <1>1, <3>1 DEF SamePage
            <4> QED BY <1>2, <4>1, <4>2 DEF Passes
        <3>2. ASSUME Passes(m, lev, root, q, t, i) PROVE root = r /\ SamePage(q, p)
            <4>1. Gets(m, root, q, 1) /\ TableOf(m, root, q, 1) = t /\ Tables!At(q, 1) = i
                BY <1>2, <3>2 DEF Passes
            <4>2. root = r /\ \A above \in 1 + 1 .. 4 : Tables!At(q, above) = Tables!At(p, above)
                BY <1>0, <1>1, <1>6, <4>1, PathUnique
            <4>3. \A level \in 1 .. 4 : level = 1 \/ level \in 1 + 1 .. 4
                OBVIOUS
            <4> QED BY <1>0, <4>1, <4>2, <4>3 DEF SamePage
        <3> QED BY <3>1, <3>2
    <2>3. CASE ~Passes(m, lev, root, q, t, i)
        <3>1. WalkedTo(n, root, q) = WalkedTo(m, root, q)
            BY <1>2, <1>6, <2>1, <2>3, WriteElsewhere
        <3> QED BY <2>2, <2>3, <3>1
    <2>4. CASE Passes(m, lev, root, q, t, i)
        <3>1. Gets(n, root, q, lev[t]) /\ TableOf(n, root, q, lev[t]) = t
            BY <1>2, <1>6, <2>1, <2>4, WritePasses
        <3>2. Gets(n, root, q, 1) /\ TableOf(n, root, q, 1) = t /\ Tables!At(q, 1) = i
            BY <1>2, <2>4, <3>1 DEF Passes
        <3>3. n[TableOf(n, root, q, 1)][Tables!At(q, 1)] = e
            BY <1>3, <3>2
        <3> DEFINE x == n[TableOf(n, root, q, 1)][Tables!At(q, 1)]
        <3>4. e.present => WalkedTo(n, root, q) = e.frame
            <4>1. x.present => WalkedTo(n, root, q) = x.frame
                BY <3>2, EndsInPage
            <4> QED BY <3>3, <4>1
        <3>5. ~e.present => WalkedTo(n, root, q) = Tables!Unmapped
            <4>1. ~x.present => WalkedTo(n, root, q) = Tables!Unmapped
                BY <1>1, <3>2, EndsAbsent
            <4> QED BY <3>3, <4>1
        <3> QED BY <2>2, <2>4, <3>4, <3>5 DEF Place
    <2> QED BY <2>3, <2>4
<1>7. WalksButOne(m, n, lev, r, p, Place(e))
    BY <1>6 DEF WalksButOne
<1> QED BY <1>5, <1>7 DEF n, t, i

\* map_4kb_page puts the page where it is asked to and leaves every other one,
\* under this root and under others.
MapsTo(s, r, lev, grown, page, place) ==
    /\ Shape(r, grown) /\ Keeps(lev, grown)
    /\ WalksButOne(s.mem, r.mem, lev, cr3, page, place)

LEMMA PageTableKeeps ==
    ASSUME cr3 \in Tables!Frame, NEW s \in States, NEW page \in Nat
    PROVE  /\ Tables!PageTable(s, page).s \in States
           /\ Tables!PageTable(s, page).table \in Tables!Frame
<1> DEFINE d == Tables!Directory(s, page)
<1>1. d.s \in States /\ d.table \in Tables!Frame
    BY DirectoryKeeps
<1>2. 2 \in 1 .. 4
    OBVIOUS
<1>3. Tables!PageTable(s, page) = Tables!GetTable(d, page, 2)
    BY DEF Tables!PageTable
<1> HIDE DEF d
<1> QED BY <1>1, <1>2, <1>3, GetTableKeeps

LEMMA PageMapped ==
    ASSUME cr3 \in Tables!Frame, NEW s \in States, NEW lev, Shape(s, lev), lev[cr3] = 4,
           NEW page \in Nat, NEW frame \in Tables!Frame,
           Tables!Map4kb(s, page, frame).orderly
    PROVE  LET r == Tables!Map4kb(s, page, frame)
           IN  /\ s.orderly /\ r.flushed = s.flushed
               /\ \A q \in Nat : SamePage(q, page) =>
                     WalkedTo(s.mem, cr3, q) \in {Tables!Unmapped, frame}
               /\ \E grown : MapsTo(s, r, lev, grown, page, frame)
<1> DEFINE r == Tables!Map4kb(s, page, frame)
           d == Tables!PageTable(s, page)
           i == Tables!At(page, 1)
           t == d.table
           old == d.s.mem[d.table][i]
           e == Tables!Leaf(frame)
           w == Tables!SetEntry(d.s, t, i, e)
           bad == old.present /\ old.frame # frame
           n == [d.s.mem EXCEPT ![t] = [d.s.mem[t] EXCEPT ![i] = e]]
<1>1. r = Tables!Disorderly(w, bad)
    BY Zenon DEF Tables!Map4kb
<1>2. d.s \in States /\ d.table \in Tables!Frame
    BY PageTableKeeps
<1>3. i \in Tables!Index /\ e \in Tables!Entry
    BY IndexTypes DEF Tables!Leaf, Tables!Entry
<1> HIDE DEF d, i, e
<1>4. w \in States /\ w.orderly = d.s.orderly /\ w.flushed = d.s.flushed /\ w.next = d.s.next /\ w.mem = n
    <2>1. w \in States
        BY <1>2, <1>3, EntryWritten
    <2>2. w = [d.s EXCEPT !.mem = n]
        BY <1>2 DEF Tables!SetEntry, States
    <2> HIDE DEF n, w
    <2> QED BY <1>2, <2>1, <2>2 DEF States
<1> HIDE DEF w, bad, n
<1>5. /\ r.orderly = (d.s.orderly /\ ~bad) /\ r.flushed = d.s.flushed
      /\ r.next = d.s.next /\ r.mem = n
    BY <1>1, <1>4 DEF Tables!Disorderly, States
<1>6. r.orderly
    OBVIOUS
<1> HIDE DEF r
<1>7. d.s.orderly /\ ~bad
    BY <1>5, <1>6
<1>8. s.orderly /\ \E l : OnPath(d, l, page, 1) /\ Grown(s, d.s, lev, l)
    BY <1>7, PageTableReached DEF d
<1>9. PICK l : OnPath(d, l, page, 1) /\ Grown(s, d.s, lev, l)
    BY <1>8
<1>10. /\ d.s.mem \in Memories /\ l \in Levels /\ Forest(d.s.mem, l, {}) /\ l[cr3] = 4
       /\ Gets(d.s.mem, cr3, page, 1) /\ t = TableOf(d.s.mem, cr3, page, 1)
    BY <1>2, <1>9 DEF OnPath, Shape, States
<1>11. Forest(n, l, {}) /\ WalksButOne(d.s.mem, n, l, cr3, page, Place(e))
    <2> DEFINE m == d.s.mem
    <2>1. /\ m \in Memories /\ Forest(m, l, {}) /\ Gets(m, cr3, page, 1)
          /\ t = TableOf(m, cr3, page, 1) /\ i = Tables!At(page, 1)
          /\ n = [m EXCEPT ![t] = [m[t] EXCEPT ![i] = e]]
        BY <1>10 DEF n, i
    <2> HIDE DEF m, t
    <2> DEFINE o == [m EXCEPT ![TableOf(m, cr3, page, 1)] =
                       [m[TableOf(m, cr3, page, 1)] EXCEPT ![Tables!At(page, 1)] = e]]
    <2>2. n = o
        BY <2>1
    <2>3. Forest(o, l, {}) /\ WalksButOne(m, o, l, cr3, page, Place(e))
        BY <1>3, <1>10, <2>1, LeafWritten
    <2> QED BY <2>2, <2>3 DEF m
<1>12. Place(e) = frame
    BY DEF e, Tables!Leaf, Place
<1>13. \A root \in Tables!Frame, q \in Nat : lev[root] = 4 =>
          l[root] = 4 /\ WalkedTo(d.s.mem, root, q) = WalkedTo(s.mem, root, q)
    BY <1>9 DEF Grown, Keeps, WalksSame
<1>14. MapsTo(s, r, lev, l, page, frame)
    <2>1. Shape(r, l) /\ Keeps(lev, l)
        BY <1>5, <1>9, <1>11 DEF Grown, Shape
    <2>2. ASSUME NEW root \in Tables!Frame, NEW q \in Nat, lev[root] = 4
          PROVE  WalkedTo(r.mem, root, q) =
                    IF root = cr3 /\ SamePage(q, page) THEN frame ELSE WalkedTo(s.mem, root, q)
        <3>1. l[root] = 4 /\ WalkedTo(d.s.mem, root, q) = WalkedTo(s.mem, root, q)
            BY <1>13, <2>2
        <3> QED BY <1>5, <1>11, <1>12, <3>1 DEF WalksButOne
    <2>3. WalksButOne(s.mem, r.mem, lev, cr3, page, frame)
        BY <2>2 DEF WalksButOne
    <2> QED BY <2>1, <2>3 DEF MapsTo
<1>15. ASSUME NEW q \in Nat, SamePage(q, page)
       PROVE  WalkedTo(s.mem, cr3, q) \in {Tables!Unmapped, frame}
    <2>1. WalkedTo(s.mem, cr3, q) = WalkedTo(d.s.mem, cr3, q)
        BY <1>13
    <2> DEFINE m == d.s.mem
    <2>2. Gets(m, cr3, q, 1) /\ TableOf(m, cr3, q, 1) = t /\ Tables!At(q, 1) = i
        <3>1. Tables!At(q, 1) = i
            BY <1>15 DEF SamePage, i
        <3>2. Gets(m, cr3, page, 1) /\ t = TableOf(m, cr3, page, 1)
            BY <1>10
        <3> HIDE DEF m, t
        <3> QED BY <1>15, <3>1, <3>2, SamePath
    <2>3. old = m[TableOf(m, cr3, q, 1)][Tables!At(q, 1)]
        BY <2>2
    <2>4. old.present => old.frame = frame
        BY <1>7 DEF bad
    <2> HIDE DEF m, old, t
    <2>5. old.present => WalkedTo(m, cr3, q) = frame
        BY <2>2, <2>3, <2>4, EndsInPage
    <2>6. ~old.present => WalkedTo(m, cr3, q) = Tables!Unmapped
        <3>1. 1 \in 1 .. 4
            OBVIOUS
        <3> QED BY <2>2, <2>3, <3>1, EndsAbsent
    <2> QED BY <2>1, <2>5, <2>6 DEF m
<1>16. r.flushed = s.flushed
    BY <1>5, <1>9 DEF Grown
<1> QED BY <1>8, <1>14, <1>15, <1>16 DEF r

-----------------------------------------------------------------------------
(* Unmapping a page.                                                       *)

\* unmap_page finds the page unmapped, or takes it out of its page table alone
\* and invalidates it.
LEMMA PageUnmapped ==
    ASSUME cr3 \in Tables!Frame, NEW s \in States, NEW lev, Shape(s, lev), lev[cr3] = 4,
           NEW page \in Nat, Tables!Unmap(s, page).orderly
    PROVE  LET r == Tables!Unmap(s, page)
           IN  /\ s.orderly /\ s.flushed \subseteq r.flushed
               /\ r = s \/ page \in r.flushed
               /\ MapsTo(s, r, lev, lev, page, Tables!Unmapped)
<1> DEFINE r == Tables!Unmap(s, page)
           m == s.mem
           e4 == EntryOf4(m, cr3, page)
           e3 == EntryOf3(m, cr3, page)
           e2 == EntryOf2(m, cr3, page)
           i == Tables!At(page, 1)
           t == e2.frame
           large == Tables!SetEntry(s, e3.frame, Tables!At(page, 2), Tables!Zero)
           small == Tables!SetEntry(s, t, i, Tables!Zero)
           flush == [small EXCEPT !.flushed = @ \cup {page}]
           n == [m EXCEPT ![t] = [m[t] EXCEPT ![i] = Tables!Zero]]
<1>1. r = IF ~e4.present \/ ~e3.present THEN s
          ELSE IF Tables!LargeBit(e2.frame) THEN Tables!Disorderly(large, TRUE)
          ELSE IF ~e2.present THEN s
          ELSE Tables!Disorderly(flush, e2.large)
    BY Zenon DEF Tables!Unmap, EntryOf4, EntryOf3, EntryOf2
<1>2. m \in Memories /\ lev \in Levels /\ Forest(m, lev, {})
    BY DEF States, Shape
<1>3. e3 \in Tables!Entry /\ e2 \in Tables!Entry /\ e3.frame \in Tables!Frame /\ t \in Tables!Frame
    BY <1>2, EntryTypes DEF Tables!Entry
<1>4. Tables!Zero \in Tables!Entry /\ Place(Tables!Zero) = Tables!Unmapped
    BY MachineAssumption DEF Tables!Zero, Tables!Entry, Tables!Frame, Place
<1>5. Tables!At(page, 2) \in Tables!Index /\ i \in Tables!Index
    BY IndexTypes
<1>6. large \in States /\ small \in States
    BY <1>3, <1>4, <1>5, EntryWritten
<1>7. ~Tables!Disorderly(large, TRUE).orderly
    <2> HIDE DEF large
    <2> QED BY <1>6 DEF Tables!Disorderly, States
<1>8. /\ flush.mem = n /\ flush.flushed = s.flushed \cup {page}
      /\ flush.next = s.next /\ flush.orderly = s.orderly /\ flush \in States
    <2>1. small = [s EXCEPT !.mem = n]
        BY <1>3 DEF Tables!SetEntry, States
    <2> HIDE DEF n, small
    <2> QED BY <1>6, <2>1 DEF States
<1>9. e4.present => ~(e3.present /\ e3.large)
    <2>1. SUFFICES ASSUME e4.present, e3.present PROVE ~e3.large
        OBVIOUS
    <2>2. 3 \in 1 .. 4 /\ Gets(m, cr3, page, 3)
        BY <2>1 DEF Gets
    <2>3. lev[TableOf(m, cr3, page, 3)] = 3 /\ TableOf(m, cr3, page, 3) \in Tables!Frame
        BY <1>2, <2>2, WalkLevels
    <2>4. e3 = m[TableOf(m, cr3, page, 3)][Tables!At(page, 3)]
        BY TableOfIs
    <2>5. Tables!At(page, 3) \in Tables!Index
        BY IndexTypes
    <2> HIDE DEF e3, e4, m
    <2> QED BY <1>2, <2>1, <2>3, <2>4, <2>5 DEF Forest
<1>10. CASE ~e4.present \/ ~e3.present \/ (~Tables!LargeBit(e2.frame) /\ ~e2.present)
    <2>1. r = s
        <3> HIDE DEF e4, e3, e2, large, flush
        <3> QED BY <1>1, <1>7, <1>10
    <2>2. ASSUME NEW q \in Nat, SamePage(q, page)
          PROVE  WalkedTo(m, cr3, q) = Tables!Unmapped
        <3>1. /\ EntryOf4(m, cr3, q) = e4 /\ EntryOf3(m, cr3, q) = e3 /\ EntryOf2(m, cr3, q) = e2
            <4>1. /\ Tables!At(q, 4) = Tables!At(page, 4) /\ Tables!At(q, 3) = Tables!At(page, 3)
                  /\ Tables!At(q, 2) = Tables!At(page, 2)
                BY <2>2 DEF SamePage
            <4> QED BY <4>1 DEF EntryOf4, EntryOf3, EntryOf2
        <3> HIDE DEF e4, e3, e2, m
        <3> QED BY <1>9, <1>10, <3>1 DEF WalkedTo
    <2>3. WalksButOne(s.mem, s.mem, lev, cr3, page, Tables!Unmapped)
        BY <2>2 DEF WalksButOne
    <2> HIDE DEF r
    <2>4. s.orderly
        BY <2>1 DEF r
    <2>5. MapsTo(s, s, lev, lev, page, Tables!Unmapped)
        BY <2>3 DEF MapsTo, Keeps
    <2> QED BY <2>1, <2>4, <2>5 DEF r
<1>11. CASE e4.present /\ e3.present /\ ~Tables!LargeBit(e2.frame) /\ e2.present
    <2>1. r = Tables!Disorderly(flush, e2.large)
        <3> HIDE DEF e4, e3, e2, large, flush
        <3> QED BY <1>1, <1>11
    <2> DEFINE bad == e2.large
    <2>2. /\ Tables!Disorderly(flush, bad).mem = flush.mem
          /\ Tables!Disorderly(flush, bad).next = flush.next
          /\ Tables!Disorderly(flush, bad).flushed = flush.flushed
          /\ Tables!Disorderly(flush, bad).orderly = (flush.orderly /\ ~bad)
        <3> HIDE DEF flush, bad
        <3> QED BY <1>8 DEF Tables!Disorderly, States
    <2>3. r.orderly
        OBVIOUS
    <2>4. /\ r.mem = n /\ r.next = s.next /\ r.flushed = s.flushed \cup {page}
          /\ s.orderly /\ ~e2.large
        <3> HIDE DEF r, flush, n, e2
        <3> QED BY <1>8, <2>1, <2>2, <2>3
    <2>5. Gets(m, cr3, page, 1)
        <3> HIDE DEF e4, e3, e2, m
        <3>1. e4.present /\ NamesTable(e3) /\ NamesTable(e2)
            BY <1>9, <1>11, <2>4 DEF NamesTable
        <3> QED BY <3>1 DEF Gets, e4, e3, e2
    <2>6. t = TableOf(m, cr3, page, 1)
        BY TableOfIs
    <2>7. Forest(n, lev, {}) /\ WalksButOne(m, n, lev, cr3, page, Place(Tables!Zero))
        <3> DEFINE o == [m EXCEPT ![TableOf(m, cr3, page, 1)] =
                           [m[TableOf(m, cr3, page, 1)] EXCEPT ![Tables!At(page, 1)] = Tables!Zero]]
        <3>1. n = o
            BY <2>6
        <3> HIDE DEF m, t, n
        <3>2. Forest(o, lev, {}) /\ WalksButOne(m, o, lev, cr3, page, Place(Tables!Zero))
            BY <1>2, <1>4, <2>5, LeafWritten
        <3> HIDE DEF o
        <3> QED BY <3>1, <3>2
    <2> HIDE DEF r, n, t, i, e4, e3, e2
    <2>8. MapsTo(s, r, lev, lev, page, Tables!Unmapped)
        <3>1. Shape(r, lev)
            BY <1>2, <2>4, <2>7 DEF Shape
        <3> QED BY <1>4, <2>4, <2>7, <3>1 DEF MapsTo, Keeps
    <2> QED BY <2>4, <2>8 DEF r
<1>12. CASE e4.present /\ e3.present /\ Tables!LargeBit(e2.frame)
    <2>1. r = Tables!Disorderly(large, TRUE)
        <3> HIDE DEF e4, e3, e2, large, flush
        <3> QED BY <1>1, <1>12
    <2> QED BY <1>7, <2>1
<1> HIDE DEF r, e4, e3, e2
<1> QED BY <1>10, <1>11, <1>12 DEF r

-----------------------------------------------------------------------------
(* What a call that keeps the root does to the pages.                      *)

\* A page that had a place has it still or has been invalidated.
Steady(s, r) ==
    /\ s.flushed \subseteq r.flushed
    /\ \A q \in Pages : \/ q \in r.flushed
                        \/ WalkedTo(s.mem, cr3, q) = Tables!Unmapped
                        \/ WalkedTo(s.mem, cr3, q) = WalkedTo(r.mem, cr3, q)

\* Pages stay where they are under other roots.
OthersStay(s, r, lev) ==
    \A root \in Tables!Frame, q \in Nat : lev[root] = 4 /\ root # cr3 =>
        WalkedTo(r.mem, root, q) = WalkedTo(s.mem, root, q)

Fine(s, r, lev, grown) ==
    Shape(r, grown) /\ Keeps(lev, grown) /\ Steady(s, r) /\ OthersStay(s, r, lev)

LEMMA FineTwice ==
    ASSUME NEW s, NEW r, NEW t, NEW lev \in Levels, NEW mid \in Levels, NEW grown,
           Fine(s, r, lev, mid), Fine(r, t, mid, grown)
    PROVE  Fine(s, t, lev, grown)
<1>1. \A f \in Tables!Frame : lev[f] # 0 => mid[f] = lev[f] /\ grown[f] = lev[f]
    BY DEF Fine, Keeps
<1>2. \A root \in Tables!Frame : lev[root] = 4 => mid[root] = 4
    BY <1>1
<1>3. OthersStay(s, t, lev)
    BY <1>2 DEF Fine, OthersStay
<1>4. s.flushed \subseteq r.flushed /\ r.flushed \subseteq t.flushed
    BY DEF Fine, Steady
<1>5. Steady(s, t)
    BY <1>4 DEF Fine, Steady
<1> QED BY <1>1, <1>3, <1>5 DEF Fine, Keeps

LEMMA MapFine ==
    ASSUME cr3 \in Tables!Frame, NEW s \in States, NEW lev, Shape(s, lev), lev[cr3] = 4,
           NEW page \in Nat, NEW frame \in Tables!Frame,
           Tables!Map4kb(s, page, frame).orderly
    PROVE  \E grown \in Levels : Fine(s, Tables!Map4kb(s, page, frame), lev, grown)
<1> DEFINE r == Tables!Map4kb(s, page, frame)
<1>1. /\ r.flushed = s.flushed
      /\ \A q \in Nat : SamePage(q, page) => WalkedTo(s.mem, cr3, q) \in {Tables!Unmapped, frame}
      /\ \E grown : MapsTo(s, r, lev, grown, page, frame)
    BY PageMapped
<1> HIDE DEF r
<1>2. PICK grown : MapsTo(s, r, lev, grown, page, frame)
    BY <1>1
<1>3. /\ Shape(r, grown) /\ Keeps(lev, grown)
      /\ \A root \in Tables!Frame, q \in Nat : lev[root] = 4 =>
            WalkedTo(r.mem, root, q) =
               IF root = cr3 /\ SamePage(q, page) THEN frame ELSE WalkedTo(s.mem, root, q)
    BY <1>2 DEF MapsTo, WalksButOne
<1>4. Steady(s, r)
    <2>1. ASSUME NEW q \in Pages
          PROVE  \/ WalkedTo(s.mem, cr3, q) = Tables!Unmapped
                 \/ WalkedTo(s.mem, cr3, q) = WalkedTo(r.mem, cr3, q)
        <3>1. q \in Nat
            BY CallsAssumption
        <3> QED BY <1>1, <1>3, <3>1
    <2> QED BY <1>1, <2>1 DEF Steady
<1>5. OthersStay(s, r, lev)
    BY <1>3 DEF OthersStay
<1>6. grown \in Levels
    BY <1>3 DEF Shape
<1> QED BY <1>3, <1>4, <1>5, <1>6 DEF Fine, r

LEMMA UnmapFine ==
    ASSUME cr3 \in Tables!Frame, NEW s \in States, NEW lev, Shape(s, lev), lev[cr3] = 4,
           NEW page \in 0 .. Space - 1, Tables!Unmap(s, page).orderly
    PROVE  Fine(s, Tables!Unmap(s, page), lev, lev)
<1> DEFINE r == Tables!Unmap(s, page)
<1>0. page \in Nat
    OBVIOUS
<1>1. /\ s.flushed \subseteq r.flushed
      /\ r = s \/ page \in r.flushed
      /\ MapsTo(s, r, lev, lev, page, Tables!Unmapped)
    BY <1>0, PageUnmapped
<1> HIDE DEF r
<1>2. /\ Shape(r, lev) /\ Keeps(lev, lev)
      /\ \A root \in Tables!Frame, q \in Nat : lev[root] = 4 =>
            WalkedTo(r.mem, root, q) =
               IF root = cr3 /\ SamePage(q, page) THEN Tables!Unmapped ELSE WalkedTo(s.mem, root, q)
    BY <1>1 DEF MapsTo, WalksButOne
<1>3. Steady(s, r)
    <2>1. ASSUME NEW q \in Pages
          PROVE  \/ q \in r.flushed
                 \/ WalkedTo(s.mem, cr3, q) = WalkedTo(r.mem, cr3, q)
        <3>1. q \in Nat /\ q \in 0 .. Space - 1
            BY CallsAssumption, SpaceAssumption
        <3>2. CASE SamePage(q, page)
            <4>1. q = page
                BY <3>1, <3>2, PagesDiffer
            <4> QED BY <1>1, <4>1
        <3>3. CASE ~SamePage(q, page)
            BY <1>2, <3>1, <3>3
        <3> QED BY <3>2, <3>3
    <2> QED BY <1>1, <2>1 DEF Steady
<1>4. OthersStay(s, r, lev)
    BY <1>2 DEF OthersStay
<1> QED BY <1>2, <1>3, <1>4 DEF Fine, r

LEMMA TookFine ==
    ASSUME NEW s \in States, NEW lev, Shape(s, lev), NEW size \in Nat
    PROVE  /\ Tables!Took(s, size).orderly = s.orderly
           /\ Fine(s, Tables!Took(s, size), lev, lev)
<1> DEFINE n == s.next + size
           r == Tables!Took(s, size)
<1>1. s.next \in Int /\ EndFree \in Int
    BY MachineAssumption DEF States
<1>2. CASE Tables!HasMemory(s, size)
    <2>1. n \in s.next .. EndFree
        BY <1>1, <1>2 DEF Tables!HasMemory
    <2>2. r = [s EXCEPT !.next = n]
        BY <1>2 DEF Tables!Took, States
    <2> HIDE DEF n, r
    <2>3. Fresh(n) \subseteq Fresh(s.next)
        BY <2>1, FreshLess
    <2>4. r.next = n /\ r.mem = s.mem /\ r.flushed = s.flushed /\ r.orderly = s.orderly
        BY <2>2 DEF States
    <2> QED BY <2>3, <2>4 DEF Fine, Shape, Keeps, Steady, OthersStay, r
<1>3. CASE ~Tables!HasMemory(s, size)
    <2>1. r = s
        BY <1>3 DEF Tables!Took
    <2> HIDE DEF r
    <2> QED BY <2>1 DEF Fine, Shape, Keeps, Steady, OthersStay, r
<1> QED BY <1>2, <1>3

-----------------------------------------------------------------------------
(* A program's memory, seen as trees.                                      *)

LEMMA MapOrderly ==
    ASSUME cr3 \in Tables!Frame, NEW s \in States, NEW page \in Nat, NEW frame \in Tables!Frame,
           Tables!Map4kb(s, page, frame).orderly
    PROVE  s.orderly
<1> DEFINE d == Tables!PageTable(s, page)
           i == Tables!At(page, 1)
           old == d.s.mem[d.table][i]
           w == Tables!SetEntry(d.s, d.table, i, Tables!Leaf(frame))
           bad == old.present /\ old.frame # frame
<1>1. Tables!Map4kb(s, page, frame) = Tables!Disorderly(w, bad)
    BY Zenon DEF Tables!Map4kb
<1>2. d.s \in States /\ d.table \in Tables!Frame
    BY PageTableKeeps
<1>3. i \in Tables!Index /\ Tables!Leaf(frame) \in Tables!Entry
    BY IndexTypes DEF Tables!Leaf, Tables!Entry
<1> HIDE DEF d, i
<1>4. w \in States
    BY <1>2, <1>3, EntryWritten
<1>5. w.orderly = d.s.orderly
    BY <1>2 DEF Tables!SetEntry, States
<1> HIDE DEF w, bad
<1>6. d.s.orderly
    BY <1>1, <1>4, <1>5 DEF Tables!Disorderly, States
<1> QED BY <1>6, PageTableOrderly DEF d

LEMMA UnmapOrderly ==
    ASSUME cr3 \in Tables!Frame, NEW s \in States, NEW page \in Nat,
           Tables!Unmap(s, page).orderly
    PROVE  s.orderly
<1> DEFINE e4 == EntryOf4(s.mem, cr3, page)
           e3 == EntryOf3(s.mem, cr3, page)
           e2 == EntryOf2(s.mem, cr3, page)
           large == Tables!SetEntry(s, e3.frame, Tables!At(page, 2), Tables!Zero)
           small == Tables!SetEntry(s, e2.frame, Tables!At(page, 1), Tables!Zero)
           flush == [small EXCEPT !.flushed = @ \cup {page}]
<1>1. Tables!Unmap(s, page) =
         IF ~e4.present \/ ~e3.present THEN s
         ELSE IF Tables!LargeBit(e2.frame) THEN Tables!Disorderly(large, TRUE)
         ELSE IF ~e2.present THEN s
         ELSE Tables!Disorderly(flush, e2.large)
    BY Zenon DEF Tables!Unmap, EntryOf4, EntryOf3, EntryOf2
<1>2. \A r \in States : ~Tables!Disorderly(r, TRUE).orderly
    BY DEF Tables!Disorderly, States
<1>3. \A r \in States : \A bad : Tables!Disorderly(r, bad).orderly => r.orderly
    BY DEF Tables!Disorderly, States
<1>4. e3.frame \in Tables!Frame /\ e2.frame \in Tables!Frame
    BY EntryTypes DEF Tables!Entry, States
<1>5. /\ Tables!Zero \in Tables!Entry
      /\ Tables!At(page, 2) \in Tables!Index /\ Tables!At(page, 1) \in Tables!Index
    BY MachineAssumption, IndexTypes DEF Tables!Zero, Tables!Entry, Tables!Frame
<1>6. large \in States /\ small \in States
    BY <1>4, <1>5, EntryWritten
<1>7. small.orderly = s.orderly
    BY DEF Tables!SetEntry, States
<1> HIDE DEF large, small
<1>8. flush \in States /\ flush.orderly = s.orderly
    BY <1>6, <1>7 DEF States
<1> HIDE DEF flush, e4, e3, e2
<1> QED BY <1>1, <1>2, <1>3, <1>6, <1>8

\* A call that keeps the root is orderly only after orderly ones, and then the tree
\* continues.
Continues(s, r) ==
    r.orderly =>
        /\ s.orderly
        /\ \A lev \in Levels : Shape(s, lev) /\ lev[cr3] = 4 =>
              \E grown \in Levels : Fine(s, r, lev, grown)

LEMMA ContinuesTwice ==
    ASSUME cr3 \in Tables!Frame, NEW s, NEW r, NEW t, Continues(s, r), Continues(r, t)
    PROVE  Continues(s, t)
<1>1. SUFFICES ASSUME t.orderly, NEW lev \in Levels, Shape(s, lev), lev[cr3] = 4
               PROVE  \E grown \in Levels : Fine(s, t, lev, grown)
    BY DEF Continues
<1>2. PICK mid \in Levels : Fine(s, r, lev, mid)
    BY <1>1 DEF Continues
<1>3. Shape(r, mid) /\ mid[cr3] = 4
    BY <1>1, <1>2 DEF Fine, Keeps
<1>4. PICK grown \in Levels : Fine(r, t, mid, grown)
    BY <1>1, <1>3 DEF Continues
<1>5. Fine(s, t, lev, grown)
    BY <1>2, <1>4, FineTwice
<1> QED BY <1>5

LEMMA MapContinues ==
    ASSUME cr3 \in Tables!Frame, NEW s \in States, NEW page \in Nat, NEW frame \in Tables!Frame
    PROVE  Continues(s, Tables!Map4kb(s, page, frame))
BY MapOrderly, MapFine DEF Continues

LEMMA UnmapContinues ==
    ASSUME cr3 \in Tables!Frame, NEW s \in States, NEW page \in 0 .. Space - 1
    PROVE  Continues(s, Tables!Unmap(s, page))
<1>1. page \in Nat
    OBVIOUS
<1> QED BY <1>1, UnmapOrderly, UnmapFine DEF Continues

LEMMA TookContinues ==
    ASSUME NEW s \in States, NEW size \in Nat
    PROVE  Continues(s, Tables!Took(s, size))
<1> DEFINE r == Tables!Took(s, size)
<1>1. \A lev : Shape(s, lev) => r.orderly = s.orderly /\ Fine(s, r, lev, lev)
    BY TookFine
<1>2. r.orderly = s.orderly
    BY DEF Tables!Took, States
<1> HIDE DEF r
<1> QED BY <1>1, <1>2 DEF Continues, r

\* One page of a program: mapped for the program, unmapped at its own address.
LEMMA ProgramPageContinues ==
    ASSUME cr3 \in Tables!Frame, NEW s \in States, NEW page \in Nat, NEW frame \in Tables!Frame
    PROVE  Continues(s, Tables!Unmap(Tables!Map4kb(s, page, frame), frame))
<1> DEFINE r == Tables!Map4kb(s, page, frame)
<1>1. r \in States /\ Continues(s, r)
    BY Map4kbKeeps, MapContinues
<1> HIDE DEF r
<1>2. frame \in 0 .. Space - 1
    <2>1. Space \in Nat
        <3>1. Entries \in Nat /\ Tables!Span[4] \in Nat
            BY MachineAssumption, SpanTypes
        <3> QED BY <3>1 DEF Space
    <2>2. frame \in 0 .. Frames - 1 /\ Frames \in Nat
        BY MachineAssumption DEF Tables!Frame
    <2> QED BY <2>1, <2>2, SpaceAssumption
<1>3. Continues(r, Tables!Unmap(r, frame))
    BY <1>1, <1>2, UnmapContinues
<1> DEFINE t == Tables!Unmap(r, frame)
<1> HIDE DEF t
<1>4. Continues(s, t)
    BY <1>1, <1>3, ContinuesTwice DEF t
<1> QED BY <1>4 DEF t, r

LEMMA MapProgramContinues ==
    ASSUME cr3 \in Tables!Frame, NEW s \in States, NEW address \in Nat,
           \A i \in 1 .. ProgramPages : (address \div Unit) + i - 1 \in Tables!Frame
    PROVE  Continues(s, Tables!MapProgram(s, address))
<1> DEFINE first == address \div Unit
<1>1. ProgramPages \in Nat /\ ProgramStart \in Nat
    BY CallsAssumption
<1>2. PICK after :
         /\ after[0] = s
         /\ \A i \in 1 .. ProgramPages :
               after[i] = Tables!Unmap(Tables!Map4kb(after[i - 1], ProgramStart + i - 1, first + i - 1),
                                      first + i - 1)
         /\ \A i \in 0 .. ProgramPages : after[i] \in States
         /\ Tables!MapProgram(s, address) = after[ProgramPages]
    BY MapProgramRuns
<1> HIDE DEF first
<1> DEFINE S == {t \in States : Continues(s, t)}
<1>3. Continues(s, s)
    <2>1. ASSUME NEW lev \in Levels, Shape(s, lev) PROVE Fine(s, s, lev, lev)
        BY <2>1 DEF Fine, Keeps, Steady, OthersStay
    <2> QED BY <2>1 DEF Continues
<1>4. ASSUME NEW i \in 1 .. ProgramPages, after[i - 1] \in S
      PROVE  after[i] \in S
    <2>1. i - 1 \in 0 .. ProgramPages /\ i \in 0 .. ProgramPages
        BY <1>1
    <2>2. first + i - 1 \in Tables!Frame /\ ProgramStart + i - 1 \in Nat
        BY <1>1 DEF first
    <2>3. after[i - 1] \in States /\ after[i] \in States /\ Continues(s, after[i - 1])
        BY <1>2, <1>4, <2>1
    <2>4. Continues(after[i - 1], after[i])
        BY <1>2, <2>2, <2>3, ProgramPageContinues
    <2> QED BY <2>3, <2>4, ContinuesTwice
<1>5. after[0] \in S
    BY <1>2, <1>3
<1> HIDE DEF S
<1>6. \A i \in 0 .. ProgramPages : after[i] \in S
    BY <1>1, <1>4, <1>5, LoopKeeps
<1>7. after[ProgramPages] \in S
    BY <1>1, <1>6
<1> QED BY <1>2, <1>7 DEF S

LEMMA ProgramContinues ==
    ASSUME cr3 \in Tables!Frame, NEW s \in States
    PROVE  Continues(s, Tables!InitUserProgram(s))
<1> DEFINE s1 == ProgramTook(s)
           s2 == Tables!Took(s1, Unit)
           s3 == ProgramTaken(s)
           s4 == Tables!MapProgram(s3, s.next)
           s5 == Tables!Map4kb(s4, StackPage, ProgramStack(s))
<1>1. ProgramPages * Unit \in Nat /\ Unit \in Nat /\ StackPage \in Nat
    BY MachineAssumption, CallsAssumption
<1>2. Tables!InitUserProgram(s) = IF ProgramFits(s) THEN s5 ELSE s2
    BY InitUserProgramIs
<1>3. Continues(s, s2)
    <2>1. s1 \in States /\ Continues(s, s1)
        BY <1>1, TookKeeps, TookContinues DEF ProgramTook
    <2> HIDE DEF s1
    <2>2. Continues(s1, s2)
        BY <1>1, <2>1, TookContinues
    <2> HIDE DEF s2
    <2> QED BY <2>1, <2>2, ContinuesTwice
<1>4. ASSUME ProgramFits(s) PROVE Continues(s, s5)
    <2>1. /\ s3 \in States /\ ProgramStack(s) \in Tables!Frame /\ s.next \in Nat
          /\ \A i \in 1 .. ProgramPages : (s.next \div Unit) + i - 1 \in Tables!Frame
          /\ \E n \in s.next .. EndFree, g \in Seq(Nat) : s3 = [s EXCEPT !.next = n, !.given = g]
        BY <1>4, ProgramTakenIs
    <2> HIDE DEF s3
    <2>2. Continues(s, s3)
        <3>1. PICK n \in s.next .. EndFree, g \in Seq(Nat) : s3 = [s EXCEPT !.next = n, !.given = g]
            BY <2>1
        <3>2. /\ s3.mem = s.mem /\ s3.next = n /\ s3.flushed = s.flushed
              /\ s3.orderly = s.orderly
            BY <3>1 DEF States
        <3>3. Fresh(s3.next) \subseteq Fresh(s.next)
            BY <3>2, FreshLess
        <3>4. ASSUME NEW lev \in Levels, Shape(s, lev) PROVE Fine(s, s3, lev, lev)
            BY <3>2, <3>3, <3>4 DEF Fine, Shape, Keeps, Steady, OthersStay
        <3> QED BY <3>2, <3>4 DEF Continues
    <2>3. s4 \in States /\ Continues(s3, s4)
        BY <2>1, MapProgramKeeps, MapProgramContinues
    <2> HIDE DEF s4
    <2>4. Continues(s4, s5)
        BY <1>1, <2>1, <2>3, MapContinues
    <2> HIDE DEF s5
    <2>5. Continues(s, s4)
        BY <2>2, <2>3, ContinuesTwice
    <2> QED BY <2>4, <2>5, ContinuesTwice
<1> HIDE DEF s2, s5
<1> QED BY <1>2, <1>3, <1>4

-----------------------------------------------------------------------------
(* Copies of tables.                                                       *)

\* What frames hold that are no tables makes no difference.
LEMMA FreeWritten ==
    ASSUME NEW m \in Memories, NEW n, NEW lev \in Levels, NEW pending, Forest(m, lev, pending),
           \A g \in Tables!Frame : lev[g] # 0 => n[g] = m[g]
    PROVE  Forest(n, lev, pending) /\ WalksSame(m, n, lev)
<1>1. \A g \in Tables!Frame : lev[g] \in 0 .. 4
    BY DEF Levels
<1>2. \A g \in Tables!Frame : lev[g] >= 2 => n[g] = m[g]
    BY <1>1
<1>3. \A g \in Tables!Frame, j \in Tables!Index : Names(n, lev, g, j) => Names(m, lev, g, j) /\ n[g] = m[g]
    BY <1>2 DEF Names
<1>4. Forest(n, lev, pending)
    <2>1. \A g \in Tables!Frame, j \in Tables!Index : lev[g] >= 3 /\ n[g][j].present => ~n[g][j].large
        <3>1. \A g \in Tables!Frame : lev[g] >= 3 => n[g] = m[g]
            BY <1>1
        <3> QED BY <3>1 DEF Forest
    <2>2. \A g \in Tables!Frame, j \in Tables!Index :
             Names(n, lev, g, j) => lev[n[g][j].frame] = lev[g] - 1
        BY <1>3 DEF Forest
    <2>3. ASSUME NEW f \in Tables!Frame, NEW g \in Tables!Frame,
                 NEW i \in Tables!Index, NEW j \in Tables!Index,
                 Names(n, lev, f, i), <<f, i>> \notin pending,
                 Names(n, lev, g, j), <<g, j>> \notin pending, n[f][i].frame = n[g][j].frame
          PROVE  f = g /\ i = j
        <3>1. Names(m, lev, f, i) /\ Names(m, lev, g, j) /\ m[f][i].frame = m[g][j].frame
            BY <1>3, <2>3
        <3> QED BY <2>3, <3>1 DEF Forest
    <2> QED BY <2>1, <2>2, <2>3 DEF Forest
<1>5. ASSUME NEW root \in Tables!Frame, NEW page \in Nat, lev[root] = 4
      PROVE  WalkedTo(n, root, page) = WalkedTo(m, root, page)
    <2>1. ASSUME NEW level \in 1 .. 4, Gets(m, root, page, level)
          PROVE  n[TableOf(m, root, page, level)][Tables!At(page, level)]
                    = m[TableOf(m, root, page, level)][Tables!At(page, level)]
        <3>1. /\ TableOf(m, root, page, level) \in Tables!Frame
              /\ lev[TableOf(m, root, page, level)] = level
            BY <1>5, <2>1, WalkLevels
        <3> QED BY <3>1
    <2>2. SameLooks(m, n, root, page)
        BY <2>1 DEF SameLooks
    <2> QED BY <2>2, SameEntries
<1> QED BY <1>4, <1>5 DEF WalksSame

Whole(f) == {<<f, j>> : j \in Tables!Index}

\* No entry names the frame.
Unnamed(m, lev, f) ==
    \A g \in Tables!Frame, j \in Tables!Index : Names(m, lev, g, j) => m[g][j].frame # f

\* A frame that holds the same as a table is a table of that level, its entries
\* pending: they name what those of the other one name.
LEMMA CopyGrows ==
    ASSUME NEW m \in Memories, NEW lev \in Levels, NEW pending, Forest(m, lev, pending),
           NEW f \in Tables!Frame, lev[f] = 0,
           NEW g \in Tables!Frame, lev[g] # 0, m[f] = m[g]
    PROVE  LET grown == [lev EXCEPT ![f] = lev[g]]
           IN  /\ grown \in Levels /\ Keeps(lev, grown)
               /\ Forest(m, grown, pending \cup Whole(f))
               /\ Unnamed(m, grown, f)
<1> DEFINE grown == [lev EXCEPT ![f] = lev[g]]
<1>1. /\ grown \in Levels
      /\ \A x \in Tables!Frame : grown[x] = IF x = f THEN lev[g] ELSE lev[x]
      /\ \A x \in Tables!Frame : lev[x] \in 0 .. 4
    BY DEF Levels
<1>2. \A x \in Tables!Frame, j \in Tables!Index : m[x][j].frame \in Tables!Frame
    BY DEF Memories, Tables!Entry
<1> HIDE DEF grown
<1>3. ASSUME NEW x \in Tables!Frame, NEW j \in Tables!Index, Names(m, grown, x, j)
      PROVE  /\ m[x][j].frame # f /\ grown[m[x][j].frame] = grown[x] - 1
             /\ x # f => Names(m, lev, x, j)
    <2> DEFINE y == IF x = f THEN g ELSE x
    <2>1. Names(m, lev, y, j) /\ m[y] = m[x] /\ lev[y] = grown[x] /\ y \in Tables!Frame
        BY <1>1, <1>3 DEF Names
    <2> HIDE DEF y
    <2>2. lev[m[y][j].frame] = lev[y] - 1 /\ lev[y] >= 2
        BY <2>1 DEF Forest, Names
    <2>3. m[x][j].frame # f
        BY <1>1, <2>1, <2>2
    <2> QED BY <1>1, <1>2, <2>1, <2>2, <2>3 DEF y
<1>4. \A x \in Tables!Frame, j \in Tables!Index : grown[x] >= 3 /\ m[x][j].present => ~m[x][j].large
    BY <1>1 DEF Forest
<1>5. ASSUME NEW x \in Tables!Frame, NEW y \in Tables!Frame,
             NEW i \in Tables!Index, NEW j \in Tables!Index,
             Names(m, grown, x, i), <<x, i>> \notin pending \cup Whole(f),
             Names(m, grown, y, j), <<y, j>> \notin pending \cup Whole(f),
             m[x][i].frame = m[y][j].frame
      PROVE  x = y /\ i = j
    <2>1. x # f /\ y # f
        BY <1>5 DEF Whole
    <2>2. Names(m, lev, x, i) /\ Names(m, lev, y, j)
        BY <1>3, <1>5, <2>1
    <2> QED BY <1>5, <2>2 DEF Forest
<1>6. Forest(m, grown, pending \cup Whole(f))
    BY <1>3, <1>4, <1>5 DEF Forest
<1>7. Unnamed(m, grown, f)
    BY <1>3 DEF Unnamed
<1>8. Keeps(lev, grown)
    BY <1>1 DEF Keeps
<1> QED BY <1>1, <1>6, <1>7, <1>8 DEF grown

\* Two walks that end in the same way.
Likewise(e, h) ==
    h.present = e.present /\ h.large = e.large /\ (NamesTable(e) \/ h.frame = e.frame)

LEMMA WalkedLikewise ==
    ASSUME NEW m, NEW n, NEW root, NEW page,
           Likewise(EntryOf4(m, root, page), EntryOf4(n, root, page)),
           EntryOf4(m, root, page).present =>
              /\ Likewise(EntryOf3(m, root, page), EntryOf3(n, root, page))
              /\ NamesTable(EntryOf3(m, root, page)) =>
                    /\ Likewise(EntryOf2(m, root, page), EntryOf2(n, root, page))
                    /\ NamesTable(EntryOf2(m, root, page)) =>
                          EntryOf1(n, root, page) = EntryOf1(m, root, page)
    PROVE  WalkedTo(n, root, page) = WalkedTo(m, root, page)
BY DEF WalkedTo, Likewise, NamesTable, InLarge

\* An entry that names another table with the same entries.
Redirected(m, t, i, f) == [m EXCEPT ![t] = [m[t] EXCEPT ![i] = [m[t][i] EXCEPT !.frame = f]]]

LEMMA RedirectedIs ==
    ASSUME NEW m \in Memories, NEW t \in Tables!Frame, NEW i \in Tables!Index, NEW f \in Tables!Frame
    PROVE  LET n == Redirected(m, t, i, f)
           IN  /\ n \in Memories /\ Agrees(m, n, t, i)
               /\ n[t][i].frame = f
               /\ n[t][i].present = m[t][i].present /\ n[t][i].large = m[t][i].large
<1> DEFINE e == [m[t][i] EXCEPT !.frame = f]
           n == [m EXCEPT ![t] = [m[t] EXCEPT ![i] = e]]
<1>1. m[t][i] \in Tables!Entry
    BY DEF Memories
<1>2. /\ e \in Tables!Entry /\ e.frame = f
      /\ e.present = m[t][i].present /\ e.large = m[t][i].large
    BY <1>1 DEF Tables!Entry
<1>3. Redirected(m, t, i, f) = n
    BY DEF Redirected
<1> HIDE DEF e
<1>4. n \in Memories /\ n[t][i] = e
    BY <1>2 DEF Memories
<1>5. Agrees(m, n, t, i)
    BY DEF Agrees, Memories
<1> QED BY <1>2, <1>3, <1>4, <1>5

LEMMA RedirectWalks ==
    ASSUME NEW m \in Memories, NEW lev \in Levels, NEW pending, Forest(m, lev, pending),
           NEW t \in Tables!Frame, NEW i \in Tables!Index, Names(m, lev, t, i),
           NEW f \in Tables!Frame, lev[f] = lev[t] - 1, m[f] = m[m[t][i].frame]
    PROVE  WalksSame(m, Redirected(m, t, i, f), lev)
<1> DEFINE n == Redirected(m, t, i, f)
           g == m[t][i].frame
<1>1. /\ n \in Memories /\ Agrees(m, n, t, i) /\ n[t][i].frame = f
      /\ n[t][i].present = m[t][i].present /\ n[t][i].large = m[t][i].large
    BY RedirectedIs
<1>2. NamesTable(m[t][i]) /\ NamesTable(n[t][i]) /\ lev[t] \in 2 .. 4
    BY <1>1 DEF Names, NamesTable, Levels
<1>3. g \in Tables!Frame /\ lev[g] = lev[t] - 1 /\ g # t /\ f # t
    <2>1. g \in Tables!Frame
        BY DEF Memories, Tables!Entry
    <2>2. lev[g] = lev[t] - 1
        BY DEF Forest
    <2> QED BY <1>2, <2>1, <2>2
<1>4. \A x \in Tables!Frame, j \in Tables!Index : x # t \/ j # i => n[x][j] = m[x][j]
    BY <1>1 DEF Agrees
<1>5. \A j \in Tables!Index : n[f][j] = m[g][j]
    BY <1>3, <1>4
<1> HIDE DEF n, g
<1>6. ASSUME NEW root \in Tables!Frame, NEW page \in Nat, lev[root] = 4
      PROVE  WalkedTo(n, root, page) = WalkedTo(m, root, page)
    <2>1. CASE ~Passes(m, lev, root, page, t, i)
        BY <1>1, <1>6, <2>1, WriteElsewhere
    <2>2. CASE Passes(m, lev, root, page, t, i)
        <3> DEFINE e4 == EntryOf4(m, root, page)
                   e3 == EntryOf3(m, root, page)
                   e2 == EntryOf2(m, root, page)
                   e1 == EntryOf1(m, root, page)
                   h4 == EntryOf4(n, root, page)
                   h3 == EntryOf3(n, root, page)
                   h2 == EntryOf2(n, root, page)
                   h1 == EntryOf1(n, root, page)
                   A(level) == Tables!At(page, level)
        <3>1. /\ e4 = m[root][A(4)] /\ e3 = m[e4.frame][A(3)]
              /\ e2 = m[e3.frame][A(2)] /\ e1 = m[e2.frame][A(1)]
              /\ h4 = n[root][A(4)] /\ h3 = n[h4.frame][A(3)]
              /\ h2 = n[h3.frame][A(2)] /\ h1 = n[h2.frame][A(1)]
            BY DEF EntryOf4, EntryOf3, EntryOf2, EntryOf1
        <3>2. A(4) \in Tables!Index /\ A(3) \in Tables!Index /\ A(2) \in Tables!Index /\ A(1) \in Tables!Index
            BY IndexTypes
        <3>3. e4.frame \in Tables!Frame /\ e3.frame \in Tables!Frame /\ e2.frame \in Tables!Frame
            BY EntryTypes DEF Tables!Entry
        <3>4. /\ e4.present => lev[e4.frame] = 3
              /\ e4.present /\ NamesTable(e3) => lev[e3.frame] = 2
              /\ e4.present /\ NamesTable(e3) /\ NamesTable(e2) => lev[e2.frame] = 1
            <4>1. \A level \in 1 .. 4 : Gets(m, root, page, level) => lev[TableOf(m, root, page, level)] = level
                BY <1>6, WalkLevels
            <4>2. /\ Gets(m, root, page, 3) <=> e4.present
                  /\ Gets(m, root, page, 2) <=> e4.present /\ NamesTable(e3)
                  /\ Gets(m, root, page, 1) <=> e4.present /\ NamesTable(e3) /\ NamesTable(e2)
                BY DEF Gets
            <4>3. /\ TableOf(m, root, page, 3) = e4.frame /\ TableOf(m, root, page, 2) = e3.frame
                  /\ TableOf(m, root, page, 1) = e2.frame
                BY TableOfIs
            <4>4. 1 \in 1 .. 4 /\ 2 \in 1 .. 4 /\ 3 \in 1 .. 4
                OBVIOUS
            <4> HIDE DEF e4, e3, e2
            <4> QED BY <4>1, <4>2, <4>3, <4>4
        <3>5. Gets(m, root, page, lev[t]) /\ TableOf(m, root, page, lev[t]) = t /\ A(lev[t]) = i
            BY <2>2 DEF Passes
        <3>6. /\ lev[t] = 4 => t = root
              /\ lev[t] = 3 => t = e4.frame /\ e4.present
              /\ lev[t] = 2 => t = e3.frame /\ e4.present /\ NamesTable(e3)
            <4>1. /\ lev[t] = 4 => TableOf(m, root, page, 4) = t
                  /\ lev[t] = 3 => TableOf(m, root, page, 3) = t /\ Gets(m, root, page, 3)
                  /\ lev[t] = 2 => TableOf(m, root, page, 2) = t /\ Gets(m, root, page, 2)
                BY <3>5
            <4> QED BY <4>1, TableOfIs DEF Gets
        <3> HIDE DEF e4, e3, e2, e1, h4, h3, h2, h1
        <3>7. /\ lev[t] = 4 => A(4) = i
              /\ lev[t] = 3 => A(3) = i
              /\ lev[t] = 2 => A(2) = i
            BY <3>5
        <3> HIDE DEF A
        <3>8. lev[t] # 4 => h4 = e4
            BY <1>4, <1>6, <3>1, <3>2
        <3>9. lev[t] = 4 => /\ NamesTable(e4) /\ h4.frame = f /\ e4.frame = g
                             /\ h4.present = e4.present /\ h4.large = e4.large
            BY <1>1, <1>2, <3>1, <3>6, <3>7 DEF g
        <3>10. lev[t] # 3 /\ e4.present => h3 = e3
            <4>1. CASE lev[t] = 4
                BY <1>5, <3>1, <3>2, <3>9, <4>1
            <4>2. CASE lev[t] = 2 /\ e4.present
                <5>1. h4 = e4
                    BY <3>8, <4>2
                <5>2. e4.frame # t
                    BY <3>4, <4>2
                <5>3. n[e4.frame][A(3)] = m[e4.frame][A(3)]
                    BY <1>4, <3>2, <3>3, <5>2
                <5>4. h3 = n[e4.frame][A(3)] /\ e3 = m[e4.frame][A(3)]
                    BY <3>1, <5>1
                <5> QED BY <5>3, <5>4
            <4> QED BY <1>2, <4>1, <4>2
        <3>11. lev[t] = 3 => /\ NamesTable(e3) /\ h3.frame = f /\ e3.frame = g
                             /\ h3.present = e3.present /\ h3.large = e3.large
            <4>1. SUFFICES ASSUME lev[t] = 3
                  PROVE  /\ NamesTable(e3) /\ h3.frame = f /\ e3.frame = g
                         /\ h3.present = e3.present /\ h3.large = e3.large
                OBVIOUS
            <4>2. h4 = e4 /\ t = e4.frame /\ i = A(3)
                BY <3>6, <3>7, <3>8, <4>1
            <4>3. e3 = m[t][i] /\ h3 = n[t][i]
                BY <3>1, <4>2
            <4> QED BY <1>1, <1>2, <4>3 DEF g
        <3>12. lev[t] # 2 /\ e4.present /\ NamesTable(e3) => h2 = e2
            <4>1. CASE lev[t] = 3
                BY <1>5, <3>1, <3>2, <3>11, <4>1
            <4>2. CASE lev[t] = 4 /\ e4.present /\ NamesTable(e3)
                <5>1. h3 = e3 /\ e3.frame # t
                    BY <3>4, <3>10, <4>2
                <5>2. n[e3.frame][A(2)] = m[e3.frame][A(2)]
                    BY <1>4, <3>2, <3>3, <5>1
                <5>3. h2 = n[e3.frame][A(2)] /\ e2 = m[e3.frame][A(2)]
                    BY <3>1, <5>1
                <5> QED BY <5>2, <5>3
            <4> QED BY <1>2, <4>1, <4>2
        <3>13. lev[t] = 2 => /\ NamesTable(e2) /\ h2.frame = f /\ e2.frame = g
                             /\ h2.present = e2.present /\ h2.large = e2.large
            <4>1. SUFFICES ASSUME lev[t] = 2
                  PROVE  /\ NamesTable(e2) /\ h2.frame = f /\ e2.frame = g
                         /\ h2.present = e2.present /\ h2.large = e2.large
                OBVIOUS
            <4>2. h3 = e3 /\ t = e3.frame /\ i = A(2)
                BY <3>6, <3>7, <3>10, <4>1
            <4>3. e2 = m[t][i] /\ h2 = n[t][i]
                BY <3>1, <4>2
            <4> QED BY <1>1, <1>2, <4>3 DEF g
        <3>14. e4.present /\ NamesTable(e3) /\ NamesTable(e2) => h1 = e1
            <4>1. CASE lev[t] = 2
                BY <1>5, <3>1, <3>2, <3>13, <4>1
            <4>2. CASE lev[t] # 2 /\ e4.present /\ NamesTable(e3) /\ NamesTable(e2)
                <5>1. h2 = e2 /\ e2.frame # t
                    BY <1>2, <3>4, <3>12, <4>2
                <5>2. n[e2.frame][A(1)] = m[e2.frame][A(1)]
                    BY <1>4, <3>2, <3>3, <5>1
                <5>3. h1 = n[e2.frame][A(1)] /\ e1 = m[e2.frame][A(1)]
                    BY <3>1, <5>1
                <5> QED BY <5>2, <5>3
            <4> QED BY <4>1, <4>2
        <3>15. Likewise(e4, h4)
            BY <3>8, <3>9 DEF Likewise
        <3>16. e4.present => Likewise(e3, h3)
            BY <3>10, <3>11 DEF Likewise
        <3>17. e4.present /\ NamesTable(e3) => Likewise(e2, h2)
            BY <3>12, <3>13 DEF Likewise
        <3> QED BY <3>14, <3>15, <3>16, <3>17, WalkedLikewise DEF e4, e3, e2, e1, h4, h3, h2, h1
    <2> QED BY <2>1, <2>2
<1> QED BY <1>6 DEF WalksSame, n

LEMMA RedirectForest ==
    ASSUME NEW m \in Memories, NEW lev \in Levels, NEW pending, Forest(m, lev, pending),
           NEW t \in Tables!Frame, NEW i \in Tables!Index, Names(m, lev, t, i),
           NEW f \in Tables!Frame, lev[f] = lev[t] - 1, Unnamed(m, lev, f)
    PROVE  Forest(Redirected(m, t, i, f), lev, pending \ {<<t, i>>})
<1> DEFINE n == Redirected(m, t, i, f)
<1>1. /\ n \in Memories /\ Agrees(m, n, t, i) /\ n[t][i].frame = f
      /\ n[t][i].present = m[t][i].present /\ n[t][i].large = m[t][i].large
    BY RedirectedIs
<1>2. \A x \in Tables!Frame, j \in Tables!Index : x # t \/ j # i => n[x][j] = m[x][j]
    BY <1>1 DEF Agrees
<1> HIDE DEF n
<1>3. \A x \in Tables!Frame, j \in Tables!Index : Names(n, lev, x, j) => Names(m, lev, x, j)
    BY <1>1, <1>2 DEF Names, NamesTable
<1>4. ASSUME NEW x \in Tables!Frame, NEW j \in Tables!Index, lev[x] >= 3, n[x][j].present
      PROVE  ~n[x][j].large
    <2>1. n[x][j].present = m[x][j].present /\ n[x][j].large = m[x][j].large
        BY <1>1, <1>2
    <2> QED BY <1>4, <2>1 DEF Forest
<1>5. ASSUME NEW x \in Tables!Frame, NEW j \in Tables!Index, Names(n, lev, x, j)
      PROVE  lev[n[x][j].frame] = lev[x] - 1
    <2>1. CASE x = t /\ j = i
        BY <1>1, <2>1
    <2>2. CASE x # t \/ j # i
        BY <1>2, <1>3, <1>5, <2>2 DEF Forest
    <2> QED BY <2>1, <2>2
<1>6. ASSUME NEW x \in Tables!Frame, NEW y \in Tables!Frame,
             NEW j \in Tables!Index, NEW k \in Tables!Index,
             Names(n, lev, x, j), <<x, j>> \notin pending \ {<<t, i>>},
             Names(n, lev, y, k), <<y, k>> \notin pending \ {<<t, i>>},
             n[x][j].frame = n[y][k].frame
      PROVE  x = y /\ j = k
    <2>1. ASSUME NEW z \in Tables!Frame, NEW l \in Tables!Index, Names(n, lev, z, l), z # t \/ l # i
          PROVE  n[z][l].frame # f /\ n[z][l] = m[z][l] /\ Names(m, lev, z, l)
        BY <1>2, <1>3, <2>1 DEF Unnamed
    <2>2. CASE x = t /\ j = i
        BY <1>1, <1>6, <2>1, <2>2
    <2>3. CASE y = t /\ k = i
        BY <1>1, <1>6, <2>1, <2>3
    <2>4. CASE (x # t \/ j # i) /\ (y # t \/ k # i)
        <3>1. <<x, j>> \notin pending /\ <<y, k>> \notin pending
            BY <1>6, <2>4
        <3> QED BY <1>6, <2>1, <2>4, <3>1 DEF Forest
    <2> QED BY <2>2, <2>3, <2>4
<1> QED BY <1>4, <1>5, <1>6 DEF Forest, n

-----------------------------------------------------------------------------
(* The copy of the tables, seen as trees.                                  *)

\* The tables in the middle of a copy: pending entries still name what others do.
Copying(s, lev, pending) ==
    /\ lev \in Levels /\ Forest(s.mem, lev, pending)
    /\ \A f \in Tables!Frame : f \in Fresh(s.next) => lev[f] = 0

\* What a copying step does to memory at most: it writes the table and fresh frames.
Copies(s, r, table) ==
    /\ Fresh(r.next) \subseteq Fresh(s.next)
    /\ \A f \in Tables!Frame : f \notin Fresh(s.next) /\ f # table => r.mem[f] = s.mem[f]
    /\ r.orderly => s.orderly
    /\ r.complete => s.complete

LEMMA CopiesTwice ==
    ASSUME NEW s, NEW t, NEW r, NEW table, Copies(s, t, table), Copies(t, r, table)
    PROVE  Copies(s, r, table)
BY Zenon DEF Copies

\* The tables stay of their levels, walks end where they did, and only these entries
\* are pending.
Copied(s, r, lev, pending) ==
    \E grown \in Levels :
        Copying(r, grown, pending) /\ Keeps(lev, grown) /\ WalksSame(s.mem, r.mem, lev)

LEMMA CopiedTwice ==
    ASSUME NEW s, NEW t, NEW r, NEW lev \in Levels, NEW mid \in Levels, NEW pending,
           Keeps(lev, mid), WalksSame(s.mem, t.mem, lev), Copied(t, r, mid, pending)
    PROVE  Copied(s, r, lev, pending)
<1>1. PICK grown \in Levels :
         Copying(r, grown, pending) /\ Keeps(mid, grown) /\ WalksSame(t.mem, r.mem, mid)
    BY DEF Copied
<1>2. \A f \in Tables!Frame : lev[f] # 0 => mid[f] = lev[f] /\ grown[f] = lev[f]
    BY <1>1 DEF Keeps
<1>3. \A root \in Tables!Frame : lev[root] = 4 => mid[root] = 4
    BY <1>2
<1>4. WalksSame(s.mem, r.mem, lev)
    BY <1>1, <1>3 DEF WalksSame
<1> QED BY <1>1, <1>2, <1>4 DEF Copied, Keeps

\* Entries that name no table need not be pending.
LEMMA PendingDropped ==
    ASSUME NEW m, NEW lev, NEW more, NEW fewer, Forest(m, lev, more),
           \A f \in Tables!Frame, i \in Tables!Index :
              <<f, i>> \in more /\ <<f, i>> \notin fewer => ~Names(m, lev, f, i)
    PROVE  Forest(m, lev, fewer)
BY DEF Forest

\* Memory has room for a copy: the frame is a fresh one.
LEMMA CopyTaken ==
    ASSUME NEW s \in States, Tables!HasMemory(s, Tables!AlignedSize)
    PROVE  LET f == Tables!AlignedFrame(s)
               n == s.next + Tables!AlignedSize
           IN  /\ f \in Tables!Frame /\ f \in Fresh(s.next) /\ f \notin Fresh(n)
               /\ Fresh(n) \subseteq Fresh(s.next)
<1> DEFINE f == Tables!AlignedFrame(s)
           n == s.next + Tables!AlignedSize
<1>1. n \in s.next .. EndFree /\ f \in (s.next \div Unit) .. (n \div Unit) - 1 /\ f \in Tables!Frame
    BY AlignedTaken
<1> HIDE DEF f, n
<1>2. f \in Fresh(s.next) /\ f \notin Fresh(n) /\ Fresh(n) \subseteq Fresh(s.next)
    BY <1>1, FreshLess
<1> QED BY <1>1, <1>2 DEF f, n

LEMMA CopyTableIs ==
    ASSUME NEW s \in States, NEW source \in Tables!Frame
    PROVE  LET r == Tables!CopyTable(s, source)
               f == Tables!AlignedFrame(s)
           IN  /\ r.orderly = s.orderly
               /\ Tables!HasMemory(s, Tables!AlignedSize) =>
                     /\ r.complete = s.complete
                     /\ r.next = s.next + Tables!AlignedSize
                     /\ r.mem = [s.mem EXCEPT ![f] = s.mem[source]]
               /\ ~Tables!HasMemory(s, Tables!AlignedSize) =>
                     /\ r.complete = FALSE /\ r.next = s.next /\ r.mem = s.mem
<1> DEFINE f == Tables!AlignedFrame(s)
           n == s.next + Tables!AlignedSize
           m == [s.mem EXCEPT ![f] = s.mem[source]]
           g == Append(s.given, f)
           r == Tables!CopyTable(s, source)
<1>1. CASE Tables!HasMemory(s, Tables!AlignedSize)
    <2>1. r = [Tables!Took(s, Tables!AlignedSize) EXCEPT !.mem[f] = s.mem[source],
                                                          !.given = Append(@, f)]
        BY Zenon, <1>1 DEF Tables!CopyTable
    <2>2. Tables!Took(s, Tables!AlignedSize) = [s EXCEPT !.next = n]
        BY <1>1 DEF Tables!Took, States
    <2>3. r = [s EXCEPT !.mem = m, !.next = n, !.given = g]
        BY <2>1, <2>2 DEF States
    <2> HIDE DEF f, n, m, g, r
    <2>4. r.mem = m /\ r.next = n /\ r.complete = s.complete /\ r.orderly = s.orderly
        BY <2>3 DEF States
    <2> QED BY <1>1, <2>4 DEF f, n, m, r
<1>2. CASE ~Tables!HasMemory(s, Tables!AlignedSize)
    <2>1. r = [s EXCEPT !.complete = FALSE]
        BY <1>2 DEF Tables!CopyTable
    <2> HIDE DEF r
    <2>2. r.complete = FALSE /\ r.next = s.next /\ r.mem = s.mem /\ r.orderly = s.orderly
        BY <2>1 DEF States
    <2> QED BY <1>2, <2>2 DEF r
<1> QED BY <1>1, <1>2

\* The step for an entry: the copy it makes, and the entry redirected to it.
LEMMA CopyTargetIs ==
    ASSUME NEW s \in States, NEW table \in Tables!Frame, NEW i \in Tables!Index
    PROVE  LET r == Tables!CopyTarget(s, table, i)
               f == Tables!AlignedFrame(s)
               named == Redirected(s.mem, table, i, f)
           IN  /\ r.orderly = s.orderly
               /\ Tables!HasMemory(s, Tables!AlignedSize) =>
                     /\ r.complete = s.complete
                     /\ r.next = s.next + Tables!AlignedSize
                     /\ r.mem = [named EXCEPT ![f] = named[s.mem[table][i].frame]]
               /\ ~Tables!HasMemory(s, Tables!AlignedSize) =>
                     /\ r.complete = FALSE /\ r.next = s.next /\ r.mem = s.mem
<1> DEFINE f == Tables!AlignedFrame(s)
           source == s.mem[table][i].frame
           e == [s.mem[table][i] EXCEPT !.frame = f]
           named == IF Tables!HasMemory(s, Tables!AlignedSize)
                      THEN [s EXCEPT !.mem[table][i].frame = f] ELSE s
           m == Redirected(s.mem, table, i, f)
<1>1. s.mem \in Memories
    BY DEF States
<1>2. s.mem[table][i] \in Tables!Entry /\ source \in Tables!Frame
    BY <1>1 DEF Memories, Tables!Entry
<1>3. Tables!CopyTarget(s, table, i) = Tables!CopyTable(named, source)
    BY Zenon DEF Tables!CopyTarget
<1>4. CASE Tables!HasMemory(s, Tables!AlignedSize)
    <2>1. f \in Tables!Frame
        BY <1>4, AlignedTaken
    <2>2. m \in Memories
        BY <1>1, <2>1, RedirectedIs
    <2>3. named = [s EXCEPT !.mem = m]
        BY <1>1, <1>4 DEF States, Memories, Redirected
    <2> HIDE DEF m, named
    <2>4. /\ named \in States /\ named.mem = m /\ named.next = s.next
          /\ named.orderly = s.orderly /\ named.complete = s.complete
        BY <2>2, <2>3 DEF States
    <2>5. Tables!AlignedFrame(named) = f /\ Tables!HasMemory(named, Tables!AlignedSize)
        BY <1>4, <2>4 DEF Tables!AlignedFrame, Tables!HasMemory
    <2> HIDE DEF f, source
    <2>6. LET r == Tables!CopyTable(named, source)
          IN  /\ r.orderly = named.orderly /\ r.complete = named.complete
              /\ r.next = named.next + Tables!AlignedSize
              /\ r.mem = [named.mem EXCEPT ![f] = named.mem[source]]
        BY <1>2, <2>4, <2>5, CopyTableIs
    <2> QED BY <1>3, <1>4, <2>4, <2>6 DEF m, f, source
<1>5. CASE ~Tables!HasMemory(s, Tables!AlignedSize)
    <2>1. named = s
        BY <1>5
    <2> HIDE DEF named, source
    <2>2. LET r == Tables!CopyTable(s, source)
          IN  r.orderly = s.orderly /\ r.complete = FALSE /\ r.next = s.next /\ r.mem = s.mem
        BY <1>2, <1>5, CopyTableIs
    <2> QED BY <1>3, <1>5, <2>1, <2>2
<1> QED BY <1>4, <1>5

LEMMA TargetCopies ==
    ASSUME NEW s \in States, NEW table \in Tables!Frame, NEW i \in Tables!Index
    PROVE  LET r == Tables!CopyTarget(s, table, i)
               f == Tables!AlignedFrame(s)
           IN  /\ Copies(s, r, table)
               /\ r.complete => f \in Tables!Frame /\ f \in Fresh(s.next)
<1> DEFINE r == Tables!CopyTarget(s, table, i)
           f == Tables!AlignedFrame(s)
           n == s.next + Tables!AlignedSize
           g == s.mem[table][i].frame
           named == Redirected(s.mem, table, i, f)
           copied == [named EXCEPT ![f] = named[g]]
<1>1. s.mem \in Memories
    BY DEF States
<1>2. CASE Tables!HasMemory(s, Tables!AlignedSize)
    <2>1. r.orderly = s.orderly /\ r.complete = s.complete /\ r.next = n /\ r.mem = copied
        BY <1>2, CopyTargetIs
    <2>2. f \in Tables!Frame /\ f \in Fresh(s.next) /\ Fresh(n) \subseteq Fresh(s.next)
        BY <1>2, CopyTaken
    <2>3. named \in Memories /\ Agrees(s.mem, named, table, i)
        BY <1>1, <2>2, RedirectedIs
    <2>4. \A x \in Tables!Frame : x # table => named[x] = s.mem[x]
        BY <1>1 DEF Redirected, Memories
    <2> HIDE DEF named, f, n, r, g
    <2>5. \A x \in Tables!Frame : x # f /\ x # table => copied[x] = s.mem[x]
        BY <2>3, <2>4 DEF Memories
    <2> HIDE DEF copied
    <2>6. \A x \in Tables!Frame : x \notin Fresh(s.next) /\ x # table => r.mem[x] = s.mem[x]
        BY <2>1, <2>2, <2>5
    <2> QED BY <2>1, <2>2, <2>6 DEF Copies, f, r
<1>3. CASE ~Tables!HasMemory(s, Tables!AlignedSize)
    <2>1. r.orderly = s.orderly /\ r.complete = FALSE /\ r.next = s.next /\ r.mem = s.mem
        BY <1>3, CopyTargetIs
    <2> QED BY <2>1 DEF Copies
<1> QED BY <1>2, <1>3

\* An entry that names a table then names a copy of it, whose entries are pending.
LEMMA TargetCopied ==
    ASSUME NEW s \in States, NEW table \in Tables!Frame, NEW i \in Tables!Index,
           Tables!CopyTarget(s, table, i).complete,
           NEW lev, NEW pending, Copying(s, lev, pending), Names(s.mem, lev, table, i)
    PROVE  LET r == Tables!CopyTarget(s, table, i)
               f == Tables!AlignedFrame(s)
           IN  \E grown \in Levels :
                  /\ Copying(r, grown, (pending \ {<<table, i>>}) \cup Whole(f))
                  /\ Keeps(lev, grown) /\ WalksSame(s.mem, r.mem, lev)
                  /\ grown[f] = lev[table] - 1
<1> DEFINE r == Tables!CopyTarget(s, table, i)
           f == Tables!AlignedFrame(s)
           n == s.next + Tables!AlignedSize
           m == s.mem
           g == m[table][i].frame
           named == Redirected(m, table, i, f)
           copy == [m EXCEPT ![f] = m[g]]
           grown == [lev EXCEPT ![f] = lev[g]]
<1>1. m \in Memories
    BY DEF States
<1>2. Tables!HasMemory(s, Tables!AlignedSize)
    BY CopyTargetIs
<1>3. r.next = n /\ r.mem = [named EXCEPT ![f] = named[g]]
    BY <1>2, CopyTargetIs
<1>4. f \in Tables!Frame /\ f \in Fresh(s.next) /\ f \notin Fresh(n) /\ Fresh(n) \subseteq Fresh(s.next)
    BY <1>2, CopyTaken
<1>5. /\ lev \in Levels /\ Forest(m, lev, pending)
      /\ \A x \in Tables!Frame : x \in Fresh(s.next) => lev[x] = 0
    BY DEF Copying
<1>6. g \in Tables!Frame /\ lev[g] = lev[table] - 1 /\ lev[table] \in 2 .. 4 /\ lev[f] = 0
    <2>1. m[table][i] \in Tables!Entry /\ g \in Tables!Frame
        BY <1>1 DEF Memories, Tables!Entry
    <2>2. lev[g] = lev[table] - 1
        BY <1>5 DEF Forest
    <2>3. lev[table] \in 2 .. 4
        BY <1>5 DEF Names, Levels
    <2> QED BY <1>4, <1>5, <2>1, <2>2, <2>3
<1>7. f # table /\ f # g /\ g # table /\ lev[g] # 0
    BY <1>6
<1>8. /\ r.mem = Redirected(copy, table, i, f) /\ copy \in Memories
      /\ copy[f] = m[g] /\ copy[g] = m[g] /\ copy[table] = m[table]
      /\ \A x \in Tables!Frame : lev[x] # 0 => copy[x] = m[x]
    <2> HIDE DEF f, n, r, m, g
    <2>1. copy \in Memories /\ \A x \in Tables!Frame : copy[x] = IF x = f THEN m[g] ELSE m[x]
        BY <1>1, <1>4, <1>6 DEF Memories
    <2>2. named \in Memories /\ \A x \in Tables!Frame : x # table => named[x] = m[x]
        BY <1>1, <1>4, RedirectedIs DEF Redirected, Memories
    <2>3. named[table] = [m[table] EXCEPT ![i] = [m[table][i] EXCEPT !.frame = f]]
        BY <1>1 DEF Redirected, Memories
    <2>4. Redirected(copy, table, i, f) \in Memories
        BY <1>4, <2>1, RedirectedIs
    <2>5. Redirected(copy, table, i, f)
             = [copy EXCEPT ![table] = [m[table] EXCEPT ![i] = [m[table][i] EXCEPT !.frame = f]]]
        BY <1>7, <2>1 DEF Redirected
    <2>6. Redirected(copy, table, i, f) = [named EXCEPT ![f] = named[g]]
        <3> DEFINE a == Redirected(copy, table, i, f)
                   b == [named EXCEPT ![f] = named[g]]
        <3>1. a \in Memories /\ b \in Memories
            BY <1>4, <1>6, <2>2, <2>4 DEF Memories
        <3>2. \A x \in Tables!Frame :
                 a[x] = IF x = table THEN named[table] ELSE copy[x]
            <4> HIDE DEF copy
            <4> QED BY <2>1, <2>3, <2>5 DEF Memories
        <3>3. \A x \in Tables!Frame : b[x] = IF x = f THEN named[g] ELSE named[x]
            <4> HIDE DEF named
            <4> QED BY <2>2 DEF Memories
        <3> HIDE DEF a, b, named, copy
        <3>4. \A x \in Tables!Frame : a[x] = b[x]
            BY <1>6, <1>7, <2>1, <2>2, <3>2, <3>3
        <3> QED BY <3>1, <3>4 DEF Memories, a, b
    <2> HIDE DEF copy, named
    <2> QED BY <1>3, <1>4, <1>6, <1>7, <2>1, <2>6 DEF r
<1> HIDE DEF r, f, n, m, g, named, copy
<1>9. Forest(copy, lev, pending) /\ WalksSame(m, copy, lev)
    BY <1>1, <1>5, <1>8, FreeWritten
<1>10. /\ grown \in Levels /\ Keeps(lev, grown)
       /\ Forest(copy, grown, pending \cup Whole(f)) /\ Unnamed(copy, grown, f)
    <2>1. copy[f] = copy[g]
        BY <1>8
    <2> QED BY <1>4, <1>5, <1>6, <1>7, <1>8, <1>9, <2>1, CopyGrows
<1>11. /\ \A x \in Tables!Frame : grown[x] = IF x = f THEN lev[g] ELSE lev[x]
       /\ grown[f] = lev[table] - 1 /\ grown[table] = lev[table]
    BY <1>4, <1>5, <1>6, <1>7 DEF Levels
<1> HIDE DEF grown
<1>12. Names(copy, grown, table, i) /\ copy[f] = copy[copy[table][i].frame] /\ grown[f] = grown[table] - 1
    <2>1. Names(m, lev, table, i)
        BY DEF m
    <2> QED BY <1>8, <1>11, <2>1 DEF Names, g
<1>13. WalksSame(copy, r.mem, grown)
    BY <1>4, <1>8, <1>10, <1>12, RedirectWalks
<1>14. Forest(r.mem, grown, (pending \cup Whole(f)) \ {<<table, i>>})
    BY <1>4, <1>8, <1>10, <1>12, RedirectForest
<1>15. Forest(r.mem, grown, (pending \ {<<table, i>>}) \cup Whole(f))
    <2> DEFINE more == (pending \cup Whole(f)) \ {<<table, i>>}
               fewer == (pending \ {<<table, i>>}) \cup Whole(f)
    <2>1. \A x \in Tables!Frame, j \in Tables!Index :
             <<x, j>> \in more /\ <<x, j>> \notin fewer => ~Names(r.mem, grown, x, j)
        BY Zenon
    <2> HIDE DEF more, fewer
    <2>2. Forest(r.mem, grown, more)
        BY <1>14 DEF more
    <2>3. Forest(r.mem, grown, fewer)
        BY <2>1, <2>2, PendingDropped
    <2> QED BY <2>3 DEF fewer
<1>16. WalksSame(m, r.mem, lev)
    <2>1. \A root \in Tables!Frame : lev[root] = 4 => grown[root] = 4
        BY <1>10 DEF Keeps
    <2> QED BY <1>9, <1>13, <2>1 DEF WalksSame
<1>17. Copying(r, grown, (pending \ {<<table, i>>}) \cup Whole(f))
    <2>1. \A x \in Tables!Frame : x \in Fresh(r.next) => grown[x] = 0
        BY <1>3, <1>4, <1>5, <1>11
    <2> QED BY <1>10, <1>15, <2>1 DEF Copying
<1> QED BY <1>10, <1>11, <1>16, <1>17 DEF r, f, m

\* The step for an entry of a table: the entry is no longer pending.
EntryCloned(s, r, table, i, level) ==
    /\ Copies(s, r, table)
    /\ \A lev, pending :
          Copying(s, lev, pending) /\ lev[table] = level /\ s.mem[table][i].present /\ r.complete
             => Copied(s, r, lev, pending \ {<<table, i>>})

\* The loop over a table.
TableCloned(s, r, table, level) ==
    /\ ~s.complete => r = s
    /\ Copies(s, r, table)
    /\ \A lev, pending :
          Copying(s, lev, pending \cup Whole(table)) /\ lev[table] = level /\ r.complete
             => Copied(s, r, lev, pending)

LEMMA LoopReaches ==
    ASSUME NEW n \in Nat, NEW Good, 0 \in Good, \A i \in 1 .. n : i - 1 \in Good => i \in Good
    PROVE  n \in Good
<1> DEFINE f == [i \in 0 .. n |-> i]
<1>1. \A i \in 0 .. n : f[i] = i
    OBVIOUS
<1>2. \A i \in 1 .. n : i - 1 \in 0 .. n /\ i \in 0 .. n
    OBVIOUS
<1>3. 0 \in 0 .. n /\ n \in 0 .. n
    OBVIOUS
<1> HIDE DEF f
<1>4. f[0] \in Good /\ \A i \in 1 .. n : f[i - 1] \in Good => f[i] \in Good
    BY <1>1, <1>2, <1>3
<1>5. \A i \in 0 .. n : f[i] \in Good
    BY <1>4, LoopKeeps
<1> QED BY <1>1, <1>3, <1>5

LEMMA CopiedFewer ==
    ASSUME NEW s, NEW r, NEW lev \in Levels, NEW more, NEW fewer, Copied(s, r, lev, more),
           \A grown \in Levels : Keeps(lev, grown) =>
              \A f \in Tables!Frame, i \in Tables!Index :
                 <<f, i>> \in more /\ <<f, i>> \notin fewer => ~Names(r.mem, grown, f, i)
    PROVE  Copied(s, r, lev, fewer)
<1>1. PICK grown \in Levels :
         Copying(r, grown, more) /\ Keeps(lev, grown) /\ WalksSame(s.mem, r.mem, lev)
    BY DEF Copied
<1>2. Forest(r.mem, grown, fewer)
    BY <1>1, PendingDropped DEF Copying
<1> QED BY <1>1, <1>2 DEF Copied, Copying

LEMMA LoopCopies ==
    ASSUME NEW table, NEW after, NEW level,
           \A i \in 1 .. Entries :
              IF after[i - 1].complete /\ after[i - 1].mem[table][i - 1].present
                THEN EntryCloned(after[i - 1], after[i], table, i - 1, level)
                ELSE after[i] = after[i - 1]
    PROVE  /\ ~after[0].complete => after[Entries] = after[0]
           /\ Copies(after[0], after[Entries], table)
<1>1. Entries \in Nat
    BY MachineAssumption
<1>2. ASSUME ~after[0].complete PROVE after[Entries] = after[0]
    <2> DEFINE Good == {i \in Nat : after[i] = after[0]}
    <2>1. 0 \in Good
        OBVIOUS
    <2>2. \A i \in 1 .. Entries : i - 1 \in Good => i \in Good
        BY <1>2
    <2> HIDE DEF Good
    <2>3. Entries \in Good
        BY <1>1, <2>1, <2>2, LoopReaches
    <2> QED BY <2>3 DEF Good
<1>3. Copies(after[0], after[Entries], table)
    <2> DEFINE Good == {i \in Nat : Copies(after[0], after[i], table)}
    <2>1. 0 \in Good
        BY DEF Copies
    <2>2. ASSUME NEW i \in 1 .. Entries, i - 1 \in Good PROVE i \in Good
        <3>1. Copies(after[0], after[i - 1], table)
            BY <2>2
        <3>2. CASE after[i] = after[i - 1]
            BY <3>1, <3>2
        <3>3. CASE EntryCloned(after[i - 1], after[i], table, i - 1, level)
            <4>1. Copies(after[i - 1], after[i], table)
                BY <3>3 DEF EntryCloned
            <4>2. Copies(after[0], after[i], table)
                BY <3>1, <4>1, CopiesTwice
            <4> QED BY <4>2
        <3> QED BY <3>2, <3>3
    <2> HIDE DEF Good
    <2>3. Entries \in Good
        BY <1>1, <2>1, <2>2, LoopReaches
    <2> QED BY <2>3 DEF Good
<1> QED BY <1>2, <1>3

LEMMA LoopCopied ==
    ASSUME NEW table \in Tables!Frame, NEW after, NEW level,
           \A i \in 1 .. Entries :
              IF after[i - 1].complete /\ after[i - 1].mem[table][i - 1].present
                THEN EntryCloned(after[i - 1], after[i], table, i - 1, level)
                ELSE after[i] = after[i - 1],
           NEW lev, NEW pending, Copying(after[0], lev, pending \cup Whole(table)),
           lev[table] = level, level # 0, after[Entries].complete
    PROVE  Copied(after[0], after[Entries], lev, pending)
<1> DEFINE Rest(i) == {<<table, j>> : j \in i .. Entries - 1}
           Good == {i \in 0 .. Entries :
                      after[i].complete => Copied(after[0], after[i], lev, pending \cup Rest(i))}
<1>1. Entries \in Nat /\ lev \in Levels
    BY MachineAssumption DEF Copying
<1>2. /\ Rest(0) = Whole(table) /\ Rest(Entries) = {}
      /\ \A i \in 1 .. Entries : Rest(i - 1) = Rest(i) \cup {<<table, i - 1>>}
    <2>1. Rest(0) = Whole(table)
        BY DEF Whole, Tables!Index
    <2>2. Entries .. Entries - 1 = {}
        BY <1>1
    <2>3. \A i \in 1 .. Entries : (i - 1) .. Entries - 1 = (i .. Entries - 1) \cup {i - 1}
        BY <1>1
    <2>4. \A i \in 1 .. Entries : Rest(i - 1) = Rest(i) \cup {<<table, i - 1>>}
        BY Zenon, <2>3
    <2> QED BY <2>1, <2>2, <2>4
<1> HIDE DEF Rest
<1>3. 0 \in Good
    <2>1. Copied(after[0], after[0], lev, pending \cup Rest(0))
        BY <1>1, <1>2 DEF Copied, Keeps, WalksSame
    <2> QED BY <1>1, <2>1
<1>4. ASSUME NEW i \in 1 .. Entries, i - 1 \in Good PROVE i \in Good
    <2> DEFINE t == after[i - 1]
               r == after[i]
    <2>1. /\ i \in 0 .. Entries /\ i - 1 \in Tables!Index
          /\ t.complete => Copied(after[0], t, lev, pending \cup Rest(i - 1))
        BY <1>1, <1>4 DEF Tables!Index
    <2>2. SUFFICES ASSUME r.complete PROVE Copied(after[0], r, lev, pending \cup Rest(i))
        BY <2>1
    <2>3. CASE t.complete /\ t.mem[table][i - 1].present
        <3>1. EntryCloned(t, r, table, i - 1, level)
            BY <2>3
        <3> HIDE DEF t, r
        <3>2. PICK mid \in Levels :
                 /\ Copying(t, mid, pending \cup Rest(i - 1)) /\ Keeps(lev, mid)
                 /\ WalksSame(after[0].mem, t.mem, lev)
            BY <2>1, <2>3 DEF Copied
        <3>3. mid[table] = level
            BY <3>2 DEF Keeps
        <3>4. Copied(t, r, mid, (pending \cup Rest(i - 1)) \ {<<table, i - 1>>})
            BY <2>2, <2>3, <3>1, <3>2, <3>3 DEF EntryCloned
        <3>5. Copied(t, r, mid, pending \cup Rest(i))
            <4> DEFINE more == (pending \cup Rest(i - 1)) \ {<<table, i - 1>>}
                       fewer == pending \cup Rest(i)
            <4>1. \A x : x \in more => x \in fewer
                BY <1>2
            <4> HIDE DEF more, fewer
            <4>2. Copied(t, r, mid, more)
                BY <3>4 DEF more
            <4>3. Copied(t, r, mid, fewer)
                BY <4>1, <4>2, CopiedFewer
            <4> QED BY <4>3 DEF fewer
        <3>6. Copied(after[0], r, lev, pending \cup Rest(i))
            BY <1>1, <3>2, <3>5, CopiedTwice
        <3> QED BY <3>6 DEF r
    <2>4. CASE ~(t.complete /\ t.mem[table][i - 1].present)
        <3>1. r = t /\ t.complete /\ ~t.mem[table][i - 1].present
            BY <2>2, <2>4
        <3> HIDE DEF t, r
        <3> DEFINE more == pending \cup Rest(i - 1)
                   fewer == pending \cup Rest(i)
        <3>2. \A f \in Tables!Frame, j \in Tables!Index :
                 <<f, j>> \in more /\ <<f, j>> \notin fewer => f = table /\ j = i - 1
            BY <1>2
        <3>3. \A grown : ~Names(t.mem, grown, table, i - 1)
            BY <3>1 DEF Names, NamesTable
        <3>4. \A grown \in Levels : Keeps(lev, grown) =>
                 \A f \in Tables!Frame, j \in Tables!Index :
                    <<f, j>> \in more /\ <<f, j>> \notin fewer => ~Names(t.mem, grown, f, j)
            BY <3>2, <3>3
        <3>5. Copied(after[0], t, lev, more)
            BY <2>1, <3>1
        <3> HIDE DEF more, fewer
        <3>6. Copied(after[0], t, lev, fewer)
            BY <1>1, <3>4, <3>5, CopiedFewer
        <3> QED BY <3>1, <3>6 DEF r, t, fewer
    <2> QED BY <2>3, <2>4
<1> HIDE DEF Good
<1>5. Entries \in Good
    BY <1>1, <1>3, <1>4, LoopReaches
<1>6. Copied(after[0], after[Entries], lev, pending \cup Rest(Entries))
    BY <1>5 DEF Good
<1>7. pending \cup Rest(Entries) = pending
    BY <1>2
<1> QED BY <1>6, <1>7

\* A loop is one over a table when its steps are those for the table's entries.
Looped(after, table, level) ==
    \A i \in 1 .. Entries :
       IF after[i - 1].complete /\ after[i - 1].mem[table][i - 1].present
         THEN EntryCloned(after[i - 1], after[i], table, i - 1, level)
         ELSE after[i] = after[i - 1]

LEMMA LoopClones ==
    ASSUME NEW table, NEW after, NEW level \in 1 .. 4, after[0] \in Complete(table),
           Looped(after, table, level)
    PROVE  TableCloned(after[0], after[Entries], table, level)
<1>1. /\ ~after[0].complete => after[Entries] = after[0]
      /\ Copies(after[0], after[Entries], table)
    BY LoopCopies DEF Looped
<1>2. ASSUME NEW lev, NEW pending, Copying(after[0], lev, pending \cup Whole(table)),
             lev[table] = level, after[Entries].complete
      PROVE  Copied(after[0], after[Entries], lev, pending)
    <2>1. table \in Tables!Frame
        BY <1>1, <1>2 DEF Copies, Complete
    <2>2. level # 0
        OBVIOUS
    <2> QED BY <1>2, <2>1, <2>2, LoopCopied DEF Looped
<1> QED BY <1>1, <1>2 DEF TableCloned

LEMMA ClonePdeCloned ==
    ASSUME NEW s \in States, NEW table \in Tables!Frame, NEW i \in Tables!Index
    PROVE  EntryCloned(s, Tables!ClonePde(s, table, i), table, i, 2)
<1>1. CASE s.mem[table][i].large
    <2>1. Tables!ClonePde(s, table, i) = s
        BY <1>1 DEF Tables!ClonePde
    <2>2. Copies(s, s, table)
        BY DEF Copies
    <2>3. ASSUME NEW lev, NEW pending, Copying(s, lev, pending)
          PROVE  Copied(s, s, lev, pending \ {<<table, i>>})
        <3>1. lev \in Levels /\ Copied(s, s, lev, pending)
            BY <2>3 DEF Copying, Copied, Keeps, WalksSame
        <3>2. \A grown : ~Names(s.mem, grown, table, i)
            BY <1>1 DEF Names, NamesTable
        <3> DEFINE fewer == pending \ {<<table, i>>}
        <3>3. \A f \in Tables!Frame, j \in Tables!Index :
                 <<f, j>> \in pending /\ <<f, j>> \notin fewer => f = table /\ j = i
            OBVIOUS
        <3>4. \A grown \in Levels : Keeps(lev, grown) =>
                 \A f \in Tables!Frame, j \in Tables!Index :
                    <<f, j>> \in pending /\ <<f, j>> \notin fewer => ~Names(s.mem, grown, f, j)
            BY <3>2, <3>3
        <3> HIDE DEF fewer
        <3>5. Copied(s, s, lev, fewer)
            BY <3>1, <3>4, CopiedFewer
        <3> QED BY <3>5 DEF fewer
    <2> QED BY <2>1, <2>2, <2>3 DEF EntryCloned
<1>2. CASE ~s.mem[table][i].large
    <2> DEFINE r == Tables!CopyTarget(s, table, i)
               f == Tables!AlignedFrame(s)
    <2>1. Tables!ClonePde(s, table, i) = r
        BY <1>2 DEF Tables!ClonePde
    <2>2. Copies(s, r, table) /\ (r.complete => f \in Tables!Frame)
        BY TargetCopies
    <2>3. ASSUME NEW lev, NEW pending, Copying(s, lev, pending), lev[table] = 2,
                 s.mem[table][i].present, r.complete
          PROVE  Copied(s, r, lev, pending \ {<<table, i>>})
        <3>1. Names(s.mem, lev, table, i)
            BY <1>2, <2>3 DEF Names, NamesTable
        <3>2. PICK grown \in Levels :
                 /\ Copying(r, grown, (pending \ {<<table, i>>}) \cup Whole(f))
                 /\ Keeps(lev, grown) /\ WalksSame(s.mem, r.mem, lev)
                 /\ grown[f] = lev[table] - 1
            <4>1. Copying(s, lev, pending) /\ r.complete
                BY <2>3
            <4> QED BY <3>1, <4>1, TargetCopied
        <3>3. f \in Tables!Frame /\ grown[f] = 1
            BY <2>2, <2>3, <3>2
        <3> HIDE DEF r, f
        <3> DEFINE fewer == pending \ {<<table, i>>}
                   more == fewer \cup Whole(f)
        <3>4. \A g \in Tables!Frame, j \in Tables!Index :
                 <<g, j>> \in more /\ <<g, j>> \notin fewer => g = f
            BY DEF Whole
        <3>5. \A j : ~Names(r.mem, grown, f, j)
            BY <3>3 DEF Names
        <3>6. \A g \in Tables!Frame, j \in Tables!Index :
                 <<g, j>> \in more /\ <<g, j>> \notin fewer => ~Names(r.mem, grown, g, j)
            BY <3>4, <3>5
        <3>7. Copying(r, grown, more)
            BY <3>2
        <3> HIDE DEF more, fewer
        <3>8. Forest(r.mem, grown, fewer)
            BY <3>6, <3>7, PendingDropped DEF Copying
        <3>9. Copying(r, grown, fewer)
            BY <3>7, <3>8 DEF Copying
        <3> QED BY <3>2, <3>9 DEF Copied, fewer
    <2> HIDE DEF r
    <2> QED BY <2>1, <2>2, <2>3 DEF EntryCloned
<1> QED BY <1>1, <1>2

LEMMA EachPdeCloned ==
    ASSUME NEW table, NEW s \in Complete(table)
    PROVE  TableCloned(s, EachPde(s, table), table, 2)
<1>1. PICK after :
         /\ after[0] = s
         /\ \A i \in 1 .. Entries :
               after[i] = IF after[i - 1].complete /\ after[i - 1].mem[table][i - 1].present
                            THEN Tables!ClonePde(after[i - 1], table, i - 1) ELSE after[i - 1]
         /\ \A i \in 0 .. Entries : after[i] \in Complete(table)
         /\ EachPde(s, table) = after[Entries]
    BY EachPdeRuns
<1>2. Looped(after, table, 2)
    <2>1. ASSUME NEW i \in 1 .. Entries, after[i - 1].complete
          PROVE  EntryCloned(after[i - 1], Tables!ClonePde(after[i - 1], table, i - 1), table, i - 1, 2)
        <3>1. i - 1 \in Tables!Index /\ i - 1 \in 0 .. Entries
            BY MachineAssumption DEF Tables!Index
        <3>2. after[i - 1] \in States /\ table \in Tables!Frame
            BY <1>1, <2>1, <3>1 DEF Complete
        <3> QED BY <3>1, <3>2, ClonePdeCloned
    <2> QED BY <1>1, <2>1 DEF Looped
<1> QED BY <1>1, <1>2, LoopClones

\* What a level's step does: a copy of the table named, then the loop over the copy.
LEMMA CopyThenLoop ==
    ASSUME NEW s \in States, NEW table \in Tables!Frame, NEW i \in Tables!Index, NEW r,
           NEW level \in 3 .. 4, NEW below, below = level - 1,
           TableCloned(Tables!CopyTarget(s, table, i), r, Tables!AlignedFrame(s), below)
    PROVE  EntryCloned(s, r, table, i, level)
<1> DEFINE c == Tables!CopyTarget(s, table, i)
           f == Tables!AlignedFrame(s)
<1>1. Copies(s, c, table) /\ (c.complete => f \in Tables!Frame /\ f \in Fresh(s.next))
    BY TargetCopies
<1>2. (~c.complete => r = c) /\ Copies(c, r, f)
    BY DEF TableCloned
<1>3. Copies(s, r, table)
    <2> HIDE DEF c, f
    <2>1. CASE c.complete
        BY <1>1, <1>2, <2>1 DEF Copies
    <2>2. CASE ~c.complete
        BY <1>1, <1>2, <2>2
    <2> QED BY <2>1, <2>2
<1>4. ASSUME NEW lev, NEW pending, Copying(s, lev, pending), lev[table] = level,
             s.mem[table][i].present, r.complete
      PROVE  Copied(s, r, lev, pending \ {<<table, i>>})
    <2>1. Names(s.mem, lev, table, i)
        <3>1. ~s.mem[table][i].large
            BY <1>4 DEF Copying, Forest
        <3> QED BY <1>4, <3>1 DEF Names, NamesTable
    <2>2. c.complete
        BY <1>2, <1>4 DEF Copies
    <2>3. PICK mid \in Levels :
             /\ Copying(c, mid, (pending \ {<<table, i>>}) \cup Whole(f))
             /\ Keeps(lev, mid) /\ WalksSame(s.mem, c.mem, lev)
             /\ mid[f] = lev[table] - 1
        BY <1>4, <2>1, <2>2, TargetCopied
    <2>4. Copied(c, r, mid, pending \ {<<table, i>>})
        <3>1. mid[f] = below
            BY <1>4, <2>3
        <3> HIDE DEF c, f
        <3>2. TableCloned(c, r, f, below)
            BY DEF c, f
        <3> QED BY <1>4, <2>3, <3>1, <3>2 DEF TableCloned
    <2>5. lev \in Levels
        BY <1>4 DEF Copying
    <2> HIDE DEF c, f
    <2> QED BY <2>3, <2>4, <2>5, CopiedTwice
<1> QED BY <1>3, <1>4 DEF EntryCloned

LEMMA ClonePdpteCloned ==
    ASSUME NEW s \in States, NEW table \in Tables!Frame, NEW i \in Tables!Index
    PROVE  EntryCloned(s, Tables!ClonePdpte(s, table, i), table, i, 3)
<1> DEFINE f == Tables!AlignedFrame(s)
           copy == Tables!CopyTarget(s, table, i)
           all == EachPde(copy, f)
           bad == s.mem[table][i].large
<1>1. copy \in Complete(f)
    BY CopyTargetKeeps
<1>2. all \in States /\ TableCloned(copy, all, f, 2)
    <2> HIDE DEF f, copy
    <2>1. all \in Complete(f)
        BY <1>1, EachPdeKeeps
    <2> QED BY <1>1, <2>1, EachPdeCloned DEF Complete
<1>3. Tables!ClonePdpte(s, table, i) = Tables!Disorderly(all, bad)
    BY Zenon DEF Tables!ClonePdpte, EachPde
<1>4. EntryCloned(s, all, table, i, 3)
    <2>1. 3 \in 3 .. 4 /\ 2 = 3 - 1
        OBVIOUS
    <2> HIDE DEF all
    <2> QED BY <1>2, <2>1, CopyThenLoop
<1> HIDE DEF all, bad
<1>5. LET r == Tables!Disorderly(all, bad)
      IN  r.mem = all.mem /\ r.next = all.next /\ r.complete = all.complete /\ (r.orderly => all.orderly)
    BY <1>2 DEF Tables!Disorderly, States
<1> DEFINE r == Tables!Disorderly(all, bad)
<1>6. r.mem = all.mem /\ r.next = all.next /\ r.complete = all.complete /\ (r.orderly => all.orderly)
    BY <1>5
<1> HIDE DEF r
<1>7. EntryCloned(s, r, table, i, 3)
    BY <1>4, <1>6 DEF EntryCloned, Copies, Copied, Copying
<1> QED BY <1>3, <1>7 DEF r

LEMMA EachPdpteCloned ==
    ASSUME NEW table, NEW s \in Complete(table)
    PROVE  TableCloned(s, EachPdpte(s, table), table, 3)
<1>1. PICK after :
         /\ after[0] = s
         /\ \A i \in 1 .. Entries :
               after[i] = IF after[i - 1].complete /\ after[i - 1].mem[table][i - 1].present
                            THEN Tables!ClonePdpte(after[i - 1], table, i - 1) ELSE after[i - 1]
         /\ \A i \in 0 .. Entries : after[i] \in Complete(table)
         /\ EachPdpte(s, table) = after[Entries]
    BY EachPdpteRuns
<1>2. Looped(after, table, 3)
    <2>1. ASSUME NEW i \in 1 .. Entries, after[i - 1].complete
          PROVE  EntryCloned(after[i - 1], Tables!ClonePdpte(after[i - 1], table, i - 1), table, i - 1, 3)
        <3>1. i - 1 \in Tables!Index /\ i - 1 \in 0 .. Entries
            BY MachineAssumption DEF Tables!Index
        <3>2. after[i - 1] \in States /\ table \in Tables!Frame
            BY <1>1, <2>1, <3>1 DEF Complete
        <3> QED BY <3>1, <3>2, ClonePdpteCloned
    <2> QED BY <1>1, <2>1 DEF Looped
<1> QED BY <1>1, <1>2, LoopClones

LEMMA ClonePml4eCloned ==
    ASSUME NEW s \in States, NEW table \in Tables!Frame, NEW i \in Tables!Index
    PROVE  EntryCloned(s, Tables!ClonePml4e(s, table, i), table, i, 4)
<1> DEFINE f == Tables!AlignedFrame(s)
           copy == Tables!CopyTarget(s, table, i)
           all == EachPdpte(copy, f)
<1>1. copy \in Complete(f)
    BY CopyTargetKeeps
<1>2. TableCloned(copy, all, f, 3)
    <2> HIDE DEF f, copy
    <2> QED BY <1>1, EachPdpteCloned
<1>3. Tables!ClonePml4e(s, table, i) = all
    BY Zenon DEF Tables!ClonePml4e, EachPdpte
<1>4. EntryCloned(s, all, table, i, 4)
    <2>1. 4 \in 3 .. 4 /\ 3 = 4 - 1
        OBVIOUS
    <2> HIDE DEF all
    <2> QED BY <1>2, <2>1, CopyThenLoop
<1> HIDE DEF all
<1> QED BY <1>3, <1>4

LEMMA EachPml4eCloned ==
    ASSUME NEW table, NEW s \in Complete(table)
    PROVE  TableCloned(s, EachPml4e(s, table), table, 4)
<1>1. PICK after :
         /\ after[0] = s
         /\ \A i \in 1 .. Entries :
               after[i] = IF after[i - 1].complete /\ after[i - 1].mem[table][i - 1].present
                            THEN Tables!ClonePml4e(after[i - 1], table, i - 1) ELSE after[i - 1]
         /\ \A i \in 0 .. Entries : after[i] \in Complete(table)
         /\ EachPml4e(s, table) = after[Entries]
    BY EachPml4eRuns
<1>2. Looped(after, table, 4)
    <2>1. ASSUME NEW i \in 1 .. Entries, after[i - 1].complete
          PROVE  EntryCloned(after[i - 1], Tables!ClonePml4e(after[i - 1], table, i - 1), table, i - 1, 4)
        <3>1. i - 1 \in Tables!Index /\ i - 1 \in 0 .. Entries
            BY MachineAssumption DEF Tables!Index
        <3>2. after[i - 1] \in States /\ table \in Tables!Frame
            BY <1>1, <2>1, <3>1 DEF Complete
        <3> QED BY <3>1, <3>2, ClonePml4eCloned
    <2> QED BY <1>1, <2>1 DEF Looped
<1> QED BY <1>1, <1>2, LoopClones

\* A root with the same entries as another one.
LEMMA SameRoot ==
    ASSUME NEW m, NEW f, NEW root, m[f] = m[root], NEW page
    PROVE  WalkedTo(m, f, page) = WalkedTo(m, root, page)
<1>1. EntryOf4(m, f, page) = EntryOf4(m, root, page)
    BY DEF EntryOf4
<1>2. EntryOf3(m, f, page) = EntryOf3(m, root, page)
    BY <1>1 DEF EntryOf3
<1>3. EntryOf2(m, f, page) = EntryOf2(m, root, page)
    BY <1>2 DEF EntryOf2
<1>4. EntryOf1(m, f, page) = EntryOf1(m, root, page)
    BY <1>3 DEF EntryOf1
<1> QED BY <1>1, <1>2, <1>3, <1>4 DEF WalkedTo

\* What clone_higher_half leaves when it runs out of memory: everything in use as it was.
Untouched(s, r, lev) == Shape(r, lev) /\ WalksSame(s.mem, r.mem, lev)

\* ... and when it does not: a tree of its own under f that maps what root does.
Twin(s, r, lev, root, f) ==
    \E grown \in Levels :
        /\ Shape(r, grown) /\ Keeps(lev, grown) /\ WalksSame(s.mem, r.mem, lev)
        /\ f \in Tables!Frame /\ lev[f] = 0 /\ grown[f] = 4
        /\ \A page \in Nat : WalkedTo(r.mem, f, page) = WalkedTo(s.mem, root, page)

LEMMA RootCopies ==
    ASSUME NEW s \in States, NEW root \in Tables!Frame
    PROVE  LET r == Tables!CopyTable(s, root)
               f == Tables!AlignedFrame(s)
           IN  /\ Copies(s, r, f)
               /\ r.complete => /\ f \in Tables!Frame /\ f \in Fresh(s.next) /\ f \notin Fresh(r.next)
                                /\ r.mem = [s.mem EXCEPT ![f] = s.mem[root]]
<1> DEFINE r == Tables!CopyTable(s, root)
           f == Tables!AlignedFrame(s)
           n == s.next + Tables!AlignedSize
<1>1. CASE Tables!HasMemory(s, Tables!AlignedSize)
    <2>1. /\ r.orderly = s.orderly /\ r.complete = s.complete /\ r.next = n
          /\ r.mem = [s.mem EXCEPT ![f] = s.mem[root]]
        BY <1>1, CopyTableIs
    <2>2. f \in Tables!Frame /\ f \in Fresh(s.next) /\ f \notin Fresh(n) /\ Fresh(n) \subseteq Fresh(s.next)
        BY <1>1, CopyTaken
    <2> HIDE DEF r, n, f
    <2>3. \A x \in Tables!Frame : x # f => r.mem[x] = s.mem[x]
        BY <2>1 DEF States, Memories
    <2> QED BY <2>1, <2>2, <2>3 DEF Copies, r, f
<1>2. CASE ~Tables!HasMemory(s, Tables!AlignedSize)
    <2>1. r.orderly = s.orderly /\ r.complete = FALSE /\ r.next = s.next /\ r.mem = s.mem
        BY <1>2, CopyTableIs
    <2> QED BY <2>1 DEF Copies
<1> QED BY <1>1, <1>2

LEMMA CloneCopies ==
    ASSUME NEW s \in States, NEW root \in Tables!Frame
    PROVE  Copies(s, Tables!CloneHigherHalf(s, root), Tables!AlignedFrame(s))
<1> DEFINE f == Tables!AlignedFrame(s)
           c == Tables!CopyTable(s, root)
           r == EachPml4e(c, f)
<1>1. Tables!CloneHigherHalf(s, root) = r
    BY Zenon DEF Tables!CloneHigherHalf, EachPml4e
<1>2. c \in Complete(f) /\ Copies(s, c, f)
    BY CopyTableKeeps, RootCopies
<1> HIDE DEF c, f
<1>3. TableCloned(c, r, f, 4)
    BY <1>2, EachPml4eCloned
<1> HIDE DEF r
<1>4. Copies(c, r, f)
    BY <1>3 DEF TableCloned
<1>5. Copies(s, r, f)
    BY <1>2, <1>4, CopiesTwice
<1> QED BY <1>1, <1>5 DEF f

LEMMA CloneIs ==
    ASSUME NEW s \in States, NEW root \in Tables!Frame, s.complete,
           NEW lev, Shape(s, lev), lev[root] = 4
    PROVE  LET r == Tables!CloneHigherHalf(s, root)
           IN  /\ r.orderly => s.orderly
               /\ ~r.complete => Untouched(s, r, lev)
               /\ r.complete => Twin(s, r, lev, root, Tables!AlignedFrame(s))
<1> DEFINE f == Tables!AlignedFrame(s)
           c == Tables!CopyTable(s, root)
           r == EachPml4e(c, f)
<1>1. Tables!CloneHigherHalf(s, root) = r
    BY Zenon DEF Tables!CloneHigherHalf, EachPml4e
<1>2. c \in Complete(f)
    BY CopyTableKeeps
<1>3. TableCloned(c, r, f, 4)
    <2> HIDE DEF c, f
    <2> QED BY <1>2, EachPml4eCloned
<1>4. /\ Copies(s, c, f)
      /\ c.complete => /\ f \in Tables!Frame /\ f \in Fresh(s.next) /\ f \notin Fresh(c.next)
                       /\ c.mem = [s.mem EXCEPT ![f] = s.mem[root]]
    BY RootCopies
<1> HIDE DEF f, c, r
<1>5. /\ lev \in Levels /\ Forest(s.mem, lev, {}) /\ s.mem \in Memories
      /\ \A x \in Tables!Frame : x \in Fresh(s.next) => lev[x] = 0
    BY DEF Shape, States
<1>6. Copies(c, r, f) /\ (~c.complete => r = c)
    BY <1>3 DEF TableCloned
<1>7. Copies(s, r, f)
    BY <1>4, <1>6, CopiesTwice
<1>8. ASSUME ~r.complete PROVE Untouched(s, r, lev)
    <2>1. \A x \in Tables!Frame : lev[x] # 0 => r.mem[x] = s.mem[x]
        <3>1. CASE c.complete
            BY <1>4, <1>5, <1>7, <3>1 DEF Copies
        <3>2. CASE ~c.complete
            <4>1. r.mem = s.mem
                <5>1. c.mem = s.mem
                    <6>1. CASE Tables!HasMemory(s, Tables!AlignedSize)
                        BY <3>2, <6>1, CopyTableIs DEF c
                    <6>2. CASE ~Tables!HasMemory(s, Tables!AlignedSize)
                        BY <6>2, CopyTableIs DEF c
                    <6> QED BY <6>1, <6>2
                <5> QED BY <1>6, <3>2, <5>1
            <4> QED BY <4>1
        <3> QED BY <3>1, <3>2
    <2>2. Forest(r.mem, lev, {}) /\ WalksSame(s.mem, r.mem, lev)
        BY <1>5, <2>1, FreeWritten
    <2> QED BY <1>5, <1>7, <2>2 DEF Untouched, Shape, Copies
<1>9. ASSUME r.complete PROVE Twin(s, r, lev, root, f)
    <2>1. /\ c.complete /\ f \in Tables!Frame /\ f \in Fresh(s.next) /\ f \notin Fresh(c.next)
          /\ c.mem = [s.mem EXCEPT ![f] = s.mem[root]]
        BY <1>4, <1>6, <1>9 DEF Copies
    <2>2. lev[f] = 0 /\ f # root
        BY <1>5, <2>1
    <2>3. /\ c.mem \in Memories /\ c.mem[f] = c.mem[root]
          /\ \A x \in Tables!Frame : lev[x] # 0 => c.mem[x] = s.mem[x]
        BY <1>5, <2>1, <2>2 DEF Memories
    <2>4. Forest(c.mem, lev, {}) /\ WalksSame(s.mem, c.mem, lev)
        BY <1>5, <2>3, FreeWritten
    <2> DEFINE mid == [lev EXCEPT ![f] = lev[root]]
    <2>5. mid \in Levels /\ Keeps(lev, mid) /\ Forest(c.mem, mid, {} \cup Whole(f))
        <3>1. lev[root] # 0
            OBVIOUS
        <3> QED BY <1>5, <2>1, <2>2, <2>3, <2>4, <3>1, CopyGrows
    <2>6. mid[f] = 4 /\ \A x \in Tables!Frame : x # f => mid[x] = lev[x]
        BY <1>5, <2>1 DEF Levels
    <2> HIDE DEF mid
    <2>7. Copying(c, mid, {} \cup Whole(f))
        <3>1. Fresh(c.next) \subseteq Fresh(s.next)
            BY <1>4 DEF Copies
        <3> QED BY <1>5, <2>1, <2>5, <2>6, <3>1 DEF Copying
    <2>8. Copied(c, r, mid, {})
        BY <1>3, <1>9, <2>6, <2>7 DEF TableCloned
    <2>9. PICK grown \in Levels :
             Copying(r, grown, {}) /\ Keeps(mid, grown) /\ WalksSame(c.mem, r.mem, mid)
        BY <2>8 DEF Copied
    <2>10. Shape(r, grown) /\ grown[f] = 4
        BY <2>1, <2>6, <2>9 DEF Copying, Shape, Keeps
    <2>11. Keeps(lev, grown) /\ WalksSame(s.mem, r.mem, lev)
        <3>1. Keeps(lev, grown)
            <4>1. \A x \in Tables!Frame : lev[x] # 0 => mid[x] = lev[x]
                BY <2>5 DEF Keeps
            <4> QED BY <2>9, <4>1 DEF Keeps
        <3>2. \A x \in Tables!Frame : lev[x] = 4 => mid[x] = 4
            BY <2>5 DEF Keeps
        <3> QED BY <2>4, <2>9, <3>1, <3>2 DEF WalksSame
    <2>12. ASSUME NEW page \in Nat PROVE WalkedTo(r.mem, f, page) = WalkedTo(s.mem, root, page)
        <3>1. WalkedTo(r.mem, f, page) = WalkedTo(c.mem, f, page)
            BY <2>1, <2>6, <2>9 DEF WalksSame
        <3>2. WalkedTo(c.mem, f, page) = WalkedTo(c.mem, root, page)
            <4> DEFINE n == c.mem
            <4>1. n[f] = n[root]
                BY <2>3
            <4> HIDE DEF n
            <4>2. WalkedTo(n, f, page) = WalkedTo(n, root, page)
                BY <4>1, SameRoot
            <4> QED BY <4>2 DEF n
        <3>3. WalkedTo(c.mem, root, page) = WalkedTo(s.mem, root, page)
            BY <2>4 DEF WalksSame
        <3> QED BY <3>1, <3>2, <3>3
    <2> QED BY <2>1, <2>2, <2>10, <2>11, <2>12 DEF Twin
<1>10. r.orderly => s.orderly
    BY <1>7 DEF Copies
<1> QED BY <1>1, <1>8, <1>9, <1>10 DEF f

-----------------------------------------------------------------------------
(* The trees between the calls.                                            *)

\* The roots are roots, and the TLB holds what the tables say at most.
Rooted(lev) ==
    /\ lev[cr3] = 4 /\ lev[LoaderCr3] = 4
    /\ bootboot_paging # Tables!NULL => lev[bootboot_paging] = 4

TlbTrue == \A p \in Pages : tlb[p] \subseteq {WalkedTo(mem, cr3, p)} \ {Tables!Unmapped}

\* As long as the calls are orderly, the tables in use form trees.
TreeInv ==
    orderly => /\ \E lev \in Levels : Shape(Tables!Now, lev) /\ Rooted(lev)
               /\ TlbTrue

LEMMA TreeInit == Tables!Init => TreeInv
<1> SUFFICES ASSUME Tables!Init PROVE TreeInv
    OBVIOUS
<1>1. PICK level \in [DOMAIN LoaderTables -> 1 .. 4] :
         LET Named(f, i) == /\ level[f] # 1
                            /\ LoaderTables[f][i].present /\ ~LoaderTables[f][i].large
         IN  /\ LoaderCr3 \in DOMAIN LoaderTables /\ level[LoaderCr3] = 4
             /\ \A f \in DOMAIN LoaderTables, i \in Tables!Index :
                   /\ LoaderTables[f][i].present /\ LoaderTables[f][i].large => level[f] <= 2
                   /\ Named(f, i) => /\ LoaderTables[f][i].frame \in DOMAIN LoaderTables
                                     /\ level[LoaderTables[f][i].frame] = level[f] - 1
             /\ \A f, g \in DOMAIN LoaderTables, i, j \in Tables!Index :
                   Named(f, i) /\ Named(g, j) /\ LoaderTables[f][i].frame = LoaderTables[g][j].frame
                      => f = g /\ i = j
    BY LoaderTreeAssumption
<1> DEFINE D == DOMAIN LoaderTables
           lev == [f \in Tables!Frame |-> IF f \in D THEN level[f] ELSE 0]
           Named(f, i) == Names(mem, lev, f, i)
<1>2. /\ lev \in Levels /\ D \subseteq Tables!Frame
      /\ \A f \in Tables!Frame : lev[f] = IF f \in D THEN level[f] ELSE 0
      /\ \A f \in D : level[f] \in 1 .. 4
    BY LoaderAssumption DEF Levels
<1>3. \A f \in D : mem[f] = LoaderTables[f]
    <2>1. PICK low \in LowMemory :
             mem = [f \in Tables!Frame |-> IF f \in DOMAIN LoaderTables THEN LoaderTables[f]
                                           ELSE IF f = 0 THEN low ELSE Tables!NoTable]
        BY DEF Tables!Init
    <2> QED BY <1>2, <2>1
<1> HIDE DEF lev
<1>4. \A f \in Tables!Frame : lev[f] >= 2 => f \in D /\ mem[f] = LoaderTables[f] /\ lev[f] = level[f]
    BY <1>2, <1>3
<1>5. \A f \in Tables!Frame, i \in Tables!Index : lev[f] >= 3 /\ mem[f][i].present => ~mem[f][i].large
    <2>1. ASSUME NEW f \in Tables!Frame, NEW i \in Tables!Index, lev[f] >= 3, mem[f][i].present,
                 mem[f][i].large
          PROVE  FALSE
        <3>1. lev[f] >= 2 /\ lev[f] \in 0 .. 4
            BY <1>2, <2>1 DEF Levels
        <3>2. f \in D /\ mem[f] = LoaderTables[f] /\ lev[f] = level[f]
            BY <1>4, <3>1
        <3>3. level[f] <= 2
            BY <1>1, <2>1, <3>2
        <3> QED BY <2>1, <3>1, <3>2, <3>3
    <2> QED BY <2>1
<1>6. ASSUME NEW f \in Tables!Frame, NEW i \in Tables!Index, Named(f, i)
      PROVE  /\ f \in D /\ mem[f] = LoaderTables[f] /\ lev[f] = level[f] /\ level[f] # 1
             /\ LoaderTables[f][i].present /\ ~LoaderTables[f][i].large
    <2>1. f \in D /\ mem[f] = LoaderTables[f] /\ lev[f] = level[f] /\ lev[f] >= 2
        BY <1>4, <1>6 DEF Names
    <2> QED BY <1>6, <2>1 DEF Names, NamesTable
<1>7. ASSUME NEW f \in Tables!Frame, NEW i \in Tables!Index, Named(f, i)
      PROVE  lev[mem[f][i].frame] = lev[f] - 1
    <2>1. LoaderTables[f][i].frame \in D /\ level[LoaderTables[f][i].frame] = level[f] - 1
        BY <1>1, <1>6, <1>7
    <2>2. lev[LoaderTables[f][i].frame] = level[LoaderTables[f][i].frame]
        BY <1>2, <2>1
    <2> QED BY <1>6, <1>7, <2>1, <2>2
<1>8. ASSUME NEW f \in Tables!Frame, NEW g \in Tables!Frame,
             NEW i \in Tables!Index, NEW j \in Tables!Index,
             Named(f, i), Named(g, j), mem[f][i].frame = mem[g][j].frame
      PROVE  f = g /\ i = j
    BY <1>1, <1>6, <1>8
<1>9. Forest(mem, lev, {})
    BY <1>5, <1>7, <1>8 DEF Forest
<1>10. ASSUME NEW f \in Tables!Frame, f \in Fresh(next) PROVE lev[f] = 0
    <2>1. f \in FirstFree \div Unit .. (EndFree \div Unit) - 1
        BY <1>10 DEF Fresh, Tables!Init
    <2>2. FirstFree \div Unit \in Int /\ EndFree \div Unit \in Int
        BY MachineAssumption
    <2>3. f \notin D
        BY <2>1, <2>2, LoaderAssumption
    <2> QED BY <1>2, <2>3
<1>11. Shape(Tables!Now, lev)
    BY <1>2, <1>9, <1>10 DEF Shape, Tables!Now
<1>12. lev[LoaderCr3] = 4 /\ cr3 = LoaderCr3 /\ bootboot_paging = Tables!NULL
    <2>1. LoaderCr3 \in D /\ level[LoaderCr3] = 4
        BY <1>1
    <2> QED BY <1>2, <2>1 DEF Tables!Init
<1>13. TlbTrue
    BY DEF Tables!Init, TlbTrue
<1> QED BY <1>2, <1>11, <1>12, <1>13 DEF TreeInv, Rooted

\* A call that keeps the root.
LEMMA CallKeepsTrees ==
    ASSUME TablesInv, TreeInv, NEW s \in States, Continues(Tables!Now, s),
           Tables!Become(s, cr3), bootboot_paging' = bootboot_paging, orderly'
    PROVE  /\ TreeInv'
           /\ cr3 # LoaderCr3 => \A p \in Pages : WalkedTo(mem', LoaderCr3, p) = WalkedTo(mem, LoaderCr3, p)
<1>1. /\ mem' = s.mem /\ next' = s.next /\ orderly' = s.orderly /\ cr3' = cr3
      /\ tlb' = [p \in Pages |->
                    (IF cr3 # cr3 \/ p \in s.flushed THEN {} ELSE tlb[p])
                    \cup ({Tables!Resolve(s.mem, cr3, p)} \ {Tables!Unmapped})]
    BY DEF Tables!Become
<1>2. Tables!Now.orderly = orderly /\ Tables!Now.mem = mem
    BY DEF Tables!Now
<1>3. orderly
    BY <1>1, <1>2 DEF Continues
<1>4. PICK lev \in Levels : Shape(Tables!Now, lev) /\ Rooted(lev)
    BY <1>3 DEF TreeInv
<1>5. PICK grown \in Levels : Fine(Tables!Now, s, lev, grown)
    BY <1>1, <1>4 DEF Continues, Rooted
<1>6. cr3 \in Tables!Frame /\ bootboot_paging \in Tables!Frame /\ LoaderCr3 \in Tables!Frame /\ Pages \subseteq Nat
    BY LoaderAssumption, CallsAssumption DEF TablesInv
<1>7. Shape(Tables!Now, grown)'
    <2>1. Tables!Now' = [mem |-> mem', next |-> next', given |-> given', orderly |-> orderly',
                         flushed |-> {}, complete |-> TRUE]
        BY DEF Tables!Now
    <2>2. Tables!Now'.mem = s.mem /\ Tables!Now'.next = s.next
        BY <1>1, <2>1
    <2>3. Shape(s, grown)
        BY <1>5 DEF Fine
    <2> QED BY <2>2, <2>3 DEF Shape
<1>8. Rooted(grown)'
    <2>1. \A f \in Tables!Frame : lev[f] = 4 => grown[f] = 4
        BY <1>5 DEF Fine, Keeps
    <2> QED BY <1>1, <1>4, <1>6, <2>1 DEF Rooted, Tables!NULL
<1>9. TlbTrue'
    <2>1. ASSUME NEW p \in Pages PROVE tlb'[p] \subseteq {WalkedTo(mem', cr3', p)} \ {Tables!Unmapped}
        <3>1. s.mem \in Memories /\ Tables!Resolve(s.mem, cr3, p) = WalkedTo(s.mem, cr3, p)
            BY <1>6, ResolveIs DEF States
        <3>2. tlb'[p] = (IF p \in s.flushed THEN {} ELSE tlb[p])
                           \cup ({WalkedTo(s.mem, cr3, p)} \ {Tables!Unmapped})
            BY <1>1, <3>1
        <3>3. tlb[p] \subseteq {WalkedTo(mem, cr3, p)} \ {Tables!Unmapped}
            BY <1>3 DEF TreeInv, TlbTrue
        <3>4. \/ p \in s.flushed \/ WalkedTo(mem, cr3, p) = Tables!Unmapped
              \/ WalkedTo(mem, cr3, p) = WalkedTo(s.mem, cr3, p)
            BY <1>2, <1>5 DEF Fine, Steady
        <3> QED BY <1>1, <3>2, <3>3, <3>4
    <2> QED BY <2>1 DEF TlbTrue
<1>10. ASSUME cr3 # LoaderCr3, NEW p \in Pages
       PROVE  WalkedTo(mem', LoaderCr3, p) = WalkedTo(mem, LoaderCr3, p)
    <2>1. lev[LoaderCr3] = 4 /\ p \in Nat
        BY <1>4, <1>6 DEF Rooted
    <2> QED BY <1>1, <1>2, <1>5, <1>6, <1>10, <2>1 DEF Fine, OthersStay
<1>11. TreeInv'
    BY <1>7, <1>8, <1>9 DEF TreeInv
<1> QED BY <1>10, <1>11

\* new_paging.
LEMMA NewPagingTrees ==
    ASSUME TablesInv, TreeInv, Tables!NewPaging, orderly'
    PROVE  /\ TreeInv'
           /\ \A p \in Pages :
                 /\ WalkedTo(mem', LoaderCr3, p) = WalkedTo(mem, LoaderCr3, p)
                 /\ WalkedTo(mem', cr3', p) =
                       IF cr3' = cr3 THEN WalkedTo(mem, cr3, p) ELSE WalkedTo(mem, bootboot_paging', p)
<1> DEFINE now == Tables!Now
           root == IF bootboot_paging = Tables!NULL THEN cr3 ELSE bootboot_paging
           s == Tables!CloneHigherHalf(now, root)
           f == Tables!AlignedFrame(now)
           new == IF s.complete THEN f ELSE cr3
<1>1. /\ now \in States /\ now.mem = mem /\ now.next = next /\ now.orderly = orderly /\ now.complete
      /\ cr3 \in Tables!Frame /\ bootboot_paging \in Tables!Frame
      /\ LoaderCr3 \in Tables!Frame /\ Pages \subseteq Nat /\ mem \in Memories
    BY LoaderAssumption, CallsAssumption, NowIs DEF TablesInv, Tables!Now
<1>2. root \in Tables!Frame
    BY <1>1
<1>3. bootboot_paging' = root /\ Tables!Become(s, new)
    BY Zenon DEF Tables!NewPaging
<1>4. s \in Complete(f)
    <2> HIDE DEF root, now
    <2> QED BY <1>1, <1>2, CloneKeeps
<1>5. root = IF bootboot_paging = Tables!NULL THEN cr3 ELSE bootboot_paging
    OBVIOUS
<1> HIDE DEF root, s, f
<1>6. /\ mem' = s.mem /\ next' = s.next /\ orderly' = s.orderly /\ cr3' = new
      /\ tlb' = [p \in Pages |->
                    (IF new # cr3 \/ p \in s.flushed THEN {} ELSE tlb[p])
                    \cup ({Tables!Resolve(s.mem, new, p)} \ {Tables!Unmapped})]
    BY <1>3 DEF Tables!Become
<1>7. s.mem \in Memories /\ new \in Tables!Frame
    BY <1>1, <1>4 DEF Complete, States
<1>8. now' = [mem |-> mem', next |-> next', given |-> given', orderly |-> orderly',
              flushed |-> {}, complete |-> TRUE]
    BY DEF Tables!Now
<1>9. now'.mem = s.mem /\ now'.next = s.next
    BY <1>6, <1>8
<1>10. \A lev \in Levels : Shape(now, lev) /\ lev[root] = 4 =>
          /\ s.orderly => now.orderly
          /\ ~s.complete => Untouched(now, s, lev)
          /\ s.complete => Twin(now, s, lev, root, f)
    <2> HIDE DEF now
    <2> QED BY <1>1, <1>2, CloneIs DEF s, f
<1>11. orderly
    <2>1. (Tables!CloneHigherHalf(now, root)).orderly => now.orderly
        <3> HIDE DEF now
        <3>1. now \in States /\ root \in Tables!Frame
            BY <1>1, <1>2
        <3> QED BY <3>1, CloneCopies DEF Copies
    <2> QED BY <1>1, <1>6, <2>1 DEF s
<1>12. PICK lev \in Levels : Shape(now, lev) /\ Rooted(lev)
    BY <1>11 DEF TreeInv
<1>13. lev[cr3] = 4 /\ lev[LoaderCr3] = 4 /\ lev[root] = 4
    BY <1>5, <1>12 DEF Rooted
<1>14. \A p \in Pages : tlb[p] \subseteq {WalkedTo(mem, cr3, p)} \ {Tables!Unmapped}
    BY <1>11 DEF TreeInv, TlbTrue
<1>15. \A p \in Pages : Tables!Resolve(s.mem, new, p) = WalkedTo(s.mem, new, p)
    BY <1>1, <1>7, ResolveIs
<1> HIDE DEF now
<1>16. CASE s.complete
    <2>1. PICK grown \in Levels :
             /\ Shape(s, grown) /\ Keeps(lev, grown) /\ WalksSame(now.mem, s.mem, lev)
             /\ f \in Tables!Frame /\ lev[f] = 0 /\ grown[f] = 4
             /\ \A page \in Nat : WalkedTo(s.mem, f, page) = WalkedTo(now.mem, root, page)
        BY <1>10, <1>12, <1>13, <1>16 DEF Twin
    <2>2. cr3' = f /\ new = f /\ new # cr3
        BY <1>6, <1>13, <1>16, <2>1
    <2> HIDE DEF new
    <2>3. Shape(Tables!Now, grown)'
        BY <1>9, <2>1 DEF Shape, now
    <2>4. Rooted(grown)'
        <3>1. grown[LoaderCr3] = 4 /\ grown[root] = 4
            BY <1>1, <1>2, <1>13, <2>1 DEF Keeps
        <3> QED BY <1>3, <2>1, <2>2, <3>1 DEF Rooted
    <2>5. ASSUME NEW p \in Pages PROVE tlb'[p] \subseteq {WalkedTo(mem', cr3', p)} \ {Tables!Unmapped}
        BY <1>6, <1>15, <2>2
    <2>6. TreeInv'
        BY <2>3, <2>4, <2>5 DEF TreeInv, TlbTrue
    <2>7. ASSUME NEW p \in Pages
          PROVE  /\ WalkedTo(mem', LoaderCr3, p) = WalkedTo(mem, LoaderCr3, p)
                 /\ WalkedTo(mem', cr3', p) = WalkedTo(mem, bootboot_paging', p)
        <3>1. p \in Nat
            BY <1>1
        <3>2. WalkedTo(s.mem, LoaderCr3, p) = WalkedTo(now.mem, LoaderCr3, p)
            BY <1>1, <1>13, <2>1, <3>1 DEF WalksSame
        <3> QED BY <1>1, <1>3, <1>6, <2>1, <2>2, <3>1, <3>2
    <2> QED BY <2>2, <1>6, <2>6, <2>7
<1>17. CASE ~s.complete
    <2>1. Shape(s, lev) /\ WalksSame(now.mem, s.mem, lev)
        BY <1>10, <1>12, <1>13, <1>17 DEF Untouched
    <2>2. cr3' = cr3 /\ new = cr3
        BY <1>6, <1>17
    <2> HIDE DEF new
    <2>3. Shape(Tables!Now, lev)'
        BY <1>9, <2>1 DEF Shape, now
    <2>4. Rooted(lev)'
        BY <1>3, <1>13, <2>2 DEF Rooted
    <2>5. ASSUME NEW p \in Pages
          PROVE  /\ WalkedTo(mem', LoaderCr3, p) = WalkedTo(mem, LoaderCr3, p)
                 /\ WalkedTo(mem', cr3', p) = WalkedTo(mem, cr3, p)
        <3>1. p \in Nat
            BY <1>1
        <3>2. /\ WalkedTo(s.mem, LoaderCr3, p) = WalkedTo(now.mem, LoaderCr3, p)
              /\ WalkedTo(s.mem, cr3, p) = WalkedTo(now.mem, cr3, p)
            BY <1>1, <1>13, <2>1, <3>1 DEF WalksSame
        <3> QED BY <1>1, <1>6, <2>2, <3>2
    <2>6. ASSUME NEW p \in Pages PROVE tlb'[p] \subseteq {WalkedTo(mem', cr3', p)} \ {Tables!Unmapped}
        <3>1. tlb'[p] \subseteq tlb[p] \cup ({WalkedTo(s.mem, cr3, p)} \ {Tables!Unmapped})
            BY <1>6, <1>15, <2>2
        <3>2. WalkedTo(s.mem, cr3, p) = WalkedTo(mem, cr3, p)
            BY <1>6, <2>2, <2>5
        <3> QED BY <1>14, <2>5, <3>1, <3>2
    <2>7. TreeInv'
        BY <1>12, <2>3, <2>4, <2>6 DEF TreeInv, TlbTrue
    <2> QED BY <2>2, <2>5, <2>7
<1> QED BY <1>16, <1>17

\* map_2mb_page always leaves what paging.c can do.
LEMMA LargeDisorderly ==
    ASSUME cr3 \in Tables!Frame, NEW s \in States, NEW page \in Nat, NEW frame,
           Tables!WithLargeBit(frame) \in Tables!Frame
    PROVE  ~Tables!Map2mb(s, page, frame).orderly
<1> DEFINE d == Tables!Directory(s, page)
           i == Tables!At(page, 2)
           leaf == Tables!Leaf(Tables!WithLargeBit(frame))
           written == Tables!SetEntry(d.s, d.table, i, leaf)
<1>1. d.s \in States /\ d.table \in Tables!Frame
    BY DirectoryKeeps
<1>2. i \in Tables!Index
    BY IndexTypes
<1>3. leaf \in Tables!Entry
    BY DEF Tables!Leaf, Tables!Entry
<1> HIDE DEF d, i, leaf
<1>4. written \in States
    BY <1>1, <1>2, <1>3, EntryWritten
<1>5. Tables!Map2mb(s, page, frame) = Tables!Disorderly(written, TRUE)
    BY Zenon DEF Tables!Map2mb, d, i, leaf
<1> HIDE DEF written
<1>6. ~Tables!Disorderly(written, TRUE).orderly
    BY <1>4 DEF Tables!Disorderly, States
<1> QED BY <1>5, <1>6

\* The loader's tables give every page the place they gave it.
LoaderKept ==
    orderly' /\ cr3 # LoaderCr3 =>
        \A p \in Pages : WalkedTo(mem', LoaderCr3, p) = WalkedTo(mem, LoaderCr3, p)

LEMMA TreeStep ==
    ASSUME TablesInv, TreeInv, [Tables!Next]_(Tables!vars)
    PROVE  TreeInv' /\ LoaderKept
<1> DEFINE now == Tables!Now
<1>1. now \in States /\ cr3 \in Tables!Frame /\ bootboot_paging \in Tables!Frame
    BY DEF TablesInv
<1>2. ASSUME NEW s \in States, Continues(now, s), Tables!Become(s, cr3),
             bootboot_paging' = bootboot_paging
      PROVE  TreeInv' /\ LoaderKept
    <2>1. CASE orderly'
        BY <1>2, <2>1, CallKeepsTrees DEF LoaderKept
    <2>2. CASE ~orderly'
        BY <2>2 DEF TreeInv, LoaderKept
    <2> QED BY <2>1, <2>2
<1> HIDE DEF now
<1>3. ASSUME NEW d \in Devices \cup Mappings, Tables!CallMap(d) PROVE TreeInv' /\ LoaderKept
    <2>1. d.page \in Nat /\ d.frame \in Tables!Frame
        BY CallsAssumption
    <2>2. /\ Tables!Map4kb(now, d.page, d.frame) \in States
          /\ Continues(now, Tables!Map4kb(now, d.page, d.frame))
        BY <1>1, <2>1, Map4kbKeeps, MapContinues
    <2> QED BY <1>2, <1>3, <2>2 DEF Tables!CallMap, now
<1>4. ASSUME NEW d \in Devices, Tables!MapDevice(d) PROVE TreeInv' /\ LoaderKept
    BY <1>3, <1>4 DEF Tables!MapDevice, Tables!CallMap
<1>5. ASSUME NEW d \in LargeMappings, Tables!CallMapLarge(d) PROVE TreeInv' /\ LoaderKept
    <2>1. d.page \in Nat /\ Tables!WithLargeBit(d.frame) \in Tables!Frame
        BY CallsAssumption
    <2>2. ~Tables!Map2mb(now, d.page, d.frame).orderly
        BY <1>1, <2>1, LargeDisorderly
    <2>3. ~orderly'
        BY <1>5, <2>2 DEF Tables!CallMapLarge, Tables!Become, now
    <2> QED BY <2>3 DEF TreeInv, LoaderKept
<1>6. ASSUME NEW p \in Unmappings, Tables!CallUnmap(p) PROVE TreeInv' /\ LoaderKept
    <2>1. p \in 0 .. Space - 1 /\ p \in Nat
        BY SpaceAssumption, CallsAssumption
    <2>2. Tables!Unmap(now, p) \in States /\ Continues(now, Tables!Unmap(now, p))
        BY <1>1, <2>1, UnmapKeeps, UnmapContinues
    <2> QED BY <1>2, <1>6, <2>2 DEF Tables!CallUnmap, now
<1>7. CASE Tables!InitUserProgramMemory
    <2>1. Tables!InitUserProgram(now) \in States /\ Continues(now, Tables!InitUserProgram(now))
        BY <1>1, InitUserProgramKeeps, ProgramContinues
    <2> QED BY <1>2, <1>7, <2>1 DEF Tables!InitUserProgramMemory, now
<1>8. ASSUME NEW size \in OtherSizes, Tables!OtherAllocation(size) PROVE TreeInv' /\ LoaderKept
    <2>1. Tables!Took(now, size) \in States /\ Continues(now, Tables!Took(now, size))
        BY <1>1, CallsAssumption, TookKeeps, TookContinues
    <2> QED BY <1>2, <1>8, <2>1 DEF Tables!OtherAllocation, now
<1>9. CASE Tables!NewPaging
    <2>1. CASE orderly'
        BY <1>9, <2>1, NewPagingTrees DEF LoaderKept
    <2>2. CASE ~orderly'
        BY <2>2 DEF TreeInv, LoaderKept
    <2> QED BY <2>1, <2>2
<1>10. CASE UNCHANGED Tables!vars
    <2>1. /\ mem' = mem /\ next' = next /\ given' = given /\ orderly' = orderly
          /\ cr3' = cr3 /\ bootboot_paging' = bootboot_paging /\ tlb' = tlb
        BY <1>10 DEF Tables!vars
    <2>2. Tables!Now' = Tables!Now
        BY <2>1 DEF Tables!Now
    <2> QED BY <2>1, <2>2 DEF TreeInv, LoaderKept, Rooted, TlbTrue, Tables!NULL
<1> QED BY <1>3, <1>4, <1>5, <1>6, <1>7, <1>8, <1>9, <1>10 DEF Tables!Next

\* In an orderly state, what the calls do to single pages.
LEMMA OrderlyTrees ==
    ASSUME TreeInv, orderly
    PROVE  \E lev \in Levels : Shape(Tables!Now, lev) /\ lev[cr3] = 4
BY DEF TreeInv, Rooted

LEMMA MapIsLocal ==
    ASSUME TablesInv, TreeInv, NEW d \in Mappings \cup Devices, Tables!CallMap(d), orderly'
    PROVE  \A p \in Pages :
              WalkedTo(mem', cr3', p) = IF p = d.page THEN d.frame ELSE WalkedTo(mem, cr3, p)
<1> DEFINE now == Tables!Now
           s == Tables!Map4kb(now, d.page, d.frame)
<1>1. /\ now \in States /\ now.mem = mem /\ now.orderly = orderly /\ cr3 \in Tables!Frame
      /\ Pages \subseteq 0 .. Space - 1 /\ Pages \subseteq Nat
      /\ d.page \in 0 .. Space - 1 /\ d.page \in Nat /\ d.frame \in Tables!Frame
    BY SpaceAssumption, CallsAssumption DEF TablesInv, Tables!Now
<1>2. mem' = s.mem /\ cr3' = cr3 /\ s.orderly
    BY DEF Tables!CallMap, Tables!Become
<1>3. orderly
    <2> HIDE DEF now
    <2> QED BY <1>1, <1>2, MapOrderly
<1>4. PICK lev \in Levels : Shape(now, lev) /\ lev[cr3] = 4
    BY <1>3, OrderlyTrees
<1> HIDE DEF now
<1>5. PICK grown : MapsTo(now, s, lev, grown, d.page, d.frame)
    BY <1>1, <1>2, <1>4, PageMapped
<1> HIDE DEF s
<1>6. ASSUME NEW p \in Pages
      PROVE  WalkedTo(mem', cr3', p) = IF p = d.page THEN d.frame ELSE WalkedTo(mem, cr3, p)
    <2>1. SamePage(p, d.page) <=> p = d.page
        <3>1. SamePage(p, d.page) => p = d.page
            BY <1>1, PagesDiffer
        <3>2. SamePage(d.page, d.page)
            BY DEF SamePage
        <3> QED BY <3>1, <3>2
    <2>2. p \in Nat
        BY <1>1
    <2>3. WalkedTo(s.mem, cr3, p) = IF SamePage(p, d.page) THEN d.frame ELSE WalkedTo(now.mem, cr3, p)
        BY <1>1, <1>4, <1>5, <2>2 DEF MapsTo, WalksButOne
    <2> QED BY <1>1, <1>2, <2>1, <2>3
<1> QED BY <1>6

LEMMA UnmapIsLocal ==
    ASSUME TablesInv, TreeInv, NEW u \in Unmappings, Tables!CallUnmap(u), orderly'
    PROVE  \A p \in Pages :
              WalkedTo(mem', cr3', p) = IF p = u THEN Tables!Unmapped ELSE WalkedTo(mem, cr3, p)
<1> DEFINE now == Tables!Now
           s == Tables!Unmap(now, u)
<1>1. /\ now \in States /\ now.mem = mem /\ now.orderly = orderly /\ cr3 \in Tables!Frame
      /\ Pages \subseteq 0 .. Space - 1 /\ Pages \subseteq Nat
      /\ u \in 0 .. Space - 1 /\ u \in Nat
    BY SpaceAssumption, CallsAssumption DEF TablesInv, Tables!Now
<1>2. mem' = s.mem /\ cr3' = cr3 /\ s.orderly
    BY DEF Tables!CallUnmap, Tables!Become
<1>3. orderly
    <2> HIDE DEF now
    <2> QED BY <1>1, <1>2, UnmapOrderly
<1>4. PICK lev \in Levels : Shape(now, lev) /\ lev[cr3] = 4
    BY <1>3, OrderlyTrees
<1> HIDE DEF now
<1>5. MapsTo(now, s, lev, lev, u, Tables!Unmapped)
    BY <1>1, <1>2, <1>4, PageUnmapped
<1> HIDE DEF s
<1>6. ASSUME NEW p \in Pages
      PROVE  WalkedTo(mem', cr3', p) = IF p = u THEN Tables!Unmapped ELSE WalkedTo(mem, cr3, p)
    <2>1. SamePage(p, u) <=> p = u
        <3>1. SamePage(p, u) => p = u
            BY <1>1, PagesDiffer
        <3>2. SamePage(u, u)
            BY DEF SamePage
        <3> QED BY <3>1, <3>2
    <2>2. p \in Nat
        BY <1>1
    <2>3. WalkedTo(s.mem, cr3, p) = IF SamePage(p, u) THEN Tables!Unmapped ELSE WalkedTo(now.mem, cr3, p)
        BY <1>1, <1>4, <1>5, <2>2 DEF MapsTo, WalksButOne
    <2> QED BY <1>1, <1>2, <2>1, <2>3
<1> QED BY <1>6

LEMMA TreeInvariant == Tables!Spec => [](TablesInv /\ TreeInv)
<1>1. Tables!Init => TablesInv /\ TreeInv
    BY TablesInit, TreeInit
<1>2. (TablesInv /\ TreeInv) /\ [Tables!Next]_(Tables!vars) => (TablesInv /\ TreeInv)'
    BY TablesStep, TreeStep
<1> QED BY <1>1, <1>2, PTL DEF Tables!Spec

LEMMA WhereIs ==
    ASSUME TablesInv
    PROVE  /\ \A p \in Pages : Tables!Where(p) = WalkedTo(mem, cr3, p)
           /\ \A root \in Tables!Frame, p \in Pages : Tables!Resolve(mem, root, p) = WalkedTo(mem, root, p)
BY NowIs, ResolveIs, CallsAssumption DEF TablesInv, Tables!Where

\* The same after a step.
LEMMA WhereIsThen ==
    ASSUME TablesInv, [Tables!Next]_(Tables!vars)
    PROVE  /\ \A p \in Pages : Tables!Where(p)' = WalkedTo(mem', cr3', p)
           /\ \A root \in Tables!Frame, p \in Pages : Tables!Resolve(mem', root, p) = WalkedTo(mem', root, p)
<1>1. (Tables!Now \in States)' /\ cr3' \in Tables!Frame
    BY TablesStep DEF TablesInv
<1>2. mem' \in Memories
    <2>1. Tables!Now' = [mem |-> mem', next |-> next', given |-> given', orderly |-> orderly',
                         flushed |-> {}, complete |-> TRUE]
        BY DEF Tables!Now
    <2>2. Tables!Now'.mem \in Memories
        BY <1>1 DEF States
    <2> QED BY <2>1, <2>2
<1> QED BY <1>1, <1>2, ResolveIs, CallsAssumption DEF Tables!Where

LEMMA CoherentImplies == TablesInv /\ TreeInv => Tables!TlbCoherent
BY WhereIs DEF TreeInv, TlbTrue, Tables!TlbCoherent

LEMMA LocalStep ==
    ASSUME TablesInv, TreeInv, [Tables!Next]_(Tables!vars), orderly'
    PROVE  /\ \A m \in Mappings \cup Devices : Tables!CallMap(m) =>
                 \A p \in Pages : Tables!Where(p)' = IF p = m.page THEN m.frame ELSE Tables!Where(p)
           /\ \A u \in Unmappings : Tables!CallUnmap(u) =>
                 \A p \in Pages : Tables!Where(p)' = IF p = u THEN Tables!Unmapped ELSE Tables!Where(p)
<1>1. /\ \A p \in Pages : Tables!Where(p) = WalkedTo(mem, cr3, p)
      /\ \A p \in Pages : Tables!Where(p)' = WalkedTo(mem', cr3', p)
    BY WhereIs, WhereIsThen
<1>2. ASSUME NEW m \in Mappings \cup Devices, Tables!CallMap(m), NEW p \in Pages
      PROVE  Tables!Where(p)' = IF p = m.page THEN m.frame ELSE Tables!Where(p)
    BY <1>1, <1>2, MapIsLocal
<1>3. ASSUME NEW u \in Unmappings, Tables!CallUnmap(u), NEW p \in Pages
      PROVE  Tables!Where(p)' = IF p = u THEN Tables!Unmapped ELSE Tables!Where(p)
    BY <1>1, <1>3, UnmapIsLocal
<1> QED BY <1>2, <1>3

LEMMA LoaderStep ==
    ASSUME TablesInv, TreeInv, [Tables!Next]_(Tables!vars), orderly', cr3 # LoaderCr3
    PROVE  \A p \in Pages : Tables!Resolve(mem', LoaderCr3, p) = Tables!Resolve(mem, LoaderCr3, p)
BY TreeStep, WhereIs, WhereIsThen, LoaderAssumption DEF LoaderKept

LEMMA NewPagingStep ==
    ASSUME TablesInv, TreeInv, Tables!NewPaging, orderly'
    PROVE  \A p \in Pages :
              Tables!Where(p)' = IF cr3' = cr3 THEN Tables!Where(p)
                                 ELSE Tables!Resolve(mem, bootboot_paging', p)
<1>1. [Tables!Next]_(Tables!vars)
    BY DEF Tables!Next
<1>2. bootboot_paging' \in Tables!Frame
    BY <1>1, TablesStep DEF TablesInv
<1>3. \A p \in Pages : /\ Tables!Where(p) = WalkedTo(mem, cr3, p)
                       /\ Tables!Resolve(mem, bootboot_paging', p) = WalkedTo(mem, bootboot_paging', p)
                       /\ Tables!Where(p)' = WalkedTo(mem', cr3', p)
    BY <1>1, <1>2, WhereIs, WhereIsThen
<1> QED BY <1>3, NewPagingTrees

\* The TLB holds no translation that the tables no longer have, as long as the
\* calls are orderly: unmap_page invalidates, and map_4kb_page changes no page
\* that had a place.
THEOREM MemoryTlbCoherent == AllSpec => []TlbCoherent
<1>1. TablesInv /\ TreeInv => TlbCoherent
    BY CoherentImplies DEF TlbCoherent
<1> QED BY <1>1, MemoryIsPaging, TreeInvariant, PTL

\* map_4kb_page and unmap_page change where the page they are called for is, and
\* no other page, under any shape the tables have taken.
THEOREM MemoryCallsAreLocal == AllSpec => CallsAreLocal
<1>1. TablesInv /\ TreeInv /\ [Tables!Next]_(Tables!vars) =>
        [orderly' =>
           /\ \A m \in Mappings \cup Devices : Tables!CallMap(m) =>
                 \A p \in Pages : Tables!Where(p)' = IF p = m.page THEN m.frame ELSE Tables!Where(p)
           /\ \A u \in Unmappings : Tables!CallUnmap(u) =>
                 \A p \in Pages : Tables!Where(p)' = IF p = u THEN Tables!Unmapped ELSE Tables!Where(p)
        ]_(Tables!vars)
    BY LocalStep
<1> QED BY <1>1, MemoryIsPaging, TreeInvariant, PTL DEF Tables!Spec, CallsAreLocal, Tables!CallsAreLocal

\* What a process does to its tables leaves the loader's as they were: a clone
\* shares no table with them.
THEOREM MemoryLoaderTablesKept == AllSpec => LoaderTablesKept
<1>1. TablesInv /\ TreeInv /\ [Tables!Next]_(Tables!vars) =>
        [orderly' /\ cr3 # LoaderCr3 =>
           \A p \in Pages : Tables!Resolve(mem', LoaderCr3, p) = Tables!Resolve(mem, LoaderCr3, p)
        ]_(Tables!vars)
    BY LoaderStep
<1> QED BY <1>1, MemoryIsPaging, TreeInvariant, PTL
           DEF Tables!Spec, LoaderTablesKept, Tables!LoaderTablesKept

\* new_paging gives every page the place the loader's tables give it, or, out of
\* memory in the middle of the copy, leaves every page where it was.
THEOREM MemoryNewPagingKeepsPages == AllSpec => NewPagingKeepsPages
<1>1. TablesInv /\ TreeInv /\ [Tables!Next]_(Tables!vars) =>
        [orderly' /\ Tables!NewPaging =>
           \A p \in Pages :
              Tables!Where(p)' = IF cr3' = cr3 THEN Tables!Where(p)
                                 ELSE Tables!Resolve(mem, bootboot_paging', p)
        ]_(Tables!vars)
    BY NewPagingStep
<1> QED BY <1>1, MemoryIsPaging, TreeInvariant, PTL
           DEF Tables!Spec, NewPagingKeepsPages, Tables!NewPagingKeepsPages
=============================================================================
