------------------------- MODULE LinkAndCardProofs -------------------------
(***************************************************************************)
(* Theorems of the two components on the bench whose proofs are by         *)
(* induction over data: the SD card, with the folds that follow a cluster  *)
(* chain, coalesce it into extents and find a block in them, and the link  *)
(* to the PC, with the recursion that writes a length and the fold that    *)
(* reads it.  Induction over the natural numbers is proved first, from the *)
(* library's well-founded orderings of finite sets, and then what a fold   *)
(* of the community modules is at each position.                           *)
(***************************************************************************)
EXTENDS SdCard, FiniteSetTheorems, TLAPS

-----------------------------------------------------------------------------
(* Induction and folds.  A set of numbers that has 0 and is closed under   *)
(* the successor has every number: otherwise the intervals up to the       *)
(* numbers it lacks would have a least one.  From that, what a fold of the *)
(* community modules is, position by position.                             *)
(* Induction over the natural numbers.                                     *)
LEMMA SetInduction ==
  ASSUME NEW S, 0 \in S, \A n \in Nat : n \in S => n + 1 \in S
  PROVE  Nat \subseteq S
<1>1. SUFFICES ASSUME NEW n \in Nat, n \notin S PROVE FALSE
  OBVIOUS
<1> DEFINE T == {0 .. m : m \in Nat \ S}
<1>2. T \subseteq FiniteSubsetsOf(Nat)
  <2>1. \A m \in Nat : 0 .. m \in SUBSET Nat /\ IsFiniteSet(0 .. m)
    BY FS_Interval
  <2> QED BY <2>1 DEF FiniteSubsetsOf
<1>3. T # {}
  BY <1>1
<1>4. IsWellFoundedOn(StrictSubsetOrdering(Nat), FiniteSubsetsOf(Nat))
  BY FS_StrictSubsetOrderingWellFounded
<1>5. \E x \in T : \A y \in T : ~(<<y, x>> \in StrictSubsetOrdering(Nat))
  <2> HIDE DEF T
  <2> QED BY <1>2, <1>3, <1>4, WFMin
<1>6. PICK x \in T : \A y \in T : ~(<<y, x>> \in StrictSubsetOrdering(Nat))
  BY <1>5
<1>7. PICK m \in Nat \ S : x = 0 .. m
  BY DEF T
<1>8. m # 0 /\ m - 1 \in Nat /\ m - 1 \notin S
  BY SMT
<1>9. 0 .. m - 1 \in T
  BY <1>8
<1>10. <<0 .. m - 1, x>> \in StrictSubsetOrdering(Nat)
  <2>1. 0 .. m - 1 \in SUBSET Nat /\ x \in SUBSET Nat
    BY <1>7, <1>8
  <2>2. 0 .. m - 1 \subseteq x /\ m \in x /\ m \notin 0 .. m - 1
    BY <1>7, <1>8
  <2> QED BY <2>1, <2>2 DEF StrictSubsetOrdering
<1> QED BY <1>6, <1>9, <1>10

(* The same up to a bound.                                                 *)
LEMMA UpTo ==
  ASSUME NEW n \in Nat, NEW S, 0 \in S,
         \A i \in 1 .. n : i - 1 \in S => i \in S
  PROVE  0 .. n \subseteq S
<1> DEFINE T == {i \in Nat : i <= n => i \in S}
<1>1. 0 \in T
  OBVIOUS
<1>2. ASSUME NEW i \in Nat, i \in T PROVE i + 1 \in T
  <2>1. CASE i + 1 <= n
    <3>1. i + 1 \in 1 .. n /\ (i + 1) - 1 = i /\ i \in S
      BY <1>2, <2>1
    <3> QED BY <3>1
  <2> QED BY <2>1
<1>3. Nat \subseteq T
  <2> HIDE DEF T
  <2> QED BY <1>1, <1>2, SetInduction
<1> QED BY <1>3

(* The element a fold over positions takes last.                           *)
Largest(s) == CHOOSE x \in s : \A y \in s : x >= y

(* The largest of a set of positions is its top when that is in it.        *)
LEMMA LargestOf ==
  ASSUME NEW n \in Nat, NEW s \in SUBSET (1 .. n + 1), n + 1 \in s
  PROVE  Largest(s) = n + 1
<1>1. \A y \in s : y \in Int /\ n + 1 >= y
  OBVIOUS
<1>2. \A x \in s : (\A y \in s : x >= y) => x = n + 1
  <2> SUFFICES ASSUME NEW x \in s, \A y \in s : x >= y PROVE x = n + 1
    OBVIOUS
  <2>1. x >= n + 1
    OBVIOUS
  <2>2. n + 1 >= x /\ x \in Int
    BY <1>1
  <2> QED BY <2>1, <2>2
<1>3. n + 1 \in s /\ \A y \in s : n + 1 >= y
  BY <1>1
<1> QED BY <1>2, <1>3, Zenon DEF Largest

(* The largest of the first positions.                                     *)
LEMMA LargestUpTo == \A n \in Nat \ {0} :
  Largest(1 .. n) = n /\ 1 .. n # {} /\ (1 .. n) \ {n} = 1 .. n - 1
  BY DEF Largest

(* iter is the fold of G over seq: its value on each set of positions.     *)
Folds(Y, X, G, base, n, seq, iter) ==
  /\ iter \in [SUBSET (1 .. n) -> Y]
  /\ iter = [s \in SUBSET (1 .. n) |->
       IF s = {} THEN base ELSE G[<<iter[s \ {Largest(s)}], seq[Largest(s)]>>]]

(* A set of positions has a largest one.                                   *)
LEMMA LargestIn ==
  ASSUME NEW n \in Nat, NEW s \in SUBSET (1 .. n), s # {}
  PROVE  Largest(s) \in s
<1> DEFINE T == {m \in Nat : \A t \in SUBSET (1 .. m) : t # {} =>
                    \E x \in t : \A y \in t : x >= y}
<1>1. 0 \in T
  BY 1 .. 0 = {}
<1>2. ASSUME NEW m \in Nat, m \in T PROVE m + 1 \in T
  <2> SUFFICES ASSUME NEW t \in SUBSET (1 .. m + 1), t # {}
               PROVE  \E x \in t : \A y \in t : x >= y
    OBVIOUS
  <2>1. CASE m + 1 \in t
    BY <2>1
  <2>2. CASE m + 1 \notin t
    <3>1. t \in SUBSET (1 .. m)
      BY <2>2
    <3> QED BY <1>2, <3>1
  <2> QED BY <2>1, <2>2
<1>3. Nat \subseteq T
  <2> HIDE DEF T
  <2> QED BY <1>1, <1>2, SetInduction
<1>4. \E x \in s : \A y \in s : x >= y
  BY <1>3
<1> QED BY <1>4 DEF Largest

(* There is such a function for every step, base and sequence, so the      *)
(* CHOOSE in the definition of a fold has what it asks for.                *)
LEMMA FoldExists ==
  ASSUME NEW Y, NEW X, NEW G \in [Y \X X -> Y], NEW base \in Y,
         NEW n \in Nat, NEW seq \in [1 .. n -> X]
  PROVE  \E iter : Folds(Y, X, G, base, n, seq, iter)
<1> DEFINE T == {m \in Nat : m <= n => \E iter : Folds(Y, X, G, base, m, seq, iter)}
<1>1. 0 \in T
  <2>1. 1 .. 0 = {} /\ SUBSET (1 .. 0) = {{}}
    OBVIOUS
  <2>2. Folds(Y, X, G, base, 0, seq, [s \in SUBSET (1 .. 0) |-> base])
    BY <2>1 DEF Folds
  <2> QED BY <2>2
<1>2. ASSUME NEW m \in Nat, m \in T PROVE m + 1 \in T
  <2> SUFFICES ASSUME m + 1 <= n PROVE \E iter : Folds(Y, X, G, base, m + 1, seq, iter)
    OBVIOUS
  <2>1. PICK old : Folds(Y, X, G, base, m, seq, old)
    BY <1>2
  <2>2. /\ \A s \in SUBSET (1 .. m) : old[s] \in Y
        /\ \A s \in SUBSET (1 .. m) :
             old[s] = IF s = {} THEN base
                      ELSE G[<<old[s \ {Largest(s)}], seq[Largest(s)]>>]
    BY <2>1 DEF Folds
  <2> DEFINE new == [s \in SUBSET (1 .. m + 1) |->
                       IF m + 1 \in s THEN G[<<old[s \ {m + 1}], seq[m + 1]>>]
                       ELSE old[s]]
  <2>3. \A s \in SUBSET (1 .. m + 1) : s \ {m + 1} \in SUBSET (1 .. m)
    OBVIOUS
  <2>4. seq[m + 1] \in X
    OBVIOUS
  <2>5. ASSUME NEW s \in SUBSET (1 .. m + 1)
        PROVE  /\ new[s] \in Y
               /\ new[s] = IF s = {} THEN base
                           ELSE G[<<new[s \ {Largest(s)}], seq[Largest(s)]>>]
    <3>1. CASE m + 1 \in s
      <4>1. Largest(s) = m + 1 /\ s # {}
        BY <3>1, LargestOf
      <4>2. s \ {m + 1} \in SUBSET (1 .. m + 1) /\ m + 1 \notin s \ {m + 1}
        OBVIOUS
      <4>3. new[s \ {m + 1}] = old[s \ {m + 1}] /\ old[s \ {m + 1}] \in Y
        BY <2>2, <2>3, <4>2
      <4> QED BY <2>4, <3>1, <4>1, <4>3
    <3>2. CASE m + 1 \notin s
      <4>1. s \in SUBSET (1 .. m) /\ new[s] = old[s]
        BY <2>3, <3>2
      <4>2. CASE s # {}
        <5>1. Largest(s) \in s
          BY <4>1, <4>2, LargestIn
        <5>2. s \ {Largest(s)} \in SUBSET (1 .. m + 1) /\ m + 1 \notin s \ {Largest(s)}
          BY <3>2
        <5>3. new[s \ {Largest(s)}] = old[s \ {Largest(s)}]
          BY <5>2
        <5> QED BY <2>2, <4>1, <4>2, <5>3
      <4>3. CASE s = {}
        BY <2>2, <4>1, <4>3
      <4> QED BY <4>2, <4>3
    <3> QED BY <3>1, <3>2
  <2> HIDE DEF new
  <2>6. new \in [SUBSET (1 .. m + 1) -> Y]
    BY <2>5 DEF new
  <2>7. Folds(Y, X, G, base, m + 1, seq, new)
    <3>1. new = [s \in SUBSET (1 .. m + 1) |->
                   IF s = {} THEN base
                   ELSE G[<<new[s \ {Largest(s)}], seq[Largest(s)]>>]]
      BY <2>5, <2>6
    <3> QED BY <2>6, <3>1 DEF Folds
  <2> QED BY <2>7
<1>3. Nat \subseteq T
  <2> HIDE DEF T
  <2> QED BY <1>1, <1>2, SetInduction
<1> QED BY <1>3

(* Induction from all the smaller numbers.                                 *)
LEMMA StrongInduction ==
  ASSUME NEW S, \A n \in Nat : (\A m \in 0 .. n - 1 : m \in S) => n \in S
  PROVE  Nat \subseteq S
<1> DEFINE T == {n \in Nat : \A m \in 0 .. n - 1 : m \in S}
<1>1. 0 \in T
  OBVIOUS
<1>2. ASSUME NEW n \in Nat, n \in T PROVE n + 1 \in T
  <2>1. n \in S
    BY <1>2
  <2>2. \A m \in 0 .. (n + 1) - 1 : m \in 0 .. n - 1 \/ m = n
    OBVIOUS
  <2> QED BY <1>2, <2>1, <2>2
<1>3. Nat \subseteq T
  <2> HIDE DEF T
  <2> QED BY <1>1, <1>2, SetInduction
<1>4. \A n \in Nat : n + 1 \in T /\ n \in 0 .. (n + 1) - 1
  BY <1>3
<1> QED BY <1>4

(* A fold whose every step keeps a set is in it.                           *)
LEMMA FoldTyped ==
  ASSUME NEW Y, NEW n \in Nat, NEW iter, iter[{}] \in Y,
         \A i \in 1 .. n : iter[1 .. i - 1] \in Y => iter[1 .. i] \in Y
  PROVE  \A i \in 0 .. n : iter[1 .. i] \in Y
<1> DEFINE S == {i \in 0 .. n : iter[1 .. i] \in Y}
<1>1. 0 \in S
  BY 1 .. 0 = {}
<1>2. \A i \in 1 .. n : i - 1 \in S => i \in S
  OBVIOUS
<1>3. 0 .. n \subseteq S
  <2> HIDE DEF S
  <2> QED BY <1>1, <1>2, UpTo
<1> QED BY <1>3

-----------------------------------------------------------------------------
(* The card.  The chain of the log file is followed to its end, the runs   *)
(* that it is coalesced into hold the blocks of the file in order, and a   *)
(* block is found in the run that holds it.  What is written therefore     *)
(* lies in the file, and no boot finds the file elsewhere.                 *)
(* The FAT links the clusters of the file.                                 *)
Linked(fat, clusters) ==
  \A c \in 1 .. Len(clusters) :
    /\ clusters[c] # EndOfChain
    /\ fat[clusters[c]] = IF c = Len(clusters) THEN EndOfChain ELSE clusters[c + 1]

(* The chain that locate() follows from the first cluster is the file's,   *)
(* when its size lets it be followed to the end.                           *)
LEMMA ChainIs ==
  ASSUME NEW fat, NEW clusters \in Seq(Nat), NEW limit \in Nat,
         Len(clusters) > 0, Len(clusters) <= limit + 1, Linked(fat, clusters)
  PROVE  Chain(fat, clusters[1], limit, FileEnds) = clusters
<1> DEFINE n == Len(clusters)
           Prefix(k) == [i \in 1 .. k |-> clusters[i]]
           Y == {Prefix(k) : k \in 1 .. n}
           X == 1 .. limit
           Further(chain) == IF fat[Last(chain)] \in FileEnds THEN chain
                             ELSE Append(chain, fat[Last(chain)])
           G == [p \in Y \X X |-> Further(p[1])]
           seq == [i \in 1 .. limit |-> i]
           Runs(iter) ==
             iter = [s \in SUBSET DOMAIN seq |->
                       IF s = {} THEN <<clusters[1]>>
                       ELSE Further(iter[s \ {Largest(s)}])]
           iter == CHOOSE iter : Runs(iter)
           Reach(i) == IF i + 1 < n THEN i + 1 ELSE n
<1>1. /\ n \in Nat /\ n > 0 /\ DOMAIN clusters = 1 .. n
      /\ clusters \in [1 .. n -> Nat]
  OBVIOUS
<1>l. \A c \in 1 .. n :
        /\ clusters[c] \notin FileEnds
        /\ fat[clusters[c]] = IF c = n THEN EndOfChain ELSE clusters[c + 1]
  BY DEF Linked, FileEnds
<1>m. n <= limit + 1
  OBVIOUS
<1> HIDE DEF n
<1>p. ASSUME NEW k \in 1 .. n
      PROVE  /\ Prefix(k) \in Seq(Nat) /\ Len(Prefix(k)) = k
             /\ \A i \in 1 .. k : Prefix(k)[i] = clusters[i]
  <2>1. k \in Nat /\ \A i \in 1 .. k : clusters[i] \in Nat
    BY <1>1
  <2>2. Prefix(k) \in [1 .. k -> Nat]
    BY <2>1
  <2>3. \A i \in 1 .. k : Prefix(k)[i] = clusters[i]
    OBVIOUS
  <2> HIDE DEF Prefix
  <2> QED BY <2>1, <2>2, <2>3
<1> HIDE DEF Prefix
<1>2. ASSUME NEW k \in 1 .. n
      PROVE  /\ Last(Prefix(k)) = clusters[k]
             /\ Further(Prefix(k)) = IF k = n THEN Prefix(k) ELSE Prefix(k + 1)
  <2>1. Last(Prefix(k)) = clusters[k]
    BY <1>1, <1>p DEF Last
  <2>2. CASE k = n
    <3>1. fat[clusters[k]] \in FileEnds
      BY <1>l, <2>2 DEF FileEnds
    <3> QED BY <2>1, <2>2, <3>1
  <2>3. CASE k # n
    <3>1. /\ fat[clusters[k]] = clusters[k + 1] /\ k + 1 \in 1 .. n
          /\ clusters[k + 1] \notin FileEnds
      BY <1>1, <1>l, <2>3
    <3>2. Further(Prefix(k)) = Append(Prefix(k), clusters[k + 1])
      BY <2>1, <3>1
    <3>3. Append(Prefix(k), clusters[k + 1]) = Prefix(k + 1)
      <4>1. clusters[k + 1] \in Nat
        BY <1>1, <3>1
      <4> QED BY <1>p, <3>1, <4>1
    <3> HIDE DEF Further
    <3> QED BY <2>1, <2>3, <3>2, <3>3
  <2> QED BY <2>1, <2>2, <2>3
<1>3. Prefix(1) = <<clusters[1]>> /\ Prefix(n) = clusters
  <2>1. Prefix(1) \in Seq(Nat) /\ Len(Prefix(1)) = 1 /\ Prefix(1)[1] = clusters[1]
    <3>1. 1 \in 1 .. n /\ 1 \in 1 .. 1
      BY <1>1
    <3> QED BY <1>p, <3>1
  <2>2. /\ Prefix(n) \in Seq(Nat) /\ Len(Prefix(n)) = n
        /\ \A i \in 1 .. n : Prefix(n)[i] = clusters[i]
    <3>1. n \in 1 .. n
      BY <1>1
    <3> QED BY <1>p, <3>1
  <2>3. \A s, t \in Seq(Nat) :
          Len(s) = Len(t) /\ (\A i \in 1 .. Len(s) : s[i] = t[i]) => s = t
    <3> SUFFICES ASSUME NEW s \in Seq(Nat), NEW t \in Seq(Nat), Len(s) = Len(t),
                        \A i \in 1 .. Len(s) : s[i] = t[i]
                 PROVE  s = t
      OBVIOUS
    <3>1. s = [i \in 1 .. Len(s) |-> s[i]] /\ t = [i \in 1 .. Len(s) |-> t[i]]
      OBVIOUS
    <3>2. [i \in 1 .. Len(s) |-> s[i]] = [i \in 1 .. Len(s) |-> t[i]]
      OBVIOUS
    <3> QED BY <3>1, <3>2, Zenon
  <2>4. Prefix(n) = clusters
    BY <2>2, <2>3 DEF n
  <2>5. Prefix(1) = <<clusters[1]>>
    <3>1. clusters[1] \in Nat
      BY <1>1
    <3>2. /\ <<clusters[1]>> \in Seq(Nat) /\ Len(<<clusters[1]>>) = 1
          /\ <<clusters[1]>>[1] = clusters[1]
      BY <3>1
    <3> QED BY <2>1, <2>3, <3>2
  <2> QED BY <2>4, <2>5
<1> HIDE DEF Further
<1>4. /\ \A chain \in Y : Further(chain) \in Y
      /\ <<clusters[1]>> \in Y
  <2>1. ASSUME NEW k \in 1 .. n PROVE Further(Prefix(k)) \in Y
    <3>1. k \in 1 .. n /\ (k = n \/ k + 1 \in 1 .. n)
      BY <1>1
    <3> QED BY <1>2, <3>1
  <2>2. 1 \in 1 .. n
    BY <1>1
  <2> QED BY <1>3, <2>1, <2>2
<1>5. /\ G \in [Y \X X -> Y]
      /\ \A chain \in Y, i \in X : G[<<chain, i>>] = Further(chain)
  <2> HIDE DEF Y, X
  <2> QED BY <1>4
<1> HIDE DEF Y, G
<1>6. \E found : Runs(found)
  <2>1. seq \in [1 .. limit -> X] /\ DOMAIN seq = 1 .. limit
    OBVIOUS
  <2>2. PICK found : Folds(Y, X, G, <<clusters[1]>>, limit, seq, found)
    <3> HIDE DEF X, seq
    <3> QED BY <1>4, <1>5, <2>1, FoldExists
  <2>3. ASSUME NEW s \in SUBSET (1 .. limit), s # {}
        PROVE  G[<<found[s \ {Largest(s)}], seq[Largest(s)]>>]
                 = Further(found[s \ {Largest(s)}])
    <3>1. Largest(s) \in 1 .. limit
      BY <2>3, LargestIn
    <3>2. seq[Largest(s)] \in X /\ found[s \ {Largest(s)}] \in Y
      BY <2>2, <3>1 DEF Folds
    <3> QED BY <1>5, <3>2
  <2> HIDE DEF seq
  <2>4. Runs(found)
    BY <2>1, <2>2, <2>3 DEF Folds
  <2> QED BY <2>4
<1>7. Chain(fat, clusters[1], limit, FileEnds) = iter[DOMAIN seq]
  BY DEF Chain, FoldLeft, MapThenFoldSet, Max, Largest, Further
<1>9. DOMAIN seq = 1 .. limit
  OBVIOUS
<1>8. \A s \in SUBSET (1 .. limit) :
        iter[s] = IF s = {} THEN <<clusters[1]>> ELSE Further(iter[s \ {Largest(s)}])
  <2>1. Runs(iter)
    <3> HIDE DEF Runs
    <3> QED BY <1>6
  <2> HIDE DEF iter, seq
  <2> QED BY <1>9, <2>1
<1> HIDE DEF iter, Runs, seq
<1>10. iter[{}] = <<clusters[1]>>
  BY <1>8
<1>11. ASSUME NEW i \in 1 .. limit
       PROVE  iter[1 .. i] = Further(iter[1 .. i - 1])
  <2>1. Largest(1 .. i) = i /\ 1 .. i # {} /\ (1 .. i) \ {i} = 1 .. i - 1
    <3>1. i \in Nat \ {0}
      OBVIOUS
    <3> QED BY <3>1, LargestUpTo
  <2>2. 1 .. i \in SUBSET (1 .. limit)
    OBVIOUS
  <2> QED BY <1>8, <2>1, <2>2
<1> DEFINE S == {i \in 0 .. limit : iter[1 .. i] = Prefix(Reach(i))}
<1>12. 0 \in S
  <2>1. Reach(0) = 1 /\ 1 .. 0 = {} /\ 0 \in 0 .. limit
    BY <1>1
  <2> QED BY <1>3, <1>10, <2>1
<1>13. ASSUME NEW i \in 1 .. limit, i - 1 \in S PROVE i \in S
  <2>1. iter[1 .. i] = Further(Prefix(Reach(i - 1)))
    BY <1>11, <1>13
  <2>2. /\ Reach(i - 1) \in 1 .. n
        /\ Reach(i - 1) = n => Reach(i) = n
        /\ Reach(i - 1) # n => Reach(i) = Reach(i - 1) + 1
    BY <1>1
  <2>3. i \in 0 .. limit
    OBVIOUS
  <2> HIDE DEF Reach
  <2>4. iter[1 .. i] = Prefix(Reach(i))
    BY <1>2, <2>1, <2>2
  <2> QED BY <2>3, <2>4
<1>14. limit \in S
  <2>1. 0 .. limit \subseteq S
    <3> HIDE DEF S
    <3> QED BY <1>12, <1>13, UpTo
  <2> QED BY <2>1
<1>15. Reach(limit) = n
  BY <1>1, <1>m
<1> QED BY <1>3, <1>7, <1>9, <1>14, <1>15

(* An extent of a layout.                                                  *)
Run == [first_lba : Int, block_count : Nat]

(* The extents e hold the first blocks of the file in order; off says how  *)
(* many lie before each of them.                                           *)
Covers(file, e, off, blocks) ==
  /\ e \in Seq(Run) /\ off \in [0 .. Len(e) -> Nat]
  /\ off[0] = 0 /\ off[Len(e)] = blocks
  /\ \A j \in 1 .. Len(e) : off[j] = off[j - 1] + e[j].block_count
  /\ \A j \in 1 .. Len(e) : \A r \in 0 .. e[j].block_count - 1 :
       file[off[j - 1] + r + 1] = e[j].first_lba + r

(* One extent more.                                                        *)
LEMMA CoversMore ==
  ASSUME NEW file, NEW e, NEW off, NEW blocks, Covers(file, e, off, blocks),
         NEW more \in Run,
         \A r \in 0 .. more.block_count - 1 : file[blocks + r + 1] = more.first_lba + r
  PROVE  \E off2 : Covers(file, Append(e, more), off2, blocks + more.block_count)
<1> DEFINE n == Len(e)
           e2 == Append(e, more)
           off2 == [j \in 0 .. n + 1 |->
                      IF j = n + 1 THEN blocks + more.block_count ELSE off[j]]
<1>1. e \in Seq(Run) /\ n \in Nat /\ off \in [0 .. n -> Nat] /\ off[0] = 0 /\ off[n] = blocks
  BY DEF Covers
<1>2. /\ e2 \in Seq(Run) /\ Len(e2) = n + 1 /\ e2[n + 1] = more
      /\ \A j \in 1 .. n : e2[j] = e[j]
  BY <1>1
<1>3. more.block_count \in Nat /\ more.first_lba \in Int /\ blocks \in Nat
  BY <1>1 DEF Run
<1>4. /\ \A j \in 1 .. n : off[j] = off[j - 1] + e[j].block_count
      /\ \A j \in 1 .. n : \A r \in 0 .. e[j].block_count - 1 :
           file[off[j - 1] + r + 1] = e[j].first_lba + r
  BY DEF Covers
<1> HIDE DEF e2, n
<1>5. /\ off2 \in [0 .. n + 1 -> Nat] /\ off2[0] = 0
      /\ off2[n + 1] = blocks + more.block_count
      /\ \A j \in 0 .. n : off2[j] = off[j]
  BY <1>1, <1>3
<1> HIDE DEF off2
<1>6. ASSUME NEW j \in 1 .. n + 1
      PROVE  /\ off2[j] = off2[j - 1] + e2[j].block_count
             /\ \A r \in 0 .. e2[j].block_count - 1 :
                  file[off2[j - 1] + r + 1] = e2[j].first_lba + r
  <2>1. CASE j = n + 1
    <3>1. off2[j - 1] = blocks /\ e2[j] = more
      BY <1>1, <1>2, <1>5, <2>1
    <3> QED BY <1>5, <2>1, <3>1
  <2>2. CASE j # n + 1
    <3>1. j \in 1 .. n /\ off2[j - 1] = off[j - 1] /\ off2[j] = off[j] /\ e2[j] = e[j]
      BY <1>1, <1>2, <1>5, <2>2
    <3> QED BY <1>4, <3>1
  <2> QED BY <2>1, <2>2
<1>7. Covers(file, e2, off2, blocks + more.block_count)
  BY <1>2, <1>5, <1>6 DEF Covers
<1> QED BY <1>7 DEF e2

(* The last extent made longer.                                            *)
LEMMA CoversWider ==
  ASSUME NEW file, NEW e, NEW off, NEW blocks, Covers(file, e, off, blocks),
         Len(e) > 0, NEW more \in Nat,
         \A r \in 0 .. more - 1 :
           file[blocks + r + 1] = e[Len(e)].first_lba + e[Len(e)].block_count + r
  PROVE  \E off2 : Covers(file, [e EXCEPT ![Len(e)].block_count = e[Len(e)].block_count + more],
                          off2, blocks + more)
<1> DEFINE n == Len(e)
           e2 == [e EXCEPT ![n].block_count = e[n].block_count + more]
           off2 == [off EXCEPT ![n] = blocks + more]
<1>1. /\ e \in Seq(Run) /\ n \in Nat \ {0} /\ off \in [0 .. n -> Nat]
      /\ off[0] = 0 /\ off[n] = blocks /\ blocks \in Nat
  BY DEF Covers
<1>2. /\ \A j \in 1 .. n : off[j] = off[j - 1] + e[j].block_count
      /\ \A j \in 1 .. n : \A r \in 0 .. e[j].block_count - 1 :
           file[off[j - 1] + r + 1] = e[j].first_lba + r
  BY DEF Covers
<1>3. \A r \in 0 .. more - 1 : file[blocks + r + 1] = e[n].first_lba + e[n].block_count + r
  OBVIOUS
<1>4. \A j \in 1 .. n : e[j] \in Run
  BY <1>1
<1>5. /\ e2 \in Seq(Run) /\ Len(e2) = n
      /\ e2[n].first_lba = e[n].first_lba /\ e2[n].block_count = e[n].block_count + more
      /\ \A j \in 1 .. n - 1 : e2[j] = e[j]
  <2>1. e[n] \in Run /\ n \in 1 .. n
    BY <1>1, <1>4
  <2> DEFINE last == [e[n] EXCEPT !.block_count = e[n].block_count + more]
  <2>2. /\ last \in Run /\ last.first_lba = e[n].first_lba
        /\ last.block_count = e[n].block_count + more
    BY <2>1 DEF Run
  <2>3. e2 = [e EXCEPT ![n] = last]
    OBVIOUS
  <2> HIDE DEF last, e2, n
  <2>4. [e EXCEPT ![n] = last] \in Seq(Run) /\ Len([e EXCEPT ![n] = last]) = n
    BY <1>1, <2>2 DEF n
  <2>5. [e EXCEPT ![n] = last][n] = last /\ \A j \in 1 .. n - 1 :
          [e EXCEPT ![n] = last][j] = e[j]
    BY <1>1, <2>1 DEF n
  <2> QED BY <2>2, <2>3, <2>4, <2>5
<1> HIDE DEF e2, n
<1>6. /\ off2 \in [0 .. n -> Nat] /\ off2[0] = 0 /\ off2[n] = blocks + more
      /\ \A j \in 0 .. n - 1 : off2[j] = off[j]
  BY <1>1
<1> HIDE DEF off2
<1>7. ASSUME NEW j \in 1 .. n
      PROVE  /\ off2[j] = off2[j - 1] + e2[j].block_count
             /\ \A r \in 0 .. e2[j].block_count - 1 :
                  file[off2[j - 1] + r + 1] = e2[j].first_lba + r
  <2>1. off2[j - 1] = off[j - 1] /\ off[j - 1] \in Nat
    BY <1>1, <1>6
  <2>2. CASE j = n
    <3>1. /\ off[n - 1] + e[n].block_count = blocks /\ e[n].block_count \in Nat
          /\ e[n].first_lba \in Int
      BY <1>1, <1>2, <1>4 DEF Run
    <3>2. ASSUME NEW r \in 0 .. e2[n].block_count - 1
          PROVE  file[off2[n - 1] + r + 1] = e2[n].first_lba + r
      <4>1. r \in 0 .. e[n].block_count + more - 1 /\ r \in Int
        BY <1>5, <3>1
      <4>2. CASE r < e[n].block_count
        <5>1. r \in 0 .. e[n].block_count - 1 /\ n \in 1 .. n
          BY <1>1, <3>1, <4>1, <4>2
        <5> QED BY <1>2, <1>5, <2>1, <2>2, <5>1
      <4>3. CASE ~(r < e[n].block_count)
        <5>1. r - e[n].block_count \in 0 .. more - 1
          BY <3>1, <4>1, <4>3
        <5>2. /\ blocks + (r - e[n].block_count) + 1 = off2[n - 1] + r + 1
              /\ e[n].first_lba + e[n].block_count + (r - e[n].block_count) =
                   e2[n].first_lba + r
          <6>1. /\ off2[n - 1] + e[n].block_count = blocks /\ off2[n - 1] \in Nat
                /\ e2[n].first_lba = e[n].first_lba
            BY <1>5, <2>1, <2>2, <3>1
          <6>2. \A o, c, f, x \in Int :
                  (o + c) + (x - c) + 1 = o + x + 1 /\ f + c + (x - c) = f + x
            OBVIOUS
          <6> DEFINE o == off2[n - 1]
                     c == e[n].block_count
                     f == e[n].first_lba
          <6>3. o \in Int /\ c \in Int /\ f \in Int
            BY <3>1, <6>1
          <6>4. (o + c) + (r - c) + 1 = o + r + 1 /\ f + c + (r - c) = f + r
            <7> HIDE DEF o, c, f
            <7> QED BY <4>1, <6>2, <6>3
          <6> QED BY <6>1, <6>4
        <5> QED BY <1>3, <5>1, <5>2
      <4> QED BY <4>2, <4>3
    <3>3. off2[n] = off2[n - 1] + e2[n].block_count
      <4> DEFINE o == off2[n - 1]
                 c == e[n].block_count
      <4>1. o \in Int /\ c \in Int /\ blocks = o + c
        BY <2>1, <2>2, <3>1
      <4>2. off2[n] = blocks + more /\ e2[n].block_count = c + more
        BY <1>5, <1>6
      <4> HIDE DEF o, c
      <4>3. off2[n] = o + (c + more)
        BY <4>1, <4>2
      <4> QED BY <4>2, <4>3 DEF o
    <3> QED BY <2>2, <3>2, <3>3
  <2>3. CASE j # n
    <3>1. j \in 1 .. n - 1 /\ off2[j] = off[j] /\ e2[j] = e[j]
      BY <1>1, <1>5, <1>6, <2>3
    <3> QED BY <1>2, <2>1, <3>1
  <2> QED BY <2>2, <2>3
<1>8. Covers(file, e2, off2, blocks + more)
  BY <1>5, <1>6, <1>7 DEF Covers
<1> QED BY <1>8 DEF e2, n

(* What the provers need of a product.                                     *)
LEMMA Products ==
  /\ \A x \in Nat, s \in Nat : x * s \in Nat
  /\ \A x \in Int, s \in Nat : x * s \in Int /\ (x + 1) * s = x * s + s
  /\ \A s \in Nat : 0 * s = 0
  OBVIOUS

(* What the file and its clusters are to each other. *)
(* The sectors of the file are those of its clusters, in order.            *)
Placed(b, file, clusters) ==
  LET spc == b.sectors_per_cluster
  IN /\ spc \in Nat \ {0} /\ b.data_lba \in Nat
     /\ \A c \in 1 .. Len(clusters), k \in 0 .. spc - 1 :
          file[(c - 1) * spc + k + 1] = ClusterLba(b, clusters[c]) + k

(* The extents of the clusters up to m. *)
(* The extents of the clusters up to m.                                    *)
Mapped(b, file, clusters, e, m) ==
  /\ e \in Seq(Run) /\ Len(e) > 0
  /\ e[Len(e)].first_lba + e[Len(e)].block_count
       = ClusterLba(b, clusters[m]) + b.sectors_per_cluster
  /\ \E off : Covers(file, e, off, m * b.sectors_per_cluster)

(* Clusters that follow one another lie next to one another.               *)
LEMMA Starts ==
  ASSUME NEW b, NEW file, NEW clusters \in Seq(Nat), Placed(b, file, clusters)
  PROVE  \A c \in 1 .. Len(clusters) :
           /\ ClusterLba(b, clusters[c]) \in Int
           /\ [first_lba |-> ClusterLba(b, clusters[c]),
               block_count |-> b.sectors_per_cluster] \in Run
           /\ \A k \in 0 .. b.sectors_per_cluster - 1 :
                file[(c - 1) * b.sectors_per_cluster + k + 1] = ClusterLba(b, clusters[c]) + k
           /\ c > 1 /\ clusters[c] = clusters[c - 1] + 1 =>
                ClusterLba(b, clusters[c])
                  = ClusterLba(b, clusters[c - 1]) + b.sectors_per_cluster
<1> DEFINE s == b.sectors_per_cluster
           d == b.data_lba
<1>1. s \in Nat /\ d \in Nat
  BY DEF Placed
<1>2. \A c \in 1 .. Len(clusters) : clusters[c] \in Nat
  OBVIOUS
<1>3. \A x \in Nat : ClusterLba(b, x) = d + (x - 2) * s
  BY DEF ClusterLba
<1>4. \A c \in 1 .. Len(clusters) : \A k \in 0 .. s - 1 :
        file[(c - 1) * s + k + 1] = ClusterLba(b, clusters[c]) + k
  BY DEF Placed
<1> HIDE DEF s, d
<1>5. \A x \in Nat : ClusterLba(b, x) \in Int /\ ClusterLba(b, x + 1) = ClusterLba(b, x) + s
  <2> SUFFICES ASSUME NEW x \in Nat
               PROVE  ClusterLba(b, x) \in Int /\ ClusterLba(b, x + 1) = ClusterLba(b, x) + s
    OBVIOUS
  <2>1. x - 2 \in Int /\ (x + 1) - 2 = (x - 2) + 1 /\ x + 1 \in Nat
    OBVIOUS
  <2>2. (x - 2) * s \in Int /\ ((x - 2) + 1) * s = (x - 2) * s + s
    BY <1>1, <2>1, Products
  <2>3. ((x + 1) - 2) * s = (x - 2) * s + s
    BY <2>1, <2>2
  <2> QED BY <1>1, <1>3, <2>1, <2>2, <2>3
<1>6. ASSUME NEW c \in 1 .. Len(clusters)
      PROVE  [first_lba |-> ClusterLba(b, clusters[c]), block_count |-> s] \in Run
  BY <1>1, <1>2, <1>5 DEF Run
<1>7. ASSUME NEW c \in 1 .. Len(clusters), c > 1, clusters[c] = clusters[c - 1] + 1
      PROVE  ClusterLba(b, clusters[c]) = ClusterLba(b, clusters[c - 1]) + s
  <2>1. c - 1 \in 1 .. Len(clusters)
    BY <1>7
  <2> QED BY <1>2, <1>5, <1>7, <2>1
<1> QED BY <1>2, <1>4, <1>5, <1>6, <1>7 DEF s

(* The first cluster.                                                      *)
LEMMA MappedFirst ==
  ASSUME NEW b, NEW file, NEW clusters \in Seq(Nat), Placed(b, file, clusters),
         Len(clusters) > 0
  PROVE  Mapped(b, file, clusters, <<[first_lba |-> ClusterLba(b, clusters[1]),
                                      block_count |-> b.sectors_per_cluster]>>, 1)
<1> DEFINE s == b.sectors_per_cluster
           lba == ClusterLba(b, clusters[1])
           more == [first_lba |-> lba, block_count |-> s]
<1>1. 1 \in 1 .. Len(clusters) /\ s \in Nat
  BY DEF Placed
<1>2. more \in Run /\ \A k \in 0 .. s - 1 : file[(1 - 1) * s + k + 1] = lba + k
  BY <1>1, Starts
<1>3. (1 - 1) * s = 0 /\ 1 * s = s
  BY <1>1
<1>4. more.first_lba = lba /\ more.block_count = s
  OBVIOUS
<1> HIDE DEF more, lba, s
<1>5. \A k \in 0 .. more.block_count - 1 : file[0 + k + 1] = more.first_lba + k
  BY <1>2, <1>3, <1>4
<1>6. Covers(file, <<>>, [j \in 0 .. 0 |-> 0], 0)
  BY DEF Covers
<1>7. \E off : Covers(file, Append(<<>>, more), off, 0 + more.block_count)
  BY <1>2, <1>5, <1>6, CoversMore
<1>8. /\ Append(<<>>, more) = <<more>> /\ <<more>> \in Seq(Run)
      /\ Len(<<more>>) = 1 /\ <<more>>[1] = more
  BY <1>2
<1>9. 0 + more.block_count = 1 * s
  BY <1>1, <1>3, <1>4
<1>10. Mapped(b, file, clusters, <<more>>, 1)
  BY <1>4, <1>7, <1>8, <1>9 DEF Mapped, s, lba
<1> QED BY <1>10 DEF more, lba, s

(* A longer extent.                                                        *)
LEMMA Widened ==
  ASSUME NEW r \in Run, NEW k \in Nat,
         NEW w, w = [r EXCEPT !.block_count = r.block_count + k]
  PROVE  w \in Run /\ w.first_lba = r.first_lba /\ w.block_count = r.block_count + k
<1>1. r.first_lba \in Int /\ r.block_count \in Nat
  BY DEF Run
<1>2. w = [first_lba |-> r.first_lba, block_count |-> r.block_count + k]
  BY DEF Run
<1> QED BY <1>1, <1>2 DEF Run

(* A step of the fold leaves extents.                                      *)
LEMMA MergedTyped ==
  ASSUME NEW b, NEW e \in Seq(Run) \ {<<>>}, NEW cluster, NEW previous,
         b.sectors_per_cluster \in Nat, ClusterLba(b, cluster) \in Int
  PROVE  /\ Merged(b, e, cluster, previous) \in Seq(Run) \ {<<>>}
<1> DEFINE s == b.sectors_per_cluster
           n == Len(e)
           more == [first_lba |-> ClusterLba(b, cluster), block_count |-> s]
           wider == [e[n] EXCEPT !.block_count = e[n].block_count + s]
<1>1. e \in Seq(Run) /\ n \in Nat \ {0} /\ e[n] \in Run
  OBVIOUS
<1>2. more \in Run /\ wider \in Run
  <2>1. wider \in Run
    BY <1>1, Widened
  <2>2. more \in Run
    BY DEF Run
  <2> QED BY <2>1, <2>2
<1>3. Merged(b, e, cluster, previous)
        = IF cluster = previous + 1 THEN [e EXCEPT ![n] = wider] ELSE Append(e, more)
  BY DEF Merged
<1>4. [e EXCEPT ![n] = wider] \in Seq(Run) /\ Len([e EXCEPT ![n] = wider]) = n
  <2> HIDE DEF wider
  <2> QED BY <1>1, <1>2
<1>5. Append(e, more) \in Seq(Run) /\ Len(Append(e, more)) = n + 1
  <2> HIDE DEF more
  <2> QED BY <1>1, <1>2
<1> HIDE DEF wider, more
<1>6. Merged(b, e, cluster, previous) \in Seq(Run) /\ Len(Merged(b, e, cluster, previous)) > 0
  BY <1>1, <1>3, <1>4, <1>5
<1>7. Len(<<>>) = 0
  OBVIOUS
<1> QED BY <1>6, <1>7

(* One cluster more, that follows the one before it or not.                *)
LEMMA MappedNext ==
  ASSUME NEW b, NEW file, NEW clusters \in Seq(Nat), Placed(b, file, clusters),
         NEW m \in 1 .. Len(clusters), m > 1,
         NEW e, Mapped(b, file, clusters, e, m - 1)
  PROVE  Mapped(b, file, clusters, Merged(b, e, clusters[m], clusters[m - 1]), m)
<1> DEFINE s == b.sectors_per_cluster
           n == Len(e)
           lba == ClusterLba(b, clusters[m])
           more == [first_lba |-> lba, block_count |-> s]
           e2 == Merged(b, e, clusters[m], clusters[m - 1])
           blocks == (m - 1) * s
<1>1. s \in Nat /\ e \in Seq(Run) /\ n \in Nat \ {0} /\ e[n] \in Run
  BY DEF Placed, Mapped
<1>2. e[n].first_lba + e[n].block_count = ClusterLba(b, clusters[m - 1]) + s
  BY DEF Mapped
<1>3. PICK off : Covers(file, e, off, blocks)
  BY DEF Mapped
<1>4. /\ lba \in Int /\ more \in Run
      /\ \A k \in 0 .. s - 1 : file[blocks + k + 1] = lba + k
      /\ clusters[m] = clusters[m - 1] + 1 => lba = ClusterLba(b, clusters[m - 1]) + s
  BY Starts
<1>5. blocks \in Nat /\ m * s = blocks + s
  <2>1. m - 1 \in Nat /\ (m - 1) + 1 = m
    OBVIOUS
  <2> HIDE DEF s
  <2>2. (m - 1) * s \in Nat /\ ((m - 1) + 1) * s = (m - 1) * s + s
    BY <1>1, <2>1, Products
  <2> QED BY <2>1, <2>2
<1>6. more.first_lba = lba /\ more.block_count = s
  OBVIOUS
<1> HIDE DEF more, lba, blocks
<1>7. CASE clusters[m] = clusters[m - 1] + 1
  <2>1. e2 = [e EXCEPT ![n].block_count = e[n].block_count + s]
    BY <1>7 DEF Merged
  <2>2. \A r \in 0 .. s - 1 :
          file[blocks + r + 1] = e[Len(e)].first_lba + e[Len(e)].block_count + r
    BY <1>2, <1>4, <1>7
  <2>3. \E off2 : Covers(file, e2, off2, blocks + s)
    <3>1. \E off2 : Covers(file, [e EXCEPT ![Len(e)].block_count = e[Len(e)].block_count + s],
                           off2, blocks + s)
      <4>1. Len(e) > 0
        BY <1>1
      <4> HIDE DEF s
      <4> QED BY <1>1, <1>3, <2>2, <4>1, CoversWider
    <3> QED BY <2>1, <3>1
  <2>4. /\ e2 \in Seq(Run) /\ Len(e2) = n
        /\ e2[n].first_lba = e[n].first_lba /\ e2[n].block_count = e[n].block_count + s
    <3> DEFINE wider == [e[n] EXCEPT !.block_count = e[n].block_count + s]
    <3>1. /\ wider \in Run /\ wider.first_lba = e[n].first_lba
          /\ wider.block_count = e[n].block_count + s
      BY <1>1, Widened
    <3>2. e2 = [e EXCEPT ![n] = wider]
      BY <2>1
    <3> HIDE DEF wider, e2
    <3> QED BY <1>1, <3>1, <3>2
  <2>5. e2[n].first_lba + e2[n].block_count = lba + s
    <3> DEFINE f == e[n].first_lba
               c == e[n].block_count
    <3>1. f \in Int /\ c \in Int
      BY <1>1 DEF Run
    <3>2. f + c = lba
      BY <1>2, <1>4, <1>7
    <3>3. e2[n].first_lba = f /\ e2[n].block_count = c + s
      BY <2>4
    <3> HIDE DEF f, c, e2, s, n
    <3>4. f + (c + s) = (f + c) + s
      BY <1>1, <3>1
    <3> QED BY <3>2, <3>3, <3>4
  <2> HIDE DEF e2
  <2>6. (\E off2 : Covers(file, e2, off2, m * s)) /\ Len(e2) > 0
    BY <1>1, <1>5, <2>3, <2>4
  <2>7. e2[Len(e2)].first_lba + e2[Len(e2)].block_count = lba + s
    BY <2>4, <2>5
  <2>8. Mapped(b, file, clusters, e2, m)
    BY <2>4, <2>6, <2>7 DEF Mapped, lba
  <2> QED BY <2>8 DEF e2
<1>8. CASE clusters[m] # clusters[m - 1] + 1
  <2>1. e2 = Append(e, more)
    BY <1>8 DEF Merged, more, lba
  <2>2. \A r \in 0 .. more.block_count - 1 : file[blocks + r + 1] = more.first_lba + r
    BY <1>4, <1>6
  <2>3. \E off2 : Covers(file, e2, off2, blocks + more.block_count)
    BY <1>3, <1>4, <2>1, <2>2, CoversMore
  <2> HIDE DEF e2
  <2>4. e2 \in Seq(Run) /\ Len(e2) = n + 1 /\ e2[n + 1] = more
    BY <1>1, <1>4, <2>1
  <2>6. (\E off2 : Covers(file, e2, off2, m * s)) /\ Len(e2) > 0
    BY <1>1, <1>5, <1>6, <2>3, <2>4
  <2>7. e2[Len(e2)].first_lba + e2[Len(e2)].block_count = lba + s
    BY <1>6, <2>4
  <2>8. Mapped(b, file, clusters, e2, m)
    BY <2>4, <2>6, <2>7 DEF Mapped, lba
  <2> QED BY <2>8 DEF e2
<1> QED BY <1>7, <1>8

(* The coalesced runs hold the file.                                       *)
LEMMA ExtentsMapped ==
  ASSUME NEW b, NEW file, NEW clusters \in Seq(Nat), Placed(b, file, clusters),
         Len(clusters) > 0
  PROVE  Mapped(b, file, clusters, Extents(b, clusters), Len(clusters))
<1> DEFINE n == Len(clusters)
           Y == Seq(Run) \ {<<>>}
           X == 2 .. n
           base == <<[first_lba |-> ClusterLba(b, clusters[1]),
                      block_count |-> b.sectors_per_cluster]>>
           Step(e, i) == Merged(b, e, clusters[i], clusters[i - 1])
           G == [p \in Y \X X |-> Step(p[1], p[2])]
           seq == [i \in 1 .. n - 1 |-> i + 1]
           Runs(iter) ==
             iter = [s \in SUBSET DOMAIN seq |->
                       IF s = {} THEN base
                       ELSE Step(iter[s \ {Largest(s)}], seq[Largest(s)])]
           iter == CHOOSE iter : Runs(iter)
<1>1. n \in Nat \ {0} /\ b.sectors_per_cluster \in Nat /\ n - 1 \in Nat
  BY DEF Placed
<1>2. \A e \in Y, i \in X : Step(e, i) \in Y
  <2> SUFFICES ASSUME NEW e \in Y, NEW i \in X PROVE Step(e, i) \in Y
    OBVIOUS
  <2>1. i \in 1 .. n
    BY <1>1
  <2>2. ClusterLba(b, clusters[i]) \in Int
    BY <2>1, Starts
  <2> QED BY <1>1, <2>2, MergedTyped
<1>3. base \in Y /\ Mapped(b, file, clusters, base, 1)
  <2>1. Mapped(b, file, clusters, base, 1)
    BY MappedFirst
  <2>2. base \in Seq(Run) /\ Len(base) > 0
    BY <2>1 DEF Mapped
  <2>3. Len(<<>>) = 0
    OBVIOUS
  <2> HIDE DEF base
  <2> QED BY <2>1, <2>2, <2>3
<1>4. \A e : \A m \in 2 .. n :
        Mapped(b, file, clusters, e, m - 1) => Mapped(b, file, clusters, Step(e, m), m)
  <2> SUFFICES ASSUME NEW e, NEW m \in 2 .. n, Mapped(b, file, clusters, e, m - 1)
               PROVE  Mapped(b, file, clusters, Step(e, m), m)
    OBVIOUS
  <2>1. m \in 1 .. Len(clusters) /\ m > 1
    BY <1>1
  <2> QED BY <2>1, MappedNext
<1> HIDE DEF Step, base
<1>5. /\ G \in [Y \X X -> Y]
      /\ \A e \in Y, i \in X : G[<<e, i>>] = Step(e, i)
  <2> HIDE DEF Y, X
  <2> QED BY <1>2
<1>s. seq \in [1 .. n - 1 -> X] /\ DOMAIN seq = 1 .. n - 1
      /\ \A i \in 1 .. n - 1 : seq[i] = i + 1
  BY <1>1
<1> HIDE DEF Y, G
<1>6. \E found : Runs(found)
  <2>2. PICK found : Folds(Y, X, G, base, n - 1, seq, found)
    <3> HIDE DEF X, seq, n
    <3> QED BY <1>1, <1>3, <1>5, <1>s, FoldExists
  <2>3. ASSUME NEW s \in SUBSET (1 .. n - 1), s # {}
        PROVE  G[<<found[s \ {Largest(s)}], seq[Largest(s)]>>]
                 = Step(found[s \ {Largest(s)}], seq[Largest(s)])
    <3>1. Largest(s) \in 1 .. n - 1
      BY <1>1, <2>3, LargestIn
    <3>2. seq[Largest(s)] \in X /\ found[s \ {Largest(s)}] \in Y
      <4> HIDE DEF X, seq, n
      <4> QED BY <1>s, <2>2, <3>1 DEF Folds
    <3> HIDE DEF X, seq
    <3> QED BY <1>5, <3>2
  <2> HIDE DEF seq, n
  <2>4. Runs(found)
    BY <1>s, <2>2, <2>3 DEF Folds
  <2> QED BY <2>4
<1>7. Extents(b, clusters) = iter[DOMAIN seq]
  BY DEF Extents, FoldLeft, MapThenFoldSet, Max, Largest, Step, base
<1>8. \A s \in SUBSET (1 .. n - 1) :
        iter[s] = IF s = {} THEN base ELSE Step(iter[s \ {Largest(s)}], seq[Largest(s)])
  <2>1. Runs(iter)
    <3> HIDE DEF Runs
    <3> QED BY <1>6
  <2> HIDE DEF iter, seq, n
  <2> QED BY <1>s, <2>1
<1> HIDE DEF iter, Runs, seq, n
<1>10. iter[{}] = base
  BY <1>8
<1>11. ASSUME NEW i \in 1 .. n - 1
       PROVE  iter[1 .. i] = Step(iter[1 .. i - 1], i + 1)
  <2>1. Largest(1 .. i) = i /\ 1 .. i # {} /\ (1 .. i) \ {i} = 1 .. i - 1
    <3>1. i \in Nat \ {0}
      OBVIOUS
    <3> QED BY <3>1, LargestUpTo
  <2>2. 1 .. i \in SUBSET (1 .. n - 1)
    BY <1>1
  <2> QED BY <1>8, <1>s, <2>1, <2>2
<1> DEFINE S == {i \in 0 .. n - 1 : Mapped(b, file, clusters, iter[1 .. i], i + 1)}
<1>12. 0 \in S
  <2>1. 1 .. 0 = {} /\ 0 \in 0 .. n - 1 /\ 0 + 1 = 1
    BY <1>1
  <2> QED BY <1>3, <1>10, <2>1
<1>13. ASSUME NEW i \in 1 .. n - 1, i - 1 \in S PROVE i \in S
  <2>1. (i - 1) + 1 = (i + 1) - 1 /\ i + 1 \in 2 .. n /\ i \in 0 .. n - 1
    BY <1>1
  <2>2. Mapped(b, file, clusters, iter[1 .. i - 1], (i + 1) - 1)
    BY <1>13, <2>1
  <2>3. Mapped(b, file, clusters, Step(iter[1 .. i - 1], i + 1), i + 1)
    BY <1>4, <2>1, <2>2
  <2> QED BY <1>11, <2>1, <2>3
<1>14. n - 1 \in S
  <2>1. 0 .. n - 1 \subseteq S
    <3> HIDE DEF S
    <3> QED BY <1>1, <1>12, <1>13, UpTo
  <2>2. n - 1 \in 0 .. n - 1
    BY <1>1
  <2> QED BY <2>1, <2>2
<1>15. (n - 1) + 1 = n
  BY <1>1
<1> QED BY <1>7, <1>14, <1>15, <1>s DEF n

(* to_lba() finds every block of what the extents cover in its place, and  *)
(* none beyond.                                                            *)
LEMMA FoundAt ==
  ASSUME NEW file, NEW e, NEW off, NEW blocks, Covers(file, e, off, blocks),
         NEW block \in Nat, \A k \in 1 .. blocks : file[k] \in Nat
  PROVE  ToLba([extents |-> e], block) = IF block < blocks THEN file[block + 1] ELSE -1
<1> DEFINE n == Len(e)
           Y == [remaining : Int, lba : Int]
           X == Run
           base == [remaining |-> block, lba |-> -1]
           Step(at, extent) ==
             IF at.lba >= 0 THEN at
             ELSE IF at.remaining < extent.block_count
             THEN [at EXCEPT !.lba = extent.first_lba + at.remaining]
             ELSE [at EXCEPT !.remaining = at.remaining - extent.block_count]
           G == [p \in Y \X X |-> Step(p[1], p[2])]
           Runs(iter) ==
             iter = [s \in SUBSET DOMAIN e |->
                       IF s = {} THEN base
                       ELSE Step(iter[s \ {Largest(s)}], e[Largest(s)])]
           iter == CHOOSE iter : Runs(iter)
<1>1. /\ n \in Nat /\ DOMAIN e = 1 .. n /\ e \in [1 .. n -> Run]
      /\ off \in [0 .. n -> Nat] /\ off[0] = 0 /\ off[n] = blocks
  BY DEF Covers
<1>2. /\ \A j \in 1 .. n : off[j] = off[j - 1] + e[j].block_count
      /\ \A j \in 1 .. n : \A r \in 0 .. e[j].block_count - 1 :
           file[off[j - 1] + r + 1] = e[j].first_lba + r
  BY DEF Covers
<1>3. ASSUME NEW at \in Y, NEW extent \in Run
      PROVE  /\ Step(at, extent) \in Y
             /\ at.lba >= 0 => Step(at, extent) = at
             /\ ~(at.lba >= 0) /\ at.remaining < extent.block_count =>
                  Step(at, extent) = [remaining |-> at.remaining,
                                      lba |-> extent.first_lba + at.remaining]
             /\ ~(at.lba >= 0) /\ ~(at.remaining < extent.block_count) =>
                  Step(at, extent) = [remaining |-> at.remaining - extent.block_count,
                                      lba |-> at.lba]
  <2>1. /\ at.remaining \in Int /\ at.lba \in Int
        /\ extent.first_lba \in Int /\ extent.block_count \in Nat
    BY DEF Run
  <2>2. at = [remaining |-> at.remaining, lba |-> at.lba]
    OBVIOUS
  <2>3. \A x : [at EXCEPT !.lba = x] = [remaining |-> at.remaining, lba |-> x]
    BY <2>2
  <2>4. \A x : [at EXCEPT !.remaining = x] = [remaining |-> x, lba |-> at.lba]
    BY <2>2
  <2>5. CASE at.lba >= 0
    BY <2>5
  <2>6. CASE ~(at.lba >= 0) /\ at.remaining < extent.block_count
    <3>1. Step(at, extent) = [remaining |-> at.remaining,
            lba |-> extent.first_lba + at.remaining]
      BY <2>3, <2>6
    <3>2. extent.first_lba + at.remaining \in Int
      BY <2>1
    <3> HIDE DEF Step
    <3> QED BY <2>1, <2>6, <3>1, <3>2
  <2>7. CASE ~(at.lba >= 0) /\ ~(at.remaining < extent.block_count)
    <3>1. Step(at, extent) = [remaining |-> at.remaining - extent.block_count, lba |-> at.lba]
      BY <2>4, <2>7
    <3>2. at.remaining - extent.block_count \in Int
      BY <2>1
    <3> HIDE DEF Step
    <3> QED BY <2>1, <2>7, <3>1, <3>2
  <2> QED BY <2>5, <2>6, <2>7
<1>4. base \in Y /\ base.remaining = block /\ base.lba = -1
  OBVIOUS
<1> HIDE DEF Step, base
<1>5. /\ G \in [Y \X X -> Y]
      /\ \A at \in Y, i \in X : G[<<at, i>>] = Step(at, i)
  <2> HIDE DEF Y
  <2> QED BY <1>3
<1> HIDE DEF G
<1>6. \E found : Runs(found)
  <2>1. PICK found : Folds(Y, X, G, base, n, e, found)
    <3> HIDE DEF n, Y
    <3> QED BY <1>1, <1>4, <1>5, FoldExists
  <2>2. ASSUME NEW s \in SUBSET (1 .. n), s # {}
        PROVE  G[<<found[s \ {Largest(s)}], e[Largest(s)]>>]
                 = Step(found[s \ {Largest(s)}], e[Largest(s)])
    <3>1. Largest(s) \in 1 .. n
      BY <1>1, <2>2, LargestIn
    <3>2. e[Largest(s)] \in X /\ found[s \ {Largest(s)}] \in Y
      <4> HIDE DEF Y, n
      <4> QED BY <1>1, <2>1, <3>1 DEF Folds
    <3> HIDE DEF Y
    <3> QED BY <1>5, <3>2
  <2> HIDE DEF n, Y
  <2>3. Runs(found)
    BY <1>1, <2>1, <2>2 DEF Folds
  <2> QED BY <2>3
<1>7. ToLba([extents |-> e], block) = iter[DOMAIN e].lba
  BY DEF ToLba, FoldLeft, MapThenFoldSet, Max, Largest, Step, base
<1>8. \A s \in SUBSET (1 .. n) :
        iter[s] = IF s = {} THEN base ELSE Step(iter[s \ {Largest(s)}], e[Largest(s)])
  <2>1. Runs(iter)
    <3> HIDE DEF Runs
    <3> QED BY <1>6
  <2> HIDE DEF iter, n
  <2> QED BY <1>1, <2>1
<1> HIDE DEF iter, Runs, n
<1>9. iter[{}] = base
  BY <1>8
<1>10. ASSUME NEW i \in 1 .. n
       PROVE  iter[1 .. i] = Step(iter[1 .. i - 1], e[i])
  <2>1. Largest(1 .. i) = i /\ 1 .. i # {} /\ (1 .. i) \ {i} = 1 .. i - 1
    <3>1. i \in Nat \ {0}
      OBVIOUS
    <3> QED BY <3>1, LargestUpTo
  <2>2. 1 .. i \in SUBSET (1 .. n)
    BY <1>1
  <2> QED BY <1>8, <2>1, <2>2
<1> DEFINE Sought(at, i) ==
             /\ at \in Y
             /\ block < off[i] => at.lba = file[block + 1] /\ at.lba >= 0
             /\ ~(block < off[i]) => at.lba = -1 /\ at.remaining = block - off[i]
           S == {i \in 0 .. n : Sought(iter[1 .. i], i)}
           D == {k \in 0 .. n : off[n - k] <= off[n]}
<1>11. \A i \in 0 .. n : off[i] \in Nat /\ off[i] <= blocks
  <2>1. 0 \in D
    BY <1>1
  <2>2. ASSUME NEW k \in 1 .. n, k - 1 \in D PROVE k \in D
    <3>1. n - (k - 1) \in 1 .. n /\ (n - (k - 1)) - 1 = n - k /\ n - k \in 0 .. n
      BY <1>1
    <3>2. /\ off[n - (k - 1)] = off[n - k] + e[n - (k - 1)].block_count
          /\ e[n - (k - 1)].block_count \in Nat /\ off[n - k] \in Nat
          /\ off[n] \in Nat /\ off[n - (k - 1)] <= off[n]
      BY <1>1, <1>2, <2>2, <3>1 DEF Run
    <3> QED BY <3>1, <3>2
  <2>3. 0 .. n \subseteq D
    <3> HIDE DEF D
    <3> QED BY <1>1, <2>1, <2>2, UpTo
  <2>4. ASSUME NEW i \in 0 .. n PROVE off[i] <= off[n] /\ off[i] \in Nat
    <3>1. n - i \in D /\ n - (n - i) = i
      <4>1. n - i \in 0 .. n /\ n - (n - i) = i
        BY <1>1
      <4> HIDE DEF D
      <4> QED BY <2>3, <4>1
    <3>2. off[n - (n - i)] <= off[n]
      BY <3>1
    <3> QED BY <1>1, <3>1, <3>2
  <2> QED BY <1>1, <2>4
<1>12. 0 \in S
  <2>1. 1 .. 0 = {} /\ 0 \in 0 .. n
    BY <1>1
  <2> QED BY <1>1, <1>4, <1>9, <2>1
<1>13. ASSUME NEW i \in 1 .. n, i - 1 \in S PROVE i \in S
  <2> DEFINE at == iter[1 .. i - 1]
             next == iter[1 .. i]
             first == e[i].first_lba
             count == e[i].block_count
             o == off[i - 1]
  <2>1. /\ next = Step(at, e[i]) /\ e[i] \in Run /\ at \in Y /\ i - 1 \in 0 .. n /\ i \in 0 .. n
        /\ block < o => at.lba = file[block + 1] /\ at.lba >= 0
        /\ ~(block < o) => at.lba = -1 /\ at.remaining = block - o
    BY <1>1, <1>10, <1>13
  <2>2. /\ off[i] = o + count /\ o \in Nat /\ count \in Nat /\ first \in Int /\ off[i] <= blocks
        /\ \A r \in 0 .. count - 1 : file[o + r + 1] = first + r
    BY <1>1, <1>2, <1>11, <2>1 DEF Run
  <2> HIDE DEF at, next, first, count, o
  <2>3. /\ next \in Y
        /\ at.lba >= 0 => next = at
        /\ ~(at.lba >= 0) /\ at.remaining < count =>
             next = [remaining |-> at.remaining, lba |-> first + at.remaining]
        /\ ~(at.lba >= 0) /\ ~(at.remaining < count) =>
             next = [remaining |-> at.remaining - count, lba |-> at.lba]
    BY <1>3, <2>1 DEF first, count
  <2>4. CASE block < o
    <3>1. next = at /\ block < off[i]
      BY <2>1, <2>2, <2>3, <2>4
    <3> QED BY <2>1, <2>4, <3>1 DEF next
  <2>5. CASE ~(block < o) /\ block - o < count
    <3>1. next = [remaining |-> block - o, lba |-> first + (block - o)] /\ block < off[i]
      BY <2>1, <2>2, <2>3, <2>5
    <3>2. block - o \in 0 .. count - 1 /\ o + (block - o) + 1 = block + 1
      BY <2>2, <2>5
    <3>3. file[block + 1] = first + (block - o)
      BY <2>2, <3>2
    <3>4. block + 1 \in 1 .. blocks
      BY <1>1, <2>2, <3>1
    <3>5. next.lba = file[block + 1] /\ next.lba >= 0
      BY <3>1, <3>3, <3>4
    <3> QED BY <2>1, <2>3, <3>1, <3>5 DEF next
  <2>6. CASE ~(block < o) /\ ~(block - o < count)
    <3>1. next = [remaining |-> (block - o) - count, lba |-> -1] /\ ~(block < off[i])
      BY <2>1, <2>2, <2>3, <2>6
    <3>2. next.lba = -1 /\ next.remaining = block - off[i]
      BY <2>2, <3>1
    <3> QED BY <2>1, <2>3, <3>1, <3>2 DEF next
  <2> QED BY <2>4, <2>5, <2>6
<1>14. Sought(iter[1 .. n], n)
  <2>1. 0 .. n \subseteq S
    <3> HIDE DEF S
    <3> QED BY <1>1, <1>12, <1>13, UpTo
  <2>2. n \in 0 .. n
    BY <1>1
  <2> QED BY <2>1, <2>2
<1> QED BY <1>1, <1>7, <1>14

(* locate() depends on the sectors that it reads and on no other.          *)
LEMMA LocateSame ==
  ASSUME NEW R, NEW S, \A lba \in Consulted(S) : R[lba] = S[lba]
  PROVE  Locate(R) = Locate(S)
<1> DEFINE start == VolumeStart(S)
           b == S[start]
           fat == S[b.fat_lba].next
           at == DirectorySectors(b, fat)
<1>1. VolumeStart(R) = start
  <2>1. R[0] = S[0]
    BY DEF Consulted
  <2> QED BY <2>1 DEF VolumeStart
<1>2. CASE start < 0
  BY <1>1, <1>2 DEF Locate
<1>3. CASE ~(start < 0) /\ b.kind # "bpb"
  <2>1. R[start] = b
    BY <1>3 DEF Consulted
  <2> QED BY <1>1, <1>3, <2>1 DEF Locate
<1>4. CASE ~(start < 0) /\ b.kind = "bpb"
  <2>1. /\ start \in Consulted(S) /\ b.fat_lba \in Consulted(S)
        /\ \A i \in DOMAIN at : at[i] \in Consulted(S)
    BY <1>4, Zenon DEF Consulted
  <2> HIDE DEF start
  <2>2. R[start] = b /\ R[b.fat_lba].next = fat /\ \A i \in DOMAIN at : R[at[i]] = S[at[i]]
    BY <2>1
  <2>3. Directory(R, b, fat) = Directory(S, b, fat)
    <3>1. [i \in DOMAIN at |-> R[at[i]].entries] = [i \in DOMAIN at |-> S[at[i]].entries]
      BY <2>2
    <3> QED BY <3>1 DEF Directory
  <2> HIDE DEF b, fat, at
  <2>4. S[start] = b /\ S[b.fat_lba].next = fat
    BY DEF b, fat
  <2> QED BY <1>1, <2>2, <2>3, <2>4 DEF Locate, start
<1> QED BY <1>2, <1>3, <1>4

(* The layout of a file that is found: at most MaxExtents runs, by which   *)
(* each block of the log has the sector of the file with its number.       *)
LEMMA Located ==
  ASSUME NEW v, IsPrepared(v), FatVolumeAssumption, Locate(v.sectors) # Refused
  PROVE  /\ Len(Locate(v.sectors).extents) \in 1 .. MaxExtents
         /\ \A block \in Nat :
              ToLba(Locate(v.sectors), block)
                = IF block < Len(v.file) THEN v.file[block + 1] ELSE -1
<1> DEFINE b == v.sectors[VolumeStart(v.sectors)]
           fat == v.sectors[b.fat_lba].next
           spc == b.sectors_per_cluster
           entries == Directory(v.sectors, b, fat)
           entry == entries[Decisive(entries)]
           n == Len(v.clusters)
           limit == (entry.file_blocks \div spc) + 2
           chain == Chain(fat, entry.first_cluster, limit, FileEnds)
           e == Extents(b, chain)
<1>1. Locate(v.sectors) = [extents |-> e] /\ ~(Len(e) > MaxExtents)
  <2> DEFINE Bad ==
        \/ VolumeStart(v.sectors) < 0 \/ b.kind # "bpb"
        \/ Decisive(entries) = 0 \/ entry.kind = "end"
        \/ entry.first_cluster < 2
        \/ Len([extents |-> e].extents) > MaxExtents
        \/ TotalBlocks([extents |-> e]) < MinBlocks
  <2>1. Locate(v.sectors) = IF Bad THEN Refused ELSE [extents |-> e]
    BY DEF Locate
  <2> HIDE DEF e, Bad
  <2>2. ~Bad /\ Locate(v.sectors) = [extents |-> e]
    BY <2>1
  <2>3. ~(Len([extents |-> e].extents) > MaxExtents)
    BY <2>2 DEF Bad
  <2> QED BY <2>2, <2>3
<1>2. HoldsFile(v)
  BY DEF IsPrepared
<1>3. /\ spc \in Nat \ {0} /\ b.data_lba \in Nat
      /\ v.clusters \in Seq(Nat) /\ n > 0 /\ Len(v.file) = n * spc
      /\ \A c \in 1 .. n, k \in 0 .. spc - 1 :
           v.file[(c - 1) * spc + k + 1] = ClusterLba(b, v.clusters[c]) + k
      /\ \A c \in 1 .. n :
           /\ v.clusters[c] # EndOfChain
           /\ fat[v.clusters[c]] = IF c = n THEN EndOfChain ELSE v.clusters[c + 1]
      /\ entry.first_cluster = v.clusters[1]
      /\ entry.file_blocks \in Nat /\ n <= (entry.file_blocks \div spc) + 3
  BY <1>2, Zenon DEF HoldsFile
<1>4. Linked(fat, v.clusters) /\ Placed(b, v.file, v.clusters)
  BY <1>3 DEF Linked, Placed
<1> HIDE DEF b, fat, spc, entries, entry, e, chain
<1>5. limit \in Nat /\ n <= limit + 1
  <2>1. \A x \in Nat, y \in Nat \ {0} : x \div y \in Nat
    OBVIOUS
  <2>2. entry.file_blocks \div spc \in Nat
    BY <1>3, <2>1
  <2> QED BY <1>3, <2>2
<1>6. chain = v.clusters
  <2> HIDE DEF limit
  <2>1. Chain(fat, v.clusters[1], limit, FileEnds) = v.clusters
    BY <1>3, <1>4, <1>5, ChainIs
  <2> QED BY <1>3, <2>1 DEF chain, limit
<1>7. Mapped(b, v.file, v.clusters, e, n)
  BY <1>3, <1>4, <1>6, ExtentsMapped DEF e
<1>8. PICK off : Covers(v.file, e, off, Len(v.file))
  BY <1>3, <1>7 DEF Mapped, spc
<1>9. Len(e) \in 1 .. MaxExtents
  <2>1. e \in Seq(Run) /\ Len(e) > 0
    BY <1>7 DEF Mapped
  <2> QED BY <1>1, <2>1 DEF FatVolumeAssumption
<1>10. \A k \in 1 .. Len(v.file) : v.file[k] \in Nat
  BY DEF IsPrepared
<1>11. ASSUME NEW block \in Nat
       PROVE  ToLba([extents |-> e], block)
                = IF block < Len(v.file) THEN v.file[block + 1] ELSE -1
  BY <1>8, <1>10, FoundAt
<1>12. [extents |-> e].extents = e
  OBVIOUS
<1> QED BY <1>1, <1>9, <1>11, <1>12

-----------------------------------------------------------------------------
(* What was written so far lies in the file.                               *)
IsMedium ==
  /\ name \in DOMAIN Volumes
  /\ DOMAIN media = DOMAIN volume.sectors
  /\ \A lba \in DOMAIN media : media[lba] # Prepared => InFile(volume, lba)

(* A product divided by its second factor.                                 *)
LEMMA Unscaled == \A x \in Nat, y \in Nat \ {0} : (x * y) \div y = x
  OBVIOUS

(* A driver that knows what the card addresses by reaches the sector it    *)
(* asks for.                                                               *)
LEMMA AddressedRight ==
  ASSUME SdCardAssumption, NEW by_blocks \in BOOLEAN, by_blocks = card.high, NEW lba \in Nat
  PROVE  SectorOf(by_blocks, lba) = lba
<1>1. BlockSize \in Nat \ {0}
  BY DEF SdCardAssumption
<1>2. (lba * BlockSize) \div BlockSize = lba
  BY <1>1, Unscaled
<1> QED BY <1>2 DEF SectorOf, Address

(* Such a driver locates the file where it was prepared.                   *)
LEMMA SeenRight ==
  ASSUME SdCardAssumption, IsMedium, NEW by_blocks \in BOOLEAN, by_blocks = card.high
  PROVE  Locate(Seen(by_blocks)) = Locate(volume.sectors)
<1>1. IsPrepared(volume)
  BY DEF SdCardAssumption, IsMedium, volume
<1>2. ASSUME NEW lba \in Consulted(volume.sectors)
      PROVE  Seen(by_blocks)[lba] = volume.sectors[lba]
  <2>1. lba \in DOMAIN volume.sectors /\ ~InFile(volume, lba) /\ lba \in Nat
    BY <1>1 DEF IsPrepared
  <2>2. lba \in DOMAIN media /\ media[lba] = Prepared
    BY <2>1 DEF IsMedium
  <2>3. SectorOf(by_blocks, lba) = lba
    BY <2>1, AddressedRight
  <2> QED BY <2>2, <2>3 DEF Seen
<1> QED BY <1>2, LocateSame

(* One that takes a card of blocks for a card of bytes finds no volume.    *)
LEMMA SeenWrong ==
  ASSUME SdCardAssumption, IsMedium, card.high
  PROVE  Locate(Seen(FALSE)) = Refused
<1>1. IsPrepared(volume)
  BY DEF SdCardAssumption, IsMedium, volume
<1>2. ASSUME NEW lba \in Consulted(Misread(volume))
      PROVE  Seen(FALSE)[lba] = Misread(volume)[lba]
  <2>1. lba \in DOMAIN media /\ ~InFile(volume, lba * BlockSize)
    BY <1>1 DEF IsPrepared, IsMedium
  <2>2. SectorOf(FALSE, lba) = lba * BlockSize
    BY DEF SectorOf, Address
  <2>3. lba * BlockSize \in DOMAIN media => media[lba * BlockSize] = Prepared
    BY <2>1 DEF IsMedium
  <2>4. DOMAIN media = DOMAIN volume.sectors
    BY DEF IsMedium
  <2> HIDE DEF volume
  <2> QED BY <2>1, <2>2, <2>3, <2>4 DEF Seen, Misread
<1>3. Locate(Seen(FALSE)) = Locate(Misread(volume))
  BY <1>2, LocateSame
<1> QED BY <1>1, <1>3 DEF IsPrepared

(* The driver's and the card's types.                                      *)
CardTyped ==
  /\ card \in [high : BOOLEAN, v2 : BOOLEAN]
  /\ stage \in {"not_started", "cmd0_idle", "acmd41_ready", "cmd16_blocklen", "complete"}
  /\ sdhc \in BOOLEAN /\ writes \in 0 .. MaxWrites

(* A layout is held only after an initialisation that was complete and     *)
(* told the card's addressing, and it is the prepared one.                 *)
CardLocated ==
  layout # Refused => stage = "complete" /\ layout = Locate(volume.sectors) /\ sdhc = card.high

(* The acknowledged blocks are where they belong.                          *)
CardKeeps ==
  /\ kept \subseteq 0 .. Len(volume.file) - 1
  /\ \A block \in kept : media[volume.file[block + 1]] = LogBlock(block)

(* The four together are inductive.                                        *)
CardInv == CardTyped /\ IsMedium /\ CardLocated /\ CardKeeps

(* At the first boot.                                                      *)
LEMMA CardInvInit ==
  ASSUME SdCardAssumption, FatVolumeAssumption, Init PROVE CardInv
<1>1. IsMedium
  BY DEF Init, IsMedium, volume
<1>2. MaxWrites \in Nat
  BY DEF SdCardAssumption
<1>3. CardTyped
  <2>1. card \in [high : BOOLEAN, v2 : BOOLEAN]
    BY DEF Init
  <2>2. stage = "not_started" /\ sdhc = FALSE /\ writes = 0
    BY DEF Init
  <2>3. writes \in 0 .. MaxWrites
    BY <1>2, <2>2
  <2>4. sdhc \in BOOLEAN
    BY <2>2
  <2> QED BY <2>1, <2>2, <2>3, <2>4, Zenon DEF CardTyped
<1>4. CardLocated /\ CardKeeps
  BY DEF Init, CardLocated, CardKeeps
<1> QED BY <1>1, <1>3, <1>4 DEF CardInv

(* An initialisation, wherever it stops.                                   *)
LEMMA CardInvInitialize ==
  ASSUME SdCardAssumption, FatVolumeAssumption, CardInv,
         NEW cmd0 \in BOOLEAN, NEW cmd8 \in BOOLEAN, NEW acmd41 \in BOOLEAN,
         NEW ocr_answered \in BOOLEAN, NEW cmd16 \in BOOLEAN,
         Initialize(cmd0, cmd8, acmd41, ocr_answered, cmd16)
  PROVE  CardInv'
<1>1. UNCHANGED <<name, card, media, kept, writes>>
  BY DEF Initialize
<1>2. IsMedium' /\ CardKeeps'
  BY <1>1 DEF CardInv, IsMedium, CardKeeps, volume
<1>3. card.high \in BOOLEAN /\ card.v2 \in BOOLEAN
  BY DEF CardInv, CardTyped
<1>4. /\ sdhc' \in BOOLEAN
      /\ stage' \in {"cmd0_idle", "acmd41_ready", "cmd16_blocklen", "complete"}
      /\ sdhc' => card.high
  BY <1>3 DEF Initialize, Begin, HighCapacity
<1>5. ASSUME layout' # Refused
      PROVE  stage' = "complete" /\ layout' = Locate(volume.sectors) /\ sdhc' = card.high
  <2>1. stage' = "complete" /\ layout' = Locate(Seen(sdhc'))
    BY <1>5 DEF Initialize
  <2>2. sdhc' = card.high
    <3>1. CASE ~sdhc' /\ card.high
      <4>1. sdhc' = FALSE
        BY <1>4, <3>1
      <4>2. Locate(Seen(FALSE)) = Refused
        BY <3>1, SeenWrong DEF CardInv
      <4> QED BY <1>5, <2>1, <4>1, <4>2
    <3> QED BY <1>3, <1>4, <3>1
  <2>3. Locate(Seen(sdhc')) = Locate(volume.sectors)
    <3> DEFINE by == sdhc'
    <3>1. by \in BOOLEAN /\ by = card.high
      BY <1>4, <2>2
    <3> HIDE DEF by
    <3>2. Locate(Seen(by)) = Locate(volume.sectors)
      BY <3>1, SeenRight DEF CardInv
    <3> QED BY <3>2 DEF by
  <2> QED BY <2>1, <2>2, <2>3
<1>6. volume' = volume
  BY <1>1 DEF volume
<1>7. CardLocated'
  BY <1>1, <1>5, <1>6 DEF CardLocated
<1>8. CardTyped'
  BY <1>1, <1>4 DEF CardInv, CardTyped
<1> QED BY <1>2, <1>7, <1>8 DEF CardInv

(* A power cycle.                                                          *)
LEMMA CardInvRestart ==
  ASSUME SdCardAssumption, CardInv, Restart PROVE CardInv'
<1>1. UNCHANGED <<name, card, media, kept, writes>>
  BY DEF Restart
<1>2. IsMedium' /\ CardKeeps'
  BY <1>1 DEF CardInv, IsMedium, CardKeeps, volume
<1>3. CardLocated' /\ CardTyped'
  BY DEF CardInv, Restart, CardLocated, CardTyped
<1> QED BY <1>2, <1>3 DEF CardInv

(* A write, wherever it stops.                                             *)
LEMMA CardInvWrite ==
  ASSUME SdCardAssumption, FatVolumeAssumption, CardInv,
         NEW block \in 0 .. Len(volume.file), NEW reached \in WriteStages,
         WriteBlock(block, reached)
  PROVE  CardInv'
<1> DEFINE file == volume.file
           lba == ToLba(layout, block)
           sector == SectorOf(sdhc, lba)
<1>1. /\ UNCHANGED <<name, card, stage, sdhc, layout>> /\ volume' = volume
      /\ layout # Refused /\ writes' = writes + 1 /\ writes < MaxWrites
  BY DEF WriteBlock, volume
<1>2. IsPrepared(volume)
  BY DEF SdCardAssumption, CardInv, IsMedium, volume
<1>3. /\ file \in Seq(DOMAIN media) /\ Len(file) \in Nat
      /\ DOMAIN media \subseteq Nat
      /\ \A i, j \in 1 .. Len(file) : file[i] = file[j] => i = j
  <2>1. /\ file \in Seq(DOMAIN volume.sectors) /\ DOMAIN volume.sectors \subseteq Nat
        /\ \A i, j \in DOMAIN file : file[i] = file[j] => i = j
    BY <1>2 DEF IsPrepared
  <2>2. DOMAIN media = DOMAIN volume.sectors
    BY DEF CardInv, IsMedium
  <2>3. DOMAIN file = 1 .. Len(file) /\ Len(file) \in Nat
    BY <2>1
  <2> QED BY <2>1, <2>2, <2>3
<1>4. sdhc = card.high /\ lba = IF block < Len(file) THEN file[block + 1] ELSE -1
  <2>1. layout = Locate(volume.sectors) /\ sdhc = card.high
    BY <1>1 DEF CardInv, CardLocated
  <2>2. block \in Nat
    BY <1>3
  <2> QED BY <1>1, <1>2, <2>1, <2>2, Located
<1>5. /\ kept \subseteq 0 .. Len(file) - 1
      /\ \A k \in kept : media[file[k + 1]] = LogBlock(k)
      /\ \A l \in DOMAIN media : media[l] # Prepared => InFile(volume, l)
  BY DEF CardInv, CardKeeps, IsMedium
<1>6. CardTyped' /\ CardLocated'
  <2>1. CardTyped'
    BY <1>1 DEF CardInv, CardTyped, SdCardAssumption
  <2> QED BY <1>1, <2>1 DEF CardInv, CardLocated
<1>7. CASE lba < 0
  <2>1. UNCHANGED <<media, kept>>
    BY <1>7 DEF WriteBlock
  <2> QED BY <1>1, <1>6, <2>1 DEF CardInv, IsMedium, CardKeeps
<1>8. CASE ~(lba < 0)
  <2>1. /\ block < Len(file) /\ block + 1 \in 1 .. Len(file)
        /\ lba = file[block + 1] /\ lba \in DOMAIN media
    <3>1. block < Len(file)
      BY <1>4, <1>8
    <3>2. block + 1 \in 1 .. Len(file)
      BY <1>3, <3>1
    <3> QED BY <1>3, <1>4, <3>1, <3>2
  <2>2. sector = lba
    <3>1. sdhc \in BOOLEAN /\ lba \in Nat
      BY <1>3, <2>1 DEF CardInv, CardTyped
    <3> QED BY <1>4, <3>1, AddressedRight
  <2>3. PICK left \in Leaves(reached, media[sector], LogBlock(block)) :
          media' = [media EXCEPT ![sector] = left]
    BY <1>8 DEF WriteBlock
  <2>4. kept' = IF Acknowledges(reached) THEN kept \cup {block} ELSE kept \ {block}
    BY <1>8 DEF WriteBlock
  <2>5. Acknowledges(reached) => left = LogBlock(block)
    BY <2>3 DEF Acknowledges, Leaves
  <2> HIDE DEF lba, sector, file
  <2>6. DOMAIN media' = DOMAIN media /\ media'[lba] = left
        /\ \A l \in DOMAIN media : l # lba => media'[l] = media[l]
    BY <2>1, <2>2, <2>3
  <2>7. IsMedium'
    <3>1. InFile(volume, lba)
      BY <1>3, <2>1 DEF InFile, file
    <3>2. \A l \in DOMAIN media : media'[l] # Prepared => InFile(volume, l)
      BY <1>5, <2>6, <3>1
    <3> QED BY <1>1, <2>6, <3>2 DEF CardInv, IsMedium
  <2>8. kept' \subseteq 0 .. Len(file) - 1
    <3>1. block \in 0 .. Len(file) - 1
      BY <1>3, <2>1
    <3> QED BY <1>5, <2>4, <3>1
  <2>9. ASSUME NEW k \in kept' PROVE media'[file[k + 1]] = LogBlock(k)
    <3>1. CASE k = block
      BY <2>1, <2>4, <2>5, <2>6, <2>9, <3>1
    <3>2. CASE k # block
      <4>1. k \in kept /\ k + 1 \in 1 .. Len(file) /\ k \in Int /\ block \in Int
        BY <1>3, <1>5, <2>4, <2>9, <3>2
      <4>2. file[k + 1] \in DOMAIN media /\ file[k + 1] # lba
        BY <1>3, <2>1, <3>2, <4>1
      <4> QED BY <1>5, <2>6, <4>1, <4>2
    <3> QED BY <3>1, <3>2
  <2>10. CardKeeps'
    BY <1>1, <2>8, <2>9 DEF CardKeeps, file
  <2> QED BY <1>6, <2>7, <2>10 DEF CardInv
<1> QED BY <1>7, <1>8

(* Every step keeps the invariant.                                         *)
LEMMA CardInvNext ==
  ASSUME SdCardAssumption, FatVolumeAssumption, CardInv, [Next]_vars PROVE CardInv'
<1>1. ASSUME NEW cmd0 \in BOOLEAN, NEW cmd8 \in BOOLEAN, NEW acmd41 \in BOOLEAN,
             NEW ocr_answered \in BOOLEAN, NEW cmd16 \in BOOLEAN,
             Initialize(cmd0, cmd8, acmd41, ocr_answered, cmd16)
      PROVE  CardInv'
  BY <1>1, CardInvInitialize
<1>2. CASE Restart
  BY <1>2, CardInvRestart
<1>3. ASSUME NEW block \in 0 .. Len(volume.file), NEW reached \in WriteStages,
             WriteBlock(block, reached)
      PROVE  CardInv'
  BY <1>3, CardInvWrite
<1>4. CASE UNCHANGED vars
  BY <1>4 DEF vars, CardInv, CardTyped, IsMedium, CardLocated, CardKeeps, volume
<1> QED BY <1>1, <1>2, <1>3, <1>4 DEF Next

(* What it implies.                                                        *)
LEMMA CardInvImplies ==
  ASSUME SdCardAssumption, FatVolumeAssumption, CardInv PROVE TypeOK /\ CardKept
<1>1. CardKept
  BY DEF CardInv, IsMedium, CardKeeps, InFile, CardKept
<1>2. layout # Refused => Len(layout.extents) \in 1 .. MaxExtents
  <2>1. IsPrepared(volume)
    BY DEF SdCardAssumption, CardInv, IsMedium, volume
  <2> QED BY <2>1, Located DEF CardInv, CardLocated
<1>3. TypeOK
  BY <1>2 DEF CardInv, CardTyped, IsMedium, CardLocated, CardKeeps, TypeOK
<1> QED BY <1>1, <1>3

(* The driver, the layout and the history keep their types: a layout is    *)
(* held only after a complete initialisation and never has more extents    *)
(* than there is room for (sd_logger.cpp, fat_volume.cpp).                 *)
THEOREM CardTypes == SdCardAssumption /\ FatVolumeAssumption /\ Spec => []TypeOK
<1>1. CASE SdCardAssumption /\ FatVolumeAssumption
  <2>1. Init => CardInv
    BY <1>1, CardInvInit
  <2>2. CardInv /\ [Next]_vars => CardInv'
    BY <1>1, CardInvNext
  <2>3. CardInv => TypeOK
    BY <1>1, CardInvImplies
  <2> QED BY <2>1, <2>2, <2>3, PTL DEF Spec
<1> QED BY <1>1

(* No sector outside the log file changes and an acknowledged block is in  *)
(* its own sector, for every prepared card, however its file is            *)
(* fragmented, however the commands of the card fail and however often it  *)
(* is restarted (fat_volume.cpp, sd_card.cpp, sd_logger.cpp).              *)
THEOREM CardKeepsItsLog == SdCardAssumption /\ FatVolumeAssumption /\ Spec => []CardKept
<1>1. CASE SdCardAssumption /\ FatVolumeAssumption
  <2>1. Init => CardInv
    BY <1>1, CardInvInit
  <2>2. CardInv /\ [Next]_vars => CardInv'
    BY <1>1, CardInvNext
  <2>3. CardInv => CardKept
    BY <1>1, CardInvImplies
  <2> QED BY <2>1, <2>2, <2>3, PTL DEF Spec
<1> QED BY <1>1

-----------------------------------------------------------------------------
(* The link.  What the decoder reads in a header is the length that the    *)
(* encoder wrote, digit by digit; the reader follows every frame that it   *)
(* is not in the payload of another one for; and what it takes without     *)
(* being in step is bounded.                                               *)
CONSTANTS Lengths, MaxPayload, MaxDigits
VARIABLES frame, sent, reader, clean, fair

Link == INSTANCE FrameLink

(* The decimal digits of a length.                                         *)
Digits == {Link!Digit(d) : d \in 0 .. 9}

(* A digit is told by its value.                                           *)
LEMMA DigitValue == \A x \in Digits : x[2] \in 0 .. 9 /\ x = Link!Digit(x[2])
  BY DEF Digits, Link!Digit

(* Number() reads a text from the left, a digit at a time.                 *)
LEMMA NumberRun ==
  ASSUME NEW text \in Seq(Digits)
  PROVE  \E run \in [0 .. Len(text) -> Nat] :
           /\ run[0] = 0
           /\ \A i \in 1 .. Len(text) : run[i] = 10 * run[i - 1] + text[i][2]
           /\ Link!Number(text) = run[Len(text)]
<1> DEFINE n == Len(text)
           G == [p \in Nat \X Digits |-> 10 * p[1] + p[2][2]]
           Runs(iter) ==
             iter = [s \in SUBSET DOMAIN text |->
                       IF s = {} THEN 0
                       ELSE 10 * iter[s \ {Largest(s)}] + text[Largest(s)][2]]
           iter == CHOOSE iter : Runs(iter)
<1>1. n \in Nat /\ DOMAIN text = 1 .. n /\ text \in [1 .. n -> Digits]
  OBVIOUS
<1>2. /\ G \in [Nat \X Digits -> Nat]
      /\ \A m \in Nat, x \in Digits : G[<<m, x>>] = 10 * m + x[2]
  <2>1. \A m \in Nat, x \in Digits : 10 * m + x[2] \in Nat
    BY DigitValue
  <2>2. \A p \in Nat \X Digits : p[1] \in Nat /\ p[2] \in Digits /\ 10 * p[1] + p[2][2] \in Nat
    BY <2>1
  <2>3. \A m \in Nat, x \in Digits : <<m, x>> \in Nat \X Digits
    OBVIOUS
  <2> QED BY <2>2, <2>3
<1> HIDE DEF G
<1>3. \E found : Runs(found)
  <2>1. PICK found : Folds(Nat, Digits, G, 0, n, text, found)
    <3> HIDE DEF n
    <3> QED BY <1>1, <1>2, FoldExists
  <2>2. ASSUME NEW s \in SUBSET (1 .. n), s # {}
        PROVE  G[<<found[s \ {Largest(s)}], text[Largest(s)]>>]
                 = 10 * found[s \ {Largest(s)}] + text[Largest(s)][2]
    <3>1. Largest(s) \in 1 .. n
      BY <1>1, <2>2, LargestIn
    <3>2. text[Largest(s)] \in Digits /\ found[s \ {Largest(s)}] \in Nat
      BY <1>1, <2>1, <3>1 DEF Folds
    <3> QED BY <1>2, <3>2
  <2> HIDE DEF n
  <2>3. Runs(found)
    BY <1>1, <2>1, <2>2 DEF Folds
  <2> QED BY <2>3
<1>4. Link!Number(text) = iter[DOMAIN text]
  BY DEF Link!Number, Link!FoldLeft, Link!MapThenFoldSet, Link!Max, Largest
<1>5. Runs(iter)
  <2> HIDE DEF Runs
  <2> QED BY <1>3
<1> HIDE DEF iter, n
<1>6. iter[{}] = 0
  BY <1>5
<1>7. ASSUME NEW i \in 1 .. n
      PROVE  iter[1 .. i] = 10 * iter[1 .. i - 1] + text[i][2] /\ text[i] \in Digits
  <2>1. Largest(1 .. i) = i /\ 1 .. i # {} /\ (1 .. i) \ {i} = 1 .. i - 1
    <3>1. i \in Nat \ {0}
      BY <1>1
    <3> QED BY <3>1, LargestUpTo
  <2>2. 1 .. i \in SUBSET DOMAIN text /\ text[i] \in Digits
    BY <1>1
  <2> QED BY <1>5, <2>1, <2>2
<1>8. \A i \in 0 .. n : iter[1 .. i] \in Nat
  <2>1. \A i \in 1 .. n : iter[1 .. i - 1] \in Nat => iter[1 .. i] \in Nat
    <3>1. \A m \in Nat, x \in Digits : 10 * m + x[2] \in Nat
      BY DigitValue
    <3> QED BY <1>7, <3>1
  <2>2. iter[{}] \in Nat
    BY <1>6
  <2> QED BY <1>1, <2>1, <2>2, FoldTyped
<1> DEFINE run == [i \in 0 .. n |-> iter[1 .. i]]
<1>9. run \in [0 .. n -> Nat] /\ run[0] = 0 /\ Link!Number(text) = run[n]
  BY <1>1, <1>4, <1>6, <1>8, 1 .. 0 = {}
<1>10. \A i \in 1 .. n : run[i] = 10 * run[i - 1] + text[i][2]
  BY <1>1, <1>7
<1> HIDE DEF run
<1> QED BY <1>9, <1>10 DEF n

(* A digit more. *)
LEMMA NumberLonger ==
  ASSUME NEW text \in Seq(Digits), NEW byte \in Digits
  PROVE  /\ Append(text, byte) \in Seq(Digits)
         /\ Link!Number(text) \in Nat
         /\ Link!Number(Append(text, byte)) = 10 * Link!Number(text) + byte[2]
<1> DEFINE longer == Append(text, byte)
           n == Len(text)
<1>1. /\ longer \in Seq(Digits) /\ n \in Nat /\ Len(longer) = n + 1
      /\ longer[n + 1] = byte /\ \A i \in 1 .. n : longer[i] = text[i]
  OBVIOUS
<1>2. PICK short \in [0 .. n -> Nat] :
        /\ short[0] = 0
        /\ \A i \in 1 .. n : short[i] = 10 * short[i - 1] + text[i][2]
        /\ Link!Number(text) = short[n]
  BY NumberRun
<1> HIDE DEF longer
<1>3. PICK long \in [0 .. Len(longer) -> Nat] :
        /\ long[0] = 0
        /\ \A i \in 1 .. Len(longer) : long[i] = 10 * long[i - 1] + longer[i][2]
        /\ Link!Number(longer) = long[Len(longer)]
  BY <1>1, NumberRun
<1> HIDE DEF n
<1>4. \A i \in 1 .. n : long[i - 1] = short[i - 1] => long[i] = short[i]
  <2> SUFFICES ASSUME NEW i \in 1 .. n, long[i - 1] = short[i - 1]
               PROVE  long[i] = short[i]
    OBVIOUS
  <2>1. i \in 1 .. Len(longer) /\ longer[i] = text[i]
    BY <1>1
  <2>2. long[i] = 10 * long[i - 1] + text[i][2]
    BY <1>3, <2>1
  <2> QED BY <1>2, <2>2
<1>5. long[n] = short[n]
  <2> DEFINE S == {i \in 0 .. n : long[i] = short[i]}
  <2>1. 0 \in S /\ \A i \in 1 .. n : i - 1 \in S => i \in S
    BY <1>1, <1>2, <1>3, <1>4
  <2>2. 0 .. n \subseteq S
    <3> HIDE DEF S
    <3> QED BY <1>1, <2>1, UpTo
  <2> QED BY <1>1, <2>2
<1>6. long[n + 1] = 10 * long[n] + byte[2]
  <2>1. n + 1 \in 1 .. Len(longer) /\ (n + 1) - 1 = n
    BY <1>1
  <2> QED BY <1>1, <1>3, <2>1
<1>7. Link!Number(text) \in Nat
  BY <1>1, <1>2
<1> QED BY <1>1, <1>2, <1>3, <1>5, <1>6, <1>7 DEF longer

(* No digit and one.                                                       *)
LEMMA NumberShort ==
  /\ Link!Number(<<>>) = 0
  /\ \A byte \in Digits : Link!Number(<<byte>>) = byte[2]
<1>1. Link!Number(<<>>) = 0
  <2>1. <<>> \in Seq(Digits) /\ Len(<<>>) = 0
    OBVIOUS
  <2> QED BY <2>1, NumberRun
<1>2. ASSUME NEW byte \in Digits PROVE Link!Number(<<byte>>) = byte[2]
  <2>1. <<>> \in Seq(Digits) /\ Append(<<>>, byte) = <<byte>>
    OBVIOUS
  <2>2. Link!Number(<<byte>>) = 10 * 0 + byte[2]
    BY <1>1, <2>1, NumberLonger
  <2> QED BY <2>2, DigitValue
<1> QED BY <1>1, <1>2

(* The tenth of a length of two digits or more, and its last digit.        *)
LEMMA TenthIsLess ==
  \A l \in Nat : l >= 10 => l \div 10 \in Nat /\ l \div 10 \in 0 .. l - 1
                            /\ l % 10 \in 0 .. 9 /\ l = 10 * (l \div 10) + (l % 10)
<1> SUFFICES ASSUME NEW l \in Nat, l >= 10
             PROVE  l \div 10 \in Nat /\ l \div 10 \in 0 .. l - 1
                    /\ l % 10 \in 0 .. 9 /\ l = 10 * (l \div 10) + (l % 10)
  OBVIOUS
<1>1. \A q, r \in Int : l = 10 * q + r /\ 0 <= r /\ r < 10 =>
                         q \in Nat /\ q \in 0 .. l - 1 /\ r \in 0 .. 9
  OBVIOUS
<1>2. l \div 10 \in Int /\ l % 10 \in Int
  OBVIOUS
<1>3. l = 10 * (l \div 10) + (l % 10)
  OBVIOUS
<1>4. 0 <= l % 10 /\ l % 10 < 10
  OBVIOUS
<1> QED BY <1>1, <1>2, <1>3, <1>4, Zenon

(* The recursion of LengthText is well founded: it holds for every length, *)
(* and what it writes is digits.                                           *)
LEMMA LengthTextIs ==
  ASSUME NEW l \in Nat
  PROVE  /\ Link!LengthText[l] \in Seq(Digits)
         /\ Link!LengthText[l] =
              IF l < 10 THEN <<Link!Digit(l)>>
              ELSE Append(Link!LengthText[l \div 10], Link!Digit(l % 10))
<1> DEFINE Step(f, k) == IF k < 10 THEN <<Link!Digit(k)>>
                         ELSE Append(f[k \div 10], Link!Digit(k % 10))
           Up(m, f) == /\ f \in [0 .. m -> Seq(Digits)]
                       /\ \A k \in 0 .. m : f[k] = Step(f, k)
<1>1. ASSUME NEW k \in Nat, NEW f, k >= 10 => f[k \div 10] \in Seq(Digits)
      PROVE  Step(f, k) \in Seq(Digits)
  <2>1. CASE k < 10
    <3>1. Link!Digit(k) \in Digits
      BY <2>1 DEF Digits
    <3> QED BY <2>1, <3>1
  <2>2. CASE ~(k < 10)
    <3>1. Link!Digit(k % 10) \in Digits
      BY <2>2, TenthIsLess DEF Digits
    <3> QED BY <1>1, <2>2, <3>1
  <2> QED BY <2>1, <2>2
<1>2. ASSUME NEW k \in Nat, NEW f, NEW g, k >= 10 => f[k \div 10] = g[k \div 10]
      PROVE  Step(f, k) = Step(g, k)
  BY <1>2
<1> HIDE DEF Step
<1>3. \A m \in Nat : \E f : Up(m, f)
  <2> DEFINE S == {m \in Nat : \E f : Up(m, f)}
  <2>1. 0 \in S
    <3> DEFINE f == [k \in 0 .. 0 |-> <<Link!Digit(0)>>]
    <3>1. f[0] = Step(f, 0) /\ f[0] \in Seq(Digits)
      BY <1>1 DEF Step
    <3>2. Up(0, f)
      BY <3>1
    <3> QED BY <3>2
  <2>2. ASSUME NEW m \in Nat, m \in S PROVE m + 1 \in S
    <3>1. PICK f : Up(m, f)
      BY <2>2
    <3> DEFINE g == [k \in 0 .. m + 1 |-> IF k <= m THEN f[k] ELSE Step(f, m + 1)]
    <3>2. \A k \in 0 .. m : g[k] = f[k] /\ f[k] \in Seq(Digits) /\ f[k] = Step(f, k)
      BY <3>1
    <3>3. g[m + 1] = Step(f, m + 1)
      OBVIOUS
    <3> HIDE DEF g
    <3>4. ASSUME NEW k \in 0 .. m + 1 PROVE Step(g, k) = Step(f, k)
      <4>1. k >= 10 => k \div 10 \in 0 .. m
        BY TenthIsLess
      <4> QED BY <1>2, <3>2, <4>1
    <3>5. Step(f, m + 1) \in Seq(Digits)
      <4>1. m + 1 >= 10 => (m + 1) \div 10 \in 0 .. m
        BY TenthIsLess
      <4> QED BY <1>1, <3>2, <4>1
    <3>6. \A k \in 0 .. m + 1 : g[k] = Step(g, k) /\ g[k] \in Seq(Digits)
      BY <3>2, <3>3, <3>4, <3>5
    <3>7. Up(m + 1, g)
      BY <3>6 DEF g
    <3> QED BY <3>7
  <2>3. Nat \subseteq S
    <3> HIDE DEF S
    <3> QED BY <2>1, <2>2, SetInduction
  <2> QED BY <2>3
<1> DEFINE F == [m \in Nat |-> CHOOSE f : Up(m, f)]
<1>4. \A m \in Nat : Up(m, F[m])
  <2> HIDE DEF Up
  <2> QED BY <1>3
<1> HIDE DEF F
<1>5. \A k \in Nat : \A m \in Nat : k <= m => F[m][k] = F[k][k]
  <2> DEFINE S == {k \in Nat : \A m \in Nat : k <= m => F[m][k] = F[k][k]}
  <2>1. ASSUME NEW k \in Nat, \A j \in 0 .. k - 1 : j \in S PROVE k \in S
    <3> SUFFICES ASSUME NEW m \in Nat, k <= m PROVE F[m][k] = F[k][k]
      OBVIOUS
    <3>1. F[m][k] = Step(F[m], k) /\ F[k][k] = Step(F[k], k)
      BY <1>4
    <3>2. k >= 10 => F[m][k \div 10] = F[k][k \div 10]
      <4> SUFFICES ASSUME k >= 10 PROVE F[m][k \div 10] = F[k][k \div 10]
        OBVIOUS
      <4>1. k \div 10 \in 0 .. k - 1 /\ k \div 10 \in Nat
        BY TenthIsLess
      <4>2. k \div 10 <= m /\ k \div 10 <= k /\ k \div 10 \in S
        BY <2>1, <4>1
      <4> QED BY <4>2
    <3> QED BY <1>2, <3>1, <3>2
  <2>2. Nat \subseteq S
    <3> HIDE DEF S
    <3> QED BY <2>1, StrongInduction
  <2> QED BY <2>2
<1> DEFINE g == [k \in Nat |-> F[k][k]]
<1>6. ASSUME NEW k \in Nat PROVE g[k] = Step(g, k)
  <2>1. F[k][k] = Step(F[k], k)
    BY <1>4
  <2>2. k >= 10 => F[k][k \div 10] = g[k \div 10]
    BY <1>5, TenthIsLess
  <2> QED BY <1>2, <2>1, <2>2
<1>7. g = [k \in Nat |-> Step(g, k)]
  <2> HIDE DEF g
  <2>1. g = [k \in Nat |-> g[k]]
    BY DEF g
  <2> QED BY <1>6, <2>1
<1> DEFINE Satisfies(f) == f = [k \in Nat |-> Step(f, k)]
<1>8. Satisfies(Link!LengthText)
  <2>1. Link!LengthText = CHOOSE f : Satisfies(f)
    BY DEF Link!LengthText, Step
  <2>2. \E f : Satisfies(f)
    <3> HIDE DEF g
    <3> QED BY <1>7
  <2> HIDE DEF Satisfies
  <2> QED BY <2>1, <2>2
<1>9. \A k \in Nat : Link!LengthText[k] = Step(Link!LengthText, k)
  BY <1>8
<1>10. \A k \in Nat : Link!LengthText[k] \in Seq(Digits)
  <2> DEFINE S == {k \in Nat : Link!LengthText[k] \in Seq(Digits)}
  <2>1. ASSUME NEW k \in Nat, \A j \in 0 .. k - 1 : j \in S PROVE k \in S
    <3>1. k >= 10 => Link!LengthText[k \div 10] \in Seq(Digits)
      BY <2>1, TenthIsLess
    <3>2. Step(Link!LengthText, k) \in Seq(Digits)
      BY <1>1, <3>1
    <3> QED BY <1>9, <3>2
  <2>2. Nat \subseteq S
    <3> HIDE DEF S
    <3> QED BY <2>1, StrongInduction
  <2> QED BY <2>2
<1> QED BY <1>9, <1>10 DEF Step

(* What the decoder reads is the length that was written. *)
LEMMA LengthRoundTrip == \A l \in Nat : Link!Number(Link!LengthText[l]) = l
<1> DEFINE S == {l \in Nat : Link!Number(Link!LengthText[l]) = l}
<1>1. ASSUME NEW l \in Nat, \A j \in 0 .. l - 1 : j \in S PROVE l \in S
  <2>1. CASE l < 10
    <3>1. Link!LengthText[l] = <<Link!Digit(l)>>
      BY <2>1, LengthTextIs
    <3>2. Link!Digit(l) \in Digits /\ Link!Digit(l)[2] = l
      BY <2>1 DEF Digits, Link!Digit
    <3> QED BY <3>1, <3>2, NumberShort
  <2>2. CASE ~(l < 10)
    <3>1. l \div 10 \in Nat /\ l \div 10 \in S /\ l % 10 \in 0 .. 9
          /\ l = 10 * (l \div 10) + (l % 10)
      BY <1>1, <2>2, TenthIsLess
    <3>2. Link!Digit(l % 10) \in Digits /\ Link!Digit(l % 10)[2] = l % 10
      BY <3>1 DEF Digits, Link!Digit
    <3>3. Link!LengthText[l] = Append(Link!LengthText[l \div 10], Link!Digit(l % 10))
          /\ Link!LengthText[l \div 10] \in Seq(Digits)
      BY <2>2, <3>1, LengthTextIs
    <3>4. Link!Number(Link!LengthText[l]) =
            10 * Link!Number(Link!LengthText[l \div 10]) + Link!Digit(l % 10)[2]
      BY <3>2, <3>3, NumberLonger
    <3> QED BY <3>1, <3>2, <3>4
  <2> QED BY <2>1, <2>2
<1>2. Nat \subseteq S
  <2> HIDE DEF S
  <2> QED BY <1>1, StrongInduction
<1> QED BY <1>2

(* What may be on the line.                                                *)
Bytes == Digits \cup {Link!Start, Link!Comma, Link!Newline, Link!Text}
         \cup {Link!Crc(length) : length \in Nat}

(* The constants of the link.                                              *)
LEMMA LinkAssumed ==
  ASSUME Link!FrameLinkAssumption
  PROVE  /\ MaxPayload \in Nat /\ MaxDigits \in Nat
         /\ \A length \in Lengths : /\ length \in Nat /\ length <= MaxPayload
                                    /\ Len(Link!LengthText[length]) <= MaxDigits
  BY DEF Link!FrameLinkAssumption

(* Where the parts of a frame are. *)
LEMMA FrameParts ==
  ASSUME NEW length \in Nat
  PROVE  LET text == Link!LengthText[length]
             f == Link!Encode(length)
             d == Len(text)
         IN /\ text \in Seq(Digits) /\ d \in Nat
            /\ f \in Seq(Bytes) /\ Len(f) = d + length + 5
            /\ f[1] = Link!Start
            /\ \A i \in 1 .. d : f[i + 1] = text[i]
            /\ f[d + 2] = Link!Comma /\ f[d + 3] = Link!Crc(length)
            /\ f[d + 4] = Link!Comma
            /\ \A i \in 1 .. length : f[d + 4 + i] = Link!Text
            /\ f[d + length + 5] = Link!Newline
<1> DEFINE text == Link!LengthText[length]
           d == Len(text)
           payload == [i \in 1 .. length |-> Link!Text]
           f == Link!Encode(length)
<1>1. text \in Seq(Digits) /\ d \in Nat
  <2>1. text \in Seq(Digits)
    BY LengthTextIs
  <2> QED BY <2>1
<1>2. f = <<Link!Start>> \o text \o <<Link!Comma, Link!Crc(length), Link!Comma>>
            \o payload \o <<Link!Newline>>
  BY DEF Link!Encode
<1>3. Digits \subseteq Bytes /\ Link!Start \in Bytes /\ Link!Comma \in Bytes
      /\ Link!Crc(length) \in Bytes /\ Link!Text \in Bytes /\ Link!Newline \in Bytes
  BY DEF Bytes
<1> HIDE DEF text, f
<1>4. /\ text \in Seq(Bytes)
      /\ <<Link!Start>> \in Seq(Bytes) /\ Len(<<Link!Start>>) = 1
      /\ <<Link!Start>>[1] = Link!Start
      /\ <<Link!Newline>> \in Seq(Bytes) /\ Len(<<Link!Newline>>) = 1
      /\ <<Link!Newline>>[1] = Link!Newline
      /\ payload \in Seq(Bytes) /\ Len(payload) = length
      /\ \A i \in 1 .. length : payload[i] = Link!Text
  BY <1>1, <1>3
<1> DEFINE header == <<Link!Comma, Link!Crc(length), Link!Comma>>
<1>5. /\ header \in Seq(Bytes) /\ Len(header) = 3
      /\ header[1] = Link!Comma /\ header[2] = Link!Crc(length)
      /\ header[3] = Link!Comma
  BY <1>3
<1> HIDE DEF header, payload
<1> DEFINE one == <<Link!Start>> \o text
           two == one \o header
           three == two \o payload
<1>6. /\ one \in Seq(Bytes) /\ Len(one) = 1 + d /\ one[1] = Link!Start
      /\ \A i \in 1 .. d : one[1 + i] = text[i]
  <2>1. 1 \in 1 .. 1
    OBVIOUS
  <2> QED BY <1>4, <2>1
<1> HIDE DEF one
<1>7. /\ two \in Seq(Bytes) /\ Len(two) = 1 + d + 3
      /\ \A i \in 1 .. 1 + d : two[i] = one[i]
      /\ \A i \in 1 .. 3 : two[1 + d + i] = header[i]
  <2>1. one \in Seq(Bytes) /\ header \in Seq(Bytes)
    BY <1>5, <1>6
  <2>2. /\ one \o header \in Seq(Bytes) /\ Len(one \o header) = Len(one) + Len(header)
        /\ \A i \in 1 .. Len(one) : (one \o header)[i] = one[i]
        /\ \A i \in 1 .. Len(header) : (one \o header)[Len(one) + i] = header[i]
    BY <2>1
  <2> QED BY <2>2, <1>5, <1>6
<1> HIDE DEF two
<1>8. /\ three \in Seq(Bytes) /\ Len(three) = 1 + d + 3 + length
      /\ \A i \in 1 .. 1 + d + 3 : three[i] = two[i]
      /\ \A i \in 1 .. length : three[1 + d + 3 + i] = payload[i]
  <2>1. two \in Seq(Bytes) /\ payload \in Seq(Bytes)
    BY <1>4, <1>7
  <2>2. /\ two \o payload \in Seq(Bytes) /\ Len(two \o payload) = Len(two) + Len(payload)
        /\ \A i \in 1 .. Len(two) : (two \o payload)[i] = two[i]
        /\ \A i \in 1 .. Len(payload) : (two \o payload)[Len(two) + i] = payload[i]
    BY <2>1
  <2> QED BY <2>2, <1>4, <1>7
<1> HIDE DEF three
<1>9. f = three \o <<Link!Newline>>
  BY <1>2 DEF three, two, one, header
<1>10. /\ f \in Seq(Bytes) /\ Len(f) = 1 + d + 3 + length + 1
       /\ \A i \in 1 .. 1 + d + 3 + length : f[i] = three[i]
       /\ f[1 + d + 3 + length + 1] = Link!Newline
  <2>1. three \in Seq(Bytes) /\ <<Link!Newline>> \in Seq(Bytes)
    BY <1>4, <1>8
  <2>2. /\ three \o <<Link!Newline>> \in Seq(Bytes)
        /\ Len(three \o <<Link!Newline>>) = Len(three) + Len(<<Link!Newline>>)
        /\ \A i \in 1 .. Len(three) : (three \o <<Link!Newline>>)[i] = three[i]
        /\ \A i \in 1 .. Len(<<Link!Newline>>) :
             (three \o <<Link!Newline>>)[Len(three) + i] = <<Link!Newline>>[i]
    BY <2>1
  <2>3. 1 \in 1 .. 1
    OBVIOUS
  <2> HIDE DEF d
  <2> QED BY <2>2, <2>3, <1>4, <1>8, <1>9
<1> HIDE DEF d
<1>11. \A i \in 1 .. 1 + d : f[i] = one[i]
  <2> TAKE i \in 1 .. 1 + d
  <2>1. i \in 1 .. 1 + d + 3 + length /\ i \in 1 .. 1 + d + 3
    BY <1>1
  <2> QED BY <1>7, <1>8, <1>10, <2>1
<1>12. f[1] = Link!Start /\ \A i \in 1 .. d : f[i + 1] = text[i]
  <2>1. 1 \in 1 .. 1 + d /\ \A i \in 1 .. d : 1 + i \in 1 .. 1 + d /\ 1 + i = i + 1
    BY <1>1
  <2> QED BY <1>6, <1>11, <2>1
<1>13. f[d + 2] = Link!Comma /\ f[d + 3] = Link!Crc(length) /\ f[d + 4] = Link!Comma
  <2>1. \A i \in 1 .. 3 : f[1 + d + i] = header[i]
    <3> TAKE i \in 1 .. 3
    <3>1. 1 + d + i \in 1 .. 1 + d + 3 + length /\ 1 + d + i \in 1 .. 1 + d + 3
      BY <1>1
    <3> QED BY <1>7, <1>8, <1>10, <3>1
  <2>2. 1 + d + 1 = d + 2 /\ 1 + d + 2 = d + 3 /\ 1 + d + 3 = d + 4
    BY <1>1
  <2> QED BY <1>5, <2>1, <2>2
<1>14. \A i \in 1 .. length : f[d + 4 + i] = Link!Text
  <2> TAKE i \in 1 .. length
  <2>1. 1 + d + 3 + i \in 1 .. 1 + d + 3 + length /\ 1 + d + 3 + i = d + 4 + i
    BY <1>1
  <2> QED BY <1>4, <1>8, <1>10, <2>1
<1>15. 1 + d + 3 + length + 1 = d + length + 5
  BY <1>1
<1> QED BY <1>1, <1>10, <1>12, <1>13, <1>14, <1>15 DEF f, text, d

(* The readers there are, apart from what feed() keeps of them.            *)
Readers ==
  [state : {"idle", "len", "crc", "payload"}, len_text : Seq(Digits),
   crc_text : Seq(Bytes), payload : [size : Nat, text : BOOLEAN]]

(* A reader as feed() leaves it. *)
Sane(r) ==
  /\ r \in Readers
  /\ Len(r.len_text) <= MaxDigits /\ Len(r.crc_text) <= Link!CrcLength
  /\ r.state = "idle" => r = Link!Idle
  /\ r.state = "len" => r.crc_text = <<>> /\ r.payload = Link!Idle.payload
  /\ r.state = "crc" => r.payload = Link!Idle.payload
  /\ r.state \in {"crc", "payload"} => Link!Number(r.len_text) <= MaxPayload
  /\ r.state = "payload" => r.payload.size < Link!Number(r.len_text)

(* What a reader has taken since it left idle, without the "$".            *)
Taken(r) ==
  CASE r.state = "idle" -> 0
    [] r.state = "len" -> Len(r.len_text)
    [] r.state = "crc" -> Len(r.len_text) + 1 + Len(r.crc_text)
    [] r.state = "payload" -> Len(r.len_text) + 1 + Len(r.crc_text) + 1 + r.payload.size

(* The reader at rest and after a "$".                                     *)
LEMMA IdleIsSane ==
  ASSUME Link!FrameLinkAssumption
  PROVE  /\ Sane(Link!Idle) /\ Sane(Link!InLength)
         /\ Link!InLength.state = "len" /\ Link!Idle.state = "idle"
         /\ Link!InLength = [state |-> "len", len_text |-> <<>>, crc_text |-> <<>>,
                             payload |-> Link!Idle.payload]
<1>1. Link!Idle \in Readers /\ Link!InLength \in Readers
  <2>1. <<>> \in Seq(Digits) /\ <<>> \in Seq(Bytes) /\ 0 \in Nat
    OBVIOUS
  <2> QED BY <2>1 DEF Link!Idle, Link!InLength, Readers
<1>2. Len(<<>>) = 0 /\ MaxDigits \in Nat
  BY LinkAssumed
<1>3. Link!InLength = [state |-> "len", len_text |-> <<>>, crc_text |-> <<>>,
                       payload |-> Link!Idle.payload]
  <2>1. Link!InLength = [Link!Idle EXCEPT !.state = "len"]
    BY DEF Link!InLength
  <2>2. Link!Idle = [state |-> "idle", len_text |-> <<>>, crc_text |-> <<>>,
                     payload |-> Link!Idle.payload]
    BY DEF Link!Idle
  <2> QED BY <2>1, <2>2
<1>4. Link!Idle.state = "idle" /\ Link!Idle.len_text = <<>> /\ Link!Idle.crc_text = <<>>
  BY DEF Link!Idle
<1> HIDE DEF Link!Idle, Link!InLength
<1>5. Sane(Link!Idle)
  BY <1>1, <1>2, <1>4 DEF Sane, Link!CrcLength
<1>6. Sane(Link!InLength)
  BY <1>1, <1>2, <1>3 DEF Sane, Link!CrcLength
<1> QED BY <1>3, <1>4, <1>5, <1>6

(* What a header says is a number.                                         *)
LEMMA NumberOfText == \A text \in Seq(Digits) : Link!Number(text) \in Nat
  BY NumberRun

(* No byte is two of those that feed() tells apart.                        *)
LEMMA BytesApart ==
  ASSUME NEW byte \in Bytes
  PROVE  /\ Link!IsDigit(byte) => byte \in Digits
         /\ Link!IsDigit(byte) \/ Link!IsHex(byte) => byte # Link!Start /\ byte # Link!Comma
         /\ Link!Start # Link!Comma /\ Link!Text # Link!Start
         /\ Link!Newline # Link!Start
<1>1. /\ Link!Start[1] = "$" /\ Link!Comma[1] = "," /\ Link!Newline[1] = "newline"
      /\ Link!Text[1] = "text"
  BY DEF Link!Start, Link!Comma, Link!Newline, Link!Text
<1>2. CASE byte \in Digits
  <2>1. byte[1] = "digit"
    BY <1>2 DEF Digits, Link!Digit
  <2> QED BY <1>1, <1>2, <2>1
<1>3. CASE byte \in {Link!Start, Link!Comma, Link!Newline, Link!Text}
  <2>1. byte[1] \in {"$", ",", "newline", "text"}
    BY <1>1, <1>3
  <2> QED BY <1>1, <2>1 DEF Link!IsDigit, Link!IsHex
<1>4. CASE byte \in {Link!Crc(length) : length \in Nat}
  <2>1. byte[1] = "crc"
    BY <1>4 DEF Link!Crc
  <2> QED BY <1>1, <2>1 DEF Link!IsDigit
<1> QED BY <1>2, <1>3, <1>4 DEF Bytes

(* One byte more: the reader stays sane; it is idle, or it begins a        *)
(* header, or it has taken the byte.                                       *)
LEMMA FeedMoves ==
  ASSUME Link!FrameLinkAssumption,
         NEW r, Sane(r), NEW byte \in Bytes, NEW q, q = Link!Feed(r, byte).reader
  PROVE  /\ Sane(q)
         /\ \/ q = Link!Idle
            \/ q = Link!InLength /\ byte = Link!Start
            \/ r.state # "idle" /\ q.state # "idle" /\ Taken(q) = Taken(r) + 1
<1> DEFINE Goal == /\ Sane(q)
                   /\ \/ q = Link!Idle
                      \/ q = Link!InLength /\ byte = Link!Start
                      \/ r.state # "idle" /\ q.state # "idle" /\ Taken(q) = Taken(r) + 1
<1> SUFFICES Goal
  OBVIOUS
<1>1. q = Link!Idle => Goal
  BY IdleIsSane
<1>2. q = Link!InLength /\ byte = Link!Start => Goal
  BY IdleIsSane
<1> DEFINE lt == r.len_text
           ct == r.crc_text
<1>3. /\ r = [state |-> r.state, len_text |-> lt, crc_text |-> ct, payload |-> r.payload]
      /\ lt \in Seq(Digits) /\ ct \in Seq(Bytes) /\ Len(lt) \in Nat /\ Len(ct) \in Nat
      /\ Len(lt) <= MaxDigits /\ Len(ct) <= 1 /\ MaxDigits \in Nat /\ MaxPayload \in Nat
      /\ r.payload.size \in Nat /\ r.payload.text \in BOOLEAN
      /\ r.payload = [size |-> r.payload.size, text |-> r.payload.text]
      /\ Link!Number(lt) \in Nat
  BY LinkAssumed, NumberOfText DEF Sane, Readers, Link!CrcLength
<1> HIDE DEF Goal
<1>4. CASE r.state = "idle"
  <2>1. q = IF byte = Link!Start THEN Link!InLength ELSE Link!Idle
    BY <1>4 DEF Link!Feed, Link!FeedIdle, Link!To
  <2> QED BY <1>1, <1>2, <2>1
<1>5. CASE r.state = "len"
  <2>1. q = Link!FeedLength(r, byte).reader
    BY <1>5 DEF Link!Feed
  <2>2. CASE Link!IsDigit(byte)
    <3>1. q = IF Len(lt) < MaxDigits
              THEN [r EXCEPT !.len_text = Append(lt, byte)] ELSE Link!Idle
      <4>1. byte # Link!Start /\ byte # Link!Comma
        BY <2>2, BytesApart
      <4>2. Link!FeedLength(r, byte) =
              Link!To(IF Len(lt) < MaxDigits
                      THEN [r EXCEPT !.len_text = Append(lt, byte)] ELSE Link!Idle)
        BY <2>2, <4>1 DEF Link!FeedLength
      <4> QED BY <2>1, <4>2 DEF Link!To
    <3>2. CASE Len(lt) < MaxDigits
      <4> DEFINE longer == Append(lt, byte)
      <4>1. byte \in Digits
        BY <2>2, BytesApart
      <4>2. longer \in Seq(Digits) /\ Len(longer) = Len(lt) + 1
        BY <1>3, <4>1
      <4>3. q = [state |-> "len", len_text |-> longer, crc_text |-> ct,
                 payload |-> r.payload]
        BY <1>3, <1>5, <3>1, <3>2
      <4> HIDE DEF longer
      <4>4. Sane(q)
        BY <1>3, <1>5, <3>2, <4>2, <4>3 DEF Sane, Readers, Link!CrcLength
      <4>5. Taken(q) = Taken(r) + 1
        BY <1>5, <4>2, <4>3 DEF Taken
      <4> QED BY <1>5, <4>3, <4>4, <4>5 DEF Goal
    <3> QED BY <1>1, <3>1, <3>2
  <2>3. CASE byte = Link!Comma /\ lt # <<>>
    <3>1. ~Link!IsDigit(byte)
      BY <2>3, BytesApart
    <3>2. q = IF Link!Number(lt) > MaxPayload THEN Link!Idle ELSE [r EXCEPT !.state = "crc"]
      <4>1. byte # Link!Start
        BY <2>3, BytesApart
      <4>2. Link!FeedLength(r, byte) =
              Link!To(IF Link!Number(lt) > MaxPayload THEN Link!Idle
                      ELSE [r EXCEPT !.state = "crc"])
        BY <2>3, <3>1, <4>1 DEF Link!FeedLength
      <4> QED BY <2>1, <4>2 DEF Link!To
    <3>3. CASE ~(Link!Number(lt) > MaxPayload)
      <4>1. q = [state |-> "crc", len_text |-> lt, crc_text |-> ct, payload |-> r.payload]
        BY <1>3, <3>2, <3>3
      <4>2. ct = <<>> /\ Len(ct) = 0 /\ r.payload = Link!Idle.payload
        BY <1>5 DEF Sane
      <4>3. Sane(q)
        BY <1>3, <3>3, <4>1, <4>2 DEF Sane, Readers, Link!CrcLength
      <4>4. Taken(q) = Taken(r) + 1
        BY <1>3, <1>5, <4>1, <4>2 DEF Taken
      <4> QED BY <1>5, <4>1, <4>3, <4>4 DEF Goal
    <3> QED BY <1>1, <3>2, <3>3
  <2>4. CASE ~Link!IsDigit(byte) /\ ~(byte = Link!Comma /\ lt # <<>>)
    <3>1. q = IF byte = Link!Start THEN Link!InLength ELSE Link!Idle
      BY <2>1, <2>4, BytesApart DEF Link!FeedLength, Link!To
    <3> QED BY <1>1, <1>2, <3>1
  <2> QED BY <2>2, <2>3, <2>4
<1>6. CASE r.state = "crc"
  <2>1. q = Link!FeedCrc(r, byte).reader
    BY <1>6 DEF Link!Feed
  <2>2. CASE Link!IsHex(byte)
    <3>1. q = IF Len(ct) < 1 THEN [r EXCEPT !.crc_text = Append(ct, byte)] ELSE Link!Idle
      <4>1. byte # Link!Start /\ byte # Link!Comma
        BY <2>2, BytesApart
      <4>2. Link!FeedCrc(r, byte) =
              Link!To(IF Len(ct) < 1 THEN [r EXCEPT !.crc_text = Append(ct, byte)]
                      ELSE Link!Idle)
        BY <2>2, <4>1 DEF Link!FeedCrc, Link!CrcLength
      <4> QED BY <2>1, <4>2 DEF Link!To
    <3>2. CASE Len(ct) < 1
      <4> DEFINE longer == Append(ct, byte)
      <4>1. longer \in Seq(Bytes) /\ Len(longer) = Len(ct) + 1
        BY <1>3
      <4>2. q = [state |-> "crc", len_text |-> lt, crc_text |-> longer,
                 payload |-> r.payload]
        BY <1>3, <1>6, <3>1, <3>2
      <4> HIDE DEF longer
      <4>3. Sane(q)
        BY <1>3, <1>6, <3>2, <4>1, <4>2 DEF Sane, Readers, Link!CrcLength
      <4>4. Taken(q) = Taken(r) + 1
        BY <1>3, <1>6, <4>1, <4>2 DEF Taken
      <4> QED BY <1>6, <4>2, <4>3, <4>4 DEF Goal
    <3> QED BY <1>1, <3>1, <3>2
  <2>3. CASE byte = Link!Start
    <3>1. q = Link!InLength
      BY <2>1, <2>3, BytesApart DEF Link!FeedCrc, Link!To
    <3> QED BY <1>2, <2>3, <3>1
  <2>4. CASE byte = Link!Comma /\ Len(ct) = 1
    <3>1. ~Link!IsHex(byte) /\ byte # Link!Start
      BY <2>4, BytesApart
    <3>2. q = IF Link!Number(lt) = 0 THEN Link!Idle ELSE [r EXCEPT !.state = "payload"]
      BY <2>1, <2>4, <3>1 DEF Link!FeedCrc, Link!To, Link!Finish, Link!CrcLength
    <3>3. CASE Link!Number(lt) # 0
      <4>1. q = [state |-> "payload", len_text |-> lt, crc_text |-> ct,
                 payload |-> r.payload]
        BY <1>3, <3>2, <3>3
      <4>2. r.payload.size = 0 /\ Link!Number(lt) <= MaxPayload
        BY <1>6 DEF Sane, Link!Idle
      <4>3. Sane(q)
        BY <1>3, <3>3, <4>1, <4>2 DEF Sane, Readers, Link!CrcLength
      <4>4. Taken(q) = Taken(r) + 1
        BY <1>3, <1>6, <4>1, <4>2 DEF Taken
      <4> QED BY <1>6, <4>1, <4>3, <4>4 DEF Goal
    <3> QED BY <1>1, <3>2, <3>3
  <2>5. CASE ~Link!IsHex(byte) /\ byte # Link!Start /\ ~(byte = Link!Comma /\ Len(ct) = 1)
    <3>1. q = Link!Idle
      BY <2>1, <2>5 DEF Link!FeedCrc, Link!To, Link!CrcLength
    <3> QED BY <1>1, <3>1
  <2> QED BY <2>2, <2>3, <2>4, <2>5
<1>7. CASE r.state = "payload"
  <2> DEFINE text == (r.payload.text /\ byte = Link!Text)
             size == r.payload.size + 1
             longer == [r EXCEPT !.payload = [size |-> size, text |-> text]]
  <2>1. q = Link!FeedPayload(r, byte).reader
    BY <1>7 DEF Link!Feed
  <2>2. q = IF longer.payload.size < Link!Number(lt) THEN longer ELSE Link!Idle
    BY <2>1 DEF Link!FeedPayload, Link!To, Link!Finish
  <2>3. size \in Nat /\ text \in BOOLEAN
    BY <1>3
  <2>4. longer = [state |-> "payload", len_text |-> lt, crc_text |-> ct,
                  payload |-> [size |-> size, text |-> text]]
    BY <1>3, <1>7
  <2> HIDE DEF text, longer
  <2>5. CASE size < Link!Number(lt)
    <3>1. q = [state |-> "payload", len_text |-> lt, crc_text |-> ct,
               payload |-> [size |-> size, text |-> text]]
      BY <2>2, <2>4, <2>5
    <3>2. Link!Number(lt) <= MaxPayload
      BY <1>7 DEF Sane
    <3>3. Sane(q)
      <4> HIDE DEF size
      <4> QED BY <1>3, <2>3, <2>5, <3>1, <3>2 DEF Sane, Readers, Link!CrcLength
    <3>4. Taken(q) = Taken(r) + 1
      BY <1>3, <1>7, <3>1 DEF Taken
    <3> QED BY <1>7, <3>1, <3>3, <3>4 DEF Goal
  <2>6. CASE ~(size < Link!Number(lt))
    <3>1. q = Link!Idle
      BY <2>2, <2>4, <2>6
    <3> QED BY <1>1, <3>1
  <2> QED BY <2>5, <2>6
<1>8. r.state \in {"idle", "len", "crc", "payload"}
  BY DEF Sane, Readers
<1> QED BY <1>4, <1>5, <1>6, <1>7, <1>8

(* A reader whose payload is text so far.                                  *)
At(state, len_text, crc_text, size) ==
  [state |-> state, len_text |-> len_text, crc_text |-> crc_text,
   payload |-> [size |-> size, text |-> TRUE]]

(* Its fields.                                                             *)
LEMMA AtParts ==
  \A state, lt, ct, k :
    /\ At(state, lt, ct, k).state = state /\ At(state, lt, ct, k).len_text = lt
    /\ At(state, lt, ct, k).crc_text = ct
    /\ At(state, lt, ct, k).payload = [size |-> k, text |-> TRUE]
  BY DEF At

(* The reader after n bytes of the frame, none lost, when it was not in a  *)
(* payload before them.                                                    *)
InStep(length, n, r) ==
  LET text == Link!LengthText[length]
      d == Len(text)
  IN \/ n = 0 /\ r.state # "payload"
     \/ n \in 1 .. d + 1 /\ r = At("len", SubSeq(text, 1, n - 1), <<>>, 0)
     \/ n = d + 2 /\ r = At("crc", text, <<>>, 0)
     \/ n = d + 3 /\ r = At("crc", text, <<Link!Crc(length)>>, 0)
     \/ n \in d + 4 .. d + 3 + length
        /\ r = At("payload", text, <<Link!Crc(length)>>, n - (d + 4))
     \/ n = d + 4 + length /\ r = Link!Idle

(* Every length has a digit.                                               *)
LEMMA LengthTextLong == \A l \in Nat : Len(Link!LengthText[l]) >= 1
<1> SUFFICES ASSUME NEW l \in Nat PROVE Len(Link!LengthText[l]) >= 1
  OBVIOUS
<1>1. CASE l < 10
  <2>1. Link!LengthText[l] = <<Link!Digit(l)>>
    BY <1>1, LengthTextIs
  <2> QED BY <2>1
<1>2. CASE ~(l < 10)
  <2>1. l \div 10 \in Nat
    BY <1>2, TenthIsLess
  <2>2. Link!LengthText[l \div 10] \in Seq(Digits)
    BY <2>1, LengthTextIs
  <2>3. Link!LengthText[l] = Append(Link!LengthText[l \div 10], Link!Digit(l % 10))
    BY <1>2, LengthTextIs
  <2> DEFINE front == Link!LengthText[l \div 10]
  <2> HIDE DEF front
  <2>4. \A x : Len(Append(front, x)) >= 1
    BY <2>2 DEF front
  <2> QED BY <2>3, <2>4 DEF front
<1> QED BY <1>1, <1>2

(* Outside a payload a "$" begins a header, whatever was read.             *)
LEMMA StartRestarts ==
  ASSUME NEW r, Sane(r), r.state # "payload"
  PROVE  Link!Feed(r, Link!Start).reader = Link!InLength
<1>1. Link!Start \in Bytes
  BY DEF Bytes
<1>2. ~Link!IsDigit(Link!Start) /\ ~Link!IsHex(Link!Start) /\ Link!Start # Link!Comma
  BY <1>1, BytesApart
<1>3. r.state \in {"idle", "len", "crc"}
  BY DEF Sane, Readers
<1>4. CASE r.state = "idle"
  BY <1>4 DEF Link!Feed, Link!FeedIdle, Link!To
<1>5. CASE r.state = "len"
  <2>1. Link!FeedLength(r, Link!Start) = Link!To(Link!InLength)
    BY <1>2 DEF Link!FeedLength
  <2> QED BY <1>5, <2>1 DEF Link!Feed, Link!To
<1>6. CASE r.state = "crc"
  <2>1. Link!FeedCrc(r, Link!Start) = Link!To(Link!InLength)
    BY <1>2 DEF Link!FeedCrc
  <2> QED BY <1>6, <2>1 DEF Link!Feed, Link!To
<1> QED BY <1>3, <1>4, <1>5, <1>6

(* A reader in step with the frame stays in step with it, delivers its     *)
(* payload at the last byte of it, and is not in a payload when it ends.   *)
LEMMA InStepFeeds ==
  ASSUME Link!FrameLinkAssumption,
         NEW length \in Lengths, NEW r, Sane(r),
         NEW n \in 0 .. Len(Link!Encode(length)) - 1, InStep(length, n, r),
         NEW out, out = Link!Feed(r, Link!Encode(length)[n + 1])
  PROVE  /\ n + 1 < Len(Link!Encode(length)) => InStep(length, n + 1, out.reader)
         /\ n + 1 = Len(Link!Encode(length)) => out.reader.state # "payload"
         /\ n = Len(Link!Encode(length)) - 2 => out.delivers = length
<1> DEFINE text == Link!LengthText[length]
           d == Len(text)
           f == Link!Encode(length)
           crc == <<Link!Crc(length)>>
<1>1. /\ length \in Nat /\ length <= MaxPayload /\ d <= MaxDigits
      /\ MaxPayload \in Nat /\ MaxDigits \in Nat
  BY LinkAssumed
<1>2. /\ text \in Seq(Digits) /\ d \in Nat /\ d >= 1
      /\ Len(f) = d + length + 5
      /\ f[1] = Link!Start
      /\ \A i \in 1 .. d : f[i + 1] = text[i] /\ text[i] \in Digits
      /\ f[d + 2] = Link!Comma /\ f[d + 3] = Link!Crc(length)
      /\ f[d + 4] = Link!Comma
      /\ \A i \in 1 .. length : f[d + 4 + i] = Link!Text
      /\ f[d + length + 5] = Link!Newline
  <2>1. text \in Seq(Digits) => \A i \in 1 .. d : text[i] \in Digits
    OBVIOUS
  <2> QED BY <1>1, <2>1, FrameParts, LengthTextLong
<1>3. Link!Number(text) = length
  BY <1>1, LengthRoundTrip
<1>4. Link!Comma \in Bytes /\ Link!Crc(length) \in Bytes /\ Link!Text \in Bytes
      /\ Link!Newline \in Bytes
  BY <1>1 DEF Bytes
<1> HIDE DEF text, f
<1>5. out = Link!Feed(r, f[n + 1]) /\ n \in Nat /\ n <= d + length + 4
  <2>1. out = Link!Feed(r, f[n + 1]) /\ n \in 0 .. Len(f) - 1
    BY DEF f
  <2> HIDE DEF d
  <2> QED BY <1>1, <1>2, <2>1
<1> DEFINE Goal == /\ n < d + length + 4 => InStep(length, n + 1, out.reader)
                   /\ n = d + length + 4 => out.reader.state # "payload"
                   /\ n = d + length + 3 => out.delivers = length
<1> SUFFICES Goal
  <2> HIDE DEF d, Goal
  <2>1. /\ n + 1 < Len(f) => n < d + length + 4
        /\ n + 1 = Len(f) => n = d + length + 4
        /\ n = Len(f) - 2 => n = d + length + 3
    <3>1. \A dd, nn, l, len \in Nat : len = dd + l + 5 =>
            /\ nn + 1 < len => nn < dd + l + 4
            /\ nn + 1 = len => nn = dd + l + 4
            /\ nn = len - 2 => nn = dd + l + 3
      OBVIOUS
    <3>2. Len(f) \in Nat
      BY <1>1, <1>2
    <3> QED BY <1>1, <1>2, <1>5, <3>1, <3>2
  <2> QED BY <2>1 DEF f, Goal
<1>6. Link!InLength = At("len", <<>>, <<>>, 0)
  BY IdleIsSane DEF At, Link!Idle
<1>7. CASE n = 0 /\ r.state # "payload"
  <2>1. out.reader = Link!InLength
    BY <1>2, <1>5, <1>7, StartRestarts
  <2>2. SubSeq(text, 1, 0) = <<>>
    BY <1>2
  <2>3. InStep(length, 1, out.reader)
    <3>1. 1 \in 1 .. d + 1 /\ 1 - 1 = 0
      BY <1>2
    <3>2. out.reader = At("len", SubSeq(text, 1, 1 - 1), <<>>, 0)
      BY <1>6, <2>1, <2>2, <3>1
    <3> QED BY <3>1, <3>2 DEF InStep, text
  <2> QED BY <1>1, <1>2, <1>7, <2>3
<1>8. CASE n \in 1 .. d + 1 /\ r = At("len", SubSeq(text, 1, n - 1), <<>>, 0)
  <2> DEFINE lt == SubSeq(text, 1, n - 1)
  <2>1. lt \in Seq(Digits) /\ Len(lt) = n - 1
    BY <1>2, <1>8
  <2>0. r = At("len", lt, <<>>, 0)
    BY <1>8
  <2>01. n = d + 1 => lt = text
    BY <1>2
  <2>02. n <= d => Append(lt, text[n]) = SubSeq(text, 1, n)
    BY <1>2, <1>8
  <2> HIDE DEF lt
  <2>2. r.state = "len" /\ r.len_text = lt
    BY <2>0, AtParts
  <2>3. out = Link!FeedLength(r, f[n + 1])
    BY <1>5, <2>2 DEF Link!Feed
  <2>4. CASE n <= d
    <3>1. f[n + 1] = text[n] /\ text[n] \in Digits /\ text[n] \in Bytes
      BY <1>2, <1>8, <2>4 DEF Bytes
    <3>2. Link!IsDigit(text[n])
      BY <3>1 DEF Digits, Link!Digit, Link!IsDigit
    <3>3. text[n] # Link!Start /\ text[n] # Link!Comma
      BY <3>1, <3>2, BytesApart
    <3>4. Len(lt) < MaxDigits
      BY <1>1, <1>2, <1>8, <2>1, <2>4
    <3>5. Link!FeedLength(r, text[n]) = Link!To([r EXCEPT !.len_text = Append(lt, text[n])])
      BY <2>2, <3>2, <3>3, <3>4 DEF Link!FeedLength
    <3>6. Append(lt, text[n]) = SubSeq(text, 1, n)
      BY <2>02, <2>4
    <3>7. out.reader = At("len", SubSeq(text, 1, n), <<>>, 0)
      <4>1. out.reader = [r EXCEPT !.len_text = SubSeq(text, 1, n)]
        BY <2>3, <3>1, <3>5, <3>6 DEF Link!To
      <4> QED BY <2>0, <4>1 DEF At
    <3>8. (n + 1) - 1 = n /\ n + 1 \in 1 .. d + 1
      BY <1>5, <1>8, <1>2, <2>4
    <3>9. InStep(length, n + 1, out.reader)
      BY <3>7, <3>8 DEF InStep, text
    <3> QED BY <1>1, <1>2, <1>5, <2>4, <3>9
  <2>5. CASE n = d + 1
    <3>1. f[n + 1] = Link!Comma /\ n + 1 = d + 2
      BY <1>2, <2>5
    <3>2. lt = text
      BY <2>01, <2>5
    <3>3. text # <<>> /\ ~Link!IsDigit(Link!Comma)
      BY <1>2, <1>4, BytesApart
    <3>4. Link!FeedLength(r, Link!Comma) = Link!To([r EXCEPT !.state = "crc"])
      <4>1. Link!Comma # Link!Start
        BY <1>4, BytesApart
      <4>2. ~(Link!Number(r.len_text) > MaxPayload) /\ r.len_text # <<>>
        BY <1>1, <1>3, <2>2, <3>2, <3>3
      <4> QED BY <3>3, <4>1, <4>2 DEF Link!FeedLength
    <3>5. out.reader = At("crc", text, <<>>, 0)
      <4>1. out.reader = [r EXCEPT !.state = "crc"]
        BY <2>3, <3>1, <3>4 DEF Link!To
      <4> QED BY <2>0, <3>2, <4>1 DEF At
    <3>6. InStep(length, n + 1, out.reader)
      BY <3>1, <3>5 DEF InStep, text
    <3> QED BY <1>1, <1>2, <2>5, <3>6
  <2> QED BY <1>2, <1>8, <2>4, <2>5
<1>9. CASE n = d + 2 /\ r = At("crc", text, <<>>, 0)
  <2>1. f[n + 1] = Link!Crc(length) /\ n + 1 = d + 3
    BY <1>2, <1>9
  <2>2. r.state = "crc" /\ r.crc_text = <<>>
    BY <1>9, AtParts
  <2>3. Link!IsHex(Link!Crc(length))
    BY DEF Link!IsHex, Link!Crc
  <2>4. Link!Crc(length) # Link!Start /\ Link!Crc(length) # Link!Comma
    BY <1>4, <2>3, BytesApart
  <2>5. Link!FeedCrc(r, Link!Crc(length)) =
          Link!To([r EXCEPT !.crc_text = Append(<<>>, Link!Crc(length))])
    BY <2>2, <2>3, <2>4 DEF Link!FeedCrc, Link!CrcLength
  <2>6. Append(<<>>, Link!Crc(length)) = crc
    OBVIOUS
  <2>7. out.reader = At("crc", text, crc, 0)
    <3>1. out.reader = [r EXCEPT !.crc_text = crc]
      BY <1>5, <2>1, <2>2, <2>5, <2>6 DEF Link!Feed, Link!To
    <3> QED BY <1>9, <3>1 DEF At
  <2>8. InStep(length, n + 1, out.reader)
    BY <2>1, <2>7 DEF InStep, text
  <2> QED BY <1>1, <1>2, <1>9, <2>8
<1>10. CASE n = d + 3 /\ r = At("crc", text, crc, 0)
  <2>1. f[n + 1] = Link!Comma /\ n + 1 = d + 4
    BY <1>2, <1>10
  <2>2. r.state = "crc" /\ r.crc_text = crc /\ r.len_text = text
        /\ r.payload = [size |-> 0, text |-> TRUE]
    BY <1>10, AtParts
  <2>3. ~Link!IsHex(Link!Comma) /\ Link!Comma # Link!Start
    BY <1>4, BytesApart
  <2>4. out = IF length = 0 THEN Link!Finish(r)
              ELSE Link!To([r EXCEPT !.state = "payload"])
    <3>1. Link!FeedCrc(r, Link!Comma) =
            IF length = 0 THEN Link!Finish(r)
            ELSE Link!To([r EXCEPT !.state = "payload"])
      BY <1>3, <2>2, <2>3 DEF Link!FeedCrc, Link!CrcLength
    <3> QED BY <1>5, <2>1, <2>2, <3>1 DEF Link!Feed
  <2>5. CASE length = 0
    <3>1. out.reader = Link!Idle /\ out.delivers = length
      BY <2>2, <2>4, <2>5 DEF Link!Finish
    <3>2. InStep(length, n + 1, out.reader)
      <4>1. n + 1 = d + 4 + length
        BY <1>1, <1>2, <2>1, <2>5
      <4> QED BY <3>1, <4>1 DEF InStep, text
    <3> QED BY <1>1, <1>2, <1>10, <3>1, <3>2
  <2>6. CASE length # 0
    <3>1. out.reader = At("payload", text, crc, 0)
      <4>1. out.reader = [r EXCEPT !.state = "payload"]
        BY <2>4, <2>6 DEF Link!To
      <4> QED BY <1>10, <4>1 DEF At
    <3>2. n + 1 \in d + 4 .. d + 3 + length /\ (n + 1) - (d + 4) = 0
      BY <1>1, <1>2, <2>1, <2>6
    <3>3. InStep(length, n + 1, out.reader)
      BY <3>1, <3>2 DEF InStep, text
    <3> QED BY <1>1, <1>2, <1>10, <2>6, <3>3
  <2> QED BY <2>5, <2>6
<1>11. CASE n \in d + 4 .. d + 3 + length /\ r = At("payload", text, crc, n - (d + 4))
  <2> DEFINE k == n - (d + 4)
  <2>1. k \in Nat /\ k < length /\ k + 1 \in 1 .. length /\ n + 1 = d + 4 + (k + 1)
        /\ n = d + 4 + k
    <3>1. \A dd, nn, l \in Nat : nn \in dd + 4 .. dd + 3 + l =>
            LET kk == nn - (dd + 4)
            IN /\ kk \in Nat /\ kk < l /\ kk + 1 \in 1 .. l
               /\ nn + 1 = dd + 4 + (kk + 1) /\ nn = dd + 4 + kk
      OBVIOUS
    <3> HIDE DEF d
    <3> QED BY <1>1, <1>2, <1>5, <1>11, <3>1
  <2>2. f[n + 1] = Link!Text
    BY <1>2, <2>1
  <2>3. r = At("payload", text, crc, k)
    BY <1>11
  <2> HIDE DEF k
  <2>4. r.state = "payload" /\ r.len_text = text
        /\ r.payload = [size |-> k, text |-> TRUE]
    BY <2>3, AtParts
  <2> DEFINE longer == At("payload", text, crc, k + 1)
  <2>5. out = IF k + 1 < length THEN Link!To(longer) ELSE Link!Finish(longer)
    <3>1. [r EXCEPT !.payload = [size |-> r.payload.size + 1,
                                 text |-> r.payload.text /\ Link!Text = Link!Text]] = longer
      <4> DEFINE was == [size |-> r.payload.size + 1,
                         text |-> r.payload.text /\ Link!Text = Link!Text]
                 q == [r EXCEPT !.payload = was]
      <4>1. was = [size |-> k + 1, text |-> TRUE]
        <5>1. r.payload.size = k /\ r.payload.text
          BY <2>4
        <5> QED BY <5>1
      <4>2. q = [r EXCEPT !.payload = was]
        OBVIOUS
      <4>3. was = [size |-> k + 1, text |-> TRUE] => q = longer
        <5> HIDE DEF was, q
        <5> QED BY <2>3, <4>2 DEF At
      <4> QED BY <4>1, <4>3
    <3>2. longer.payload.size = k + 1
      BY DEF At
    <3>3. Link!FeedPayload(r, Link!Text) =
            IF k + 1 < length THEN Link!To(longer) ELSE Link!Finish(longer)
      BY <1>3, <2>4, <3>1, <3>2 DEF Link!FeedPayload
    <3> QED BY <1>5, <2>2, <2>4, <3>3 DEF Link!Feed
  <2>6. CASE k + 1 < length
    <3>1. out.reader = At("payload", text, crc, k + 1)
      BY <2>5, <2>6 DEF Link!To
    <3>2. n + 1 \in d + 4 .. d + 3 + length /\ (n + 1) - (d + 4) = k + 1
      BY <1>1, <1>2, <2>1, <2>6
    <3>3. InStep(length, n + 1, out.reader)
      BY <3>1, <3>2 DEF InStep, text
    <3> QED BY <1>1, <1>2, <2>1, <2>6, <3>3
  <2>7. CASE ~(k + 1 < length)
    <3>1. k + 1 = length /\ n + 1 = d + 4 + length
      <4>1. \A kk, l, dd, nn \in Nat : kk < l /\ ~(kk + 1 < l) /\ nn = dd + 4 + kk =>
                  kk + 1 = l /\ nn + 1 = dd + 4 + l
        OBVIOUS
      <4> HIDE DEF d
      <4> QED BY <1>1, <1>2, <1>5, <2>1, <2>7, <4>1
    <3>2. out.reader = Link!Idle /\ out.delivers = length
      BY <2>5, <2>7, <3>1 DEF Link!Finish, At
    <3>3. InStep(length, n + 1, out.reader)
      BY <3>1, <3>2 DEF InStep, text
    <3> QED BY <1>1, <1>2, <2>1, <3>1, <3>2, <3>3
  <2> QED BY <2>6, <2>7
<1>12. CASE n = d + 4 + length /\ r = Link!Idle
  <2>1. f[n + 1] = Link!Newline /\ Link!Newline # Link!Start
    <3>1. n + 1 = d + length + 5
      BY <1>1, <1>2, <1>12
    <3> QED BY <1>2, <1>4, <3>1, BytesApart
  <2>2. out.reader = Link!Idle
    BY <1>5, <1>12, <2>1, IdleIsSane DEF Link!Feed, Link!FeedIdle, Link!To
  <2>3. ~(n < d + length + 4) /\ n # d + length + 3
    <3>1. \A dd, nn, l \in Nat : nn = dd + 4 + l => ~(nn < dd + l + 4) /\ nn # dd + l + 3
      OBVIOUS
    <3> HIDE DEF d
    <3> QED BY <1>1, <1>2, <1>5, <1>12, <3>1
  <2> HIDE DEF d
  <2> QED BY <2>2, <2>3, IdleIsSane
<1> QED BY <1>7, <1>8, <1>9, <1>10, <1>11, <1>12 DEF InStep, text

(* Outside a frame it follows, the reader has taken every byte since the   *)
(* last one lost, and it takes fewer than Settled before it is idle.       *)
LinkInv ==
  /\ \E length \in Lengths : frame = Link!Encode(length)
  /\ sent \in 0 .. Len(frame) - 1
  /\ Sane(reader) /\ clean \in 0 .. Link!Settled /\ fair \in BOOLEAN
  /\ \A length \in Lengths : frame = Link!Encode(length) =>
       \/ InStep(length, sent, reader)
       \/ ~fair /\ (reader.state = "idle" \/ clean <= Taken(reader))

(* A reader takes fewer bytes than Settled before it is idle.              *)
LEMMA SettledIs ==
  ASSUME Link!FrameLinkAssumption
  PROVE  /\ Link!Settled \in Nat
         /\ \A r : Sane(r) => Taken(r) \in Nat /\ Taken(r) < Link!Settled
<1>1. Link!Settled = MaxPayload + MaxDigits + 3 /\ MaxPayload \in Nat /\ MaxDigits \in Nat
  BY LinkAssumed DEF Link!Settled, Link!CrcLength
<1>2. ASSUME NEW r, Sane(r) PROVE Taken(r) \in Nat /\ Taken(r) < Link!Settled
  <2> DEFINE d == Len(r.len_text)
             c == Len(r.crc_text)
             size == r.payload.size
             value == Link!Number(r.len_text)
  <2>1. d \in Nat /\ d <= MaxDigits /\ c \in Nat /\ c <= 1 /\ size \in Nat
        /\ r.state \in {"idle", "len", "crc", "payload"}
        /\ r.len_text \in Seq(Digits)
    BY <1>2 DEF Sane, Readers, Link!CrcLength
  <2>2. value \in Nat
    BY <2>1, NumberOfText
  <2>3. r.state = "payload" => value <= MaxPayload /\ size < value
    BY <1>2 DEF Sane
  <2>4. /\ r.state = "idle" => Taken(r) = 0
        /\ r.state = "len" => Taken(r) = d
        /\ r.state = "crc" => Taken(r) = d + 1 + c
        /\ r.state = "payload" => Taken(r) = d + 1 + c + 1 + size
    BY <2>1 DEF Taken
  <2> HIDE DEF d, c, size, value
  <2> QED BY <1>1, <2>1, <2>2, <2>3, <2>4
<1> QED BY <1>1, <1>2

(* A frame is of these bytes and has one "$", its first.                   *)
LEMMA FrameIs ==
  ASSUME Link!FrameLinkAssumption,
         NEW length \in Lengths
  PROVE  /\ Len(Link!Encode(length)) \in Nat /\ Len(Link!Encode(length)) >= 5
         /\ \A n \in 0 .. Len(Link!Encode(length)) - 1 :
              /\ Link!Encode(length)[n + 1] \in Bytes
              /\ Link!Encode(length)[n + 1] = Link!Start => n = 0
<1> DEFINE text == Link!LengthText[length]
           d == Len(text)
           f == Link!Encode(length)
<1>1. length \in Nat
  BY LinkAssumed
<1>2. /\ text \in Seq(Digits) /\ d \in Nat /\ f \in Seq(Bytes) /\ Len(f) = d + length + 5
      /\ f[1] = Link!Start
      /\ \A i \in 1 .. d : f[i + 1] = text[i]
      /\ f[d + 2] = Link!Comma /\ f[d + 3] = Link!Crc(length)
      /\ f[d + 4] = Link!Comma
      /\ \A i \in 1 .. length : f[d + 4 + i] = Link!Text
      /\ f[d + length + 5] = Link!Newline
  BY <1>1, FrameParts
<1>3. \A i \in 1 .. d : text[i] \in Digits
  BY <1>2
<1> HIDE DEF text, f, d
<1>4. ASSUME NEW n \in 0 .. Len(f) - 1
      PROVE  f[n + 1] \in Bytes /\ (f[n + 1] = Link!Start => n = 0)
  <2>1. n + 1 \in 1 .. Len(f) /\ f[n + 1] \in Bytes
    BY <1>1, <1>2
  <2>2. CASE n = 0
    BY <2>1, <2>2
  <2>3. CASE n \in 1 .. d
    <3>1. f[n + 1] \in Digits /\ f[n + 1] \in Bytes
      BY <1>2, <1>3, <2>3 DEF Bytes
    <3>2. Link!IsDigit(f[n + 1])
      BY <3>1 DEF Digits, Link!Digit, Link!IsDigit
    <3> QED BY <3>1, <3>2, BytesApart
  <2>4. CASE n = d + 1 \/ n = d + 3
    <3>1. f[n + 1] = Link!Comma
      <4>1. n = d + 1 => n + 1 = d + 2
        BY <1>2
      <4>2. n = d + 3 => n + 1 = d + 4
        BY <1>2
      <4> QED BY <1>2, <2>4, <4>1, <4>2
    <3> QED BY <2>1, <3>1, BytesApart
  <2>5. CASE n = d + 2
    <3>1. n + 1 = d + 3
      BY <1>2, <2>5
    <3>2. f[n + 1] = Link!Crc(length) /\ Link!IsHex(f[n + 1])
      BY <1>2, <3>1 DEF Link!IsHex, Link!Crc
    <3> QED BY <2>1, <3>2, BytesApart
  <2>6. CASE n \in d + 4 .. d + 3 + length
    <3>1. \E i \in 1 .. length : n + 1 = d + 4 + i
      <4>1. n + 1 - (d + 4) \in 1 .. length /\ n + 1 = d + 4 + (n + 1 - (d + 4))
        BY <1>1, <1>2, <2>6
      <4> QED BY <4>1
    <3>2. f[n + 1] = Link!Text
      BY <1>2, <3>1
    <3> QED BY <2>1, <3>2, BytesApart
  <2>7. CASE n = d + length + 4
    <3>1. n + 1 = d + length + 5
      BY <1>1, <1>2, <2>7
    <3>2. f[n + 1] = Link!Newline
      BY <1>2, <3>1
    <3> QED BY <2>1, <3>2, BytesApart
  <2>8. n = 0 \/ n \in 1 .. d \/ n = d + 1 \/ n = d + 2 \/ n = d + 3
        \/ n \in d + 4 .. d + 3 + length \/ n = d + length + 4
    <3>1. Len(f) - 1 = d + length + 4
      BY <1>1, <1>2
    <3>2. n \in 0 .. d + length + 4
      BY <3>1
    <3> QED BY <1>1, <1>2, <3>2
  <2> QED BY <2>2, <2>3, <2>4, <2>5, <2>6, <2>7, <2>8
<1>5. Len(f) \in Nat /\ Len(f) >= 5
  BY <1>1, <1>2
<1> QED BY <1>4, <1>5 DEF f

(* At the beginning.                                                       *)
LEMMA LinkInit ==
  ASSUME Link!FrameLinkAssumption
  PROVE  Link!Init => LinkInv
<1> SUFFICES ASSUME Link!Init PROVE LinkInv
  OBVIOUS
<1>1. PICK length \in Lengths : frame = Link!Encode(length)
  BY DEF Link!Init
<1>2. Len(frame) \in Nat /\ Len(frame) >= 5
  BY <1>1, FrameIs
<1>3. sent \in 0 .. Len(frame) - 1
  BY <1>2 DEF Link!Init
<1>4. reader = Link!Idle /\ Sane(reader) /\ reader.state # "payload"
  BY IdleIsSane DEF Link!Init
<1>5. \A l \in Lengths : InStep(l, sent, reader)
  BY <1>4 DEF InStep, Link!Init
<1>6. clean \in 0 .. Link!Settled /\ fair \in BOOLEAN
  BY SettledIs DEF Link!Init
<1> QED BY <1>1, <1>3, <1>4, <1>5, <1>6 DEF LinkInv

(* The byte that is sent, and where the sender is after it.                *)
LEMMA LinkAdvances ==
  ASSUME Link!FrameLinkAssumption,
         LinkInv, Link!Advance
  PROVE  /\ frame[sent + 1] \in Bytes /\ (frame[sent + 1] = Link!Start => sent = 0)
         /\ \E length \in Lengths : frame' = Link!Encode(length)
         /\ sent' \in 0 .. Len(frame') - 1
         /\ \/ sent + 1 < Len(frame) /\ sent' = sent + 1 /\ frame' = frame
            \/ sent + 1 = Len(frame) /\ sent' = 0
<1>1. PICK length \in Lengths : frame = Link!Encode(length)
  BY DEF LinkInv
<1>2. sent \in 0 .. Len(frame) - 1 /\ Len(frame) \in Nat /\ sent \in Nat
  BY <1>1, FrameIs DEF LinkInv
<1>3. frame[sent + 1] \in Bytes /\ (frame[sent + 1] = Link!Start => sent = 0)
  BY <1>1, <1>2, FrameIs
<1>4. CASE sent + 1 < Len(frame)
  <2>1. sent' = sent + 1 /\ frame' = frame
    BY <1>4 DEF Link!Advance
  <2>2. sent + 1 \in 0 .. Len(frame) - 1
    BY <1>2, <1>4
  <2> QED BY <1>1, <1>3, <1>4, <2>1, <2>2
<1>5. CASE ~(sent + 1 < Len(frame))
  <2>1. sent' = 0 /\ \E l \in Lengths : frame' = Link!Encode(l)
    BY <1>5 DEF Link!Advance
  <2>2. PICK l \in Lengths : frame' = Link!Encode(l)
    BY <2>1
  <2>3. Len(frame') \in Nat /\ Len(frame') >= 5
    BY <2>2, FrameIs
  <2>4. sent + 1 = Len(frame)
    BY <1>2, <1>5
  <2>5. 0 \in 0 .. Len(frame') - 1
    BY <2>3
  <2> QED BY <1>3, <2>1, <2>4, <2>5
<1> QED BY <1>4, <1>5

(* A byte that arrives.                                                    *)
LEMMA LinkReceives ==
  ASSUME Link!FrameLinkAssumption
  PROVE  LinkInv /\ Link!Receive => LinkInv'
<1> SUFFICES ASSUME LinkInv, Link!Receive PROVE LinkInv'
  OBVIOUS
<1> DEFINE byte == frame[sent + 1]
           q == Link!Feed(reader, byte).reader
<1>1. /\ byte \in Bytes /\ (byte = Link!Start => sent = 0)
      /\ \E length \in Lengths : frame' = Link!Encode(length)
      /\ sent' \in 0 .. Len(frame') - 1
      /\ \/ sent + 1 < Len(frame) /\ sent' = sent + 1 /\ frame' = frame
         \/ sent + 1 = Len(frame) /\ sent' = 0
  BY LinkAdvances DEF Link!Receive
<1>2. Sane(reader) /\ reader' = q
  BY DEF LinkInv, Link!Receive
<1>3. /\ Sane(q)
      /\ \/ q = Link!Idle
         \/ q = Link!InLength /\ byte = Link!Start
         \/ reader.state # "idle" /\ q.state # "idle" /\ Taken(q) = Taken(reader) + 1
  <2> HIDE DEF byte
  <2>1. \E x : x = q
    OBVIOUS
  <2> QED BY <1>1, <1>2, FeedMoves
<1>4. clean' \in 0 .. Link!Settled /\ clean' <= clean + 1 /\ fair' \in BOOLEAN
      /\ clean \in Nat
  <2>1. \A s \in Nat : \A c \in 0 .. s :
          LET next == IF c < s THEN c + 1 ELSE c
          IN c \in Nat /\ next \in 0 .. s /\ next <= c + 1
    OBVIOUS
  <2>2. /\ clean' = IF clean < Link!Settled THEN clean + 1 ELSE clean
        /\ clean \in 0 .. Link!Settled /\ Link!Settled \in Nat
    BY SettledIs DEF LinkInv, Link!Receive
  <2>3. fair' \in BOOLEAN
    BY DEF LinkInv, Link!Receive
  <2> QED BY <2>1, <2>2, <2>3
<1>5. fair' = IF sent' = 0 THEN clean' = Link!Settled \/ q.state # "payload" ELSE fair
  BY <1>2 DEF Link!Receive
<1>6. Taken(reader) \in Nat /\ Taken(q) \in Nat /\ Taken(q) < Link!Settled
  BY <1>2, <1>3, SettledIs
<1>7. sent \in 0 .. Len(frame) - 1 /\ sent \in Nat
  BY DEF LinkInv
<1>8. ASSUME NEW was \in Lengths, frame = Link!Encode(was), InStep(was, sent, reader)
      PROVE  /\ sent + 1 < Len(frame) => InStep(was, sent + 1, q)
             /\ sent + 1 = Len(frame) => q.state # "payload"
  <2> DEFINE out == Link!Feed(reader, byte)
  <2>1. out = Link!Feed(reader, Link!Encode(was)[sent + 1]) /\ q = out.reader
    BY <1>8
  <2>2. sent \in 0 .. Len(Link!Encode(was)) - 1
    BY <1>7, <1>8
  <2> HIDE DEF out, q
  <2> QED BY <1>2, <1>8, <2>1, <2>2, InStepFeeds
<1>9. ASSUME NEW was \in Lengths, frame = Link!Encode(was), ~InStep(was, sent, reader)
      PROVE  ~fair /\ (q = Link!Idle \/ (q = Link!InLength /\ sent = 0) \/ clean' <= Taken(q))
  <2> HIDE DEF q, byte
  <2>1. ~fair /\ (reader.state = "idle" \/ clean <= Taken(reader))
    BY <1>9 DEF LinkInv
  <2>2. clean <= Taken(reader) /\ Taken(q) = Taken(reader) + 1 => clean' <= Taken(q)
    BY <1>4, <1>6
  <2>3. q = Link!Idle \/ (q = Link!InLength /\ sent = 0) \/ clean' <= Taken(q)
    <3>1. CASE reader.state = "idle"
      BY <1>1, <1>3, <3>1
    <3>2. CASE clean <= Taken(reader)
      BY <1>1, <1>3, <2>2, <3>2
    <3> QED BY <2>1, <3>1, <3>2
  <2> QED BY <2>1, <2>3
<1> HIDE DEF q, byte
<1>10. CASE sent + 1 < Len(frame) /\ sent' = sent + 1 /\ frame' = frame
  <2>1. sent' # 0 /\ fair' = fair
    BY <1>5, <1>7, <1>10
  <2> SUFFICES ASSUME NEW length \in Lengths, frame' = Link!Encode(length)
               PROVE  \/ InStep(length, sent', q)
                      \/ ~fair' /\ (q.state = "idle" \/ clean' <= Taken(q))
    BY <1>1, <1>2, <1>3, <1>4 DEF LinkInv
  <2>2. CASE InStep(length, sent, reader)
    BY <1>8, <1>10, <2>2
  <2>3. CASE ~InStep(length, sent, reader)
    <3>1. ~fair' /\ (q = Link!Idle \/ (q = Link!InLength /\ sent = 0) \/ clean' <= Taken(q))
      BY <1>9, <1>10, <2>1, <2>3
    <3>2. q = Link!InLength /\ sent = 0 => InStep(length, sent', q)
      <4> SUFFICES ASSUME q = Link!InLength, sent = 0 PROVE InStep(length, sent', q)
        OBVIOUS
      <4> DEFINE text == Link!LengthText[length]
      <4>0. length \in Nat
        BY LinkAssumed
      <4>1. text \in Seq(Digits)
        BY <4>0, LengthTextIs
      <4>2. Len(text) >= 1 /\ Len(text) \in Nat
        BY <4>0, <4>1, LengthTextLong
      <4> HIDE DEF text
      <4>3. SubSeq(text, 1, 0) = <<>>
        BY <4>1
      <4>4. sent' = 1 /\ 1 \in 1 .. Len(text) + 1 /\ 1 - 1 = 0
        BY <1>10, <4>2
      <4>5. q = At("len", SubSeq(text, 1, 1 - 1), <<>>, 0)
        BY <4>3, <4>4, IdleIsSane DEF At, Link!Idle
      <4> QED BY <4>4, <4>5 DEF InStep, text
    <3> QED BY <3>1, <3>2, IdleIsSane
  <2> QED BY <2>2, <2>3
<1>11. CASE sent + 1 = Len(frame) /\ sent' = 0
  <2>1. PICK was \in Lengths : frame = Link!Encode(was)
    BY DEF LinkInv
  <2>2. CASE q.state # "payload"
    <3>1. \A length \in Lengths : InStep(length, sent', q)
      BY <1>11, <2>2 DEF InStep
    <3> QED BY <1>1, <1>2, <1>3, <1>4, <3>1 DEF LinkInv
  <2>3. CASE q.state = "payload"
    <3>1. ~InStep(was, sent, reader)
      BY <1>8, <1>11, <2>1, <2>3
    <3>2. q # Link!Idle /\ q # Link!InLength
      BY <2>3, IdleIsSane
    <3>3. clean' <= Taken(q)
      BY <1>9, <2>1, <3>1, <3>2
    <3>4. clean' # Link!Settled
      BY <1>4, <1>6, <3>3, SettledIs
    <3>5. ~fair'
      BY <1>5, <1>11, <2>3, <3>4
    <3> QED BY <1>1, <1>2, <1>3, <1>4, <3>3, <3>5 DEF LinkInv
  <2> QED BY <2>2, <2>3
<1> QED BY <1>1, <1>10, <1>11

(* A byte that is lost.                                                    *)
LEMMA LinkLoses ==
  ASSUME Link!FrameLinkAssumption
  PROVE  LinkInv /\ Link!Lose => LinkInv'
<1> SUFFICES ASSUME LinkInv, Link!Lose PROVE LinkInv'
  OBVIOUS
<1>1. /\ \E length \in Lengths : frame' = Link!Encode(length)
      /\ sent' \in 0 .. Len(frame') - 1
  BY LinkAdvances DEF Link!Lose
<1>2. /\ clean' = 0 /\ reader' = reader /\ Sane(reader)
      /\ fair' = (sent' = 0 /\ reader.state # "payload")
  BY DEF Link!Lose, LinkInv
<1>3. clean' \in 0 .. Link!Settled /\ fair' \in BOOLEAN
  BY <1>2, SettledIs
<1>4. clean' <= Taken(reader)
  BY <1>2, SettledIs
<1>5. \A length \in Lengths : fair' => InStep(length, sent', reader)
  BY <1>2 DEF InStep
<1> QED BY <1>1, <1>2, <1>3, <1>4, <1>5 DEF LinkInv

(* Every step keeps the invariant.                                         *)
LEMMA LinkStep ==
  ASSUME Link!FrameLinkAssumption
  PROVE  LinkInv /\ [Link!Next]_(Link!vars) => LinkInv'
<1>1. LinkInv /\ UNCHANGED Link!vars => LinkInv'
  BY DEF LinkInv, Link!vars, InStep
<1> QED BY <1>1, LinkReceives, LinkLoses DEF Link!Next

(* The invariant has the types.                                            *)
LEMMA LinkInvTyped ==
  ASSUME Link!FrameLinkAssumption
  PROVE  LinkInv => Link!TypeOK
<1> SUFFICES ASSUME LinkInv PROVE Link!TypeOK
  OBVIOUS
<1>1. Sane(reader)
  BY DEF LinkInv
<1>2. reader.state = "idle" => Link!Number(reader.len_text) = 0
  BY <1>1, NumberShort DEF Sane, Link!Idle
<1>3. Link!Number(reader.len_text) \in Nat /\ MaxPayload \in Nat
  BY <1>1, NumberOfText, LinkAssumed DEF Sane, Readers
<1>4. reader.state \in {"idle", "len", "crc", "payload"}
  BY <1>1 DEF Sane, Readers
<1>5. Link!Number(reader.len_text) > MaxPayload => reader.state = "len"
  BY <1>1, <1>2, <1>3, <1>4 DEF Sane
<1> QED BY <1>1, <1>4, <1>5 DEF LinkInv, Sane, Link!TypeOK

(* A step that ends a whole frame delivers it.                             *)
LEMMA LinkStepDelivers ==
  ASSUME Link!FrameLinkAssumption
  PROVE  LinkInv /\ [Link!Next]_(Link!vars) => [Link!WholeFrame]_(Link!vars)
<1> SUFFICES ASSUME LinkInv, Link!Receive \/ Link!Lose, fair, clean' # 0,
                    NEW length \in Lengths,
                    frame = Link!Encode(length), sent = Len(frame) - 2
             PROVE  Link!Feed(reader, frame[sent + 1]).delivers = length
  BY DEF Link!Next, Link!WholeFrame
<1>1. InStep(length, sent, reader) /\ Sane(reader) /\ sent \in 0 .. Len(frame) - 1
  BY DEF LinkInv
<1> DEFINE out == Link!Feed(reader, frame[sent + 1])
<1>2. out = Link!Feed(reader, Link!Encode(length)[sent + 1])
  OBVIOUS
<1> HIDE DEF out
<1>3. out.delivers = length
  BY <1>1, <1>2, InStepFeeds
<1> QED BY <1>3 DEF out

(* The decoder never collects more than a header and a payload may have,   *)
(* whatever the line loses (framing.cpp, transport.py).                    *)
THEOREM LinkTypes == Link!FrameLinkAssumption /\ Link!Spec => []Link!TypeOK
<1>1. CASE Link!FrameLinkAssumption
  <2>1. Link!Init => LinkInv
    BY <1>1, LinkInit
  <2>2. LinkInv /\ [Link!Next]_(Link!vars) => LinkInv'
    BY <1>1, LinkStep
  <2>3. LinkInv => Link!TypeOK
    BY <1>1, LinkInvTyped
  <2> QED BY <2>1, <2>2, <2>3, PTL DEF Link!Spec
<1> QED BY <1>1

(* A frame that arrives whole is delivered as it was sent, unless the      *)
(* reader is in the payload of a damaged one when it begins; and that ends *)
(* within Settled bytes, for every payload length, every bound on it and   *)
(* every pattern of loss (framing.cpp, transport.py).                      *)
THEOREM LinkDelivers == Link!FrameLinkAssumption /\ Link!Spec => Link!Delivered
<1>1. CASE Link!FrameLinkAssumption
  <2>1. Link!Init => LinkInv
    BY <1>1, LinkInit
  <2>2. LinkInv /\ [Link!Next]_(Link!vars) => LinkInv'
    BY <1>1, LinkStep
  <2>3. LinkInv /\ [Link!Next]_(Link!vars) => [Link!WholeFrame]_(Link!vars)
    BY <1>1, LinkStepDelivers
  <2> QED BY <2>1, <2>2, <2>3, PTL DEF Link!Spec, Link!Delivered
<1> QED BY <1>1
=============================================================================
