-------------------------- MODULE VersionLayerProofs --------------------------
(***************************************************************************)
(* What the builder makes of the files of one level, however many there    *)
(* are of the base and of the edits; the level that is then chosen for     *)
(* compaction, for any number of levels and files; and the comparators and *)
(* the shortening of keys, for keys of any length and bytes of any number  *)
(* of values.                                                              *)
(***************************************************************************)
EXTENDS VersionBuilder, LevelScore, KeyShortening, NaturalLemmas,
        SequenceTheorems

(* What builderSaveToVersion starts from: files have numbers of their own, *)
(* so that none of the base is added again.                                *)
Sources ==
  /\ base \in Seq(FileMetaData)
  /\ added \in Seq(FileMetaData)
  /\ From(base) \cap From(added) = {}

BuilderSpec == Sources /\ BuilderInit /\ [][BuilderNext]_builderVars

------------------------------------------------------------------------------
(***************************************************************************)
(* Among.                                                                  *)
(***************************************************************************)

(* f is the function that Among(s, S) evaluates.                           *)
Picks(f, s, S) ==
  \A k \in 0..Len(s) :
    f[k] = IF k = 0 THEN << >>
           ELSE IF s[k] \in S THEN Append(f[k - 1], s[k]) ELSE f[k - 1]

LEMMA AmongDefined ==
  ASSUME NEW T, NEW s \in Seq(T), NEW S
  PROVE  \E f : Picks(f, s, S) /\ f[Len(s)] = Among(s, S)
                /\ f \in [0..Len(s) -> Seq(T)]
<1>. DEFINE upto[k \in 0..Len(s)] ==
              IF k = 0 THEN << >>
              ELSE IF s[k] \in S THEN Append(upto[k - 1], s[k])
                                 ELSE upto[k - 1]
            Step == [x \in Seq(T) \X (1..Len(s)) |->
                       IF s[x[2]] \in S THEN Append(x[1], s[x[2]]) ELSE x[1]]
            Def(f) == f = [k \in 0..Len(s) |->
              IF k = 0 THEN << >>
              ELSE IF s[k] \in S THEN Append(f[k - 1], s[k]) ELSE f[k - 1]]
<1>0. Len(s) \in Nat /\ \A k \in 1..Len(s) : s[k] \in T
  BY LenProperties
<1>1. Step \in [Seq(T) \X (1..Len(s)) -> Seq(T)]
  <2>1. \A q \in Seq(T), k \in 1..Len(s) : Append(q, s[k]) \in Seq(T)
    BY <1>0, AppendProperties
  <2>. QED
    BY <2>1
<1>2. << >> \in Seq(T)
  OBVIOUS
<1>3. PICK g : Defines(g, 0..Len(s), Seq(T), << >>, Step)
  <2>. HIDE DEF Step
  <2>. QED
    BY <1>0, <1>1, <1>2, Recursion
<1>4. ASSUME NEW k \in 1..Len(s)
      PROVE  g[k] = IF s[k] \in S THEN Append(g[k - 1], s[k]) ELSE g[k - 1]
  <2>1. g[k] = Step[<<g[k - 1], k>>] /\ g[k - 1] \in Seq(T)
    <3>. HIDE DEF Step
    <3>1. k \in 0..Len(s) /\ k # 0 /\ k - 1 \in 0..Len(s)
      BY <1>0
    <3>2. g \in [0..Len(s) -> Seq(T)]
      BY <1>3 DEF Defines
    <3>. QED
      BY <1>3, <3>1, <3>2 DEF Defines
  <2>. QED
    BY <2>1
<1>5. Def(g)
  <2>1. g = [k \in 0..Len(s) |-> g[k]]
    BY <1>3 DEF Defines
  <2>2. \A k \in 0..Len(s) : g[k] =
          IF k = 0 THEN << >>
          ELSE IF s[k] \in S THEN Append(g[k - 1], s[k]) ELSE g[k - 1]
    <3>1. g[0] = << >>
      BY <1>3 DEF Defines
    <3>. QED
      BY <1>0, <1>4, <3>1
  <2>. QED
    BY <2>1, <2>2, Zenon
<1>6. upto = CHOOSE f : Def(f)
  BY DEF upto
<1>7. Def(upto)
  <2>. HIDE DEF Def, upto
  <2>. QED
    BY <1>5, <1>6
<1>8. Picks(upto, s, S)
  <2>. HIDE DEF upto
  <2>. QED
    BY <1>7 DEF Picks
<1>9. upto[Len(s)] = Among(s, S)
  BY DEF Among
<1>10. upto \in [0..Len(s) -> Seq(T)]
  <2>1. ASSUME NEW k \in Nat, k <= Len(s) => upto[k] \in Seq(T)
        PROVE  k + 1 <= Len(s) => upto[k + 1] \in Seq(T)
    <3>. HIDE DEF upto
    <3>. SUFFICES ASSUME k + 1 <= Len(s) PROVE upto[k + 1] \in Seq(T)
      OBVIOUS
    <3>1. k + 1 \in 0..Len(s) /\ k + 1 \in 1..Len(s) /\ k + 1 # 0
          /\ (k + 1) - 1 = k /\ k <= Len(s)
      BY <1>0
    <3>2. Append(upto[k], s[k + 1]) \in Seq(T)
      BY <1>0, <2>1, <3>1, AppendProperties
    <3>. QED
      BY <1>8, <2>1, <3>1, <3>2 DEF Picks
  <2>. HIDE DEF upto
  <2>. DEFINE In == {k \in Nat : k <= Len(s) => upto[k] \in Seq(T)}
  <2>2. 0 \in In
    <3>1. 0 \in 0..Len(s)
      BY <1>0
    <3>2. upto[0] = << >>
      BY <1>8, <3>1 DEF Picks
    <3>. QED
      BY <1>2, <3>2
  <2>3. \A k \in Nat : k \in In => k + 1 \in In
    BY <2>1
  <2>4. \A k \in 0..Len(s) : upto[k] \in Seq(T)
    <3>1. Nat \subseteq In
      <4>. HIDE DEF In
      <4>. QED
        BY <2>2, <2>3, Induction
    <3>. QED
      BY <1>0, <3>1
  <2>5. upto = [k \in 0..Len(s) |-> upto[k]]
    BY <1>7
  <2>. QED
    BY <2>4, <2>5
<1>. HIDE DEF upto
<1>. QED
  BY <1>8, <1>9, <1>10

LEMMA AmongType ==
  ASSUME NEW T, NEW s \in Seq(T), NEW S
  PROVE  Among(s, S) \in Seq(T) /\ Len(Among(s, S)) \in Nat
<1>1. PICK f : f[Len(s)] = Among(s, S) /\ f \in [0..Len(s) -> Seq(T)]
  BY AmongDefined
<1>2. Len(s) \in 0..Len(s)
  BY LenProperties
<1>. QED
  BY <1>1, <1>2, LenProperties

LEMMA AmongNone ==
  ASSUME NEW S
  PROVE  Among(<< >>, S) = << >>
<1>. DEFINE s == << >>
<1>0. s \in Seq({}) /\ Len(s) = 0
  OBVIOUS
<1>. HIDE DEF s
<1>1. PICK f : Picks(f, s, S) /\ f[Len(s)] = Among(s, S)
  BY <1>0, AmongDefined
<1>2. f[0] = << >>
  BY <1>0, <1>1 DEF Picks
<1>. QED
  BY <1>0, <1>1, <1>2 DEF s

(* One more element counts if it is in S.                                  *)
LEMMA AmongGrows ==
  ASSUME NEW T, NEW s \in Seq(T), NEW e \in T, NEW S
  PROVE  Among(Append(s, e), S) =
           IF e \in S THEN Append(Among(s, S), e) ELSE Among(s, S)
<1>. DEFINE t == Append(s, e)
            n == Len(s)
<1>0. /\ t \in Seq(T) /\ Len(t) = n + 1 /\ n \in Nat
      /\ t[n + 1] = e /\ \A k \in 1..n : t[k] = s[k]
  BY AppendProperties, LenProperties
<1>. HIDE DEF t
<1>1. PICK f : Picks(f, s, S) /\ f[n] = Among(s, S)
  BY AmongDefined
<1>2. PICK g : Picks(g, t, S) /\ g[Len(t)] = Among(t, S)
  BY <1>0, AmongDefined
<1>. HIDE DEF n
<1>3. \A k \in 0..n : f[k] = IF k = 0 THEN << >>
           ELSE IF s[k] \in S THEN Append(f[k - 1], s[k]) ELSE f[k - 1]
  BY <1>1 DEF Picks, n
<1>4. \A k \in 0..(n + 1) : g[k] = IF k = 0 THEN << >>
           ELSE IF t[k] \in S THEN Append(g[k - 1], t[k]) ELSE g[k - 1]
  BY <1>0, <1>2 DEF Picks
<1>. DEFINE Same == {k \in Nat : k <= n => f[k] = g[k]}
<1>5. 0 \in Same
  BY <1>0, <1>3, <1>4
<1>6. ASSUME NEW k \in Nat, k \in Same
      PROVE  k + 1 \in Same
  <2>. SUFFICES ASSUME k + 1 <= n
                PROVE  f[k + 1] = g[k + 1]
    OBVIOUS
  <2>1. f[k] = g[k]
    BY <1>0, <1>6
  <2>2. k + 1 \in 0..n /\ k + 1 \in 0..(n + 1) /\ k + 1 # 0
        /\ (k + 1) - 1 = k /\ k + 1 \in 1..n
    BY <1>0
  <2>3. t[k + 1] = s[k + 1]
    BY <1>0, <2>2
  <2>4. f[k + 1] = IF s[k + 1] \in S THEN Append(f[(k + 1) - 1], s[k + 1])
                                     ELSE f[(k + 1) - 1]
    BY <1>3, <2>2
  <2>5. g[k + 1] = IF t[k + 1] \in S THEN Append(g[(k + 1) - 1], t[k + 1])
                                     ELSE g[(k + 1) - 1]
    BY <1>4, <2>2
  <2>. QED
    BY <2>1, <2>2, <2>3, <2>4, <2>5
<1>7. f[n] = g[n]
  <2>1. Nat \subseteq Same
    <3>. HIDE DEF Same
    <3>. QED
      BY <1>5, <1>6, Induction
  <2>. QED
    BY <1>0, <2>1
<1>8. g[n + 1] = IF e \in S THEN Append(g[n], e) ELSE g[n]
  <2>1. n + 1 \in 0..(n + 1) /\ n + 1 # 0 /\ (n + 1) - 1 = n
    BY <1>0
  <2>. QED
    BY <1>0, <1>4, <2>1
<1>. QED
  BY <1>0, <1>1, <1>2, <1>7, <1>8 DEF t

------------------------------------------------------------------------------
(***************************************************************************)
(* The merge.  B and A are the files of the base and the added ones.       *)
(***************************************************************************)

(* Each added file is right in front of a base file that is not below it.  *)
InFrontOfBase(s, A, B) ==
  \A i \in 1..Len(s) : s[i] \in A =>
    /\ i < Len(s)
    /\ s[i + 1] \in B
    /\ ~BySmallestKey(s[i + 1], s[i])

(* All files passed on are counted among the base or the added ones.       *)
Counted(s, A, B) == Len(s) = Len(Among(s, A)) + Len(Among(s, B))

(* The files of S that were passed on, and then rest, are all of them.     *)
Continued(s, S, rest, all) == Among(s, S) \o rest = all

MergeInv ==
  LET A == From(inputs.added)
      B == From(inputs.base)
  IN  /\ base \in Seq(FileMetaData) /\ added \in Seq(FileMetaData)
      /\ passed \in Seq(FileMetaData) /\ Merged \in Seq(FileMetaData)
      /\ inputs.added \in Seq(FileMetaData)
      /\ inputs.base \in Seq(FileMetaData)
      /\ A \cap B = {} /\ From(base) \subseteq B /\ From(added) \subseteq A
      /\ Continued(Merged, B, base, inputs.base)
      /\ \E rest \in Seq(FileMetaData) :
           /\ Continued(Merged, A, rest, inputs.added)
           /\ base # << >> => rest = added
      /\ Counted(Merged, A, B)
      /\ InFrontOfBase(Merged, A, B)
      /\ saved => /\ base = << >> /\ added = << >>
                  /\ Len(passed) = Len(Merged) + 1

LEMMA FirstOf ==
  ASSUME NEW T, NEW s \in Seq(T), s # << >>
  PROVE  /\ Head(s) \in T /\ Tail(s) \in Seq(T)
         /\ Head(s) \in From(s) /\ From(Tail(s)) \subseteq From(s)
         /\ \A q \in Seq(T) : Append(q, Head(s)) \o Tail(s) = q \o s
<1>1. /\ Len(s) \in Nat /\ Len(s) >= 1 /\ DOMAIN s = 1..Len(s)
  BY LenProperties, EmptySeq
<1>2. /\ Head(s) \in T /\ Tail(s) \in Seq(T) /\ Len(Tail(s)) = Len(s) - 1
      /\ Head(s) = s[1]
      /\ \A i \in 1..Len(Tail(s)) : Tail(s)[i] = s[i + 1]
      /\ DOMAIN Tail(s) = 1..Len(Tail(s))
  <2>1. /\ Head(s) \in T /\ Tail(s) \in Seq(T) /\ Len(Tail(s)) = Len(s) - 1
        /\ \A i \in 1..Len(Tail(s)) : Tail(s)[i] = s[i + 1]
    BY HeadTailProperties
  <2>2. DOMAIN Tail(s) = 1..Len(Tail(s))
    BY <2>1, LenProperties
  <2>3. Head(s) = s[1]
    OBVIOUS
  <2>. QED
    BY <2>1, <2>2, <2>3
<1>3. Head(s) \in From(s) /\ From(Tail(s)) \subseteq From(s)
  <2>1. ASSUME NEW i \in DOMAIN Tail(s)
        PROVE  Tail(s)[i] \in From(s)
    <3>1. i + 1 \in DOMAIN s /\ Tail(s)[i] = s[i + 1]
      BY <1>1, <1>2
    <3>. QED
      BY <3>1 DEF From
  <2>2. s[1] \in From(s)
    BY <1>1 DEF From
  <2>. QED
    BY <1>2, <2>1, <2>2 DEF From
<1>4. ASSUME NEW q \in Seq(T)
      PROVE  Append(q, Head(s)) \o Tail(s) = q \o s
  <2>1. Append(q, Head(s)) = q \o <<Head(s)>> /\ <<Head(s)>> \in Seq(T)
    BY <1>2, AppendIsConcat
  <2>2. (q \o <<Head(s)>>) \o Tail(s) = q \o (<<Head(s)>> \o Tail(s))
    BY <1>2, <2>1, ConcatAssociative
  <2>3. <<Head(s)>> \o Tail(s) = s
    BY <1>1
  <2>. QED
    BY <2>1, <2>2, <2>3
<1>. QED
  BY <1>2, <1>3, <1>4

(* A file of the base is passed on.                                        *)
LEMMA BasePassed ==
  ASSUME NEW s \in Seq(FileMetaData), NEW e \in FileMetaData, NEW A, NEW B,
         e \in B, e \notin A, Counted(s, A, B), InFrontOfBase(s, A, B)
  PROVE  LET t == Append(s, e)
         IN  /\ t \in Seq(FileMetaData)
             /\ Among(t, A) = Among(s, A)
             /\ Among(t, B) = Append(Among(s, B), e)
             /\ Counted(t, A, B)
             /\ InFrontOfBase(t, A, B)
<1>. DEFINE t == Append(s, e)
<1>1. /\ t \in Seq(FileMetaData) /\ Len(t) = Len(s) + 1 /\ Len(s) \in Nat
      /\ t[Len(s) + 1] = e /\ \A k \in 1..Len(s) : t[k] = s[k]
  BY AppendProperties, LenProperties
<1>2. Among(t, A) = Among(s, A) /\ Among(t, B) = Append(Among(s, B), e)
  BY AmongGrows
<1>3. /\ Len(Among(s, A)) \in Nat /\ Len(Among(s, B)) \in Nat
      /\ Len(Append(Among(s, B), e)) = Len(Among(s, B)) + 1
  <2>1. Among(s, B) \in Seq(FileMetaData)
    BY AmongType
  <2>. QED
    BY <2>1, AmongType, AppendProperties
<1>. HIDE DEF t
<1>4. Counted(t, A, B)
  BY <1>1, <1>2, <1>3 DEF Counted
<1>5. InFrontOfBase(t, A, B)
  <2>1. ASSUME NEW i \in 1..Len(t), t[i] \in A
        PROVE  i < Len(t) /\ t[i + 1] \in B /\ ~BySmallestKey(t[i + 1], t[i])
    <3>1. i \in 1..Len(s) /\ t[i] = s[i]
      <4>1. i # Len(s) + 1
        BY <1>1, <2>1
      <4>. QED
        BY <1>1, <4>1
    <3>2. i < Len(s) /\ s[i + 1] \in B /\ ~BySmallestKey(s[i + 1], s[i])
      BY <2>1, <3>1 DEF InFrontOfBase
    <3>3. i + 1 \in 1..Len(s) /\ i < Len(t)
      BY <1>1, <3>1, <3>2
    <3>. QED
      BY <1>1, <3>1, <3>2, <3>3
  <2>. QED
    BY <2>1 DEF InFrontOfBase
<1>. QED
  BY <1>1, <1>2, <1>4, <1>5 DEF t

(* An added file is, and the file of the base it was compared with.        *)
LEMMA BothPassed ==
  ASSUME NEW s \in Seq(FileMetaData), NEW a \in FileMetaData,
         NEW e \in FileMetaData, NEW A, NEW B,
         a \in A, a \notin B, e \in B, e \notin A, ~BySmallestKey(e, a),
         Counted(s, A, B), InFrontOfBase(s, A, B)
  PROVE  LET t == s \o <<a, e>>
         IN  /\ t \in Seq(FileMetaData)
             /\ Among(t, A) = Append(Among(s, A), a)
             /\ Among(t, B) = Append(Among(s, B), e)
             /\ Counted(t, A, B)
             /\ InFrontOfBase(t, A, B)
<1>. DEFINE u == Append(s, a)
            t == Append(u, e)
<1>1. /\ u \in Seq(FileMetaData) /\ Len(u) = Len(s) + 1 /\ Len(s) \in Nat
      /\ u[Len(s) + 1] = a /\ \A k \in 1..Len(s) : u[k] = s[k]
  BY AppendProperties, LenProperties
<1>2. Among(u, A) = Append(Among(s, A), a) /\ Among(u, B) = Among(s, B)
  BY AmongGrows
<1>3. s \o <<a, e>> = t
  OBVIOUS
<1>4. /\ Len(Among(s, A)) \in Nat /\ Len(Among(s, B)) \in Nat
      /\ Len(Append(Among(s, A), a)) = Len(Among(s, A)) + 1
      /\ Len(Append(Among(s, B), e)) = Len(Among(s, B)) + 1
  <2>1. Among(s, A) \in Seq(FileMetaData) /\ Among(s, B) \in Seq(FileMetaData)
    BY AmongType
  <2>. QED
    BY <2>1, AmongType, AppendProperties
<1>. HIDE DEF u
<1>5. /\ t \in Seq(FileMetaData) /\ Len(t) = Len(u) + 1
      /\ t[Len(u) + 1] = e /\ \A k \in 1..Len(u) : t[k] = u[k]
  BY <1>1, AppendProperties
<1>6. Among(t, A) = Among(u, A) /\ Among(t, B) = Append(Among(u, B), e)
  BY <1>1, AmongGrows
<1>. HIDE DEF t
<1>7. Counted(t, A, B)
  BY <1>1, <1>2, <1>4, <1>5, <1>6 DEF Counted
<1>8. InFrontOfBase(t, A, B)
  <2>1. ASSUME NEW i \in 1..Len(t), t[i] \in A
        PROVE  i < Len(t) /\ t[i + 1] \in B /\ ~BySmallestKey(t[i + 1], t[i])
    <3>1. i # Len(u) + 1
      BY <1>5, <2>1
    <3>2. CASE i = Len(s) + 1
      <4>1. i \in 1..Len(u) /\ i + 1 = Len(u) + 1
        BY <1>1, <3>2
      <4>2. t[i] = a
        BY <1>1, <1>5, <3>2, <4>1
      <4>3. t[i + 1] = e
        BY <1>5, <4>1
      <4>. QED
        BY <1>1, <1>5, <3>2, <4>2, <4>3
    <3>3. CASE i # Len(s) + 1
      <4>1. i \in 1..Len(s) /\ i \in 1..Len(u)
        BY <1>1, <1>5, <3>1, <3>3
      <4>2. t[i] = s[i]
        BY <1>1, <1>5, <4>1
      <4>3. i < Len(s) /\ s[i + 1] \in B /\ ~BySmallestKey(s[i + 1], s[i])
        BY <2>1, <4>1, <4>2 DEF InFrontOfBase
      <4>4. i + 1 \in 1..Len(s) /\ i + 1 \in 1..Len(u) /\ i < Len(t)
        BY <1>1, <1>5, <4>1, <4>3
      <4>5. t[i + 1] = s[i + 1]
        BY <1>1, <1>5, <4>4
      <4>. QED
        BY <4>2, <4>3, <4>4, <4>5
    <3>. QED
      BY <3>2, <3>3
  <2>. QED
    BY <2>1 DEF InFrontOfBase
<1>. QED
  BY <1>2, <1>3, <1>5, <1>6, <1>7, <1>8

LEMMA MergeStarts ==
  ASSUME Sources, BuilderInit
  PROVE  MergeInv
<1>1. /\ inputs.base = base /\ inputs.added = added /\ passed = << >>
      /\ Merged = << >> /\ ~saved
      /\ passed \in Seq(FileMetaData) /\ Len(passed) = 0
  BY DEF BuilderInit, Merged
<1>2. \A S : Among(passed, S) = << >>
  BY <1>1, AmongNone
<1>3. base \in Seq(FileMetaData) /\ added \in Seq(FileMetaData)
  BY DEF Sources
<1>4. << >> \o base = base /\ << >> \o added = added
  BY <1>3, ConcatEmptySeq
<1>5. \A S, T : Counted(passed, S, T) /\ InFrontOfBase(passed, S, T)
  BY <1>1, <1>2 DEF Counted, InFrontOfBase
<1>. QED
  BY <1>1, <1>2, <1>3, <1>4, <1>5 DEF MergeInv, Sources, Continued

LEMMA MergeStep ==
  ASSUME MergeInv, [BuilderNext]_builderVars
  PROVE  MergeInv'
<1>. DEFINE A == From(inputs.added)
            B == From(inputs.base)
<1>1. /\ base \in Seq(FileMetaData) /\ added \in Seq(FileMetaData)
      /\ passed \in Seq(FileMetaData) /\ Merged \in Seq(FileMetaData)
      /\ inputs.added \in Seq(FileMetaData)
      /\ inputs.base \in Seq(FileMetaData)
      /\ A \cap B = {} /\ From(base) \subseteq B /\ From(added) \subseteq A
      /\ Continued(Merged, B, base, inputs.base)
      /\ Counted(Merged, A, B)
      /\ InFrontOfBase(Merged, A, B)
      /\ saved => /\ base = << >> /\ added = << >>
                  /\ Len(passed) = Len(Merged) + 1
  BY DEF MergeInv
<1>2. PICK rest \in Seq(FileMetaData) :
             /\ Continued(Merged, A, rest, inputs.added)
             /\ base # << >> => rest = added
  BY DEF MergeInv
<1>. HIDE DEF A, B
<1>3. ASSUME inputs' = inputs,
             base' \in Seq(FileMetaData), added' \in Seq(FileMetaData),
             passed' \in Seq(FileMetaData), Merged' \in Seq(FileMetaData),
             From(base') \subseteq B, From(added') \subseteq A,
             Continued(Merged', B, base', inputs.base),
             NEW r \in Seq(FileMetaData),
             Continued(Merged', A, r, inputs.added),
             base' # << >> => r = added',
             Counted(Merged', A, B), InFrontOfBase(Merged', A, B),
             saved' => /\ base' = << >> /\ added' = << >>
                       /\ Len(passed') = Len(Merged') + 1
      PROVE  MergeInv'
  BY <1>1, <1>3 DEF MergeInv, A, B
<1>0. ASSUME BaseFirst \/ AddedFirst \/ AddedLost \/ RestOfBase
      PROVE  /\ ~saved /\ ~saved' /\ Merged = passed /\ Merged' = passed'
             /\ Continued(passed, B, base, inputs.base)
             /\ Continued(passed, A, rest, inputs.added)
             /\ Counted(passed, A, B)
             /\ InFrontOfBase(passed, A, B)
  <2>1. base # << >> \/ added # << >>
    BY <1>0 DEF BaseFirst, AddedFirst, AddedLost, RestOfBase
  <2>2. ~saved /\ ~saved'
    BY <1>0, <1>1, <2>1 DEF BaseFirst, AddedFirst, AddedLost, RestOfBase
  <2>3. Merged = passed /\ Merged' = passed'
    BY <2>2 DEF Merged
  <2>. QED
    BY <1>1, <1>2, <2>2, <2>3
<1>4. CASE BaseFirst \/ RestOfBase
  <2>0. /\ ~saved /\ ~saved' /\ Merged = passed /\ Merged' = passed'
        /\ Continued(passed, B, base, inputs.base)
        /\ Continued(passed, A, rest, inputs.added)
        /\ Counted(passed, A, B)
        /\ InFrontOfBase(passed, A, B)
    BY <1>0, <1>4
  <2>1. /\ base # << >> /\ passed' = Append(passed, Head(base))
        /\ base' = Tail(base) /\ UNCHANGED <<added, saved, inputs>>
    BY <1>4 DEF BaseFirst, RestOfBase, MaybeAddFile
  <2>. DEFINE e == Head(base)
  <2>2. /\ e \in FileMetaData /\ Tail(base) \in Seq(FileMetaData)
        /\ e \in From(base) /\ From(Tail(base)) \subseteq From(base)
        /\ \A q \in Seq(FileMetaData) : Append(q, e) \o Tail(base) = q \o base
    BY <1>1, <2>0, <2>1, FirstOf
  <2>. HIDE DEF e
  <2>3. e \in B /\ e \notin A
    BY <1>1, <2>0, <2>2
  <2>4. /\ Append(passed, e) \in Seq(FileMetaData)
        /\ Among(Append(passed, e), A) = Among(passed, A)
        /\ Among(Append(passed, e), B) = Append(Among(passed, B), e)
        /\ Counted(Append(passed, e), A, B)
        /\ InFrontOfBase(Append(passed, e), A, B)
    BY <1>1, <2>0, <2>2, <2>3, BasePassed
  <2>5. Continued(Append(passed, e), B, Tail(base), inputs.base)
    <3>1. Among(passed, B) \in Seq(FileMetaData)
      BY <1>1, <2>0, AmongType
    <3>. QED
      BY <1>1, <2>0, <2>2, <2>4, <3>1 DEF Continued
  <2>6. Continued(Append(passed, e), A, rest, inputs.added) /\ rest = added
    BY <1>2, <2>0, <2>1, <2>4 DEF Continued
  <2>7. ~saved
    BY <1>1, <2>0, <2>1
  <2>8. passed' = Append(passed, e)
    BY <2>1 DEF e
  <2>. QED
    BY <1>1, <2>0, <1>3, <2>1, <2>2, <2>4, <2>5, <2>6, <2>7, <2>8
<1>5. CASE AddedFirst
  <2>0. /\ ~saved /\ ~saved' /\ Merged = passed /\ Merged' = passed'
        /\ Continued(passed, B, base, inputs.base)
        /\ Continued(passed, A, rest, inputs.added)
        /\ Counted(passed, A, B)
        /\ InFrontOfBase(passed, A, B)
    BY <1>0, <1>5
  <2>1. /\ base # << >> /\ added # << >>
        /\ ~BySmallestKey(Head(base), Head(added))
        /\ passed' = passed \o <<Head(added), Head(base)>>
        /\ base' = Tail(base) /\ added' = Tail(added)
        /\ UNCHANGED <<saved, inputs>>
    BY <1>5 DEF AddedFirst
  <2>. DEFINE e == Head(base)
              a == Head(added)
              t == passed \o <<a, e>>
  <2>2. /\ e \in FileMetaData /\ Tail(base) \in Seq(FileMetaData)
        /\ e \in From(base) /\ From(Tail(base)) \subseteq From(base)
        /\ \A q \in Seq(FileMetaData) : Append(q, e) \o Tail(base) = q \o base
    BY <1>1, <2>0, <2>1, FirstOf
  <2>3. /\ a \in FileMetaData /\ Tail(added) \in Seq(FileMetaData)
        /\ a \in From(added) /\ From(Tail(added)) \subseteq From(added)
        /\ \A q \in Seq(FileMetaData) : Append(q, a) \o Tail(added) = q \o added
    BY <1>1, <2>0, <2>1, FirstOf
  <2>4. ~BySmallestKey(e, a) /\ passed' = t
    BY <2>1
  <2>. HIDE DEF e, a
  <2>5. e \in B /\ e \notin A /\ a \in A /\ a \notin B
    BY <1>1, <2>0, <2>2, <2>3
  <2>6. /\ t \in Seq(FileMetaData)
        /\ Among(t, A) = Append(Among(passed, A), a)
        /\ Among(t, B) = Append(Among(passed, B), e)
        /\ Counted(t, A, B)
        /\ InFrontOfBase(t, A, B)
    BY <1>1, <2>0, <2>2, <2>3, <2>4, <2>5, BothPassed
  <2>. HIDE DEF t
  <2>7. Among(passed, A) \in Seq(FileMetaData)
        /\ Among(passed, B) \in Seq(FileMetaData)
    BY <1>1, <2>0, AmongType
  <2>8. Continued(t, B, Tail(base), inputs.base)
    BY <1>1, <2>0, <2>2, <2>6, <2>7 DEF Continued
  <2>9. Continued(t, A, Tail(added), inputs.added)
    BY <1>2, <2>0, <2>1, <2>3, <2>6, <2>7 DEF Continued
  <2>10. ~saved
    BY <1>1, <2>0, <2>1
  <2>. QED
    BY <1>1, <2>0, <1>3, <2>1, <2>2, <2>3, <2>4, <2>6, <2>8, <2>9, <2>10
<1>6. CASE AddedLost
  <2>0. /\ ~saved /\ ~saved' /\ Merged = passed /\ Merged' = passed'
        /\ Continued(passed, B, base, inputs.base)
        /\ Continued(passed, A, rest, inputs.added)
        /\ Counted(passed, A, B)
        /\ InFrontOfBase(passed, A, B)
    BY <1>0, <1>6
  <2>1. /\ base = << >> /\ added # << >> /\ added' = Tail(added)
        /\ UNCHANGED <<base, saved, passed, inputs>>
    BY <1>6 DEF AddedLost
  <2>2. Tail(added) \in Seq(FileMetaData) /\ From(Tail(added)) \subseteq From(added)
    BY <1>1, <2>0, <2>1, FirstOf
  <2>. QED
    BY <1>1, <2>0, <1>2, <1>3, <2>1, <2>2
<1>7. CASE LastFile
  <2>1. PICK f \in Strays : passed' = Append(passed, f)
    BY <1>7 DEF LastFile, MaybeAddFile
  <2>2. /\ UNCHANGED <<base, added, inputs>> /\ ~saved /\ saved'
        /\ base = << >> /\ added = << >>
    BY <1>7 DEF LastFile
  <2>3. /\ passed' \in Seq(FileMetaData) /\ Len(passed') = Len(passed) + 1
        /\ Len(passed) \in Nat
    BY <1>1, <2>1, StrayAssumption, AppendProperties, LenProperties
  <2>4. SubSeq(passed', 1, Len(passed') - 1) = passed
    <3>1. /\ SubSeq(passed', 1, Len(passed)) = SubSeq(passed, 1, Len(passed))
          /\ SubSeq(passed, 1, Len(passed)) = passed
      BY <1>1, <2>1, <2>3
    <3>. QED
      BY <2>3, <3>1
  <2>5. Merged' = Merged /\ Merged = passed
    BY <2>2, <2>4 DEF Merged
  <2>. QED
    BY <1>1, <1>2, <1>3, <2>2, <2>3, <2>5
<1>8. CASE UNCHANGED builderVars
  <2>1. UNCHANGED <<base, added, saved, passed, inputs>>
    BY <1>8 DEF builderVars
  <2>2. Merged' = Merged
    BY <2>1 DEF Merged
  <2>. QED
    BY <1>1, <1>2, <1>3, <2>1, <2>2
<1>. QED
  BY <1>4, <1>5, <1>6, <1>7, <1>8 DEF BuilderNext

(* The loops of builderSaveToVersion pass every file of the base on, once  *)
(* and in its place among the others, however many files there are; of the *)
(* added files the first ones, in order and each in front of a file of the *)
(* base that is not below it; and nothing else but one stray file at the   *)
(* end.  The files need not even come sorted.                              *)
THEOREM BaseStays == BuilderSpec => []BaseIsKept
<1>1. Sources /\ BuilderInit => MergeInv
  BY MergeStarts
<1>2. MergeInv /\ [BuilderNext]_builderVars => MergeInv'
  BY MergeStep
<1>3. MergeInv => BaseIsKept
  <2>. SUFFICES ASSUME MergeInv, saved PROVE BaseIsKept
    BY DEF BaseIsKept
  <2>. DEFINE A == From(inputs.added)
              B == From(inputs.base)
              kept == Among(Merged, A)
              bases == Among(Merged, B)
  <2>1. /\ Merged \in Seq(FileMetaData) /\ Len(passed) = Len(Merged) + 1
        /\ inputs.added \in Seq(FileMetaData)
        /\ bases \o << >> = inputs.base
        /\ Len(Merged) = Len(kept) + Len(bases)
        /\ InFrontOfBase(Merged, A, B)
    BY DEF MergeInv, Continued, Counted
  <2>2. PICK rest \in Seq(FileMetaData) : kept \o rest = inputs.added
    BY DEF MergeInv, Continued
  <2>3. /\ kept \in Seq(FileMetaData) /\ bases \in Seq(FileMetaData)
        /\ Len(kept) \in Nat /\ Len(bases) \in Nat
    BY <2>1, AmongType
  <2>4. bases = inputs.base
    <3>. HIDE DEF bases
    <3>. QED
      BY <2>1, <2>3, ConcatEmptySeq
  <2>5. kept = SubSeq(inputs.added, 1, Len(kept))
    <3>. HIDE DEF kept
    <3>1. CASE Len(kept) = 0
      <4>1. SubSeq(inputs.added, 1, Len(kept)) = << >>
        BY <3>1, SubSeqEmpty
      <4>. QED
        BY <2>3, <3>1, <4>1, EmptySeq
    <3>2. CASE Len(kept) # 0
      <4>1. 1 \in 1..Len(kept) /\ Len(kept) \in 1..Len(kept)
        BY <2>3, <3>2
      <4>2. SubSeq(kept \o rest, 1, Len(kept)) = SubSeq(kept, 1, Len(kept))
        BY <2>2, <2>3, <4>1, SubSeqOfConcat1
      <4>. QED
        BY <2>2, <2>3, <4>2, SubSeqFull
    <3>. QED
      BY <3>1, <3>2
  <2>6. Len(Merged) = Len(inputs.base) + Len(kept)
    <3>. HIDE DEF kept, bases
    <3>. QED
      BY <2>1, <2>3, <2>4
  <2>7. \A i \in DOMAIN Merged : Merged[i] \in A =>
          /\ i < Len(Merged)
          /\ Merged[i + 1] \in B
          /\ ~BySmallestKey(Merged[i + 1], Merged[i])
    BY <2>1, LenProperties DEF InFrontOfBase
  <2>. QED
    BY <2>1, <2>4, <2>5, <2>6, <2>7 DEF BaseIsKept
<1>. QED
  BY <1>1, <1>2, <1>3, PTL DEF BuilderSpec

------------------------------------------------------------------------------
(***************************************************************************)
(* The level that is chosen.                                               *)
(***************************************************************************)

(* A function that starts from a and is multiplied by ten at each step.    *)
Tenfold(f, a) ==
  /\ f \in [Nat -> Nat \ {0}]
  /\ f[0] = a
  /\ \A i \in Nat : f[i + 1] = f[i] * 10

LEMMA TenfoldExists ==
  ASSUME NEW a \in Nat \ {0}
  PROVE  \E f : Tenfold(f, a)
<1>. DEFINE S == Nat \ {0}
            step == [x \in S \X (Nat \ {0}) |-> x[1] * 10]
<1>1. step \in [S \X (Nat \ {0}) -> S]
  OBVIOUS
<1>2. PICK f : Defines(f, Nat, S, a, step)
  <2>. HIDE DEF S, step
  <2>1. a \in S
    BY DEF S
  <2>. QED
    BY <1>1, <2>1, NatRecursion
<1>3. ASSUME NEW i \in Nat
      PROVE  f[i + 1] = f[i] * 10
  <2>1. i + 1 \in Nat \ {0} /\ (i + 1) - 1 = i
    OBVIOUS
  <2>2. f[i + 1] = step[<<f[(i + 1) - 1], i + 1>>]
    BY <1>2, <2>1 DEF Defines
  <2>3. <<f[i], i + 1>> \in S \X (Nat \ {0})
    BY <1>2, <2>1 DEF Defines
  <2>. QED
    BY <2>1, <2>2, <2>3
<1>. QED
  BY <1>2, <1>3 DEF Defines, Tenfold

(* What a function on the levels up to n does that repeats the loop of     *)
(* MaxBytesForLevel, and the limit of a level next to the one above it.    *)
Multiplies(f, n) ==
  f = [l \in 1..n |-> IF l = 1 THEN LevelBytes ELSE f[l - 1] * 10]

LEMMA MultipliesTenfold ==
  ASSUME NEW g, Tenfold(g, LevelBytes), NEW n \in Nat, NEW f, Multiplies(f, n)
  PROVE  \A l \in 1..n : f[l] = g[l - 1]
<1>. DEFINE T == {i \in Nat : i + 1 <= n => f[i + 1] = g[i]}
<1>1. 0 \in T
  BY DEF Tenfold, Multiplies
<1>2. ASSUME NEW i \in Nat, i \in T
      PROVE  i + 1 \in T
  <2>. SUFFICES ASSUME (i + 1) + 1 <= n
                PROVE  f[(i + 1) + 1] = g[i + 1]
    OBVIOUS
  <2>1. f[(i + 1) + 1] = f[i + 1] * 10
    BY DEF Multiplies
  <2>2. f[i + 1] = g[i]
    BY <1>2
  <2>. QED
    BY <2>1, <2>2 DEF Tenfold
<1>3. Nat \subseteq T
  <2>. HIDE DEF T
  <2>. QED
    BY <1>1, <1>2, Induction
<1>. QED
  <2>. SUFFICES ASSUME NEW l \in 1..n PROVE f[l] = g[l - 1]
    OBVIOUS
  <2>1. l - 1 \in T /\ (l - 1) + 1 = l
    BY <1>3
  <2>. QED
    BY <2>1

LEMMA MultipliesExists ==
  ASSUME NEW g, Tenfold(g, LevelBytes), NEW n \in Nat
  PROVE  \E f : Multiplies(f, n)
<1>. DEFINE f == [l \in 1..n |-> g[l - 1]]
<1>1. ASSUME NEW l \in 1..n
      PROVE  f[l] = IF l = 1 THEN LevelBytes ELSE f[l - 1] * 10
  <2>1. CASE l = 1
    BY <2>1 DEF Tenfold
  <2>2. CASE l # 1
    <3>1. l - 2 \in Nat /\ (l - 2) + 1 = l - 1 /\ l - 1 \in 1..n
          /\ (l - 1) - 1 = l - 2
      BY <2>2
    <3>2. g[l - 1] = g[l - 2] * 10
      BY <3>1 DEF Tenfold
    <3>. QED
      BY <2>2, <3>1, <3>2
  <2>. QED
    BY <2>1, <2>2
<1>2. Multiplies(f, n)
  BY <1>1 DEF Multiplies
<1>. QED
  BY <1>2

LEMMA MaxBytesProperties ==
  ASSUME NEW g, Tenfold(g, LevelBytes), NEW level \in Nat \ {0}
  PROVE  /\ MaxBytesForLevel(level) = g[level - 1]
         /\ MaxBytesForLevel(level) \in Nat \ {0}
<1>1. PICK f : Multiplies(f, level) /\ MaxBytesForLevel(level) = f[level]
  BY MultipliesExists DEF MaxBytesForLevel, Multiplies
<1>2. MaxBytesForLevel(level) = g[level - 1]
  BY <1>1, MultipliesTenfold
<1>3. level - 1 \in Nat
  OBVIOUS
<1>. QED
  BY <1>2, <1>3 DEF Tenfold

(* The bytes of a level are a number.                                      *)
LEMMA TotalFileSizeType ==
  ASSUME NEW sizes \in Seq(Nat)
  PROVE  TotalFileSize(sizes) \in Nat
<1>. DEFINE n == Len(sizes)
            step == [x \in Nat \X (1..n) |-> x[1] + sizes[x[2]]]
            Sums(f) == f = [i \in 0..n |->
                              IF i = 0 THEN 0 ELSE f[i - 1] + sizes[i]]
<1>1. n \in Nat /\ \A i \in 1..n : sizes[i] \in Nat
  BY LenProperties, ElementOfSeq
<1>2. step \in [Nat \X (1..n) -> Nat]
  BY <1>1
<1>3. PICK f : Defines(f, 0..n, Nat, 0, step)
  <2>. HIDE DEF step, n
  <2>. QED
    BY <1>1, <1>2, Recursion
<1>. HIDE DEF n
<1>4. Sums(f)
  <2>1. ASSUME NEW i \in 0..n
        PROVE  f[i] = IF i = 0 THEN 0 ELSE f[i - 1] + sizes[i]
    <3>1. i # 0 => <<f[i - 1], i>> \in Nat \X (1..n)
      BY <1>1, <1>3 DEF Defines
    <3>. QED
      BY <1>3, <3>1 DEF Defines
  <2>. QED
    BY <1>3, <2>1 DEF Defines
<1>5. PICK upto : Sums(upto) /\ TotalFileSize(sizes) = upto[n]
  BY <1>4 DEF TotalFileSize, n
<1>. DEFINE T == {i \in Nat : i <= n => upto[i] \in Nat}
<1>6. 0 \in T
  BY <1>1, <1>5
<1>7. ASSUME NEW i \in Nat, i \in T
      PROVE  i + 1 \in T
  <2>. SUFFICES ASSUME i + 1 <= n
                PROVE  upto[i + 1] \in Nat
    OBVIOUS
  <2>1. i + 1 \in 1..n /\ i + 1 \in 0..n /\ (i + 1) - 1 = i /\ i + 1 # 0
    BY <1>1
  <2>2. upto[i + 1] = upto[i] + sizes[i + 1]
    BY <1>5, <2>1
  <2>3. upto[i] \in Nat /\ sizes[i + 1] \in Nat
    BY <1>1, <1>7, <2>1
  <2>. QED
    BY <2>2, <2>3
<1>8. n \in T
  <2>. HIDE DEF T, Sums
  <2>. QED
    BY <1>1, <1>6, <1>7, Induction
<1>. QED
  BY <1>1, <1>5, <1>8
------------------------------------------------------------------------------
(***************************************************************************)
(* Fractions.                                                              *)
(***************************************************************************)

Fraction == Nat \X (Nat \ {0})

LEMMA Cancel ==
  ASSUME NEW x \in Int, NEW y \in Int, NEW d \in Nat \ {0}
  PROVE  /\ x * d > y * d => x > y
         /\ x > y => x * d > y * d
OBVIOUS

(* a is higher than b, and b is at least c.                                *)
LEMMA HigherIsTransitive ==
  ASSUME NEW a \in Fraction, NEW b \in Fraction, NEW c \in Fraction
  PROVE  /\ Higher(a, b) /\ ~Higher(c, b) => Higher(a, c)
         /\ ~Higher(b, a) /\ Higher(b, c) => Higher(a, c)
         /\ ~Higher(b, a) /\ ~Higher(c, b) => ~Higher(c, a)
         /\ Higher(a, b) => ~Higher(b, a)
<1>1. PICK p \in Nat, q \in Nat \ {0}, r \in Nat, s \in Nat \ {0},
           t \in Nat, u \in Nat \ {0} :
        /\ p = a[1] /\ q = a[2] /\ r = b[1] /\ s = b[2] /\ t = c[1] /\ u = c[2]
  BY DEF Fraction
<1>. DEFINE ps == p * s
            rq == r * q
            ru == r * u
            ts == t * s
            pu == p * u
            tq == t * q
<1>2. /\ ps \in Nat /\ rq \in Nat /\ ru \in Nat
      /\ ts \in Nat /\ pu \in Nat /\ tq \in Nat
  OBVIOUS
<1>3. ps * u = pu * s /\ rq * u = ru * q /\ ts * q = tq * s
  OBVIOUS
<1>4. /\ Higher(a, b) <=> ps > rq
      /\ Higher(b, a) <=> rq > ps
      /\ Higher(c, b) <=> ts > ru
      /\ Higher(b, c) <=> ru > ts
      /\ Higher(a, c) <=> pu > tq
      /\ Higher(c, a) <=> tq > pu
  BY <1>1 DEF Higher
<1>. HIDE DEF ps, rq, ru, ts, pu, tq
<1>5. /\ ps > rq <=> ps * u > rq * u
      /\ ts > ru <=> ts * q > ru * q
      /\ pu > tq <=> pu * s > tq * s
      /\ rq > ps <=> rq * u > ps * u
      /\ ru > ts <=> ru * q > ts * q
      /\ tq > pu <=> tq * s > pu * s
  BY <1>2, Cancel
<1>. DEFINE A == pu * s
            B == ru * q
            C == tq * s
<1>6. /\ ps > rq <=> A > B
      /\ ts > ru <=> C > B
      /\ pu > tq <=> A > C
      /\ rq > ps <=> B > A
      /\ ru > ts <=> B > C
      /\ tq > pu <=> C > A
      /\ A \in Nat /\ B \in Nat /\ C \in Nat
  BY <1>2, <1>3, <1>5
<1>. HIDE DEF A, B, C
<1>. QED
  BY <1>4, <1>6

LEMMA ScoreIsFraction ==
  ASSUME version \in Versions, NEW level \in Scored
  PROVE  /\ Score(level) \in Fraction
         /\ level \in Nat
         /\ Score(level)[2] = IF level = 0 THEN kL0_CompactionTrigger
                              ELSE MaxBytesForLevel(level)
         /\ Score(level)[1] = IF level = 0 THEN Len(version[0])
                              ELSE TotalFileSize(version[level])
<1>1. version[level] \in Seq(Nat) /\ version[0] \in Seq(Nat) /\ level \in Nat
  BY ScoreAssumption DEF Scored
<1>2. /\ Len(version[0]) \in Nat
      /\ TotalFileSize(version[level]) \in Nat
  BY <1>1, TotalFileSizeType, LenProperties
<1>3. level # 0 => MaxBytesForLevel(level) \in Nat \ {0}
  <2>1. PICK g : Tenfold(g, LevelBytes)
    BY ScoreAssumption, TenfoldExists
  <2>. QED
    BY <1>1, <2>1, MaxBytesProperties
<1>. QED
  BY <1>1, <1>2, <1>3, ScoreAssumption DEF Score, Fraction
------------------------------------------------------------------------------
(***************************************************************************)
(* The loop over the levels.                                               *)
(***************************************************************************)

(* best is the first of the levels up to i with the highest score.         *)
FirstHighest(best, i) ==
  /\ best \in 0..i
  /\ \A l \in 0..i : /\ ~Higher(Score(l), Score(best))
                     /\ l < best => Higher(Score(best), Score(l))

LEMMA BestLevelProperties ==
  ASSUME version \in Versions
  PROVE  FirstHighest(BestLevel, kNumLevels - 2)
<1>. DEFINE n == kNumLevels - 2
            Loops(f) == f = [level \in Scored |->
                 IF level = 0 THEN 0
                 ELSE IF Higher(Score(level), Score(f[level - 1])) THEN level
                      ELSE f[level - 1]]
<1>1. n \in Nat /\ Scored = 0..n
  BY ScoreAssumption DEF Scored
<1>2. \E f : Loops(f)
  <2>. DEFINE step == [x \in Nat \X (1..n) |->
                IF Higher(Score(x[2]), Score(x[1])) THEN x[2] ELSE x[1]]
  <2>. HIDE DEF n
  <2>1. step \in [Nat \X (1..n) -> Nat]
    BY <1>1
  <2>2. PICK f : Defines(f, 0..n, Nat, 0, step)
    <3>. HIDE DEF step
    <3>. QED
      BY <1>1, <2>1, Recursion
  <2>3. ASSUME NEW i \in 0..n
        PROVE  f[i] = IF i = 0 THEN 0
                      ELSE IF Higher(Score(i), Score(f[i - 1])) THEN i
                           ELSE f[i - 1]
    <3>1. i # 0 => <<f[i - 1], i>> \in Nat \X (1..n)
      BY <1>1, <2>2 DEF Defines
    <3>. QED
      BY <2>2, <3>1 DEF Defines
  <2>. QED
    BY <1>1, <2>2, <2>3 DEF Defines
<1>3. PICK best : Loops(best) /\ BestLevel = best[n]
  BY <1>2 DEF BestLevel
<1>4. \A i \in 0..n : best[i] =
        IF i = 0 THEN 0
        ELSE IF Higher(Score(i), Score(best[i - 1])) THEN i ELSE best[i - 1]
  BY <1>1, <1>3
<1>. HIDE DEF n, Loops
<1>5. \A l \in 0..n : Score(l) \in Fraction
  BY <1>1, ScoreIsFraction
<1>. DEFINE T == {i \in Nat : i <= n => FirstHighest(best[i], i)}
<1>6. 0 \in T
  <2>. SUFFICES FirstHighest(best[0], 0)
    OBVIOUS
  <2>1. best[0] = 0
    BY <1>1, <1>4
  <2>2. Score(0) \in Fraction
    BY <1>1, <1>5
  <2>. QED
    BY <2>1, <2>2, HigherIsTransitive DEF FirstHighest
<1>7. ASSUME NEW i \in Nat, i \in T
      PROVE  i + 1 \in T
  <2>. SUFFICES ASSUME i + 1 <= n
                PROVE  FirstHighest(best[i + 1], i + 1)
    OBVIOUS
  <2>1. FirstHighest(best[i], i)
    BY <1>1, <1>7
  <2>2. best[i + 1] = IF Higher(Score(i + 1), Score(best[i])) THEN i + 1
                      ELSE best[i]
    <3>1. i + 1 \in 0..n /\ i + 1 # 0 /\ (i + 1) - 1 = i
      BY <1>1
    <3>. QED
      BY <1>4, <3>1
  <2>3. best[i] \in 0..i /\ i + 1 \in 0..n
    BY <1>1, <2>1 DEF FirstHighest
  <2>4. /\ Score(best[i]) \in Fraction /\ Score(i + 1) \in Fraction
        /\ \A l \in 0..i : Score(l) \in Fraction
    BY <1>1, <1>5, <2>3
  <2>5. CASE Higher(Score(i + 1), Score(best[i]))
    <3>1. ASSUME NEW l \in 0..i
          PROVE  Higher(Score(i + 1), Score(l)) /\ ~Higher(Score(l), Score(i + 1))
      BY <2>1, <2>4, <2>5, HigherIsTransitive DEF FirstHighest
    <3>2. ~Higher(Score(i + 1), Score(i + 1))
      BY <2>4, HigherIsTransitive
    <3>. QED
      BY <2>2, <2>5, <3>1, <3>2 DEF FirstHighest
  <2>6. CASE ~Higher(Score(i + 1), Score(best[i]))
    <3>1. best[i + 1] = best[i]
      BY <2>2, <2>6
    <3>2. best[i] \in 0..(i + 1) /\ ~(i + 1 < best[i])
      BY <2>3
    <3>3. \A l \in 0..(i + 1) : l \in 0..i \/ l = i + 1
      OBVIOUS
    <3>. QED
      BY <2>1, <2>6, <3>1, <3>2, <3>3 DEF FirstHighest
  <2>. QED
    BY <2>5, <2>6
<1>8. n \in T
  <2>. HIDE DEF T
  <2>. QED
    BY <1>1, <1>6, <1>7, Induction
<1>. QED
  BY <1>1, <1>3, <1>8 DEF n
------------------------------------------------------------------------------
(***************************************************************************)
(* The version that is scored.                                             *)
(***************************************************************************)

IsScored ==
  /\ version \in Versions
  /\ compaction_level # -1 =>
       compaction_level = BestLevel /\ compaction_score = Score(BestLevel)

LEMMA ScoredOnce == ScoreSpec => []IsScored
<1>1. ScoreInit => IsScored
  BY DEF ScoreInit, IsScored
<1>2. IsScored /\ [FinalizeVersion]_scoreVars => IsScored'
  <2>. SUFFICES ASSUME IsScored, [FinalizeVersion]_scoreVars PROVE IsScored'
    OBVIOUS
  <2>1. version' = version
    BY DEF FinalizeVersion, scoreVars
  <2>2. \A level : Score(level)' = Score(level)
    BY <2>1 DEF Score
  <2>3. BestLevel' = BestLevel
    BY <2>1 DEF BestLevel, Score
  <2>4. CASE FinalizeVersion
    BY <2>1, <2>2, <2>3, <2>4 DEF FinalizeVersion, IsScored
  <2>5. CASE UNCHANGED scoreVars
    BY <2>1, <2>2, <2>3, <2>5 DEF scoreVars, IsScored
  <2>. QED
    BY <2>4, <2>5
<1>. QED
  BY <1>1, <1>2, PTL DEF ScoreSpec

(* The level chosen is the first with the highest score                    *)
(* (versionSet.c:82-115).                                                  *)
THEOREM ChoosesFirstOfTheHighest == ScoreSpec => []FirstOfTheHighest
<1>1. IsScored => FirstOfTheHighest
  <2>. SUFFICES ASSUME IsScored, compaction_level # -1, NEW level \in Scored
                PROVE  LET mine == compaction_score[1] * Score(level)[2]
                           other == Score(level)[1] * compaction_score[2]
                       IN  /\ mine >= other
                           /\ level < compaction_level => mine > other
    BY DEF FirstOfTheHighest
  <2>1. /\ version \in Versions
        /\ compaction_level = BestLevel
        /\ compaction_score = Score(BestLevel)
    BY DEF IsScored
  <2>2. FirstHighest(BestLevel, kNumLevels - 2)
    BY <2>1, BestLevelProperties
  <2>3. BestLevel \in Scored
    BY <2>2 DEF FirstHighest, Scored
  <2>. DEFINE best == BestLevel
              mine == Score(best)[1] * Score(level)[2]
              other == Score(level)[1] * Score(best)[2]
  <2>4. ~(other > mine) /\ (level < best => mine > other)
    BY <2>2 DEF FirstHighest, Higher, Scored
  <2>. HIDE DEF best
  <2>5. mine \in Nat /\ other \in Nat
    <3>1. Score(best) \in Fraction /\ Score(level) \in Fraction
      BY <2>1, <2>3, ScoreIsFraction DEF best
    <3>2. /\ Score(best)[1] \in Nat /\ Score(best)[2] \in Nat
          /\ Score(level)[1] \in Nat /\ Score(level)[2] \in Nat
      BY <3>1 DEF Fraction
    <3>. QED
      BY <3>2
  <2>. HIDE DEF mine, other
  <2>6. mine >= other
    BY <2>4, <2>5
  <2>. QED
    BY <2>1, <2>4, <2>6 DEF mine, other, best
<1>. QED
  BY <1>1, ScoredOnce, PTL

(* The score asks for a compaction just when some level is full            *)
(* (versionSet.c:60-74, 116).                                              *)
THEOREM CompactsFullLevels == ScoreSpec => []CompactsWhatIsFull
<1>. DEFINE Limits(f) ==
       f = [level \in Scored \ {0} |->
              IF level = 1 THEN LevelBytes ELSE 10 * f[level - 1]]
<1>1. PICK g : Tenfold(g, LevelBytes)
  BY ScoreAssumption, TenfoldExists
<1>2. kNumLevels - 2 \in Nat /\ Scored \ {0} = 1..(kNumLevels - 2)
  BY ScoreAssumption DEF Scored
<1>3. \E f : Limits(f)
  <2>1. PICK f : Multiplies(f, kNumLevels - 2)
    BY <1>1, <1>2, MultipliesExists
  <2>2. \A l \in 1..(kNumLevels - 2) : f[l] = g[l - 1]
    BY <1>1, <1>2, <2>1, MultipliesTenfold
  <2>3. \A l \in 1..(kNumLevels - 2) : l # 1 => f[l - 1] * 10 = 10 * f[l - 1]
    BY <1>1, <1>2, <2>2 DEF Tenfold
  <2>4. f = [l \in 1..(kNumLevels - 2) |->
              IF l = 1 THEN LevelBytes ELSE 10 * f[l - 1]]
    BY <2>1, <2>3, Zenon DEF Multiplies
  <2>. QED
    BY <1>2, <2>4
<1>4. ASSUME NEW lim, Limits(lim)
      PROVE  \A level \in Scored \ {0} : lim[level] = MaxBytesForLevel(level)
  <2>. DEFINE T == {i \in Nat : i + 1 <= kNumLevels - 2 => lim[i + 1] = g[i]}
  <2>1. 0 \in T
    <3>1. 0 + 1 <= kNumLevels - 2 => 1 \in Scored \ {0}
      BY <1>2
    <3>2. 1 \in Scored \ {0} => lim[1] = LevelBytes
      BY <1>4
    <3>3. g[0] = LevelBytes
      BY <1>1 DEF Tenfold
    <3>. QED
      BY <3>1, <3>2, <3>3
  <2>2. ASSUME NEW i \in Nat, i \in T
        PROVE  i + 1 \in T
    <3>. SUFFICES ASSUME (i + 1) + 1 <= kNumLevels - 2
                  PROVE  lim[(i + 1) + 1] = g[i + 1]
      OBVIOUS
    <3>. DEFINE l == (i + 1) + 1
    <3>3. l \in Scored \ {0} /\ l # 1 /\ l - 1 = i + 1
      BY <1>2
    <3>. HIDE DEF l
    <3>4. lim[l] = 10 * lim[l - 1]
      BY <1>4, <3>3
    <3>1. lim[(i + 1) + 1] = 10 * lim[i + 1]
      BY <3>3, <3>4 DEF l
    <3>2. lim[i + 1] = g[i]
      BY <1>2, <2>2
    <3>. QED
      BY <1>1, <3>1, <3>2 DEF Tenfold
  <2>3. Nat \subseteq T
    <3>. HIDE DEF T
    <3>. QED
      BY <2>1, <2>2, Induction
  <2>. SUFFICES ASSUME NEW level \in Scored \ {0}
                PROVE  lim[level] = MaxBytesForLevel(level)
    OBVIOUS
  <2>4. level \in Nat \ {0} /\ level - 1 \in T /\ (level - 1) + 1 = level
        /\ level <= kNumLevels - 2
    BY <1>2, <2>3
  <2>. QED
    BY <1>1, <2>4, MaxBytesProperties
<1>5. IsScored => CompactsWhatIsFull
  <2>. SUFFICES ASSUME IsScored, compaction_level # -1,
                       NEW lim, Limits(lim)
                PROVE  compaction_score[1] > compaction_score[2] <=>
                         \/ Len(version[0]) > kL0_CompactionTrigger
                         \/ \E level \in Scored \ {0} :
                              TotalFileSize(version[level]) > lim[level]
    BY <1>3 DEF CompactsWhatIsFull
  <2>. DEFINE Full(level) == Score(level)[1] > Score(level)[2]
  <2>1. /\ version \in Versions
        /\ compaction_score = Score(BestLevel)
    BY DEF IsScored
  <2>2. FirstHighest(BestLevel, kNumLevels - 2)
    BY <2>1, BestLevelProperties
  <2>3. BestLevel \in Scored /\ 0 \in Scored
    BY <1>2, <2>2 DEF FirstHighest, Scored
  <2>4. /\ Full(0) <=> Len(version[0]) > kL0_CompactionTrigger
        /\ \A level \in Scored \ {0} :
             Full(level) <=> TotalFileSize(version[level]) > lim[level]
    <3>1. \A level \in Scored \ {0} :
            /\ Score(level)[1] = TotalFileSize(version[level])
            /\ Score(level)[2] = MaxBytesForLevel(level)
      BY <2>1, ScoreIsFraction
    <3>2. \A level \in Scored \ {0} :
            Score(level)[1] = TotalFileSize(version[level])
              /\ Score(level)[2] = lim[level]
      BY <1>4, <3>1
    <3>3. /\ Score(0)[1] = Len(version[0])
          /\ Score(0)[2] = kL0_CompactionTrigger
      BY <2>1, <2>3, ScoreIsFraction
    <3>. QED
      BY <3>2, <3>3
  <2>5. ASSUME NEW level \in Scored, Full(level)
        PROVE  Full(BestLevel)
    <3>. DEFINE best == BestLevel
    <3>1. ~Higher(Score(level), Score(best))
      BY <2>2 DEF FirstHighest, Scored
    <3>. HIDE DEF best
    <3>2. PICK p \in Nat, q \in Nat \ {0}, r \in Nat, s \in Nat \ {0} :
            /\ p = Score(level)[1] /\ q = Score(level)[2]
            /\ r = Score(best)[1] /\ s = Score(best)[2]
      BY <2>1, <2>3, ScoreIsFraction DEF Fraction, best
    <3>3. ~(p * s > r * q) /\ p > q
      BY <2>5, <3>1, <3>2 DEF Higher
    <3>4. r > s
      <4>1. p * s > q * s
        BY <3>2, <3>3, Cancel
      <4>2. r * q > s * q
        <5>1. q * s = s * q /\ p * s \in Nat /\ r * q \in Nat /\ s * q \in Nat
          OBVIOUS
        <5>. QED
          BY <3>3, <4>1, <5>1
      <4>. QED
        BY <4>2, Cancel
    <3>. QED
      BY <3>2, <3>4 DEF best
  <2>. QED
    BY <2>1, <2>3, <2>4, <2>5
<1>. QED
  BY <1>5, ScoredOnce, PTL

------------------------------------------------------------------------------
(***************************************************************************)
(* The order of keys.                                                      *)
(***************************************************************************)

LEMMA KeyLength ==
  ASSUME NEW a \in Seq(Byte)
  PROVE  /\ Len(a) \in Nat
         /\ DOMAIN a = 1..Len(a)
         /\ \A i \in 1..Len(a) : a[i] \in 0..MaxByte /\ a[i] \in Int
<1>1. Len(a) \in Nat /\ DOMAIN a = 1..Len(a) /\ a \in [1..Len(a) -> Byte]
  BY LenProperties
<1>. QED
  BY <1>1, ByteAssumption DEF Byte

LEMMA MinLenProperties ==
  ASSUME NEW a \in Seq(Byte), NEW b \in Seq(Byte)
  PROVE  /\ MinLen(a, b) \in Nat
         /\ MinLen(a, b) <= Len(a) /\ MinLen(a, b) <= Len(b)
         /\ MinLen(a, b) \in {Len(a), Len(b)}
         /\ MinLen(a, b) = MinLen(b, a)
BY KeyLength DEF MinLen

(* What DiffIndex chooses: two keys have one first place where they part.  *)
Parts(a, b, i) ==
  /\ i \in 1..(MinLen(a, b) + 1)
  /\ i <= MinLen(a, b) => a[i] # b[i]
  /\ \A j \in 1..(i - 1) : a[j] = b[j]

LEMMA DiffIndexParts ==
  ASSUME NEW a \in Seq(Byte), NEW b \in Seq(Byte)
  PROVE  /\ Parts(a, b, DiffIndex(a, b))
         /\ \A i : Parts(a, b, i) => i = DiffIndex(a, b)
<1>. DEFINE T == {i \in 1..(MinLen(a, b) + 1) :
                    i <= MinLen(a, b) => a[i] # b[i]}
<1>1. MinLen(a, b) \in Nat
  BY MinLenProperties
<1>2. MinLen(a, b) + 1 \in T
  BY <1>1
<1>3. PICK i \in T : \A j \in T : i <= j
  <2>1. T \subseteq Nat /\ T # {}
    BY <1>1, <1>2
  <2>. HIDE DEF T
  <2>. QED
    BY <2>1, LeastElement
<1>4. ASSUME NEW j \in 1..(i - 1)
      PROVE  a[j] = b[j]
  <2>1. j \in 1..(MinLen(a, b) + 1) /\ j <= MinLen(a, b) /\ j < i
    BY <1>1
  <2>. QED
    BY <1>1, <1>3, <2>1
<1>5. Parts(a, b, i)
  BY <1>3, <1>4 DEF Parts
<1>6. Parts(a, b, DiffIndex(a, b))
  BY <1>5 DEF Parts, DiffIndex
<1>7. ASSUME NEW j \in Int, NEW k \in Int,
             Parts(a, b, j), Parts(a, b, k)
      PROVE  ~(j < k)
  <2>. SUFFICES ASSUME j < k PROVE FALSE
    OBVIOUS
  <2>1. j \in 1..(k - 1) /\ j <= MinLen(a, b)
    BY <1>1, <1>7 DEF Parts
  <2>. QED
    BY <1>7, <2>1 DEF Parts
<1>8. ASSUME NEW j, Parts(a, b, j)
      PROVE  j = DiffIndex(a, b)
  <2>. DEFINE d == DiffIndex(a, b)
  <2>1. j \in Int /\ d \in Int
    BY <1>1, <1>6, <1>8 DEF Parts
  <2>. HIDE DEF d
  <2>2. ~(j < d) /\ ~(d < j)
    BY <1>6, <1>7, <1>8, <2>1 DEF d
  <2>. QED
    BY <2>1, <2>2 DEF d
<1>. QED
  BY <1>6, <1>8

LEMMA SignProperties ==
  ASSUME NEW n \in Int
  PROVE  /\ Sign(n) \in {-1, 0, 1}
         /\ Sign(n) < 0 <=> n < 0
         /\ Sign(n) = 0 <=> n = 0
         /\ Sign(-n) = -Sign(n)
BY DEF Sign

(* a is below b: it has a smaller byte where they part, or ends there.     *)
Below(a, b) ==
  \E i \in 1..Len(b) :
    /\ i <= Len(a) + 1
    /\ \A j \in 1..(i - 1) : a[j] = b[j]
    /\ i <= Len(a) => a[i] < b[i]

LEMMA CompareProperties ==
  ASSUME NEW a \in Seq(Byte), NEW b \in Seq(Byte)
  PROVE  /\ Compare(a, b) \in {-1, 0, 1}
         /\ Compare(a, b) = -Compare(b, a)
         /\ Compare(a, b) = 0 <=> a = b
         /\ Compare(a, b) < 0 <=> Below(a, b)
<1>. DEFINE i == DiffIndex(a, b)
            m == MinLen(a, b)
<1>1. /\ Parts(a, b, i)
      /\ i \in 1..(m + 1)
      /\ m \in Nat /\ m <= Len(a) /\ m <= Len(b) /\ m \in {Len(a), Len(b)}
      /\ Len(a) \in Nat /\ Len(b) \in Nat
      /\ m = MinLen(b, a)
  BY DiffIndexParts, MinLenProperties, KeyLength DEF Parts
<1>2. /\ i <= m => a[i] # b[i]
      /\ \A j \in 1..(i - 1) : a[j] = b[j]
  BY <1>1 DEF Parts
<1>3. i = DiffIndex(b, a)
  <2>1. Parts(b, a, i)
    BY <1>1, <1>2 DEF Parts
  <2>. QED
    BY <2>1, DiffIndexParts
<1>4. i <= m => a[i] \in Int /\ b[i] \in Int
  <2>1. i <= m => i \in 1..Len(a) /\ i \in 1..Len(b)
    BY <1>1
  <2>. QED
    BY <2>1, KeyLength
<1>5. /\ Compare(a, b) = IF i <= m THEN Sign(a[i] - b[i])
                                   ELSE Sign(Len(a) - Len(b))
      /\ Compare(b, a) = IF i <= m THEN Sign(b[i] - a[i])
                                   ELSE Sign(Len(b) - Len(a))
  BY <1>1, <1>3 DEF Compare
<1>. DEFINE d == IF i <= m THEN a[i] - b[i] ELSE Len(a) - Len(b)
<1>6. Compare(a, b) = Sign(d) /\ Compare(b, a) = Sign(-d) /\ d \in Int
  BY <1>1, <1>4, <1>5
<1>. HIDE DEF i, m, d
<1>7. Compare(a, b) \in {-1, 0, 1} /\ Compare(a, b) = -Compare(b, a)
  BY <1>6, SignProperties
<1>8. ASSUME Compare(a, b) = 0
      PROVE  a = b
  <2>. d = 0
    BY <1>6, <1>8, SignProperties
  <2>1. i > m /\ Len(a) = Len(b)
    BY <1>1, <1>2, <1>4 DEF d
  <2>2. \A j \in 1..Len(a) : a[j] = b[j]
    BY <1>1, <1>2, <2>1
  <2>. QED
    BY <2>1, <2>2, SeqEqual
<1>9. ASSUME a = b
      PROVE  Compare(a, b) = 0
  <2>1. d = 0
    BY <1>1, <1>2, <1>4, <1>9 DEF d
  <2>. QED
    BY <1>6, <2>1, SignProperties
<1>10. ASSUME Compare(a, b) < 0
      PROVE  Below(a, b)
  <2>1. CASE i <= m
    <3>1. a[i] < b[i]
      BY <1>4, <1>6, <1>10, <2>1, SignProperties DEF d
    <3>. QED
      BY <1>1, <1>2, <2>1, <3>1 DEF Below
  <2>2. CASE i > m
    <3>1. d < 0
      BY <1>6, <1>10, SignProperties
    <3>2. Len(a) < Len(b)
      BY <1>1, <2>2, <3>1 DEF d
    <3>3. i = Len(a) + 1
      BY <1>1, <2>2, <3>2
    <3>. QED
      BY <1>1, <1>2, <3>2, <3>3 DEF Below
  <2>. QED
    BY <1>1, <2>1, <2>2
<1>11. ASSUME Below(a, b)
       PROVE  Compare(a, b) < 0
  <2>1. PICK k \in 1..Len(b) : /\ k <= Len(a) + 1
                               /\ \A j \in 1..(k - 1) : a[j] = b[j]
                               /\ k <= Len(a) => a[k] < b[k]
    BY <1>11 DEF Below
  <2>2. k \in 1..(m + 1)
    BY <1>1, <2>1
  <2>3. k <= m => a[k] \in Int /\ b[k] \in Int /\ a[k] < b[k]
    BY <1>1, <2>1, KeyLength
  <2>4. k = i
    <3>1. Parts(a, b, k)
      BY <2>1, <2>2, <2>3 DEF Parts, m
    <3>. QED
      BY <3>1, DiffIndexParts DEF i
  <2>5. CASE i <= m
    <3>1. d < 0
      BY <1>4, <2>3, <2>4, <2>5 DEF d
    <3>. QED
      BY <1>6, <3>1, SignProperties
  <2>6. CASE i > m
    <3>1. Len(a) < Len(b)
      BY <1>1, <2>1, <2>2, <2>4, <2>6
    <3>. QED
      BY <1>1, <1>6, <2>6, <3>1, SignProperties DEF d
  <2>. QED
    BY <1>1, <2>5, <2>6
<1>. QED
  BY <1>7, <1>8, <1>9, <1>10, <1>11

LEMMA NotAboveProperties ==
  ASSUME NEW a \in Seq(Byte), NEW b \in Seq(Byte)
  PROVE  NotAbove(a, b) <=> (Below(a, b) \/ a = b)
BY CompareProperties DEF NotAbove

LEMMA BelowIsTransitive ==
  ASSUME NEW a \in Seq(Byte), NEW b \in Seq(Byte), NEW c \in Seq(Byte),
         Below(a, b), Below(b, c)
  PROVE  Below(a, c)
<1>1. PICK i \in 1..Len(b) : /\ i <= Len(a) + 1
                             /\ \A j \in 1..(i - 1) : a[j] = b[j]
                             /\ i <= Len(a) => a[i] < b[i]
  BY DEF Below
<1>2. PICK k \in 1..Len(c) : /\ k <= Len(b) + 1
                             /\ \A j \in 1..(k - 1) : b[j] = c[j]
                             /\ k <= Len(b) => b[k] < c[k]
  BY DEF Below
<1>3. Len(a) \in Nat /\ Len(b) \in Nat /\ Len(c) \in Nat
  BY KeyLength
<1>4. CASE i < k
  <2>1. i \in 1..Len(c) /\ b[i] = c[i]
    BY <1>2, <1>3, <1>4
  <2>2. \A j \in 1..(i - 1) : a[j] = c[j]
    BY <1>1, <1>2, <1>3, <1>4
  <2>. QED
    BY <1>1, <2>1, <2>2 DEF Below
<1>5. CASE k < i
  <2>1. k <= Len(a) /\ a[k] = b[k] /\ b[k] < c[k]
    BY <1>1, <1>2, <1>3, <1>5
  <2>2. \A j \in 1..(k - 1) : a[j] = c[j]
    BY <1>1, <1>2, <1>3, <1>5
  <2>. QED
    BY <1>2, <1>3, <2>1, <2>2 DEF Below
<1>6. CASE k = i
  <2>1. i <= Len(a) => a[i] < c[i]
    <3>. SUFFICES ASSUME i <= Len(a) PROVE a[i] < c[i]
      OBVIOUS
    <3>1. a[i] < b[i] /\ b[i] < c[i]
      BY <1>1, <1>2, <1>6
    <3>2. a[i] \in Int /\ b[i] \in Int /\ c[i] \in Int
      BY <1>1, <1>2, <1>3, <1>6, KeyLength
    <3>. QED
      BY <3>1, <3>2
  <2>2. \A j \in 1..(i - 1) : a[j] = c[j]
    BY <1>1, <1>2, <1>6
  <2>. QED
    BY <1>1, <1>2, <1>6, <2>1, <2>2 DEF Below
<1>. QED
  BY <1>4, <1>5, <1>6
------------------------------------------------------------------------------
(***************************************************************************)
(* Shortening.                                                             *)
(***************************************************************************)

LEMMA BumpProperties ==
  ASSUME NEW key \in Seq(Byte), NEW i \in 1..Len(key), key[i] < MaxByte
  PROVE  /\ Bump(key, i) \in Seq(Byte)
         /\ Len(Bump(key, i)) = i
         /\ \A j \in 1..(i - 1) : Bump(key, i)[j] = key[j]
         /\ Bump(key, i)[i] = key[i] + 1
         /\ Below(key, Bump(key, i))
<1>. DEFINE prefix == SubSeq(key, 1, i - 1)
<1>1. Len(key) \in Nat /\ \A j \in 1..Len(key) : key[j] \in Byte
  BY KeyLength, ElementOfSeq
<1>2. /\ prefix \in Seq(Byte)
      /\ Len(prefix) = i - 1
      /\ \A j \in 1..(i - 1) : prefix[j] = key[j]
  BY <1>1, SubSeqProperties
<1>3. key[i] + 1 \in Byte
  BY <1>1, ByteAssumption DEF Byte
<1>4. Bump(key, i) = Append(prefix, key[i] + 1)
  BY DEF Bump
<1>. HIDE DEF prefix
<1>5. /\ Bump(key, i) \in Seq(Byte)
      /\ Len(Bump(key, i)) = i
      /\ \A j \in 1..(i - 1) : Bump(key, i)[j] = key[j]
      /\ Bump(key, i)[i] = key[i] + 1
  BY <1>2, <1>3, <1>4, AppendProperties
<1>6. key[i] < key[i] + 1
  BY <1>1 DEF Byte
<1>7. Below(key, Bump(key, i))
  BY <1>1, <1>5, <1>6 DEF Below
<1>. QED
  BY <1>5, <1>7

(* A plain char is not above the byte it is read from.                     *)
LEMMA CharProperties ==
  ASSUME NEW byte \in Byte, NEW signed \in BOOLEAN
  PROVE  Char(byte, signed) \in Int /\ Char(byte, signed) <= byte
BY ByteAssumption DEF Char, Byte

LEMMA SeparatorProperties ==
  ASSUME NEW a \in Seq(Byte), NEW b \in Seq(Byte), NEW signed \in BOOLEAN
  PROVE  LET s == FindShortestSeparator(a, b, signed)
         IN  /\ s \in Seq(Byte)
             /\ Len(s) <= Len(a)
             /\ IF Compare(a, b) < 0
                THEN NotAbove(a, s) /\ Compare(s, b) < 0
                ELSE s = a
<1>. DEFINE s == FindShortestSeparator(a, b, signed)
            i == DiffIndex(a, b)
<1>1. Len(a) \in Nat /\ Len(b) \in Nat
  BY KeyLength
<1>2. /\ i \in 1..(MinLen(a, b) + 1)
      /\ \A j \in 1..(i - 1) : a[j] = b[j]
  BY DiffIndexParts DEF Parts
<1>3. CASE s = a
  BY <1>1, <1>3, NotAboveProperties
<1>4. CASE s # a
  <2>1. /\ i <= MinLen(a, b)
        /\ a[i] < MaxByte
        /\ a[i] + 1 < Char(b[i], signed)
        /\ s = Bump(a, i)
    BY <1>4 DEF FindShortestSeparator
  <2>2. i \in 1..Len(a) /\ i \in 1..Len(b)
    BY <1>1, <1>2, <2>1, MinLenProperties
  <2>3. a[i] \in Int /\ b[i] \in Byte /\ b[i] \in Int
    BY <2>2, KeyLength, ElementOfSeq
  <2>4. a[i] + 1 < b[i]
    BY <2>1, <2>3, CharProperties
  <2>. HIDE DEF s, i
  <2>5. /\ s \in Seq(Byte)
        /\ Len(s) = i
        /\ \A j \in 1..(i - 1) : s[j] = a[j]
        /\ s[i] = a[i] + 1
        /\ Below(a, s)
    BY <2>1, <2>2, BumpProperties
  <2>6. Below(s, b)
    BY <1>2, <2>2, <2>4, <2>5 DEF Below
  <2>7. Below(a, b)
    BY <2>5, <2>6, BelowIsTransitive
  <2>8. Compare(a, b) < 0 /\ NotAbove(a, s) /\ Compare(s, b) < 0
    BY <2>5, <2>6, <2>7, CompareProperties, NotAboveProperties
  <2>. QED
    BY <2>2, <2>5, <2>8 DEF s
<1>. QED
  BY <1>3, <1>4

LEMMA SuccessorProperties ==
  ASSUME NEW key \in Seq(Byte)
  PROVE  LET s == FindShortSuccessor(key)
         IN  /\ s \in Seq(Byte)
             /\ NotAbove(key, s)
             /\ Len(s) <= Len(key)
             /\ s = key => \A i \in DOMAIN key : key[i] = MaxByte
<1>. DEFINE s == FindShortSuccessor(key)
            T == {i \in DOMAIN key : key[i] # MaxByte}
<1>1. /\ Len(key) \in Nat
      /\ DOMAIN key = 1..Len(key)
      /\ \A i \in 1..Len(key) : key[i] \in 0..MaxByte
  BY KeyLength
<1>2. CASE T = {}
  BY <1>1, <1>2, NotAboveProperties DEF FindShortSuccessor
<1>3. CASE T # {}
  <2>. DEFINE First(i) == /\ i \in DOMAIN key
                          /\ key[i] # MaxByte
                          /\ \A j \in 1..(i - 1) : key[j] = MaxByte
  <2>1. PICK n \in T : \A j \in T : n <= j
    <3>1. T \subseteq Nat
      BY <1>1
    <3>. HIDE DEF T
    <3>. QED
      BY <1>3, <3>1, LeastElement
  <2>2. First(n)
    <3>1. ASSUME NEW j \in 1..(n - 1)
          PROVE  key[j] = MaxByte
      <4>1. j \in DOMAIN key /\ j < n
        BY <1>1, <2>1
      <4>. QED
        BY <1>1, <2>1, <4>1
    <3>. QED
      BY <2>1, <3>1
  <2>3. PICK i : First(i) /\ s = Bump(key, i)
    BY <1>3, <2>2 DEF FindShortSuccessor
  <2>. HIDE DEF s
  <2>4. i \in 1..Len(key) /\ key[i] < MaxByte
    BY <1>1, <2>3, ByteAssumption
  <2>5. /\ s \in Seq(Byte)
        /\ Len(s) = i
        /\ s[i] = key[i] + 1
        /\ Below(key, s)
    BY <2>3, <2>4, BumpProperties
  <2>6. s # key
    BY <1>1, <2>4, <2>5
  <2>7. NotAbove(key, s)
    BY <2>5, NotAboveProperties
  <2>. QED
    BY <1>1, <2>4, <2>5, <2>6, <2>7 DEF s
<1>. QED
  BY <1>2, <1>3
------------------------------------------------------------------------------
(***************************************************************************)
(* Internal keys.                                                          *)
(***************************************************************************)

LEMMA Division ==
  ASSUME NEW n \in Nat, NEW d \in Nat \ {0}
  PROVE  /\ n \div d \in Nat
         /\ n % d \in 0..(d - 1)
         /\ n = (n \div d) * d + (n % d)
OBVIOUS

LEMMA DivisionIsUnique ==
  ASSUME NEW q \in Nat, NEW d \in Nat \ {0}, NEW r \in 0..(d - 1)
  PROVE  (q * d + r) \div d = q /\ (q * d + r) % d = r
OBVIOUS

(* The remainder grows by one digit.                                       *)
LEMMA NextDigit ==
  ASSUME NEW n \in Nat, NEW p \in Nat \ {0}, NEW b \in Nat \ {0}
  PROVE  n % (p * b) = (n % p) + ((n \div p) % b) * p
<1>. DEFINE q == n \div p
            r == n % p
            t == q \div b
            c == q % b
<1>1. q \in Nat /\ r \in 0..(p - 1) /\ n = q * p + r
  BY Division
<1>2. t \in Nat /\ c \in 0..(b - 1) /\ q = t * b + c
  <2>. HIDE DEF q
  <2>. QED
    BY <1>1, Division
<1>. HIDE DEF q, r, t, c
<1>3. n = t * (p * b) + (c * p + r)
  BY <1>1, <1>2
<1>4. c * p + r \in 0..(p * b - 1) /\ p * b \in Nat \ {0}
  <2>1. c * p \in Nat /\ p * b \in Nat \ {0}
    BY <1>2
  <2>2. c * p <= (b - 1) * p
    BY <1>2
  <2>3. (b - 1) * p = p * b - p
    OBVIOUS
  <2>. QED
    BY <1>1, <2>1, <2>2, <2>3
<1>5. n % (p * b) = c * p + r
  BY <1>2, <1>3, <1>4, DivisionIsUnique
<1>. QED
  BY <1>1, <1>2, <1>5 DEF q, r, c

LEMMA PowerProperties ==
  /\ Power \in [Nat -> Nat \ {0}]
  /\ Power[0] = 1
  /\ \A i \in Nat : Power[i + 1] = Power[i] * (MaxByte + 1)
<1>. DEFINE S == Nat \ {0}
            step == [x \in S \X (Nat \ {0}) |-> x[1] * (MaxByte + 1)]
<1>1. 1 \in S /\ step \in [S \X (Nat \ {0}) -> S]
  BY ByteAssumption
<1>2. PICK f : Defines(f, Nat, S, 1, step)
  <2>. HIDE DEF S, step
  <2>. QED
    BY <1>1, NatRecursion
<1>3. f = [i \in Nat |-> IF i = 0 THEN 1 ELSE f[i - 1] * (MaxByte + 1)]
  <2>1. ASSUME NEW i \in Nat
        PROVE  f[i] = IF i = 0 THEN 1 ELSE f[i - 1] * (MaxByte + 1)
    <3>1. i # 0 => <<f[i - 1], i>> \in S \X (Nat \ {0})
      BY <1>2 DEF Defines
    <3>. QED
      BY <1>2, <3>1 DEF Defines
  <2>. QED
    BY <1>2, <2>1 DEF Defines
<1>4. Power = [i \in Nat |->
                 IF i = 0 THEN 1 ELSE Power[i - 1] * (MaxByte + 1)]
  BY <1>3 DEF Power
<1>. DEFINE T == {i \in Nat : Power[i] \in Nat \ {0}}
<1>5. \A i \in Nat : Power[i + 1] = Power[i] * (MaxByte + 1)
  BY <1>4
<1>6. Nat \subseteq T
  <2>1. 0 \in T
    BY <1>4
  <2>2. ASSUME NEW i \in Nat, i \in T
        PROVE  i + 1 \in T
    BY <1>5, <2>2, ByteAssumption
  <2>. HIDE DEF T
  <2>. QED
    BY <2>1, <2>2, Induction
<1>. QED
  BY <1>4, <1>5, <1>6

LEMMA EncodeFixedProperties ==
  ASSUME NEW n \in Nat
  PROVE  /\ EncodeFixed(n) \in Seq(Byte)
         /\ Len(EncodeFixed(n)) = TagBytes
<1>1. ASSUME NEW i \in 1..TagBytes
      PROVE  (n \div Power[i - 1]) % (MaxByte + 1) \in Byte
  <2>1. Power[i - 1] \in Nat \ {0}
    BY TagAssumption, PowerProperties
  <2>. DEFINE q == n \div Power[i - 1]
              b == MaxByte + 1
  <2>2. q \in Nat
    BY <2>1, Division
  <2>3. b \in Nat \ {0} /\ b - 1 = MaxByte
    BY ByteAssumption
  <2>4. q % b \in 0..(b - 1)
    <3>. HIDE DEF q, b
    <3>. QED
      BY <2>2, <2>3, Division
  <2>. QED
    BY <2>3, <2>4 DEF Byte
<1>2. TagBytes \in Nat
  BY TagAssumption
<1>. QED
  BY <1>1, <1>2 DEF EncodeFixed

(* The loop over the bytes of a number.                                    *)
LEMMA DecodeFixedLoop ==
  ASSUME NEW s \in Seq(Byte), Len(s) = TagBytes
  PROVE  \E upto \in [0..TagBytes -> Nat] :
           /\ upto[0] = 0
           /\ \A i \in 1..TagBytes :
                upto[i] = upto[i - 1] + s[i] * Power[i - 1]
           /\ DecodeFixed(s) = upto[TagBytes]
<1>. DEFINE step == [x \in Nat \X (1..TagBytes) |->
                       x[1] + s[x[2]] * Power[x[2] - 1]]
            Loops(f) == f = [i \in 0..TagBytes |->
                               IF i = 0 THEN 0
                               ELSE f[i - 1] + s[i] * Power[i - 1]]
<1>1. TagBytes \in Nat
  BY TagAssumption
<1>2. \A i \in 1..TagBytes : s[i] * Power[i - 1] \in Nat
  <2>. SUFFICES ASSUME NEW i \in 1..TagBytes
                PROVE  s[i] * Power[i - 1] \in Nat
    OBVIOUS
  <2>1. s[i] \in Nat
    BY ElementOfSeq, ByteAssumption DEF Byte
  <2>2. i - 1 \in Nat
    BY <1>1
  <2>3. Power[i - 1] \in Nat
    BY <2>2, PowerProperties
  <2>. QED
    BY <2>1, <2>3
<1>3. step \in [Nat \X (1..TagBytes) -> Nat]
  BY <1>2
<1>4. PICK f : Defines(f, 0..TagBytes, Nat, 0, step)
  <2>. HIDE DEF step
  <2>. QED
    BY <1>1, <1>3, Recursion
<1>5. Loops(f)
  <2>1. ASSUME NEW i \in 0..TagBytes
        PROVE  f[i] = IF i = 0 THEN 0 ELSE f[i - 1] + s[i] * Power[i - 1]
    <3>1. i # 0 => <<f[i - 1], i>> \in Nat \X (1..TagBytes)
      BY <1>1, <1>4 DEF Defines
    <3>. QED
      BY <1>4, <3>1 DEF Defines
  <2>. QED
    BY <1>4, <2>1 DEF Defines
<1>6. PICK upto : Loops(upto) /\ DecodeFixed(s) = upto[TagBytes]
  BY <1>5 DEF DecodeFixed
<1>7. /\ upto[0] = 0
      /\ \A i \in 1..TagBytes : upto[i] = upto[i - 1] + s[i] * Power[i - 1]
  BY <1>1, <1>6
<1>8. \A i \in 0..TagBytes : upto[i] \in Nat
  <2>. DEFINE T == {i \in Nat : i <= TagBytes => upto[i] \in Nat}
  <2>1. 0 \in T
    BY <1>7
  <2>2. ASSUME NEW i \in Nat, i \in T
        PROVE  i + 1 \in T
    <3>. SUFFICES ASSUME i + 1 <= TagBytes
                  PROVE  upto[i + 1] \in Nat
      OBVIOUS
    <3>1. i + 1 \in 1..TagBytes /\ (i + 1) - 1 = i /\ upto[i] \in Nat
      BY <1>1, <2>2
    <3>. HIDE DEF Loops
    <3>. QED
      BY <1>2, <1>7, <3>1
  <2>3. Nat \subseteq T
    <3>. HIDE DEF T
    <3>. QED
      BY <2>1, <2>2, Induction
  <2>. QED
    BY <1>1, <2>3
<1>9. upto \in [0..TagBytes -> Nat]
  BY <1>6, <1>8
<1>. QED
  BY <1>6, <1>7, <1>9

(* What fits into the bytes of a tag is read back as it was written.       *)
LEMMA FixedRoundTrip ==
  ASSUME NEW n \in Nat, n < Power[TagBytes]
  PROVE  DecodeFixed(EncodeFixed(n)) = n
<1>. DEFINE s == EncodeFixed(n)
            b == MaxByte + 1
<1>1. TagBytes \in Nat /\ b \in Nat \ {0}
  BY TagAssumption, ByteAssumption
<1>2. s \in Seq(Byte) /\ Len(s) = TagBytes
  BY EncodeFixedProperties
<1>3. \A i \in 1..TagBytes : s[i] = (n \div Power[i - 1]) % b
  BY DEF EncodeFixed
<1>. HIDE DEF s, b
<1>4. PICK upto \in [0..TagBytes -> Nat] :
        /\ upto[0] = 0
        /\ \A i \in 1..TagBytes :
             upto[i] = upto[i - 1] + s[i] * Power[i - 1]
        /\ DecodeFixed(s) = upto[TagBytes]
  BY <1>2, DecodeFixedLoop
<1>. DEFINE T == {i \in Nat : i <= TagBytes => upto[i] = n % Power[i]}
<1>5. 0 \in T
  <2>1. Power[0] = 1 /\ n % 1 = 0
    BY PowerProperties
  <2>. QED
    BY <1>4, <2>1
<1>6. ASSUME NEW i \in Nat, i \in T
      PROVE  i + 1 \in T
  <2>. SUFFICES ASSUME i + 1 <= TagBytes
                PROVE  upto[i + 1] = n % Power[i + 1]
    OBVIOUS
  <2>1. i + 1 \in 1..TagBytes /\ (i + 1) - 1 = i
    BY <1>1
  <2>2. upto[i] = n % Power[i]
    BY <1>1, <1>6
  <2>3. upto[i + 1] = upto[i] + s[i + 1] * Power[i]
    BY <1>4, <2>1
  <2>4. s[i + 1] = (n \div Power[i]) % b
    BY <1>3, <2>1
  <2>5. Power[i] \in Nat \ {0} /\ Power[i + 1] = Power[i] * b
    BY PowerProperties DEF b
  <2>6. n % (Power[i] * b) = (n % Power[i]) + ((n \div Power[i]) % b) * Power[i]
    BY <1>1, <2>5, NextDigit
  <2>. QED
    BY <2>2, <2>3, <2>4, <2>5, <2>6
<1>7. upto[TagBytes] = n % Power[TagBytes]
  <2>1. TagBytes \in T
    <3>. HIDE DEF T
    <3>. QED
      BY <1>1, <1>5, <1>6, Induction
  <2>. QED
    BY <1>1, <2>1
<1>8. n % Power[TagBytes] = n
  <2>. DEFINE p == Power[TagBytes]
  <2>1. p \in Nat \ {0} /\ n \in 0..(p - 1)
    BY <1>1, PowerProperties
  <2>. HIDE DEF p
  <2>2. (0 * p + n) % p = n
    BY <2>1, DivisionIsUnique
  <2>3. 0 * p + n = n
    BY <2>1
  <2>. QED
    BY <2>2, <2>3 DEF p
<1>. QED
  BY <1>4, <1>7, <1>8 DEF s

(* A packed sequence number and type fit into a tag.                       *)
LEMMA PackProperties ==
  ASSUME NEW s \in Sequences, NEW x \in Types
  PROVE  /\ s \in Nat /\ x \in {0, 1}
         /\ Pack(s, x) \in Nat
         /\ Pack(s, x) < Power[TagBytes]
         /\ Pack(s, x) \div (MaxByte + 1) = s
         /\ Pack(s, x) % (MaxByte + 1) = x
<1>. DEFINE p == Power[TagBytes - 1]
            b == MaxByte + 1
<1>1. p \in Nat \ {0} /\ Power[TagBytes] = p * b
  <2>1. TagBytes - 1 \in Nat /\ (TagBytes - 1) + 1 = TagBytes
    BY TagAssumption
  <2>. QED
    BY <2>1, PowerProperties
<1>2. b \in Nat /\ b >= 2
  BY ByteAssumption
<1>3. s \in 0..(p - 1) /\ x \in {0, 1} /\ Pack(s, x) = s * b + x
  BY <1>1 DEF Sequences, Types, kMaxSequenceNumber, kTypeDeletion, kTypeValue,
              Pack
<1>. HIDE DEF p, b
<1>4. s * b \in Nat /\ s * b <= (p - 1) * b /\ (p - 1) * b = p * b - b
  BY <1>1, <1>2, <1>3
<1>5. Pack(s, x) \in Nat /\ Pack(s, x) < p * b
  <2>1. p * b \in Nat
    BY <1>1, <1>2
  <2>. QED
    BY <1>2, <1>3, <1>4, <2>1
<1>6. Pack(s, x) \div b = s /\ Pack(s, x) % b = x
  <2>1. s \in Nat /\ b \in Nat \ {0} /\ x \in 0..(b - 1)
    BY <1>1, <1>2, <1>3
  <2>2. (s * b + x) \div b = s /\ (s * b + x) % b = x
    BY <2>1, DivisionIsUnique
  <2>. QED
    BY <1>3, <2>2
<1>. QED
  BY <1>1, <1>3, <1>5, <1>6 DEF b

(* The parts of an internal key.                                           *)
LEMMA InternalKeyProperties ==
  ASSUME NEW user \in Seq(Byte), NEW s \in Sequences, NEW x \in Types
  PROVE  /\ ExtractUserKey(InternalKey(user, s, x)) = user
         /\ TagOf(InternalKey(user, s, x)) = Pack(s, x)
<1>. DEFINE key == InternalKey(user, s, x)
            tag == EncodeFixed(Pack(s, x))
<1>1. tag \in Seq(Byte) /\ Len(tag) = TagBytes /\ DecodeFixed(tag) = Pack(s, x)
  BY PackProperties, EncodeFixedProperties, FixedRoundTrip
<1>2. key = user \o tag
  BY DEF InternalKey
<1>. HIDE DEF key, tag
<1>3. Len(user) \in Nat /\ TagBytes \in Nat
  BY KeyLength, TagAssumption
<1>4. /\ key \in Seq(Byte)
      /\ Len(key) = Len(user) + TagBytes
      /\ \A i \in 1..Len(key) :
           key[i] = IF i <= Len(user) THEN user[i] ELSE tag[i - Len(user)]
      /\ \A i \in 1..Len(key) : key[i] \in Byte
  <2>1. /\ key \in Seq(Byte)
        /\ Len(key) = Len(user) + TagBytes
        /\ \A i \in 1..Len(key) :
             key[i] = IF i <= Len(user) THEN user[i] ELSE tag[i - Len(user)]
    <3>1. user \in Seq(Byte) /\ tag \in Seq(Byte)
      BY <1>1
    <3>2. /\ user \o tag \in Seq(Byte)
          /\ Len(user \o tag) = Len(user) + Len(tag)
          /\ \A i \in 1..(Len(user) + Len(tag)) :
               (user \o tag)[i] =
                 IF i <= Len(user) THEN user[i] ELSE tag[i - Len(user)]
      BY <3>1, ConcatProperties
    <3>. QED
      BY <1>1, <1>2, <3>2
  <2>2. \A i \in 1..Len(key) : key[i] \in Byte
    BY <2>1, ElementOfSeq
  <2>. QED
    BY <2>1, <2>2
<1>5. SubSeq(key, 1, Len(user)) = user
  <2>. DEFINE front == SubSeq(key, 1, Len(user))
  <2>1. /\ front \in Seq(Byte)
        /\ Len(front) = Len(user)
        /\ \A i \in 1..Len(user) : front[i] = key[i]
    BY <1>3, <1>4, SubSeqProperties
  <2>2. \A i \in 1..Len(user) : front[i] = user[i]
    BY <1>3, <1>4, <2>1
  <2>. HIDE DEF front
  <2>3. front = user
    BY <2>1, <2>2, SeqEqual
  <2>. QED
    BY <2>3 DEF front
<1>6. SubSeq(key, Len(user) + 1, Len(key)) = tag
  <2>. DEFINE back == SubSeq(key, Len(user) + 1, Len(key))
  <2>1. /\ back \in Seq(Byte)
        /\ Len(back) = TagBytes
        /\ \A i \in 1..TagBytes : back[i] = key[Len(user) + i]
    <3>. DEFINE m == Len(user) + 1
                n == Len(key)
    <3>1. m \in Nat /\ n \in Nat /\ m <= n + 1 /\ n - m + 1 = TagBytes
      BY <1>3, <1>4
    <3>2. \A i \in m..n : key[i] \in Byte
      BY <1>3, <1>4
    <3>. HIDE DEF m, n
    <3>3. /\ SubSeq(key, m, n) \in Seq(Byte)
          /\ Len(SubSeq(key, m, n)) = TagBytes
          /\ \A i \in 1..TagBytes : SubSeq(key, m, n)[i] = key[m + i - 1]
      BY <1>3, <3>1, <3>2, SubSeqProperties
    <3>. QED
      BY <1>3, <3>3 DEF m, n
  <2>. HIDE DEF back
  <2>2. ASSUME NEW i \in 1..TagBytes
        PROVE  back[i] = tag[i]
    <3>1. Len(user) + i \in 1..Len(key) /\ ~(Len(user) + i <= Len(user))
      BY <1>3, <1>4
    <3>2. key[Len(user) + i] = tag[(Len(user) + i) - Len(user)]
      BY <1>4, <3>1
    <3>3. (Len(user) + i) - Len(user) = i
      BY <1>3
    <3>. QED
      BY <2>1, <3>2, <3>3
  <2>3. back = tag
    BY <1>1, <2>1, <2>2, SeqEqual
  <2>. QED
    BY <2>3 DEF back
<1>7. Len(key) - TagBytes = Len(user)
  BY <1>3, <1>4
<1>8. ExtractUserKey(key) = user
  BY <1>5, <1>7 DEF ExtractUserKey
<1>9. TagOf(key) = Pack(s, x)
  BY <1>1, <1>6, <1>7 DEF TagOf
<1>. QED
  BY <1>8, <1>9 DEF key
------------------------------------------------------------------------------
(***************************************************************************)
(* The keys of the calls.                                                  *)
(***************************************************************************)

KeysAreKeys ==
  /\ start \in Seq(Byte) /\ limit \in Seq(Byte) /\ before \in Seq(Byte)
  /\ char_signed \in BOOLEAN

LEMMA KeysStayKeys == KeySpec => []KeysAreKeys
<1>1. KeyInit => KeysAreKeys
  BY KeyAssumption DEF KeyInit, KeysAreKeys
<1>2. KeysAreKeys /\ [KeyNext]_keyVars => KeysAreKeys'
  <2>. SUFFICES ASSUME KeysAreKeys, [KeyNext]_keyVars PROVE KeysAreKeys'
    OBVIOUS
  <2>1. CASE Separator
    <3>1. /\ limit' \in Seq(Byte)
          /\ before' = start
          /\ start' = FindShortestSeparator(start, limit', char_signed)
          /\ char_signed' = char_signed
      BY <2>1, KeyAssumption DEF Separator, Becomes
    <3>. QED
      BY <3>1, SeparatorProperties DEF KeysAreKeys
  <2>2. CASE Successor
    <3>1. /\ limit' = limit
          /\ before' = start
          /\ start' = FindShortSuccessor(start)
          /\ char_signed' = char_signed
      BY <2>2 DEF Successor, Becomes
    <3>. QED
      BY <3>1, SuccessorProperties DEF KeysAreKeys
  <2>3. CASE UNCHANGED keyVars
    BY <2>3 DEF keyVars, KeysAreKeys
  <2>. QED
    BY <2>1, <2>2, <2>3 DEF KeyNext
<1>. QED
  BY <1>1, <1>2, PTL DEF KeySpec

(* The bytewise comparison is a total order of all keys, of any length and *)
(* over bytes of any number of values; so it is in every state of the      *)
(* calls that shorten them (comparator.c:16-29).                           *)
THEOREM CompareOrders ==
  /\ \A a, b, c \in Seq(Byte) : Ordered(a, b, c)
  /\ KeySpec => []CompareIsAnOrder
<1>1. ASSUME NEW a \in Seq(Byte), NEW b \in Seq(Byte), NEW c \in Seq(Byte)
      PROVE  Ordered(a, b, c)
  <2>1. (Compare(a, b) = 0 <=> a = b) /\ Compare(a, b) = -Compare(b, a)
    BY CompareProperties
  <2>2. ASSUME NotAbove(a, b), NotAbove(b, c)
        PROVE  NotAbove(a, c)
    BY <2>2, NotAboveProperties, BelowIsTransitive
  <2>. QED
    BY <2>1, <2>2 DEF Ordered
<1>2. KeysAreKeys => CompareIsAnOrder
  BY <1>1, KeyAssumption DEF KeysAreKeys, CompareIsAnOrder
<1>3. KeySpec => []CompareIsAnOrder
  BY <1>2, KeysStayKeys, PTL
<1>. QED
  BY <1>1, <1>3

(* A separator separates, on machines with signed chars too                *)
(* (comparator.c:30-56): whatever the keys, and after any calls.           *)
THEOREM SeparatorsSeparate == KeySpec => []SeparatorSeparates
<1>1. KeyInit => SeparatorSeparates
  BY DEF KeyInit, SeparatorSeparates
<1>2. KeysAreKeys /\ SeparatorSeparates /\ [KeyNext]_keyVars
        => SeparatorSeparates'
  <2>. SUFFICES ASSUME KeysAreKeys, SeparatorSeparates, [KeyNext]_keyVars
                PROVE  SeparatorSeparates'
    OBVIOUS
  <2>1. CASE Separator
    <3>1. /\ start \in Seq(Byte) /\ limit' \in Seq(Byte)
          /\ char_signed \in BOOLEAN
          /\ before' = start
          /\ start' = FindShortestSeparator(start, limit', char_signed)
      BY <2>1, KeyAssumption DEF Separator, Becomes, KeysAreKeys
    <3>2. /\ Len(start') <= Len(start)
          /\ IF Compare(start, limit') < 0
             THEN NotAbove(start, start') /\ Compare(start', limit') < 0
             ELSE start' = start
      BY <3>1, SeparatorProperties
    <3>. QED
      BY <3>1, <3>2 DEF SeparatorSeparates, NotAbove
  <2>2. CASE Successor
    <3>1. call' # "separator"
      BY <2>2 DEF Successor, Becomes
    <3>. QED
      BY <3>1 DEF SeparatorSeparates
  <2>3. CASE UNCHANGED keyVars
    BY <2>3 DEF keyVars, SeparatorSeparates, NotAbove
  <2>. QED
    BY <2>1, <2>2, <2>3 DEF KeyNext
<1>. QED
  BY <1>1, <1>2, KeysStayKeys, PTL DEF KeySpec

(* A successor is above its key, unless that is all 0xff                   *)
(* (comparator.c:58-70).                                                   *)
THEOREM SuccessorsAreAbove == KeySpec => []SuccessorIsAbove
<1>1. KeyInit => SuccessorIsAbove
  BY DEF KeyInit, SuccessorIsAbove
<1>2. KeysAreKeys /\ SuccessorIsAbove /\ [KeyNext]_keyVars => SuccessorIsAbove'
  <2>. SUFFICES ASSUME KeysAreKeys, SuccessorIsAbove, [KeyNext]_keyVars
                PROVE  SuccessorIsAbove'
    OBVIOUS
  <2>1. CASE Successor
    <3>1. /\ start \in Seq(Byte)
          /\ before' = start
          /\ start' = FindShortSuccessor(start)
      BY <2>1 DEF Successor, Becomes, KeysAreKeys
    <3>2. /\ NotAbove(start, start')
          /\ Len(start') <= Len(start)
          /\ start' = start => \A i \in DOMAIN start : start[i] = MaxByte
      BY <3>1, SuccessorProperties
    <3>. QED
      BY <3>1, <3>2 DEF SuccessorIsAbove, NotAbove
  <2>2. CASE Separator
    <3>1. call' # "successor"
      BY <2>2 DEF Separator, Becomes
    <3>. QED
      BY <3>1 DEF SuccessorIsAbove
  <2>3. CASE UNCHANGED keyVars
    BY <2>3 DEF keyVars, SuccessorIsAbove, NotAbove
  <2>. QED
    BY <2>1, <2>2, <2>3 DEF KeyNext
<1>. QED
  BY <1>1, <1>2, KeysStayKeys, PTL DEF KeySpec

(* The newest entry of a user key comes first, up to the last sequence     *)
(* number (comparator.c:82-97, internalKey.c:6-15, 41-43).                 *)
THEOREM NewestComesFirst == KeySpec => []NewestFirst
<1>1. KeysAreKeys => NewestFirst
  <2>. SUFFICES ASSUME KeysAreKeys,
                       NEW s \in Sequences, NEW t \in Sequences,
                       NEW x \in Types, NEW y \in Types
                PROVE  InternalCompare(InternalKey(start, s, x),
                                       InternalKey(limit, t, y))
                         = IF start # limit THEN Compare(start, limit)
                           ELSE IF s # t THEN Sign(t - s) ELSE Sign(y - x)
    BY DEF NewestFirst
  <2>. DEFINE a == InternalKey(start, s, x)
              b == InternalKey(limit, t, y)
  <2>1. start \in Seq(Byte) /\ limit \in Seq(Byte)
    BY DEF KeysAreKeys
  <2>2. /\ ExtractUserKey(a) = start /\ TagOf(a) = Pack(s, x)
        /\ ExtractUserKey(b) = limit /\ TagOf(b) = Pack(t, y)
    BY <2>1, InternalKeyProperties
  <2>. HIDE DEF a, b
  <2>3. InternalCompare(a, b) =
          IF Compare(start, limit) # 0 THEN Compare(start, limit)
          ELSE Sign(Pack(t, y) - Pack(s, x))
    BY <2>2 DEF InternalCompare
  <2>4. Compare(start, limit) = 0 <=> start = limit
    BY <2>1, CompareProperties
  <2>5. Sign(Pack(t, y) - Pack(s, x))
          = IF s # t THEN Sign(t - s) ELSE Sign(y - x)
    <3>. DEFINE radix == MaxByte + 1
    <3>1. /\ s \in Nat /\ t \in Nat /\ x \in {0, 1} /\ y \in {0, 1}
          /\ radix \in Nat /\ radix >= 2
      BY PackProperties, ByteAssumption
    <3>. HIDE DEF radix
    <3>2. Pack(t, y) - Pack(s, x) = (t - s) * radix + (y - x)
      BY <3>1 DEF Pack, radix
    <3>3. CASE s = t
      BY <3>1, <3>2, <3>3
    <3>4. CASE s < t
      <4>1. (t - s) * radix >= radix
        BY <3>1, <3>4
      <4>2. (t - s) * radix + (y - x) > 0 /\ (t - s) * radix \in Int
        BY <3>1, <4>1
      <4>. QED
        BY <3>1, <3>2, <3>4, <4>2 DEF Sign
    <3>5. CASE t < s
      <4>1. (s - t) * radix >= radix /\ (s - t) * radix \in Int
        BY <3>1, <3>5
      <4>2. (t - s) * radix = -((s - t) * radix)
        BY <3>1
      <4>3. (t - s) * radix + (y - x) < 0
        BY <3>1, <4>1, <4>2
      <4>. QED
        BY <3>1, <3>2, <3>5, <4>3 DEF Sign
    <3>. QED
      BY <3>1, <3>3, <3>4, <3>5
  <2>. QED
    BY <2>3, <2>4, <2>5 DEF a, b
<1>. QED
  BY <1>1, KeysStayKeys, PTL

(* An internal key is taken apart into what it was made of                 *)
(* (internalKey.c:11-15, 46-55).                                           *)
THEOREM InternalKeysAreParsed == KeySpec => []InternalKeysParse
<1>1. KeysAreKeys => InternalKeysParse
  <2>. SUFFICES ASSUME KeysAreKeys, NEW s \in Sequences, NEW x \in Types
                PROVE  ParseInternalKey(InternalKey(start, s, x)) =
                         [ok |-> TRUE, user_key |-> start,
                          sequence |-> s, type |-> x]
    BY DEF InternalKeysParse
  <2>. DEFINE key == InternalKey(start, s, x)
  <2>1. ExtractUserKey(key) = start /\ TagOf(key) = Pack(s, x)
    BY InternalKeyProperties DEF KeysAreKeys
  <2>2. /\ Pack(s, x) \div (MaxByte + 1) = s
        /\ Pack(s, x) % (MaxByte + 1) = x
        /\ x \in {0, 1}
    BY PackProperties
  <2>. HIDE DEF key
  <2>3. x <= kTypeValue
    BY <2>2 DEF kTypeValue
  <2>. QED
    BY <2>1, <2>2, <2>3 DEF ParseInternalKey, key
<1>. QED
  BY <1>1, KeysStayKeys, PTL
==============================================================================
