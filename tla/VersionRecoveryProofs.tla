------------------------- MODULE VersionRecoveryProofs -------------------------
(***************************************************************************)
(* What holds of VersionRecovery for every manifest, every number of       *)
(* levels and every width of numbers.                                      *)
(***************************************************************************)
EXTENDS VersionRecovery, NaturalLemmas, SequenceTheorems

(* An edit, sound or not, is logged as a sequence of fields.               *)
LEMMA FieldsOfAnEdit ==
  ASSUME NEW e \in VersionEdits
  PROVE  VersionEditToSds(e) \in Seq(Fields)
<1>1. Junk \in Fields
  BY DEF Junk, Field, Fields
<1>2. ASSUME NEW f \in NumberField
      PROVE  NumberToSds(e, f) \in Seq(Fields)
  <2>1. e.numbers[f] \in Number
    BY <1>2 DEF VersionEdits
  <2>2. Field(f, e.numbers[f]) \in Fields
    BY <1>2, <2>1 DEF Field, Fields
  <2>. QED
    BY <2>2 DEF NumberToSds
<1>3. ASSUME NEW tag \in ListField, NEW levels \in Seq(Nat)
      PROVE  Tagged(tag, levels) \in Seq(Fields)
  <2>1. \A i \in DOMAIN levels : Field(tag, levels[i]) \in Fields
    BY <1>3 DEF Field, Fields
  <2>. QED
    BY <2>1 DEF Tagged
<1>4. \A f \in ListField : e.lists[f] \in Seq(Nat)
  BY DEF VersionEdits
<1>5. (IF e.comparator = "NULL" THEN << >>
       ELSE <<Field("comparator", e.comparator)>>) \in Seq(Fields)
  <2>1. CASE e.comparator = "NULL"
    BY <2>1
  <2>2. CASE e.comparator # "NULL"
    <3>1. Field("comparator", e.comparator) \in Fields
      BY <2>2 DEF VersionEdits, Field, Fields
    <3>. QED
      BY <2>2, <3>1
  <2>. QED
    BY <2>1, <2>2
<1>6. [i \in DOMAIN e.lists["delete_files"] |-> Junk] \in Seq(Fields)
  <2>1. ASSUME NEW levels \in Seq(Nat)
        PROVE  [i \in DOMAIN levels |-> Junk] \in Seq(Fields)
    BY <1>1
  <2>. QED
    BY <2>1, <1>4 DEF ListField
<1>7. /\ Tagged("compact_pointers", e.lists["compact_pointers"]) \in Seq(Fields)
      /\ Tagged("new_files", e.lists["compact_pointers"]) \in Seq(Fields)
  BY <1>3, <1>4 DEF ListField
<1>8. /\ NumberToSds(e, "log_number") \in Seq(Fields)
      /\ NumberToSds(e, "prev_log_number") \in Seq(Fields)
      /\ NumberToSds(e, "next_file_number") \in Seq(Fields)
      /\ NumberToSds(e, "last_sequence") \in Seq(Fields)
  BY <1>2 DEF NumberField
<1>. QED
  BY <1>5, <1>6, <1>7, <1>8 DEF VersionEditToSds

(* One more than a number is a number, 0 if there is no higher one.        *)
LEMMA NextNumber ==
  ASSUME NEW n \in Number
  PROVE  /\ (n + 1) % (MaxNumber + 1) \in Number
         /\ n # Absent => (n + 1) % (MaxNumber + 1) = n + 1
<1>1. MaxNumber \in Nat /\ n \in 0..MaxNumber
  BY NumberAssumption DEF Number
<1>2. CASE n = MaxNumber
  <2>1. (n + 1) % (MaxNumber + 1) = 0
    BY <1>1, <1>2
  <2>. QED
    BY <1>1, <1>2, <2>1 DEF Number, Absent
<1>3. CASE n # MaxNumber
  <2>1. (n + 1) % (MaxNumber + 1) = n + 1
    BY <1>1, <1>3
  <2>. QED
    BY <1>1, <1>3, <2>1 DEF Number, Absent
<1>. QED
  BY <1>2, <1>3

LEMMA UsedNumber ==
  ASSUME NEW next \in Number, NEW n \in Number
  PROVE  /\ MakeFileNumberUsed(next, n) \in Number
         /\ n # Absent => /\ n < MakeFileNumberUsed(next, n)
                          /\ next <= MakeFileNumberUsed(next, n)
<1>1. MaxNumber \in Nat /\ n \in 0..MaxNumber /\ next \in 0..MaxNumber
  BY NumberAssumption DEF Number
<1>2. CASE next <= n
  <2>1. MakeFileNumberUsed(next, n) = (n + 1) % (MaxNumber + 1)
    BY <1>2 DEF MakeFileNumberUsed
  <2>. QED
    BY <1>1, <1>2, <2>1, NextNumber
<1>3. CASE ~(next <= n)
  BY <1>1, <1>3 DEF MakeFileNumberUsed
<1>. QED
  BY <1>2, <1>3
------------------------------------------------------------------------------
LEMMA DecodedType ==
  ASSUME NEW e \in VersionEdits, NEW field \in Fields, ~Malformed(field)
  PROVE  Decoded(e, field) \in VersionEdits
<1>1. CASE field.tag = "comparator"
  <2>1. field.value \in Name
    BY <1>1 DEF Fields, NumberField, ListField
  <2>2. Decoded(e, field) = [e EXCEPT !.comparator = field.value]
    BY <1>1 DEF Decoded, NumberField, ListField
  <2>. QED
    BY <2>1, <2>2 DEF VersionEdits
<1>2. CASE field.tag \in NumberField
  <2>1. field.value \in Number
    BY <1>2 DEF Fields, NumberField, ListField
  <2>2. Decoded(e, field) = [e EXCEPT !.numbers[field.tag] = field.value]
    BY <1>2 DEF Decoded, NumberField, ListField
  <2>. QED
    BY <1>2, <2>1, <2>2 DEF VersionEdits
<1>3. CASE field.tag \in ListField
  <2>1. field.value \in Nat
    BY <1>3 DEF Fields, NumberField, ListField
  <2>2. Decoded(e, field) =
          [e EXCEPT !.lists[field.tag] = Append(@, field.value)]
    BY <1>3 DEF Decoded, NumberField, ListField
  <2>3. Append(e.lists[field.tag], field.value) \in Seq(Nat)
    BY <1>3, <2>1 DEF VersionEdits
  <2>. QED
    BY <1>3, <2>2, <2>3 DEF VersionEdits
<1>4. field.tag \in {"junk", "comparator"} \cup NumberField \cup ListField
  BY DEF Fields
<1>5. field.tag # "junk"
  BY DEF Fields, Malformed, Junk, Field, NumberField, ListField
<1>. QED
  BY <1>1, <1>2, <1>3, <1>4, <1>5

LEMMA InitialEdit == VersionEditInit \in VersionEdits
BY NumberAssumption
DEF VersionEditInit, VersionEdits, Absent, Number

(* A new version is not released when it is appended: its references go    *)
(* from 0 to 1, or to -1 and back to 0.                                    *)
LEMMA AppendedVersion ==
  ASSUME NEW cur
  PROVE  /\ AppendVersion(cur, VersionCreate)
              \in [refs : Int, state : {"live", "released"}]
         /\ AppendVersion(cur, VersionCreate).state = "live"
<1>1. VersionUnref(VersionCreate) = [refs |-> 0 - 1, state |-> "live"]
  BY DEF VersionUnref, VersionCreate
<1>2. CASE cur = "NULL"
  BY <1>2 DEF AppendVersion, VersionRef, VersionCreate
<1>3. CASE cur # "NULL"
  BY <1>1, <1>3 DEF AppendVersion, VersionRef
<1>. QED
  BY <1>2, <1>3

LEMMA TypeInductive ==
  ASSUME TypeOK, [Next]_vars
  PROVE  TypeOK'
<1>1. CASE OpenManifest
  BY <1>1 DEF OpenManifest, Return, decoder, collected, version_set, TypeOK,
              PC, Errors
<1>2. CASE ReadRecord
  <2>1. PICK k \in DOMAIN manifest : pos' = k /\ input' = Record(k)
    BY <1>2 DEF ReadRecord
  <2>2. manifest[k] \in Entries
    BY <2>1 DEF TypeOK
  <2>3. input' \in Seq(Fields)
    BY <2>1, <2>2, FieldsOfAnEdit DEF Record, Entries
  <2>4. pos' \in 0..Len(manifest)
    BY <2>1 DEF TypeOK
  <2>. QED
    BY <1>2, <2>3, <2>4, InitialEdit
    DEF ReadRecord, collected, version_set, TypeOK, PC
<1>3. CASE EndOfLoop
  <2>1. pos' \in 0..Len(manifest)
    BY <1>3 DEF EndOfLoop, TypeOK
  <2>. QED
    BY <1>3, <2>1 DEF EndOfLoop, decoder, collected, version_set, TypeOK, PC
<1>4. CASE DecodeField
  <2>1. Head(input) \in Fields /\ Tail(input) \in Seq(Fields)
    BY <1>4 DEF DecodeField, TypeOK
  <2>2. edit' \in VersionEdits
    BY <1>4, <2>1, DecodedType DEF DecodeField, TypeOK
  <2>. QED
    BY <1>4, <2>1, <2>2 DEF DecodeField, collected, version_set, TypeOK
<1>5. CASE DecodeFails
  BY <1>5 DEF DecodeFails, collected, version_set, TypeOK, PC, Errors
<1>6. CASE DecodeEnds
  BY <1>6 DEF DecodeEnds, decoder, collected, version_set, TypeOK, PC, Errors
<1>7. CASE ApplyEdit
  BY <1>7 DEF ApplyEdit, decoder, collected, version_set, TypeOK, PC, Errors
<1>8. CASE CollectNumbers
  <2>1. last' \in [NumberField -> Number]
    BY <1>8 DEF CollectNumbers, TypeOK, VersionEdits
  <2>2. have' \in [NumberField -> BOOLEAN]
    BY <1>8 DEF CollectNumbers, EditHas, TypeOK
  <2>. QED
    BY <1>8, <2>1, <2>2
    DEF CollectNumbers, decoder, version_set, TypeOK, PC
<1>9. CASE CheckNumbers
  <2>1. CASE error # "Ok"
    BY <1>9, <2>1 DEF CheckNumbers, Return, decoder, TypeOK, PC
  <2>2. CASE error = "Ok"
    <3>. DEFINE prev == IF have["prev_log_number"]
                        THEN last["prev_log_number"] ELSE 0
    <3>1. prev \in Number /\ last["log_number"] \in Number
      BY NumberAssumption DEF TypeOK, Number, NumberField
    <3>2. last' = [last EXCEPT !["prev_log_number"] = prev]
      BY <1>9, <2>2 DEF CheckNumbers
    <3>3. next_file_number' =
            MakeFileNumberUsed(MakeFileNumberUsed(next_file_number, prev),
                               last["log_number"])
      BY <1>9, <2>2 DEF CheckNumbers
    <3>4. MakeFileNumberUsed(next_file_number, prev) \in Number
      BY <3>1, UsedNumber DEF TypeOK
    <3>5. next_file_number' \in Number
      BY <3>1, <3>3, <3>4, UsedNumber
    <3>6. last' \in [NumberField -> Number]
      BY <3>1, <3>2 DEF TypeOK
    <3>7. pc' \in PC /\ error' \in Errors
      BY <1>9, <2>2 DEF CheckNumbers, Return, TypeOK, PC, Errors
    <3>. QED
      BY <1>9, <3>5, <3>6, <3>7 DEF CheckNumbers, decoder, TypeOK
  <2>. QED
    BY <2>1, <2>2
<1>10. CASE InstallVersion
  <2>1. v' \in [refs : Int, state : {"live", "released"}]
    BY <1>10, AppendedVersion DEF InstallVersion
  <2>2. next_file_number' \in Number
    BY <1>10, NextNumber DEF InstallVersion, TypeOK, NumberField
  <2>. QED
    BY <1>10, <2>1, <2>2
    DEF InstallVersion, Return, decoder, collected, TypeOK, PC, Errors
<1>11. CASE Crash
  BY <1>11 DEF Crash, decoder, collected, version_set, TypeOK, PC
<1>12. CASE UNCHANGED vars
  BY <1>12 DEF vars, decoder, collected, version_set, TypeOK
<1>. QED
  BY <1>1, <1>2, <1>3, <1>4, <1>5, <1>6, <1>7, <1>8, <1>9, <1>10, <1>11,
     <1>12 DEF Next

(* The state of a recovery has its type: in particular next_file_number    *)
(* stays within its width, whatever numbers a manifest holds, and an edit  *)
(* is one whatever its record is made of (versionSet.c:22-26, 127-270).    *)
THEOREM TypeCorrect == Spec => []TypeOK
<1>1. Init => TypeOK
  <2>. SUFFICES ASSUME Init PROVE TypeOK
    OBVIOUS
  <2>1. last \in [NumberField -> Number] /\ numbers \in [NumberField -> Number]
    BY NumberAssumption DEF Init, None, Number
  <2>2. pos \in 0..Len(manifest) /\ input \in Seq(Fields)
    BY DEF Init
  <2>3. have \in [NumberField -> BOOLEAN]
    BY DEF Init
  <2>4. v \in [refs : Int, state : {"live", "released"}]
    BY DEF Init
  <2>. QED
    BY <2>1, <2>2, <2>3, <2>4, InitialEdit DEF Init, TypeOK, PC, Errors
<1>. QED
  BY <1>1, TypeInductive, PTL DEF Spec
------------------------------------------------------------------------------
(* A version that has been installed was not released on the way, although *)
(* versionSetAppendVersion gives up a reference of it: the count goes from *)
(* 0 to -1, and nothing is released but at 0 (versionSet.c:32-36,          *)
(* version.c:37-42).                                                       *)
THEOREM CurrentStaysLive == Spec => []CurrentIsLive
<1>1. Init => CurrentIsLive
  BY DEF Init, CurrentIsLive
<1>2. CurrentIsLive /\ [Next]_vars => CurrentIsLive'
  <2>. SUFFICES ASSUME CurrentIsLive, [Next]_vars PROVE CurrentIsLive'
    OBVIOUS
  <2>1. CASE InstallVersion
    BY <2>1, AppendedVersion DEF InstallVersion, CurrentIsLive
  <2>2. CASE UNCHANGED <<current, v>>
    BY <2>2 DEF CurrentIsLive
  <2>. QED
    BY <2>1, <2>2
    DEF Next, vars, version_set, OpenManifest, ReadRecord, EndOfLoop,
        DecodeField, DecodeFails, DecodeEnds, ApplyEdit, CollectNumbers,
        CheckNumbers, Crash
<1>. QED
  BY <1>1, <1>2, PTL DEF Spec

(* When recoverVersions goes on to install a version, both log numbers are *)
(* below next_file_number, unless an absent one has made it go round, for  *)
(* any numbers and any width of them (versionSet.c:22-26, 245-246).        *)
THEOREM LogNumbersMarked == Spec => []LogNumbersAreUsed
<1>1. Init => LogNumbersAreUsed
  BY DEF Init, LogNumbersAreUsed
<1>2. TypeOK /\ LogNumbersAreUsed /\ [Next]_vars => LogNumbersAreUsed'
  <2>. SUFFICES ASSUME TypeOK, LogNumbersAreUsed, [Next]_vars
                PROVE  LogNumbersAreUsed'
    OBVIOUS
  <2>1. CASE CheckNumbers
    <3>. SUFFICES ASSUME pc' = "install",
                         Absent \notin {last'["log_number"],
                                        last'["prev_log_number"]}
                  PROVE  /\ last'["log_number"] < next_file_number'
                         /\ last'["prev_log_number"] < next_file_number'
      BY DEF LogNumbersAreUsed
    <3>. DEFINE prev == IF have["prev_log_number"]
                        THEN last["prev_log_number"] ELSE 0
                log == last["log_number"]
                next == MakeFileNumberUsed(next_file_number, prev)
    <3>1. error = "Ok"
      BY <2>1 DEF CheckNumbers, Return
    <3>2. prev \in Number /\ log \in Number
      BY NumberAssumption DEF TypeOK, Number, NumberField
    <3>3. /\ last' = [last EXCEPT !["prev_log_number"] = prev]
          /\ next_file_number' = MakeFileNumberUsed(next, log)
      BY <2>1, <3>1 DEF CheckNumbers
    <3>4. last'["log_number"] = log /\ last'["prev_log_number"] = prev
      BY <3>3 DEF TypeOK, NumberField
    <3>5. next \in Number /\ prev < next
      BY <3>2, <3>4, UsedNumber DEF TypeOK
    <3>6. log < next_file_number' /\ next <= next_file_number'
      BY <3>2, <3>3, <3>4, <3>5, UsedNumber
    <3>7. next_file_number' \in Number
      BY <3>2, <3>3, <3>5, UsedNumber
    <3>8. \A n \in Number : n \in Nat
      BY NumberAssumption DEF Number
    <3>. HIDE DEF prev, log, next
    <3>. QED
      BY <3>2, <3>4, <3>5, <3>6, <3>7, <3>8
  <2>2. CASE pc' # "install"
    BY <2>2 DEF LogNumbersAreUsed
  <2>3. CASE UNCHANGED vars
    BY <2>3
    DEF vars, decoder, collected, version_set, LogNumbersAreUsed
  <2>. QED
    BY <2>1, <2>2, <2>3
    DEF Next, Return, OpenManifest, ReadRecord, EndOfLoop, DecodeField,
        DecodeFails, DecodeEnds, ApplyEdit, CollectNumbers, InstallVersion,
        Crash
<1>. QED
  BY <1>1, <1>2, TypeCorrect, PTL DEF Spec
------------------------------------------------------------------------------
(***************************************************************************)
(* The fields of a record.                                                 *)
(***************************************************************************)

Elements(s) == {s[i] : i \in DOMAIN s}

LEMMA ElementsOfConcat ==
  ASSUME NEW S, NEW s \in Seq(S), NEW t \in Seq(S)
  PROVE  Elements(s \o t) = Elements(s) \cup Elements(t)
<1>1. /\ Len(s) \in Nat /\ DOMAIN s = 1..Len(s)
      /\ Len(t) \in Nat /\ DOMAIN t = 1..Len(t)
  BY LenProperties
<1>2. /\ DOMAIN (s \o t) = 1..(Len(s) + Len(t))
      /\ \A i \in 1..(Len(s) + Len(t)) :
           (s \o t)[i] = IF i <= Len(s) THEN s[i] ELSE t[i - Len(s)]
  BY ConcatProperties, LenProperties
<1>. DEFINE st == s \o t
<1>. HIDE DEF st
<1>3. ASSUME NEW i \in DOMAIN s
      PROVE  i \in DOMAIN st /\ st[i] = s[i]
  BY <1>1, <1>2 DEF st
<1>4. ASSUME NEW i \in DOMAIN t
      PROVE  Len(s) + i \in DOMAIN st /\ st[Len(s) + i] = t[i]
  <2>1. /\ Len(s) + i \in 1..(Len(s) + Len(t))
        /\ ~(Len(s) + i <= Len(s))
        /\ (Len(s) + i) - Len(s) = i
    BY <1>1
  <2>. QED
    BY <1>2, <2>1 DEF st
<1>5. ASSUME NEW i \in DOMAIN st
      PROVE  st[i] \in Elements(s) \cup Elements(t)
  <2>1. CASE i <= Len(s)
    BY <1>1, <1>2, <2>1 DEF st, Elements
  <2>2. CASE ~(i <= Len(s))
    <3>1. i - Len(s) \in DOMAIN t /\ st[i] = t[i - Len(s)]
      BY <1>1, <1>2, <2>2 DEF st
    <3>. QED
      BY <3>1 DEF Elements
  <2>. QED
    BY <2>1, <2>2
<1>6. Elements(st) \subseteq Elements(s) \cup Elements(t)
  BY <1>5 DEF Elements
<1>7. Elements(s) \subseteq Elements(st) /\ Elements(t) \subseteq Elements(st)
  BY <1>3, <1>4 DEF Elements
<1>. QED
  BY <1>6, <1>7 DEF st

(* What an edit is logged as: its numbers but for zeroes, its comparator   *)
(* if it has one, and in the place of the lists what is not sound.         *)
LEMMA ElementsOfAnEdit ==
  ASSUME NEW e \in VersionEdits
  PROVE  LET all == Elements(VersionEditToSds(e))
         IN  /\ \A f \in NumberField, x \in all :
                  x.tag = f => e.numbers[f] > 0 /\ x.value = e.numbers[f]
             /\ \A f \in NumberField :
                  e.numbers[f] > 0 => \E x \in all : x.tag = f
             /\ \A x \in all : x.tag = "comparator" =>
                  e.comparator # "NULL" /\ x.value = e.comparator
             /\ e.comparator # "NULL" => \E x \in all : x.tag = "comparator"
             /\ e.lists["compact_pointers"] # << >> =>
                  \E x \in all : x.tag = "new_files"
             /\ e.lists["delete_files"] # << >> => Junk \in all
<1>. DEFINE c == IF e.comparator = "NULL" THEN << >>
                 ELSE <<Field("comparator", e.comparator)>>
            n(f) == NumberToSds(e, f)
            p == Tagged("compact_pointers", e.lists["compact_pointers"])
            d == [i \in DOMAIN e.lists["delete_files"] |-> Junk]
            a == Tagged("new_files", e.lists["compact_pointers"])
            all == Elements(VersionEditToSds(e))
<1>1. /\ \A f \in NumberField : e.numbers[f] \in Number
      /\ \A f \in ListField : e.lists[f] \in Seq(Nat)
      /\ e.comparator \in Name \cup {"NULL"}
  BY DEF VersionEdits
<1>2. c \in Seq(Fields) /\ Elements(c) =
        IF e.comparator = "NULL" THEN {} ELSE {Field("comparator", e.comparator)}
  <2>1. e.comparator # "NULL" => Field("comparator", e.comparator) \in Fields
    BY <1>1 DEF Field, Fields
  <2>. QED
    BY <2>1 DEF Elements
<1>3. ASSUME NEW f \in NumberField
      PROVE  /\ n(f) \in Seq(Fields)
             /\ Elements(n(f)) = IF e.numbers[f] > 0
                                 THEN {Field(f, e.numbers[f])} ELSE {}
  <2>1. Field(f, e.numbers[f]) \in Fields
    BY <1>1 DEF Field, Fields
  <2>. QED
    BY <2>1 DEF Elements, NumberToSds
<1>4. ASSUME NEW tag \in ListField, NEW levels \in Seq(Nat)
      PROVE  /\ Tagged(tag, levels) \in Seq(Fields)
             /\ \A x \in Elements(Tagged(tag, levels)) : x.tag = tag
             /\ levels # << >> => Elements(Tagged(tag, levels)) # {}
  <2>1. \A i \in DOMAIN levels : Field(tag, levels[i]) \in Fields
    BY DEF Field, Fields
  <2>2. Tagged(tag, levels) \in Seq(Fields)
    BY <2>1 DEF Tagged
  <2>3. \A x \in Elements(Tagged(tag, levels)) : x.tag = tag
    BY DEF Tagged, Elements, Field
  <2>4. levels # << >> => 1 \in DOMAIN levels
    BY EmptySeq, LenProperties
  <2>. QED
    BY <2>2, <2>3, <2>4 DEF Tagged, Elements
<1>5. /\ d \in Seq(Fields)
      /\ Elements(d) \subseteq {Junk}
      /\ e.lists["delete_files"] # << >> => Junk \in Elements(d)
  <2>1. e.lists["delete_files"] \in Seq(Nat)
    BY <1>1 DEF ListField
  <2>2. ASSUME NEW levels \in Seq(Nat)
        PROVE  [i \in DOMAIN levels |-> Junk] \in Seq(Fields)
    <3>1. Junk \in Fields
      BY DEF Junk, Field, Fields
    <3>. QED
      BY <3>1
  <2>3. e.lists["delete_files"] # << >> => 1 \in DOMAIN e.lists["delete_files"]
    BY <2>1, EmptySeq, LenProperties
  <2>. QED
    BY <2>1, <2>2, <2>3 DEF Elements
<1>6. /\ p \in Seq(Fields) /\ \A x \in Elements(p) : x.tag = "compact_pointers"
      /\ a \in Seq(Fields) /\ \A x \in Elements(a) : x.tag = "new_files"
      /\ e.lists["compact_pointers"] # << >> => Elements(a) # {}
  BY <1>1, <1>4 DEF ListField
<1>7. all = Elements(c)
              \cup Elements(n("log_number")) \cup Elements(n("prev_log_number"))
              \cup Elements(n("next_file_number"))
              \cup Elements(n("last_sequence"))
              \cup Elements(p) \cup Elements(d) \cup Elements(a)
  <2>1. VersionEditToSds(e) =
          c \o n("log_number") \o n("prev_log_number")
            \o n("next_file_number") \o n("last_sequence") \o p \o d \o a
    BY DEF VersionEditToSds
  <2>2. /\ n("log_number") \in Seq(Fields)
        /\ n("prev_log_number") \in Seq(Fields)
        /\ n("next_file_number") \in Seq(Fields)
        /\ n("last_sequence") \in Seq(Fields)
    BY <1>3 DEF NumberField
  <2>. HIDE DEF c, n, p, d, a
  <2>. DEFINE s1 == c \o n("log_number")
              s2 == s1 \o n("prev_log_number")
              s3 == s2 \o n("next_file_number")
              s4 == s3 \o n("last_sequence")
              s5 == s4 \o p
              s6 == s5 \o d
              s7 == s6 \o a
  <2>3. /\ s1 \in Seq(Fields)
        /\ Elements(s1) = Elements(c) \cup Elements(n("log_number"))
    BY <1>2, <2>2, ElementsOfConcat, ConcatProperties
  <2>4. /\ s2 \in Seq(Fields)
        /\ Elements(s2) = Elements(s1) \cup Elements(n("prev_log_number"))
    <3>. HIDE DEF s1
    <3>. QED
      BY <2>2, <2>3, ElementsOfConcat, ConcatProperties
  <2>5. /\ s3 \in Seq(Fields)
        /\ Elements(s3) = Elements(s2) \cup Elements(n("next_file_number"))
    <3>. HIDE DEF s2
    <3>. QED
      BY <2>2, <2>4, ElementsOfConcat, ConcatProperties
  <2>6. /\ s4 \in Seq(Fields)
        /\ Elements(s4) = Elements(s3) \cup Elements(n("last_sequence"))
    <3>. HIDE DEF s3
    <3>. QED
      BY <2>2, <2>5, ElementsOfConcat, ConcatProperties
  <2>7. s5 \in Seq(Fields) /\ Elements(s5) = Elements(s4) \cup Elements(p)
    <3>. HIDE DEF s4
    <3>. QED
      BY <1>6, <2>6, ElementsOfConcat, ConcatProperties
  <2>8. s6 \in Seq(Fields) /\ Elements(s6) = Elements(s5) \cup Elements(d)
    <3>. HIDE DEF s5
    <3>. QED
      BY <1>5, <2>7, ElementsOfConcat, ConcatProperties
  <2>9. Elements(s7) = Elements(s6) \cup Elements(a)
    <3>. HIDE DEF s6
    <3>. QED
      BY <1>6, <2>8, ElementsOfConcat
  <2>10. Elements(s7) = Elements(c)
              \cup Elements(n("log_number")) \cup Elements(n("prev_log_number"))
              \cup Elements(n("next_file_number"))
              \cup Elements(n("last_sequence"))
              \cup Elements(p) \cup Elements(d) \cup Elements(a)
    <3>. HIDE DEF s1, s2, s3, s4, s5, s6, s7
    <3>. QED
      BY <2>3, <2>4, <2>5, <2>6, <2>7, <2>8, <2>9
  <2>. QED
    BY <2>1, <2>10
<1>. DEFINE numbered == Elements(n("log_number"))
                          \cup Elements(n("prev_log_number"))
                          \cup Elements(n("next_file_number"))
                          \cup Elements(n("last_sequence"))
<1>8. numbered = {Field(f, e.numbers[f]) : f \in {f \in NumberField :
                                                     e.numbers[f] > 0}}
  <2>1. \A f \in NumberField :
          Elements(n(f)) = IF e.numbers[f] > 0
                           THEN {Field(f, e.numbers[f])} ELSE {}
    BY <1>3
  <2>. HIDE DEF n
  <2>. QED
    BY <2>1 DEF NumberField
<1>9. all = Elements(c) \cup numbered \cup Elements(p) \cup Elements(d)
              \cup Elements(a)
  BY <1>7
<1>. HIDE DEF c, n, p, d, a, all, numbered
<1>10. /\ \A x \in Elements(c) : /\ x = Field("comparator", e.comparator)
                                 /\ x.tag = "comparator"
                                 /\ x.value = e.comparator
                                 /\ e.comparator # "NULL"
       /\ \A x \in numbered : \E f \in NumberField :
            x.tag = f /\ x.value = e.numbers[f] /\ e.numbers[f] > 0
       /\ \A x \in Elements(d) : x.tag = "junk"
  BY <1>2, <1>5, <1>8 DEF Field, Junk
<1>11. \A f \in NumberField :
         f \notin {"comparator", "junk", "compact_pointers", "new_files"}
  BY DEF NumberField
<1>12. \A f \in NumberField, x \in all :
         x.tag = f => e.numbers[f] > 0 /\ x.value = e.numbers[f]
  BY <1>6, <1>9, <1>10, <1>11
<1>13. \A f \in NumberField : e.numbers[f] > 0 => \E x \in all : x.tag = f
  <2>. SUFFICES ASSUME NEW f \in NumberField, e.numbers[f] > 0
                PROVE  \E x \in all : x.tag = f
    OBVIOUS
  <2>1. Field(f, e.numbers[f]) \in all
    BY <1>8, <1>9
  <2>2. Field(f, e.numbers[f]).tag = f
    BY DEF Field
  <2>. QED
    BY <2>1, <2>2
<1>14. \A x \in all : x.tag = "comparator" =>
         e.comparator # "NULL" /\ x.value = e.comparator
  BY <1>6, <1>9, <1>10, <1>11
<1>15. e.comparator # "NULL" => \E x \in all : x.tag = "comparator"
  <2>1. Field("comparator", e.comparator).tag = "comparator"
    BY DEF Field
  <2>. QED
    BY <1>2, <1>9, <2>1
<1>16. /\ e.lists["compact_pointers"] # << >> =>
            \E x \in all : x.tag = "new_files"
       /\ e.lists["delete_files"] # << >> => Junk \in all
  BY <1>5, <1>6, <1>9
<1>. QED
  BY <1>12, <1>13, <1>14, <1>15, <1>16 DEF all
------------------------------------------------------------------------------
(***************************************************************************)
(* The decoding of a record.                                               *)
(***************************************************************************)

(* value is that of the last of the first j fields with a tag.             *)
LastOf(rec, tag, j, value, default) ==
  \/ value = default /\ \A i \in 1..j : rec[i].tag # tag
  \/ \E i \in 1..j : /\ rec[i].tag = tag
                     /\ rec[i].value = value
                     /\ \A m \in (i + 1)..j : rec[m].tag # tag

(* e is what the first j fields of a record make of the cleared edit.      *)
Decodes(e, rec, j) ==
  /\ j \in 0..Len(rec)
  /\ \A i \in 1..j : ~Malformed(rec[i])
  /\ \A f \in NumberField : LastOf(rec, f, j, e.numbers[f], Absent)
  /\ LastOf(rec, "comparator", j, e.comparator, "NULL")
  /\ Applies(e) => \A i \in 1..j : rec[i].tag # "new_files"

LEMMA DecodesNothing ==
  ASSUME NEW rec \in Seq(Fields)
  PROVE  Decodes(VersionEditInit, rec, 0)
BY LenProperties DEF Decodes, LastOf, VersionEditInit

LEMMA LastOfNext ==
  ASSUME NEW rec, NEW tag, NEW j \in Nat, NEW value, NEW default
  PROVE  /\ LastOf(rec, tag, j, value, default) /\ rec[j + 1].tag # tag
              => LastOf(rec, tag, j + 1, value, default)
         /\ rec[j + 1].tag = tag /\ rec[j + 1].value = value
              => LastOf(rec, tag, j + 1, value, default)
<1>1. /\ \A i \in 1..(j + 1) : i \in 1..j \/ i = j + 1
      /\ \A i \in 1..j : i \in 1..(j + 1)
      /\ \A i \in 1..j : \A m \in (i + 1)..(j + 1) : m \in (i + 1)..j \/ m = j + 1
      /\ ((j + 1) + 1)..(j + 1) = {}
  OBVIOUS
<1>2. ASSUME LastOf(rec, tag, j, value, default), rec[j + 1].tag # tag
      PROVE  LastOf(rec, tag, j + 1, value, default)
  BY <1>1, <1>2 DEF LastOf
<1>3. ASSUME rec[j + 1].tag = tag, rec[j + 1].value = value
      PROVE  LastOf(rec, tag, j + 1, value, default)
  <2>1. j + 1 \in 1..(j + 1)
    OBVIOUS
  <2>. QED
    BY <1>1, <1>3, <2>1 DEF LastOf
<1>. QED
  BY <1>2, <1>3

LEMMA DecodesNext ==
  ASSUME NEW rec \in Seq(Fields), NEW j \in Nat, j < Len(rec),
         NEW e \in VersionEdits, Decodes(e, rec, j), ~Malformed(rec[j + 1])
  PROVE  Decodes(Decoded(e, rec[j + 1]), rec, j + 1)
<1>. DEFINE field == rec[j + 1]
            d == Decoded(e, field)
<1>1. Len(rec) \in Nat /\ j + 1 \in 1..Len(rec) /\ field \in Fields
  BY LenProperties, ElementOfSeq
<1>2. field.tag \in {"comparator"} \cup NumberField \cup ListField
  BY <1>1 DEF Fields, Malformed, Junk, Field, NumberField, ListField
<1>3. /\ field.tag = "comparator" => d = [e EXCEPT !.comparator = field.value]
      /\ field.tag \in NumberField =>
           d = [e EXCEPT !.numbers[field.tag] = field.value]
      /\ field.tag \in ListField =>
           d = [e EXCEPT !.lists[field.tag] = Append(@, field.value)]
  BY <1>2 DEF Decoded, NumberField, ListField
<1>4. \A i \in 1..(j + 1) : i \in 1..j \/ i = j + 1
  OBVIOUS
<1>. HIDE DEF d, field
<1>5. \A i \in 1..(j + 1) : ~Malformed(rec[i])
  BY <1>4 DEF Decodes, field
<1>6. ASSUME NEW f \in NumberField
      PROVE  LastOf(rec, f, j + 1, d.numbers[f], Absent)
  <2>1. CASE field.tag = f
    <3>1. d.numbers[f] = field.value
      BY <1>3, <2>1 DEF VersionEdits
    <3>. QED
      BY <2>1, <3>1, LastOfNext DEF field
  <2>2. CASE field.tag # f
    <3>1. d.numbers[f] = e.numbers[f]
      BY <1>2, <1>3, <2>2 DEF VersionEdits
    <3>2. LastOf(rec, f, j, e.numbers[f], Absent)
      BY DEF Decodes
    <3>. QED
      BY <2>2, <3>1, <3>2, LastOfNext DEF field
  <2>. QED
    BY <2>1, <2>2
<1>7. LastOf(rec, "comparator", j + 1, d.comparator, "NULL")
  <2>1. CASE field.tag = "comparator"
    <3>1. d.comparator = field.value
      BY <1>3, <2>1 DEF VersionEdits
    <3>. QED
      BY <2>1, <3>1, LastOfNext DEF field
  <2>2. CASE field.tag # "comparator"
    <3>1. d.comparator = e.comparator
      BY <1>2, <1>3, <2>2 DEF VersionEdits
    <3>2. LastOf(rec, "comparator", j, e.comparator, "NULL")
      BY DEF Decodes
    <3>. QED
      BY <2>2, <3>1, <3>2, LastOfNext DEF field
  <2>. QED
    BY <2>1, <2>2
<1>8. ASSUME Applies(d)
      PROVE  \A i \in 1..(j + 1) : rec[i].tag # "new_files"
  <2>1. field.tag # "new_files"
    <3>. SUFFICES ASSUME field.tag = "new_files" PROVE FALSE
      OBVIOUS
    <3>1. d.lists["new_files"] = Append(e.lists["new_files"], field.value)
      BY <1>3 DEF VersionEdits, ListField
    <3>2. e.lists["new_files"] \in Seq(Nat) /\ field.value \in Nat
      BY <1>1 DEF VersionEdits, ListField, Fields, NumberField
    <3>3. Append(e.lists["new_files"], field.value) # << >>
      BY <3>2, AppendProperties
    <3>. QED
      BY <1>8, <3>1, <3>3 DEF Applies
  <2>2. d.lists["new_files"] = e.lists["new_files"]
    BY <1>2, <1>3, <2>1 DEF VersionEdits, ListField
  <2>3. \A i \in 1..j : rec[i].tag # "new_files"
    BY <1>8, <2>2 DEF Applies, Decodes
  <2>. QED
    BY <1>4, <2>1, <2>3 DEF field
<1>. QED
  BY <1>1, <1>5, <1>6, <1>7, <1>8 DEF Decodes, d, field

(* The last element of a set of numbers is the only one of its kind.       *)
LEMMA LastIs ==
  ASSUME NEW S, S \subseteq Nat, NEW i \in S, \A j \in S : j <= i
  PROVE  Abstract!Last(S) = i
<1>1. \A k \in S : (\A j \in S : j <= k) => k = i
  OBVIOUS
<1>. QED
  BY <1>1 DEF Abstract!Last

(* The fields of s have one value for a tag, if there is one at all.       *)
Logs(s, tag, ours, none) ==
  /\ \A x \in Elements(s) : x.tag = tag => ours # none /\ x.value = ours
  /\ ours # none => \E x \in Elements(s) : x.tag = tag

Places(t, tag) == {i \in DOMAIN t : t[i].tag = tag}

(* The fields of other writers come last and so decide, if there are any   *)
(* with the tag.                                                           *)
LEMMA ForeignDecide ==
  ASSUME NEW s \in Seq(Fields), NEW t \in Seq(Fields), NEW tag,
         NEW value, NEW default, NEW ours, NEW none,
         LastOf(s \o t, tag, Len(s \o t), value, default),
         Logs(s, tag, ours, none)
  PROVE  value = IF Places(t, tag) # {}
                 THEN t[Abstract!Last(Places(t, tag))].value
                 ELSE IF ours # none THEN ours ELSE default
<1>. DEFINE F == {i \in DOMAIN t : t[i].tag = tag}
            st == s \o t
<1>1. /\ Len(s) \in Nat /\ DOMAIN s = 1..Len(s)
      /\ Len(t) \in Nat /\ DOMAIN t = 1..Len(t)
  BY LenProperties
<1>2. /\ Len(st) = Len(s) + Len(t)
      /\ \A i \in 1..(Len(s) + Len(t)) :
           st[i] = IF i <= Len(s) THEN s[i] ELSE t[i - Len(s)]
  BY ConcatProperties
<1>. HIDE DEF st
<1>3. /\ \A i \in 1..Len(s) : i \in 1..Len(st) /\ st[i] = s[i]
      /\ \A i \in 1..Len(t) :
           Len(s) + i \in 1..Len(st) /\ st[Len(s) + i] = t[i]
  <2>1. ASSUME NEW i \in 1..Len(t)
        PROVE  Len(s) + i \in 1..Len(st) /\ st[Len(s) + i] = t[i]
    <3>1. /\ Len(s) + i \in 1..(Len(s) + Len(t))
          /\ ~(Len(s) + i <= Len(s)) /\ (Len(s) + i) - Len(s) = i
      BY <1>1
    <3>. QED
      BY <1>2, <3>1
  <2>2. ASSUME NEW i \in 1..Len(s)
        PROVE  i \in 1..Len(st) /\ st[i] = s[i]
    BY <1>1, <1>2
  <2>. QED
    BY <2>1, <2>2
<1>4. LastOf(st, tag, Len(st), value, default)
  BY DEF st
<1>5. CASE \A i \in 1..Len(st) : st[i].tag # tag
  <2>1. value = default
    BY <1>4, <1>5 DEF LastOf
  <2>2. F = {}
    BY <1>1, <1>3, <1>5
  <2>3. \A x \in Elements(s) : x.tag # tag
    BY <1>1, <1>3, <1>5 DEF Elements
  <2>4. ours = none
    BY <2>3 DEF Logs
  <2>. QED
    BY <2>1, <2>2, <2>4 DEF Places
<1>6. CASE ~(\A i \in 1..Len(st) : st[i].tag # tag)
  <2>1. PICK i \in 1..Len(st) : /\ st[i].tag = tag
                                /\ st[i].value = value
                                /\ \A m \in (i + 1)..Len(st) : st[m].tag # tag
    BY <1>4, <1>6 DEF LastOf
  <2>2. CASE i <= Len(s)
    <3>1. s[i] = st[i] /\ i \in DOMAIN s
      BY <1>1, <1>3, <2>2
    <3>2. ours # none /\ value = ours
      BY <2>1, <3>1 DEF Elements, Logs
    <3>3. F = {}
      <4>. SUFFICES ASSUME NEW m \in F PROVE FALSE
        OBVIOUS
      <4>1. m \in 1..Len(t) /\ t[m].tag = tag
        BY <1>1
      <4>2. Len(s) + m \in (i + 1)..Len(st) /\ st[Len(s) + m].tag = tag
        BY <1>1, <1>3, <2>2, <4>1
      <4>. QED
        BY <2>1, <4>2
    <3>. QED
      BY <3>2, <3>3 DEF Places
  <2>3. CASE ~(i <= Len(s))
    <3>. DEFINE l == i - Len(s)
    <3>1. l \in 1..Len(t) /\ st[i] = t[l] /\ i = Len(s) + l
      BY <1>1, <1>2, <2>3
    <3>2. l \in F
      BY <1>1, <2>1, <3>1
    <3>3. \A m \in F : m <= l
      <4>. SUFFICES ASSUME NEW m \in F, ~(m <= l) PROVE FALSE
        OBVIOUS
      <4>1. m \in 1..Len(t) /\ t[m].tag = tag
        BY <1>1
      <4>2. Len(s) + m \in (i + 1)..Len(st)
        BY <1>1, <1>3, <3>1, <4>1
      <4>3. st[Len(s) + m].tag = tag
        BY <1>3, <4>1
      <4>. QED
        BY <2>1, <4>2, <4>3
    <3>4. F \subseteq Nat
      BY <1>1
    <3>. HIDE DEF l, F
    <3>5. Abstract!Last(F) = l
      BY <3>2, <3>3, <3>4, LastIs
    <3>. QED
      BY <2>1, <3>1, <3>2, <3>5 DEF F, Places
  <2>. QED
    BY <2>2, <2>3
<1>. QED
  BY <1>5, <1>6

(* The abstract specification speaks of the same tags, numbers and fields. *)
LEMMA SameWords ==
  /\ Abstract!NumberField = NumberField
  /\ Abstract!Absent = Absent
  /\ Abstract!Nothing = None
  /\ Abstract!Number = Number
  /\ \A field : Abstract!Malformed(field) = Malformed(field)
BY DEF Abstract!NumberField, NumberField, Abstract!Absent, Absent,
       Abstract!Nothing, None, Abstract!Number, Number, Abstract!Malformed, Malformed, Abstract!Junk,
       Junk, Abstract!Field, Field, Abstract!ListField, ListField

LEMMA EntryType ==
  ASSUME TypeOK, NEW k \in DOMAIN manifest
  PROVE  /\ manifest[k].edit \in VersionEdits
         /\ manifest[k].foreign \in Seq(Fields)
         /\ VersionEditToSds(manifest[k].edit) \in Seq(Fields)
         /\ Record(k) \in Seq(Fields)
         /\ k \in 1..Len(manifest) /\ Len(manifest) \in Nat
<1>1. manifest[k] \in Entries
  BY DEF TypeOK
<1>2. /\ manifest[k].edit \in VersionEdits
      /\ manifest[k].foreign \in Seq(Fields)
  BY <1>1 DEF Entries
<1>3. VersionEditToSds(manifest[k].edit) \in Seq(Fields)
  BY <1>2, FieldsOfAnEdit
<1>4. Record(k) \in Seq(Fields)
  BY <1>2, <1>3, ConcatProperties DEF Record
<1>5. k \in 1..Len(manifest) /\ Len(manifest) \in Nat
  BY LenProperties DEF TypeOK
<1>. QED
  BY <1>2, <1>3, <1>4, <1>5

(* An edit that was decoded to its end says what its entry says; if it can *)
(* be applied and its comparator is accepted, then the entry is sound.     *)
LEMMA DecodedEdit ==
  ASSUME TypeOK, NEW k \in DOMAIN manifest, NEW e,
         Decodes(e, Record(k), Len(Record(k)))
  PROVE  /\ \A f \in NumberField : e.numbers[f] = Abstract!Says(k, f)
         /\ Applies(e) /\ ~Mismatch(e.comparator) => ~Abstract!Unsound(k)
<1>. DEFINE logged == manifest[k].edit
            s == VersionEditToSds(logged)
            t == manifest[k].foreign
            rec == Record(k)
<1>1. /\ logged \in VersionEdits /\ s \in Seq(Fields) /\ t \in Seq(Fields)
      /\ rec = s \o t
  BY EntryType DEF Record
<1>2. /\ \A f \in NumberField, x \in Elements(s) :
           x.tag = f => logged.numbers[f] > 0 /\ x.value = logged.numbers[f]
      /\ \A f \in NumberField :
           logged.numbers[f] > 0 => \E x \in Elements(s) : x.tag = f
      /\ \A x \in Elements(s) : x.tag = "comparator" =>
           logged.comparator # "NULL" /\ x.value = logged.comparator
      /\ logged.comparator # "NULL" =>
           \E x \in Elements(s) : x.tag = "comparator"
      /\ logged.lists["compact_pointers"] # << >> =>
           \E x \in Elements(s) : x.tag = "new_files"
      /\ logged.lists["delete_files"] # << >> => Junk \in Elements(s)
  <2>. HIDE DEF s, logged
  <2>1. logged \in VersionEdits
    BY <1>1
  <2>. QED
    BY <2>1, ElementsOfAnEdit DEF s
<1>. HIDE DEF s, rec
<1>3. ASSUME NEW f \in NumberField
      PROVE  e.numbers[f] = Abstract!Says(k, f)
  <2>. DEFINE ours == logged.numbers[f]
              F == Places(t, f)
  <2>1. LastOf(s \o t, f, Len(s \o t), e.numbers[f], Absent)
    BY <1>1 DEF Decodes, rec
  <2>2. ours \in Nat
    BY <1>1, NumberAssumption DEF VersionEdits, Number
  <2>3. Logs(s, f, ours, 0)
    BY <1>2, <2>2 DEF Logs
  <2>. HIDE DEF ours, t
  <2>4. e.numbers[f] = IF F # {} THEN t[Abstract!Last(F)].value
                       ELSE IF ours # 0 THEN ours ELSE Absent
    BY <1>1, <2>1, <2>3, ForeignDecide
  <2>5. Abstract!Says(k, f) = IF F # {} THEN t[Abstract!Last(F)].value
                              ELSE IF ours = 0 THEN Absent ELSE ours
    BY SameWords DEF Abstract!Says, Abstract!Foreign, Places, ours, t
  <2>. QED
    BY <2>4, <2>5
<1>4. e.comparator = Abstract!NameIn(k)
  <2>. DEFINE ours == logged.comparator
              F == Places(t, "comparator")
  <2>1. LastOf(s \o t, "comparator", Len(s \o t), e.comparator, "NULL")
    BY <1>1 DEF Decodes, rec
  <2>3. Logs(s, "comparator", ours, "NULL")
    BY <1>2 DEF Logs
  <2>. HIDE DEF ours, t
  <2>4. e.comparator = IF F # {} THEN t[Abstract!Last(F)].value
                       ELSE IF ours # "NULL" THEN ours ELSE "NULL"
    BY <1>1, <2>1, <2>3, ForeignDecide
  <2>5. Abstract!NameIn(k) = IF F # {} THEN t[Abstract!Last(F)].value ELSE ours
    BY DEF Abstract!NameIn, Abstract!Foreign, Places, ours, t
  <2>. QED
    BY <2>4, <2>5
<1>5. /\ \A x \in Elements(rec) : ~Malformed(x)
      /\ Applies(e) => \A x \in Elements(rec) : x.tag # "new_files"
  <2>1. DOMAIN rec = 1..Len(rec)
    BY EntryType, LenProperties DEF rec
  <2>. QED
    BY <2>1 DEF Decodes, Elements, rec
<1>6. Elements(s) \subseteq Elements(rec) /\ Elements(t) \subseteq Elements(rec)
  BY <1>1, ElementsOfConcat
<1>7. ASSUME Applies(e), ~Mismatch(e.comparator)
      PROVE  ~Abstract!Unsound(k)
  <2>1. Abstract!NameIn(k) \notin {"bytewise", "bytewise_v2"}
    BY <1>4, <1>7 DEF Mismatch
  <2>2. logged.lists["compact_pointers"] = << >>
    BY <1>2, <1>5, <1>6, <1>7
  <2>3. logged.lists["delete_files"] = << >>
    <3>1. Malformed(Junk)
      BY DEF Malformed
    <3>. QED
      BY <1>2, <1>5, <1>6, <3>1
  <2>4. \A i \in DOMAIN t : ~Malformed(t[i]) /\ t[i].tag # "new_files"
    BY <1>5, <1>6, <1>7 DEF Elements
  <2>. QED
    BY <2>1, <2>2, <2>3, <2>4, SameWords DEF Abstract!Unsound
<1>. QED
  BY <1>3, <1>7
------------------------------------------------------------------------------
(***************************************************************************)
(* The invariant of the loops: what the entries read so far say has been   *)
(* collected, and all of them were sound, or there is an error.            *)
(***************************************************************************)

Sayers(f, n) ==
  {k \in Abstract!Readable : k <= n /\ Abstract!Says(k, f) # 0}

CollectedNumber(f, n) ==
  \/ ~have[f] /\ last[f] = 0 /\ Sayers(f, n) = {}
  \/ /\ have[f]
     /\ \E k \in Sayers(f, n) : /\ \A j \in Sayers(f, n) : j <= k
                                /\ last[f] = Abstract!Says(k, f)

Collected(n) ==
  /\ \A k \in Abstract!Readable : k <= n => ~Abstract!Unsound(k)
  /\ \A f \in NumberField : CollectedNumber(f, n)

(* The fields behind the first j are left to decode.                       *)
Rest(left, rec, j) ==
  /\ Len(left) = Len(rec) - j
  /\ \A i \in 1..Len(left) : left[i] = rec[j + i]

Sound(state) == pc = state /\ error = "Ok"

RecoveryInv ==
  /\ pc = "open" => pos = 0 /\ error = "Ok"
  /\ Sound("open") \/ Sound("read") \/ Sound("check") \/ Sound("install")
       => Collected(pos)
  /\ Sound("check") \/ Sound("install") => pos = Len(manifest)
  /\ pc = "install" =>
       error = "Ok" /\ \A f \in NumberField \ {"prev_log_number"} : have[f]
  /\ pc = "decode" \/ pc = "apply" \/ Sound("collect") =>
       pos \in Abstract!Readable /\ Collected(pos - 1)
  /\ pc = "decode" =>
       \E j \in 0..Len(Record(pos)) : /\ Decodes(edit, Record(pos), j)
                                      /\ Rest(input, Record(pos), j)
  /\ pc = "apply" \/ Sound("collect") =>
       Decodes(edit, Record(pos), Len(Record(pos)))
  /\ Sound("collect") => Applies(edit) /\ ~Mismatch(edit.comparator)

LEMMA CollectedNothing ==
  ASSUME TypeOK, Init
  PROVE  RecoveryInv
<1>1. \A k \in Abstract!Readable : ~(k <= 0)
  BY EntryType DEF Abstract!Readable
<1>2. \A f \in NumberField : Sayers(f, 0) = {}
  BY <1>1 DEF Sayers
<1>3. Collected(0)
  BY <1>1, <1>2 DEF Collected, CollectedNumber, Init, None
<1>. QED
  BY <1>3 DEF Init, RecoveryInv, Sound

(* Nothing readable lies between two ends.                                 *)
LEMMA CollectedFurther ==
  ASSUME NEW m \in Nat, NEW n \in Nat, m <= n, Collected(m), TypeOK,
         \A k \in Abstract!Readable : k <= n => k <= m
  PROVE  Collected(n)
<1>1. \A k \in Abstract!Readable : k \in Nat
  BY EntryType DEF Abstract!Readable
<1>2. \A k \in Abstract!Readable : k <= n <=> k <= m
  BY <1>1
<1>3. \A f \in NumberField : Sayers(f, n) = Sayers(f, m)
  BY <1>2 DEF Sayers
<1>. QED
  BY <1>2, <1>3 DEF Collected, CollectedNumber

(* The sets of sayers up to two entries, one next to the other.            *)
LEMMA SayersNext ==
  ASSUME TypeOK, NEW f, NEW n \in Abstract!Readable
  PROVE  Sayers(f, n) = Sayers(f, n - 1)
                          \cup {k \in {n} : Abstract!Says(k, f) # 0}
<1>1. n \in Nat /\ \A k \in Abstract!Readable : k \in Nat
  BY EntryType DEF Abstract!Readable
<1>2. \A k \in Abstract!Readable : k <= n <=> k <= n - 1 \/ k = n
  BY <1>1
<1>. QED
  BY <1>2 DEF Sayers

LEMMA CollectedMore ==
  ASSUME TypeOK, RecoveryInv, CollectNumbers, error = "Ok"
  PROVE  Collected(pos)'
<1>. DEFINE S(f) == Sayers(f, pos)
            P(f) == Sayers(f, pos - 1)
<1>1. /\ pos \in Abstract!Readable /\ Collected(pos - 1)
      /\ Decodes(edit, Record(pos), Len(Record(pos)))
      /\ Applies(edit) /\ ~Mismatch(edit.comparator)
  BY DEF RecoveryInv, Sound, CollectNumbers
<1>2. /\ pos \in DOMAIN manifest /\ pos \in Nat
      /\ \A k \in Abstract!Readable : k \in Nat
  BY <1>1, EntryType DEF Abstract!Readable
<1>3. /\ \A f \in NumberField : edit.numbers[f] = Abstract!Says(pos, f)
      /\ ~Abstract!Unsound(pos)
  BY <1>1, <1>2, DecodedEdit
<1>4. manifest' = manifest /\ pos' = pos
  BY DEF CollectNumbers
<1>5. /\ Abstract!Readable' = Abstract!Readable
      /\ \A k, f : Abstract!Says(k, f)' = Abstract!Says(k, f)
      /\ \A k : Abstract!Unsound(k)' <=> Abstract!Unsound(k)
  BY <1>4 DEF Abstract!Readable, Abstract!Says, Abstract!Unsound,
              Abstract!Foreign, Abstract!NameIn
<1>6. \A k \in Abstract!Readable : k <= pos => ~Abstract!Unsound(k)
  <2>1. \A k \in Abstract!Readable : k <= pos => k <= pos - 1 \/ k = pos
    BY <1>2
  <2>. QED
    BY <1>1, <1>3, <2>1 DEF Collected
<1>7. ASSUME NEW f \in NumberField
      PROVE  CollectedNumber(f, pos)'
  <2>1. S(f)' = S(f)
    BY <1>4, <1>5 DEF Sayers
  <2>2. CollectedNumber(f, pos - 1)
    BY <1>1 DEF Collected
  <2>3. S(f) = P(f) \cup {k \in {pos} : Abstract!Says(k, f) # 0}
    BY <1>1, SayersNext
  <2>4. Abstract!Says(pos, f) = edit.numbers[f] /\ edit.numbers[f] \in Nat
    BY <1>3, NumberAssumption DEF TypeOK, VersionEdits, Number
  <2>5. /\ last'[f] = IF edit.numbers[f] > 0 THEN edit.numbers[f] ELSE last[f]
        /\ have'[f] = (have[f] \/ edit.numbers[f] > 0)
    BY DEF CollectNumbers, EditHas
  <2>6. \A k \in P(f) : k <= pos - 1 /\ k \in Nat
    BY <1>2 DEF Sayers
  <2>. HIDE DEF S, P
  <2>7. CASE edit.numbers[f] > 0
    <3>1. pos \in S(f) /\ \A j \in S(f) : j <= pos
      BY <1>2, <2>3, <2>4, <2>6, <2>7
    <3>2. last'[f] = Abstract!Says(pos, f)' /\ have'[f]
      <4>1. last'[f] = Abstract!Says(pos, f) /\ have'[f]
        BY <2>4, <2>5, <2>7
      <4>2. Abstract!Says(pos, f)' = Abstract!Says(pos, f)
        BY <1>4 DEF Abstract!Says, Abstract!Foreign
      <4>. QED
        BY <4>1, <4>2
    <3>3. pos \in S(f)' /\ \A j \in S(f)' : j <= pos
      BY <2>1, <3>1
    <3>. QED
      BY <1>4, <3>2, <3>3 DEF CollectedNumber, S
  <2>8. CASE ~(edit.numbers[f] > 0)
    <3>1. S(f) = P(f)
      BY <2>3, <2>4, <2>8
    <3>2. last'[f] = last[f] /\ have'[f] = have[f]
      BY <2>5, <2>8 DEF TypeOK
    <3>3. \/ ~have[f] /\ last[f] = 0 /\ P(f) = {}
          \/ /\ have[f]
             /\ \E k \in P(f) : /\ \A j \in P(f) : j <= k
                                /\ last[f] = Abstract!Says(k, f)
      BY <2>2 DEF CollectedNumber, P
    <3>4. \/ ~have'[f] /\ last'[f] = 0 /\ S(f)' = {}
          \/ /\ have'[f]
             /\ \E k \in S(f)' : /\ \A j \in S(f)' : j <= k
                                 /\ last'[f] = Abstract!Says(k, f)'
      BY <1>5, <2>1, <3>1, <3>2, <3>3
    <3>. QED
      BY <3>4 DEF CollectedNumber, S
  <2>. QED
    BY <2>7, <2>8
<1>8. \A k \in Abstract!Readable' : k <= pos' => ~Abstract!Unsound(k)'
  BY <1>4, <1>5, <1>6
<1>. QED
  BY <1>7, <1>8 DEF Collected

(* One field more is decoded.                                              *)
LEMMA DecodedMore ==
  ASSUME TypeOK, RecoveryInv, DecodeField
  PROVE  \E j \in 0..Len(Record(pos)) : /\ Decodes(edit', Record(pos), j)
                                        /\ Rest(input', Record(pos), j)
<1>. DEFINE rec == Record(pos)
<1>1. pos \in DOMAIN manifest
  BY DEF RecoveryInv, DecodeField, Abstract!Readable
<1>2. rec \in Seq(Fields) /\ Len(rec) \in Nat
  BY <1>1, EntryType, LenProperties
<1>3. PICK j \in 0..Len(rec) : Decodes(edit, rec, j) /\ Rest(input, rec, j)
  BY DEF RecoveryInv, DecodeField
<1>. HIDE DEF rec
<1>4. /\ input \in Seq(Fields) /\ input # << >> /\ Len(input) \in Nat
      /\ input' = Tail(input) /\ edit' = Decoded(edit, Head(input))
      /\ ~Malformed(Head(input)) /\ edit \in VersionEdits
  BY LenProperties DEF DecodeField, TypeOK
<1>5. /\ Head(input) = input[1]
      /\ Len(Tail(input)) = Len(input) - 1
      /\ \A i \in 1..(Len(input) - 1) : Tail(input)[i] = input[i + 1]
      /\ Len(input) # 0
  BY <1>4, HeadTailProperties, EmptySeq
<1>6. /\ Len(input) = Len(rec) - j
      /\ \A i \in 1..Len(input) : input[i] = rec[j + i]
      /\ j \in Nat /\ j < Len(rec)
  BY <1>2, <1>3, <1>4, <1>5 DEF Rest
<1>7. Head(input) = rec[j + 1]
  BY <1>4, <1>5, <1>6
<1>8. Decodes(edit', rec, j + 1)
  BY <1>2, <1>3, <1>4, <1>6, <1>7, DecodesNext
<1>9. Rest(input', rec, j + 1)
  <2>1. ASSUME NEW i \in 1..Len(input')
        PROVE  input'[i] = rec[(j + 1) + i]
    <3>1. i \in 1..(Len(input) - 1) /\ i + 1 \in 1..Len(input)
      BY <1>4, <1>5
    <3>2. input'[i] = input[i + 1] /\ input[i + 1] = rec[j + (i + 1)]
      BY <1>4, <1>5, <1>6, <3>1
    <3>3. j + (i + 1) = (j + 1) + i
      BY <1>6
    <3>. QED
      BY <3>2, <3>3
  <2>2. Len(input') = Len(rec) - (j + 1)
    BY <1>2, <1>4, <1>5, <1>6
  <2>. QED
    BY <2>1, <2>2 DEF Rest
<1>10. j + 1 \in 0..Len(rec)
  BY <1>2, <1>6
<1>. QED
  BY <1>8, <1>9, <1>10 DEF rec

LEMMA RecoveryInductive ==
  ASSUME TypeOK, RecoveryInv, [Next]_vars
  PROVE  RecoveryInv'
<1>1. manifest' = manifest
  BY DEF Next, vars, OpenManifest, ReadRecord, EndOfLoop, DecodeField,
         DecodeFails, DecodeEnds, ApplyEdit, CollectNumbers, CheckNumbers,
         InstallVersion, Crash
<1>2. /\ Abstract!Readable' = Abstract!Readable
      /\ \A k, f : Abstract!Says(k, f)' = Abstract!Says(k, f)
      /\ \A k : Abstract!Unsound(k)' <=> Abstract!Unsound(k)
      /\ \A k : Record(k)' = Record(k)
  BY <1>1 DEF Abstract!Readable, Abstract!Says, Abstract!Unsound,
              Abstract!Foreign, Abstract!NameIn, Record
<1>3. ASSUME UNCHANGED <<last, have>>, NEW n, Collected(n), NEW m, m = n
      PROVE  /\ \A k \in Abstract!Readable' : k <= m => ~Abstract!Unsound(k)'
             /\ \A f \in NumberField :
                  \/ ~have'[f] /\ last'[f] = 0 /\ Sayers(f, m)' = {}
                  \/ /\ have'[f]
                     /\ \E k \in Sayers(f, m)' :
                          /\ \A j \in Sayers(f, m)' : j <= k
                          /\ last'[f] = Abstract!Says(k, f)'
  <2>1. \A f : Sayers(f, m)' = Sayers(f, m)
    BY <1>2 DEF Sayers
  <2>. QED
    BY <1>2, <1>3, <2>1 DEF Collected, CollectedNumber
<1>4. ASSUME UNCHANGED <<last, have>>, Collected(pos')
      PROVE  Collected(pos)'
  BY <1>3, <1>4 DEF Collected, CollectedNumber, Sayers
<1>5. ASSUME UNCHANGED <<last, have>>, Collected(pos' - 1)
      PROVE  Collected(pos - 1)'
  BY <1>3, <1>5 DEF Collected, CollectedNumber, Sayers
<1>6. Len(manifest) \in Nat /\ pos \in 0..Len(manifest)
      /\ \A k \in Abstract!Readable : k \in 1..Len(manifest)
  BY EntryType, LenProperties DEF TypeOK, Abstract!Readable
<1>7. CASE OpenManifest
  <2>1. /\ pos' = pos /\ UNCHANGED <<last, have>>
        /\ pc' = "returned" \/ (pc' = "read" /\ error' = error)
        /\ Collected(pos)
    BY <1>7 DEF OpenManifest, Return, collected, RecoveryInv, Sound
  <2>2. Collected(pos)'
    BY <1>4, <2>1
  <2>. QED
    BY <2>1, <2>2 DEF RecoveryInv, Sound
<1>8. CASE ReadRecord
  <2>1. PICK k \in DOMAIN manifest :
          NextReadable(k) /\ pos' = k /\ input' = Record(k)
    BY <1>8 DEF ReadRecord
  <2>2. /\ pc = "read" /\ error = "Ok" /\ pc' = "decode"
        /\ edit' = VersionEditInit /\ UNCHANGED <<last, have>>
        /\ Collected(pos)
    BY <1>8 DEF ReadRecord, collected, RecoveryInv, Sound
  <2>3. k \in Abstract!Readable /\ k \in (pos + 1)..Len(manifest)
        /\ \A i \in (pos + 1)..(k - 1) : i \notin Abstract!Readable
    BY <2>1 DEF NextReadable, Abstract!Readable
  <2>4. Collected(k - 1)
    <3>1. k - 1 \in Nat /\ pos \in Nat /\ pos <= k - 1
      BY <1>6, <2>3
    <3>2. \A i \in Abstract!Readable : i <= k - 1 => i <= pos
      BY <1>6, <2>3
    <3>. QED
      BY <2>2, <3>1, <3>2, CollectedFurther
  <2>5. Collected(pos - 1)'
    BY <1>5, <2>1, <2>2, <2>4
  <2>6. Decodes(edit', Record(k), 0) /\ Rest(input', Record(k), 0)
        /\ 0 \in 0..Len(Record(k))
    <3>1. Record(k) \in Seq(Fields) /\ Len(Record(k)) \in Nat
      BY <2>1, EntryType, LenProperties
    <3>. QED
      BY <2>1, <2>2, <3>1, DecodesNothing DEF Rest
  <2>7. (\E j \in 0..Len(Record(pos)) : /\ Decodes(edit, Record(pos), j)
                                        /\ Rest(input, Record(pos), j))'
    <3>1. Record(pos)' = Record(k)
      BY <1>1, <2>1 DEF Record
    <3>. QED
      BY <2>6, <3>1
  <2>. QED
    BY <1>2, <2>1, <2>2, <2>3, <2>5, <2>7 DEF RecoveryInv, Sound
<1>9. CASE EndOfLoop
  <2>1. pc = "read" /\ pc' = "check" /\ error' = error
        /\ UNCHANGED <<last, have>>
    BY <1>9 DEF EndOfLoop, collected
  <2>2. CASE error = "Ok"
    <3>1. /\ \A k \in DOMAIN manifest : ~NextReadable(k)
          /\ pos' = Len(manifest)
          /\ Collected(pos)
      BY <1>9, <2>1, <2>2 DEF EndOfLoop, RecoveryInv, Sound
    <3>. DEFINE T == {k \in Abstract!Readable : k > pos}
    <3>2. T = {}
      <4>. SUFFICES ASSUME T # {} PROVE FALSE
        OBVIOUS
      <4>1. PICK k \in T : \A m \in T : k <= m
        <5>1. T \subseteq Nat
          BY <1>6
        <5>. HIDE DEF T
        <5>. QED
          BY <5>1, LeastElement
      <4>2. k \in (pos + 1)..Len(manifest) /\ ~manifest[k].damaged
            /\ k \in DOMAIN manifest
        BY <1>6, <4>1 DEF Abstract!Readable
      <4>3. ASSUME NEW i \in (pos + 1)..(k - 1)
            PROVE  manifest[i].damaged
        <5>1. i \notin T /\ i > pos /\ i \in DOMAIN manifest
          <6>1. DOMAIN manifest = 1..Len(manifest)
            BY LenProperties DEF TypeOK
          <6>. QED
            BY <1>6, <4>1, <4>2, <6>1
        <5>. QED
          BY <5>1 DEF Abstract!Readable
      <4>. QED
        BY <3>1, <4>2, <4>3 DEF NextReadable
    <3>3. Collected(Len(manifest))
      <4>1. \A k \in Abstract!Readable : k <= Len(manifest) => k <= pos
        BY <1>6, <3>2
      <4>. QED
        BY <1>6, <3>1, <4>1, CollectedFurther
    <3>4. Collected(pos)'
      BY <1>4, <2>1, <3>1, <3>3
    <3>. QED
      BY <1>1, <2>1, <3>1, <3>4 DEF RecoveryInv, Sound
  <2>3. CASE error # "Ok"
    BY <2>1, <2>3 DEF RecoveryInv, Sound
  <2>. QED
    BY <2>2, <2>3
<1>10. CASE DecodeField
  <2>1. pc = "decode" /\ pc' = pc /\ pos' = pos /\ UNCHANGED <<last, have>>
    BY <1>10 DEF DecodeField, collected
  <2>2. pos \in Abstract!Readable /\ Collected(pos - 1)
    BY <2>1 DEF RecoveryInv
  <2>3. Collected(pos - 1)' /\ pos' \in Abstract!Readable'
    BY <1>2, <1>5, <2>1, <2>2
  <2>4. (\E j \in 0..Len(Record(pos)) : /\ Decodes(edit, Record(pos), j)
                                        /\ Rest(input, Record(pos), j))'
    <3>1. Record(pos)' = Record(pos)
      BY <1>1, <2>1 DEF Record
    <3>. QED
      BY <1>10, <3>1, DecodedMore
  <2>. QED
    BY <2>1, <2>3, <2>4 DEF RecoveryInv, Sound
<1>11. CASE DecodeFails
  BY <1>11 DEF DecodeFails, RecoveryInv, Sound
<1>12. CASE DecodeEnds
  <2>1. /\ pc = "decode" /\ input = << >> /\ pos' = pos /\ edit' = edit
        /\ UNCHANGED <<last, have>>
        /\ pc' = "apply" \/ (pc' = "collect" /\ error' # "Ok")
    BY <1>12 DEF DecodeEnds, decoder, collected
  <2>2. pos \in Abstract!Readable /\ Collected(pos - 1)
    BY <2>1 DEF RecoveryInv
  <2>3. Collected(pos - 1)' /\ pos' \in Abstract!Readable'
    BY <1>2, <1>5, <2>1, <2>2
  <2>4. Decodes(edit, Record(pos), Len(Record(pos)))
    <3>1. PICK j \in 0..Len(Record(pos)) : /\ Decodes(edit, Record(pos), j)
                                           /\ Rest(input, Record(pos), j)
      BY <2>1 DEF RecoveryInv
    <3>2. Len(input) = 0
      BY <2>1
    <3>3. Len(Record(pos)) \in Nat
      BY <2>2, EntryType, LenProperties DEF Abstract!Readable
    <3>4. j = Len(Record(pos))
      BY <3>1, <3>2, <3>3 DEF Rest
    <3>. QED
      BY <3>1, <3>4
  <2>5. Decodes(edit, Record(pos), Len(Record(pos)))'
    <3>1. Record(pos)' = Record(pos)
      BY <1>1, <2>1 DEF Record
    <3>. QED
      BY <2>1, <2>4, <3>1
  <2>. QED
    BY <2>1, <2>3, <2>5 DEF RecoveryInv, Sound
<1>13. CASE ApplyEdit
  <2>1. /\ pc = "apply" /\ pc' = "collect" /\ pos' = pos /\ edit' = edit
        /\ UNCHANGED <<last, have>>
        /\ error' = "InvalidArgument"
             \/ (~Mismatch(edit.comparator) /\ Applies(edit))
    BY <1>13 DEF ApplyEdit, decoder, collected
  <2>2. /\ pos \in Abstract!Readable /\ Collected(pos - 1)
        /\ Decodes(edit, Record(pos), Len(Record(pos)))
    BY <2>1 DEF RecoveryInv
  <2>3. Collected(pos - 1)' /\ pos' \in Abstract!Readable'
    BY <1>2, <1>5, <2>1, <2>2
  <2>4. Decodes(edit, Record(pos), Len(Record(pos)))'
    <3>1. Record(pos)' = Record(pos)
      BY <1>1, <2>1 DEF Record
    <3>. QED
      BY <2>1, <2>2, <3>1
  <2>. QED
    BY <2>1, <2>3, <2>4 DEF RecoveryInv, Sound
<1>14. CASE CollectNumbers
  <2>1. error = "Ok" => Collected(pos)'
    BY <1>14, CollectedMore
  <2>. QED
    BY <1>14, <2>1 DEF CollectNumbers, RecoveryInv, Sound
<1>15. CASE CheckNumbers
  <2>1. CASE pc' = "returned"
    BY <2>1 DEF RecoveryInv, Sound
  <2>2. CASE pc' # "returned"
    <3>1. /\ pc = "check" /\ error = "Ok" /\ pc' = "install" /\ error' = error
          /\ pos' = pos /\ have' = have
          /\ \A f \in NumberField \ {"prev_log_number"} : have[f]
          /\ last' = [last EXCEPT !["prev_log_number"] =
                        IF have["prev_log_number"]
                        THEN last["prev_log_number"] ELSE 0]
      BY <1>15, <2>2 DEF CheckNumbers, Return
    <3>2. Collected(pos) /\ pos = Len(manifest)
      BY <3>1 DEF RecoveryInv, Sound
    <3>3. last' = last
      <4>1. ~have["prev_log_number"] => last["prev_log_number"] = 0
        BY <3>2 DEF Collected, CollectedNumber, NumberField
      <4>. QED
        BY <3>1, <4>1 DEF TypeOK
    <3>4. Collected(pos)'
      BY <1>4, <3>1, <3>2, <3>3
    <3>. QED
      BY <1>1, <3>1, <3>2, <3>4 DEF RecoveryInv, Sound
  <2>. QED
    BY <2>1, <2>2
<1>16. CASE InstallVersion
  BY <1>16 DEF InstallVersion, Return, RecoveryInv, Sound
<1>17. CASE Crash
  BY <1>17 DEF Crash, RecoveryInv, Sound
<1>18. CASE UNCHANGED vars
  <2>1. UNCHANGED <<pos, pc, error, input, edit, last, have>>
    BY <1>18 DEF vars, decoder, collected
  <2>2. \A n : Record(n)' = Record(n)
    BY <1>2
  <2>3. Collected(pos) => Collected(pos)'
    BY <1>4, <2>1
  <2>4. Collected(pos - 1) => Collected(pos - 1)'
    BY <1>5, <2>1
  <2>5. Record(pos)' = Record(pos)
    BY <1>1, <2>1 DEF Record
  <2>. QED
    BY <1>1, <1>2, <2>1, <2>3, <2>4, <2>5 DEF RecoveryInv, Sound, Rest
<1>. QED
  BY <1>7, <1>8, <1>9, <1>10, <1>11, <1>12, <1>13, <1>14, <1>15, <1>16, <1>17,
     <1>18 DEF Next

(* The invariant holds in every reachable state: without an error, what    *)
(* has been collected is what the entries read so far say, and all of them *)
(* were sound (versionSet.c:187-234).                                      *)
THEOREM RecoveryInvariant == Spec => []RecoveryInv
<1>1. Init /\ TypeOK => RecoveryInv
  BY CollectedNothing
<1>2. TypeOK /\ RecoveryInv /\ [Next]_vars => RecoveryInv'
  BY RecoveryInductive
<1>. QED
  BY <1>1, <1>2, TypeCorrect, PTL DEF Spec

(* Once the manifest has been read to its end without an error, what has   *)
(* been collected is what the abstract specification reads off the edits.  *)
LEMMA CollectedRecovered ==
  ASSUME TypeOK, RecoveryInv, Sound("check") \/ Sound("install")
  PROVE  /\ \A k \in Abstract!Readable : ~Abstract!Unsound(k)
         /\ \A f \in NumberField : have[f] <=> Abstract!Recovered[f] # 0
         /\ last = Abstract!Recovered
<1>1. Collected(Len(manifest))
  BY DEF RecoveryInv, Sound
<1>2. Len(manifest) \in Nat
      /\ \A k \in Abstract!Readable : k \in 1..Len(manifest)
  BY EntryType, LenProperties DEF TypeOK, Abstract!Readable
<1>3. \A k \in Abstract!Readable : ~Abstract!Unsound(k)
  BY <1>1, <1>2 DEF Collected
<1>4. ASSUME NEW f \in NumberField
      PROVE  /\ last[f] = Abstract!Recovered[f]
             /\ have[f] <=> Abstract!Recovered[f] # 0
  <2>. DEFINE S == Sayers(f, Len(manifest))
              sayers == {k \in Abstract!Readable : Abstract!Says(k, f) # 0}
  <2>1. S = sayers
    BY <1>2 DEF Sayers
  <2>2. Abstract!Recovered[f] =
          IF sayers = {} THEN 0 ELSE Abstract!Says(Abstract!Last(sayers), f)
    BY SameWords DEF Abstract!Recovered
  <2>3. \/ ~have[f] /\ last[f] = 0 /\ S = {}
        \/ /\ have[f]
           /\ \E k \in S : /\ \A j \in S : j <= k
                           /\ last[f] = Abstract!Says(k, f)
    BY <1>1 DEF Collected, CollectedNumber
  <2>4. CASE S = {}
    BY <2>1, <2>2, <2>3, <2>4
  <2>5. CASE S # {}
    <3>1. PICK k \in S : (\A j \in S : j <= k) /\ last[f] = Abstract!Says(k, f)
      BY <2>3, <2>5
    <3>2. Abstract!Says(k, f) # 0 /\ S \subseteq Nat
      BY <1>2 DEF Sayers
    <3>. HIDE DEF S, sayers
    <3>3. Abstract!Last(S) = k
      BY <3>1, <3>2, LastIs
    <3>. QED
      BY <2>1, <2>2, <2>3, <2>5, <3>1, <3>2, <3>3
  <2>. QED
    BY <2>4, <2>5
<1>5. last = Abstract!Recovered
  <2>1. /\ DOMAIN last = NumberField
        /\ last = [f \in NumberField |-> last[f]]
    BY DEF TypeOK
  <2>2. Abstract!Recovered = [f \in NumberField |-> Abstract!Recovered[f]]
    BY SameWords DEF Abstract!Recovered
  <2>. QED
    BY <1>4, <2>1, <2>2
<1>. QED
  BY <1>3, <1>4, <1>5

(* Marking both log numbers, one after the other, makes of next_file_number *)
(* what the abstract specification says of it.                             *)
LEMMA MarksBoth ==
  ASSUME TypeOK, last = Abstract!Recovered
  PROVE  Abstract!Marked =
           MakeFileNumberUsed(
             MakeFileNumberUsed(next_file_number, last["prev_log_number"]),
             last["log_number"])
<1>. DEFINE next == next_file_number
            prev == last["prev_log_number"]
            log == last["log_number"]
            used == MakeFileNumberUsed(next, prev)
            S == {next, prev + 1, log + 1}
<1>1. /\ MaxNumber \in Nat /\ Absent = MaxNumber
      /\ next \in 0..MaxNumber /\ prev \in 0..MaxNumber
      /\ log \in 0..MaxNumber
  BY NumberAssumption DEF TypeOK, Number, NumberField, Absent
<1>2. Abstract!Marked =
        CASE log = Absent                  -> 0
          [] log # Absent /\ prev = Absent -> log + 1
          [] OTHER                         -> Abstract!Last(S)
  BY SameWords DEF Abstract!Marked
<1>3. ASSUME NEW n \in 0..MaxNumber, NEW m \in 0..MaxNumber
      PROVE  MakeFileNumberUsed(n, m) = IF ~(n <= m) THEN n
                                        ELSE IF m = Absent THEN 0 ELSE m + 1
  <2>1. (MaxNumber + 1) % (MaxNumber + 1) = 0
    BY <1>1
  <2>2. m # MaxNumber => (m + 1) % (MaxNumber + 1) = m + 1
    BY <1>1
  <2>. QED
    BY <1>1, <2>1, <2>2 DEF MakeFileNumberUsed
<1>4. used \in 0..MaxNumber
  BY <1>1, <1>3
<1>5. used = IF ~(next <= prev) THEN next
             ELSE IF prev = Absent THEN 0 ELSE prev + 1
  BY <1>1, <1>3
<1>6. MakeFileNumberUsed(used, log) =
        IF ~(used <= log) THEN used ELSE IF log = Absent THEN 0 ELSE log + 1
  BY <1>1, <1>3, <1>4
<1>. DEFINE both == MakeFileNumberUsed(used, log)
<1>. HIDE DEF next, prev, log, used, both
<1>7. both = IF ~(used <= log) THEN used
             ELSE IF log = Absent THEN 0 ELSE log + 1
  BY <1>6 DEF both
<1>8. CASE log = Absent
  <2>1. both = 0
    BY <1>1, <1>4, <1>7, <1>8
  <2>. QED
    BY <1>2, <1>8, <2>1 DEF both, used, next, prev, log
<1>9. CASE log # Absent /\ prev = Absent
  <2>1. used = 0
    BY <1>1, <1>5, <1>9
  <2>2. both = log + 1
    BY <1>1, <1>7, <1>9, <2>1
  <2>. QED
    BY <1>2, <1>9, <2>2 DEF both, used, next, prev, log
<1>10. CASE log # Absent /\ prev # Absent
  <2>1. both = IF ~(used <= log) THEN used ELSE log + 1
    BY <1>7, <1>10
  <2>2. used = IF ~(next <= prev) THEN next ELSE prev + 1
    BY <1>5, <1>10
  <2>3. both \in S /\ \A m \in S : m <= both
    BY <1>1, <2>1, <2>2
  <2>4. Abstract!Last(S) = both
    <3>1. S \subseteq Nat
      BY <1>1
    <3>. HIDE DEF S
    <3>. QED
      BY <2>3, <3>1, LastIs
  <2>5. Abstract!Marked = Abstract!Last(S)
    BY <1>2, <1>10
  <2>. QED
    BY <2>4, <2>5 DEF both, used, next, prev, log
<1>. QED
  BY <1>8, <1>9, <1>10

(* A recovery fails, or installs what the sound edits of the manifest      *)
(* give: for every manifest, whatever other writers put in it, and however *)
(* wide the numbers are.  If it fails, the numbers of the version set are  *)
(* as they were, except that next_file_number is past both log numbers if  *)
(* it fails for a missing number (versionSet.c:187-270,                    *)
(* versionEdit.c:20-85, 170-271).                                          *)
THEOREM RecoveryImplemented == Spec => ImplementsRecovery
<1>1. Init => Abstract!Init
  BY SameWords DEF Init, Abstract!Init
<1>2. TypeOK /\ RecoveryInv /\ [Next]_vars => [Abstract!Next]_Abstract!vars
  <2>. SUFFICES ASSUME TypeOK, RecoveryInv, [Next]_vars
                PROVE  [Abstract!Next]_Abstract!vars
    OBVIOUS
  <2>1. CASE InstallVersion
    <3>1. /\ pc = "install" /\ pc' = "returned" /\ error' = "Ok"
          /\ numbers' = last /\ manifest' = manifest
          /\ next_file_number' =
               (last["next_file_number"] + 1) % (MaxNumber + 1)
      BY <2>1 DEF InstallVersion, Return
    <3>2. last = Abstract!Recovered
      BY <3>1, CollectedRecovered DEF RecoveryInv, Sound
    <3>3. (last["next_file_number"] + 1) % (MaxNumber + 1) =
            IF last["next_file_number"] = Absent
            THEN 0 ELSE last["next_file_number"] + 1
      <4>1. last["next_file_number"] \in Number
        BY DEF TypeOK, NumberField
      <4>2. (MaxNumber + 1) % (MaxNumber + 1) = 0
        BY NumberAssumption
      <4>. QED
        BY <4>1, <4>2, NextNumber DEF Absent
    <3>4. Abstract!Install
      BY <3>1, <3>2, <3>3, SameWords DEF Abstract!Install
    <3>. QED
      BY <3>4 DEF Abstract!Next
  <2>2. CASE CheckNumbers
    <3>1. /\ pc = "check" /\ UNCHANGED <<manifest, numbers>>
      BY <2>2 DEF CheckNumbers
    <3>2. CASE error # "Ok"
      <4>1. /\ pc' = "returned" /\ error' # "Ok"
            /\ UNCHANGED next_file_number
        BY <2>2, <3>2 DEF CheckNumbers, Return
      <4>. QED
        BY <3>1, <4>1 DEF Abstract!Next, Abstract!Fail
    <3>3. CASE error = "Ok"
      <4>1. /\ \A k \in Abstract!Readable : ~Abstract!Unsound(k)
            /\ \A f \in NumberField : have[f] <=> Abstract!Recovered[f] # 0
            /\ last = Abstract!Recovered
        BY <3>1, <3>3, CollectedRecovered DEF Sound
      <4>2. (IF have["prev_log_number"] THEN last["prev_log_number"] ELSE 0)
              = last["prev_log_number"]
        BY <4>1 DEF NumberField
      <4>3. next_file_number' = Abstract!Marked
        <5>1. next_file_number' =
                MakeFileNumberUsed(
                  MakeFileNumberUsed(next_file_number,
                    IF have["prev_log_number"]
                    THEN last["prev_log_number"] ELSE 0),
                  last["log_number"])
          BY <2>2, <3>3 DEF CheckNumbers
        <5>. QED
          BY <4>1, <4>2, <5>1, MarksBoth
      <4>4. IF \A f \in NumberField \ {"prev_log_number"} :
                 Abstract!Recovered[f] # 0
            THEN pc' = "install"
            ELSE pc' = "returned" /\ error' # "Ok"
        BY <2>2, <3>3, <4>1 DEF CheckNumbers, Return
      <4>5. Abstract!Mark
        BY <3>1, <4>1, <4>3, <4>4, SameWords DEF Abstract!Mark
      <4>. QED
        BY <4>5 DEF Abstract!Next
    <3>. QED
      BY <3>2, <3>3
  <2>3. CASE Crash
    <3>1. /\ pc \notin {"returned", "crashed"} /\ pc' = "crashed"
          /\ UNCHANGED <<manifest, numbers, next_file_number>>
      BY <2>3 DEF Crash, version_set
    <3>. QED
      BY <3>1 DEF Abstract!Next, Abstract!Fail
  <2>4. CASE \/ OpenManifest \/ ReadRecord \/ EndOfLoop
             \/ DecodeField \/ DecodeFails \/ DecodeEnds
             \/ ApplyEdit \/ CollectNumbers
    <3>1. UNCHANGED <<manifest, numbers, next_file_number>>
      BY <2>4 DEF OpenManifest, ReadRecord, EndOfLoop, DecodeField,
                  DecodeFails, DecodeEnds, ApplyEdit, CollectNumbers,
                  version_set
    <3>2. /\ pc \notin {"returned", "crashed", "install"}
          /\ \/ pc' \notin {"returned", "crashed", "install"}
             \/ pc' = "returned" /\ error' # "Ok"
      BY <2>4 DEF OpenManifest, ReadRecord, EndOfLoop, DecodeField,
                  DecodeFails, DecodeEnds, ApplyEdit, CollectNumbers, Return
    <3>3. CASE pc' \notin {"returned", "crashed", "install"}
      BY <3>1, <3>2, <3>3 DEF Abstract!vars
    <3>4. CASE pc' = "returned" /\ error' # "Ok"
      BY <3>1, <3>2, <3>4 DEF Abstract!Next, Abstract!Fail
    <3>. QED
      BY <3>2, <3>3, <3>4
  <2>5. CASE UNCHANGED vars
    BY <2>5 DEF vars, version_set, Abstract!vars
  <2>. QED
    BY <2>1, <2>2, <2>3, <2>4, <2>5 DEF Next
<1>. QED
  BY <1>1, <1>2, TypeCorrect, RecoveryInvariant, PTL
  DEF Spec, ImplementsRecovery, Abstract!Spec
==============================================================================
