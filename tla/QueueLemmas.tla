---------------------------- MODULE QueueLemmas ----------------------------
(***************************************************************************)
(* Facts about the sequences that stand for Redis lists: what RPUSH of one *)
(* id or of several, LRANGE and LTRIM do to the elements of a list and to  *)
(* its having no duplicates.                                               *)
(***************************************************************************)
EXTENDS Integers, FiniteSets, SequencesExt, SequenceTheorems, FiniteSetTheorems,
        TLAPS

(***************************************************************************)
(* An ordering of a finite set, as SMEMBERS or ZRANGEBYSCORE return one,   *)
(* has exactly the elements of the set, each once.                         *)
(***************************************************************************)
LEMMA OrderOfSet ==
  ASSUME NEW S, IsFiniteSet(S), NEW order \in SetToSeqs(S)
  PROVE  /\ order \in Seq(S)
         /\ Range(order) = S
         /\ IsInjective(order)
         /\ order = <<>> <=> S = {}
<1> DEFINE n == Cardinality(S)
<1>1. n \in Nat
  BY FS_CardinalityType
<1>2. order \in [1..n -> S] /\ \A i, j \in 1..n : i # j => order[i] # order[j]
  BY DEF SetToSeqs
<1>3. order \in Seq(S)
  BY <1>1, <1>2, SeqDef
<1>4. IsInjective(order)
  BY <1>2 DEF IsInjective
<1>5. order \in Injection(1..n, S)
  BY <1>2, <1>4 DEF Injection
<1>6. Cardinality(1..n) = n
  BY <1>1, FS_Interval
<1>7. order \in Surjection(1..n, S)
  BY <1>5, <1>6, FS_Injection
<1>8. Range(order) = S
  BY <1>2, <1>7 DEF Surjection, Range
<1>9. order = <<>> <=> S = {}
  <2>1. ASSUME S = {} PROVE order = <<>>
    <3>1. n = 0
      BY <2>1, FS_EmptySet
    <3>2. Len(order) = 0
      BY <1>1, <1>2, <1>3, <3>1, LenProperties
    <3> QED
      BY <1>3, <3>2, EmptySeq
  <2>2. ASSUME order = <<>> PROVE S = {}
    <3>1. DOMAIN order = {}
      BY <2>2
    <3> QED
      BY <1>8, <3>1 DEF Range
  <2> QED
    BY <2>1, <2>2
<1> QED
  BY <1>3, <1>4, <1>8, <1>9

(***************************************************************************)
(* RPUSH of one id.                                                        *)
(***************************************************************************)
LEMMA AppendOne ==
  ASSUME NEW S, NEW seq \in Seq(S), NEW elt \in S
  PROVE  /\ Append(seq, elt) \in Seq(S)
         /\ Range(Append(seq, elt)) = Range(seq) \cup {elt}
         /\ IsInjective(seq) /\ elt \notin Range(seq) => IsInjective(Append(seq, elt))
<1>1. /\ Append(seq, elt) \in Seq(S)
      /\ Len(Append(seq, elt)) = Len(seq) + 1
      /\ \A i \in 1..Len(seq) : Append(seq, elt)[i] = seq[i]
      /\ Append(seq, elt)[Len(seq) + 1] = elt
  BY AppendProperties
<1>2. /\ Len(seq) \in Nat
      /\ DOMAIN seq = 1..Len(seq)
      /\ DOMAIN Append(seq, elt) = 1..(Len(seq) + 1)
  BY <1>1, LenProperties
<1>3. 1..(Len(seq) + 1) = (1..Len(seq)) \cup {Len(seq) + 1}
  BY <1>2
<1>4. Range(Append(seq, elt)) = Range(seq) \cup {elt}
  BY <1>1, <1>2, <1>3 DEF Range
<1>5. ASSUME IsInjective(seq), elt \notin Range(seq) PROVE IsInjective(Append(seq, elt))
  <2> SUFFICES ASSUME NEW a \in 1..(Len(seq) + 1), NEW b \in 1..(Len(seq) + 1),
                      Append(seq, elt)[a] = Append(seq, elt)[b]
               PROVE  a = b
    BY <1>2 DEF IsInjective
  <2>1. \A i \in 1..Len(seq) : seq[i] # elt
    BY <1>2, <1>5 DEF Range
  <2> QED
    BY <1>1, <1>2, <1>3, <1>5, <2>1 DEF IsInjective
<1> QED
  BY <1>1, <1>4, <1>5

(***************************************************************************)
(* RPUSH of several ids.                                                   *)
(***************************************************************************)
LEMMA ConcatDisjoint ==
  ASSUME NEW S, NEW s \in Seq(S), NEW t \in Seq(S),
         IsInjective(s), IsInjective(t), Range(s) \cap Range(t) = {}
  PROVE  IsInjective(s \o t)
<1>1. /\ Len(s) \in Nat /\ DOMAIN s = 1..Len(s)
      /\ Len(t) \in Nat /\ DOMAIN t = 1..Len(t)
  BY LenProperties
<1>2. /\ s \o t \in Seq(S)
      /\ Len(s \o t) = Len(s) + Len(t)
      /\ \A i \in 1..(Len(s) + Len(t)) :
           (s \o t)[i] = IF i <= Len(s) THEN s[i] ELSE t[i - Len(s)]
  BY ConcatProperties
<1>3. DOMAIN (s \o t) = 1..(Len(s) + Len(t))
  BY <1>2, LenProperties
<1> SUFFICES ASSUME NEW a \in 1..(Len(s) + Len(t)), NEW b \in 1..(Len(s) + Len(t)),
                    (s \o t)[a] = (s \o t)[b]
             PROVE  a = b
  BY <1>3 DEF IsInjective
<1>4. \A i \in 1..Len(s), j \in 1..Len(t) : s[i] # t[j]
  BY <1>1 DEF Range
<1>5. CASE a <= Len(s) /\ b <= Len(s)
  <2>1. a \in 1..Len(s) /\ b \in 1..Len(s) /\ s[a] = s[b]
    BY <1>1, <1>2, <1>5
  <2> QED
    BY <1>1, <2>1 DEF IsInjective
<1>6. CASE a > Len(s) /\ b > Len(s)
  <2>1. a - Len(s) \in 1..Len(t) /\ b - Len(s) \in 1..Len(t)
    BY <1>1, <1>6
  <2>2. t[a - Len(s)] = t[b - Len(s)]
    BY <1>1, <1>2, <1>6
  <2>3. a - Len(s) = b - Len(s)
    BY <1>1, <2>1, <2>2 DEF IsInjective
  <2> QED
    BY <1>1, <2>3
<1>7. CASE a <= Len(s) /\ b > Len(s)
  <2>1. a \in 1..Len(s) /\ b - Len(s) \in 1..Len(t) /\ s[a] = t[b - Len(s)]
    BY <1>1, <1>2, <1>7
  <2> QED
    BY <1>4, <2>1
<1>8. CASE a > Len(s) /\ b <= Len(s)
  <2>1. b \in 1..Len(s) /\ a - Len(s) \in 1..Len(t) /\ s[b] = t[a - Len(s)]
    BY <1>1, <1>2, <1>8
  <2> QED
    BY <1>4, <2>1
<1> QED
  BY <1>1, <1>5, <1>6, <1>7, <1>8

(***************************************************************************)
(* LRANGE of the first n ids and LTRIM of the same share the list out.     *)
(***************************************************************************)
LEMMA SplitList ==
  ASSUME NEW S, NEW seq \in Seq(S), NEW n \in 0..Len(seq), IsInjective(seq)
  PROVE  /\ SubSeq(seq, 1, n) \in Seq(S)
         /\ SubSeq(seq, n + 1, Len(seq)) \in Seq(S)
         /\ Range(SubSeq(seq, 1, n)) \cup Range(SubSeq(seq, n + 1, Len(seq))) = Range(seq)
         /\ Range(SubSeq(seq, 1, n)) \cap Range(SubSeq(seq, n + 1, Len(seq))) = {}
         /\ IsInjective(SubSeq(seq, n + 1, Len(seq)))
<1> DEFINE first == SubSeq(seq, 1, n)
           rest == SubSeq(seq, n + 1, Len(seq))
<1>1. Len(seq) \in Nat /\ DOMAIN seq = 1..Len(seq) /\ n \in Nat /\ n <= Len(seq)
  BY LenProperties
<1>2. \A i \in 1..Len(seq) : seq[i] \in S
  BY ElementOfSeq
<1>3. /\ first \in Seq(S)
      /\ Len(first) = n
      /\ \A i \in 1..n : first[i] = seq[i]
  <2>1. \A i \in 1..n : seq[i] \in S
    BY <1>1, <1>2
  <2> QED
    BY <1>1, <2>1, SubSeqProperties
<1>4. /\ rest \in Seq(S)
      /\ Len(rest) = Len(seq) - n
      /\ \A i \in 1..(Len(seq) - n) : rest[i] = seq[n + i]
  <2>1. \A i \in (n + 1)..Len(seq) : seq[i] \in S
    BY <1>1, <1>2
  <2>2. /\ rest \in Seq(S)
        /\ Len(rest) = IF n + 1 <= Len(seq) THEN Len(seq) - (n + 1) + 1 ELSE 0
        /\ \A i \in 1..(Len(seq) - (n + 1) + 1) : rest[i] = seq[n + 1 + i - 1]
    BY <1>1, <2>1, SubSeqProperties
  <2> HIDE DEF rest
  <2>3. Len(rest) = Len(seq) - n
    <3>1. CASE n + 1 <= Len(seq)
      BY <1>1, <2>2, <3>1
    <3>2. CASE ~(n + 1 <= Len(seq))
      <4>1. \A a, b \in Nat : a <= b /\ ~(a + 1 <= b) => a = b
        OBVIOUS
      <4>2. n = Len(seq)
        BY <1>1, <3>2, <4>1
      <4> QED
        BY <1>1, <2>2, <3>2, <4>2
    <3> QED
      BY <3>1, <3>2
  <2>4. Len(seq) - (n + 1) + 1 = Len(seq) - n
    BY <1>1
  <2>5. ASSUME NEW i \in 1..(Len(seq) - n) PROVE rest[i] = seq[n + i]
    <3>1. n + 1 + i - 1 = n + i
      BY <1>1
    <3> QED
      BY <2>2, <2>4, <3>1
  <2> QED
    BY <2>2, <2>3, <2>5
<1>5. DOMAIN first = 1..n /\ DOMAIN rest = 1..(Len(seq) - n)
  BY <1>3, <1>4, LenProperties
<1> HIDE DEF first, rest
<1>6. Range(first) \cup Range(rest) = Range(seq)
  <2>1. \A i \in 1..Len(seq) : i \in 1..n \/ (i - n) \in 1..(Len(seq) - n)
    BY <1>1
  <2>2. \A i \in 1..Len(seq) : i \notin 1..n => rest[i - n] = seq[i]
    <3> SUFFICES ASSUME NEW i \in 1..Len(seq), i \notin 1..n PROVE rest[i - n] = seq[i]
      OBVIOUS
    <3>1. i - n \in 1..(Len(seq) - n) /\ n + (i - n) = i
      BY <1>1
    <3> QED
      BY <1>4, <3>1
  <2>3. Range(seq) \subseteq Range(first) \cup Range(rest)
    BY <1>1, <1>3, <1>5, <2>1, <2>2 DEF Range
  <2>4. Range(first) \subseteq Range(seq)
    BY <1>1, <1>3, <1>5 DEF Range
  <2>5. \A i \in 1..(Len(seq) - n) : n + i \in 1..Len(seq)
    BY <1>1
  <2>6. Range(rest) \subseteq Range(seq)
    BY <1>1, <1>4, <1>5, <2>5 DEF Range
  <2> QED
    BY <2>3, <2>4, <2>6
<1>7. Range(first) \cap Range(rest) = {}
  <2> SUFFICES ASSUME NEW i \in 1..n, NEW j \in 1..(Len(seq) - n), first[i] = rest[j]
               PROVE  FALSE
    BY <1>5 DEF Range
  <2>1. i \in 1..Len(seq) /\ n + j \in 1..Len(seq) /\ i # n + j
    BY <1>1
  <2> QED
    BY <1>1, <1>3, <1>4, <2>1 DEF IsInjective
<1>8. IsInjective(rest)
  <2> SUFFICES ASSUME NEW a \in 1..(Len(seq) - n), NEW b \in 1..(Len(seq) - n),
                      rest[a] = rest[b]
               PROVE  a = b
    BY <1>5 DEF IsInjective
  <2>1. n + a \in 1..Len(seq) /\ n + b \in 1..Len(seq) /\ seq[n + a] = seq[n + b]
    BY <1>1, <1>4
  <2>2. n + a = n + b
    BY <1>1, <2>1 DEF IsInjective
  <2> QED
    BY <1>1, <2>2
<1> QED
  BY <1>3, <1>4, <1>6, <1>7, <1>8 DEF first, rest
=============================================================================
