---------------------------- MODULE ListsProofs ----------------------------
(***************************************************************************)
(* What the operations on lists do, for lists in which no entry is twice.  *)
(***************************************************************************)
EXTENDS Lists, FiniteSets, TLAPS

\* How the size of a finite set follows what is put in and taken out.  These are
\* facts of FiniteSetTheorems; the lemmas that need them assume them, and the
\* modules that EXTEND this one prove them before their theorems.
CountingLaws ==
    /\ \A S : IsFiniteSet(S) => Cardinality(S) \in Nat /\ (Cardinality(S) = 0 <=> S = {})
    /\ \A S, T : IsFiniteSet(S) /\ T \subseteq S => IsFiniteSet(T)
    /\ \A S, x : IsFiniteSet(S) /\ x \notin S
                   => Cardinality(S \cup {x}) = Cardinality(S) + 1
    /\ \A S, x : IsFiniteSet(S) /\ x \in S
                   => Cardinality(S \ {x}) = Cardinality(S) - 1

\* Taking the head off a list: the entry is gone from it, and the rest is left.
LEMMA HeadTaken ==
    ASSUME NEW S, NEW s \in Seq(S), s # <<>>, NoRepeat(s)
    PROVE  /\ Head(s) \in S /\ Tail(s) \in Seq(S) /\ NoRepeat(Tail(s))
           /\ Head(s) \in Members(s)
           /\ Members(Tail(s)) = Members(s) \ {Head(s)}
  <1> /\ Head(s) = s[1] /\ Len(s) \in Nat \ {0} /\ DOMAIN s = 1 .. Len(s)
      /\ Tail(s) \in Seq(S) /\ DOMAIN Tail(s) = 1 .. Len(s) - 1
      /\ \A i \in 1 .. Len(s) - 1 : Tail(s)[i] = s[i + 1]
    OBVIOUS
  <1>1. NoRepeat(Tail(s))
    <2> SUFFICES ASSUME NEW i \in 1 .. Len(s) - 1, NEW j \in 1 .. Len(s) - 1,
                        s[i + 1] = s[j + 1]
                 PROVE  i = j
      BY DEF NoRepeat
    <2> i + 1 \in 1 .. Len(s) /\ j + 1 \in 1 .. Len(s)
      OBVIOUS
    <2> QED
      BY DEF NoRepeat
  <1>2. ASSUME NEW x \in Members(Tail(s)) PROVE x \in Members(s) \ {Head(s)}
    <2> PICK i \in 1 .. Len(s) - 1 : x = s[i + 1]
      BY <1>2 DEF Members
    <2> i + 1 \in 1 .. Len(s) /\ i + 1 # 1 /\ 1 \in 1 .. Len(s)
      OBVIOUS
    <2> QED
      BY DEF Members, NoRepeat
  <1>3. ASSUME NEW x \in Members(s) \ {Head(s)} PROVE x \in Members(Tail(s))
    <2> PICK i \in 1 .. Len(s) : x = s[i]
      BY <1>3 DEF Members
    <2> i - 1 \in 1 .. Len(s) - 1 /\ (i - 1) + 1 = i
      OBVIOUS
    <2> Tail(s)[i - 1] = x
      OBVIOUS
    <2> QED
      BY Zenon DEF Members
  <1>4. Head(s) \in S /\ Head(s) \in Members(s)
    BY DEF Members
  <1> QED
    BY <1>1, <1>2, <1>3, <1>4

\* Appending an entry that is not in the list.
LEMMA Appended ==
    ASSUME NEW S, NEW s \in Seq(S), NEW x \in S, x \notin Members(s), NoRepeat(s)
    PROVE  /\ Append(s, x) \in Seq(S) /\ NoRepeat(Append(s, x))
           /\ Members(Append(s, x)) = Members(s) \cup {x}
           /\ Len(Append(s, x)) = Len(s) + 1
  <1> /\ Len(s) \in Nat /\ DOMAIN s = 1 .. Len(s)
      /\ Append(s, x) \in Seq(S) /\ DOMAIN Append(s, x) = 1 .. Len(s) + 1
      /\ Append(s, x)[Len(s) + 1] = x
      /\ \A i \in 1 .. Len(s) : Append(s, x)[i] = s[i]
    OBVIOUS
  <1> \A i \in 1 .. Len(s) + 1 : i \in 1 .. Len(s) \/ i = Len(s) + 1
    OBVIOUS
  <1> Len(s) + 1 \in 1 .. Len(s) + 1 /\ 1 .. Len(s) \subseteq 1 .. Len(s) + 1
    OBVIOUS
  <1>1. NoRepeat(Append(s, x))
    <2> \A i \in 1 .. Len(s) : s[i] # x
      BY DEF Members
    <2> QED
      BY DEF NoRepeat
  <1>2. ASSUME NEW y PROVE y \in Members(Append(s, x)) <=> y \in Members(s) \cup {x}
    BY DEF Members
  <1> QED
    BY <1>1, <1>2

\* One list at the end of another that has no entry in common with it.
LEMMA ListsJoined ==
    ASSUME NEW S, NEW s \in Seq(S), NEW r \in Seq(S), NoRepeat(s), NoRepeat(r),
           Members(s) \cap Members(r) = {}
    PROVE  /\ s \o r \in Seq(S) /\ NoRepeat(s \o r)
           /\ Members(s \o r) = Members(s) \cup Members(r)
  <1> /\ Len(s) \in Nat /\ DOMAIN s = 1 .. Len(s)
      /\ Len(r) \in Nat /\ DOMAIN r = 1 .. Len(r)
      /\ s \o r \in Seq(S) /\ DOMAIN (s \o r) = 1 .. Len(s) + Len(r)
      /\ \A i \in 1 .. Len(s) : (s \o r)[i] = s[i]
    OBVIOUS
  <1>1. \A i \in 1 .. Len(r) : (s \o r)[Len(s) + i] = r[i]
    OBVIOUS
  <1>2. \A i \in 1 .. Len(s) + Len(r) :
            i \in 1 .. Len(s) \/ \E k \in 1 .. Len(r) : i = Len(s) + k
    <2> TAKE i \in 1 .. Len(s) + Len(r)
    <2> CASE i \in 1 .. Len(s)
      OBVIOUS
    <2> CASE i \notin 1 .. Len(s)
      <3> i - Len(s) \in 1 .. Len(r) /\ i = Len(s) + (i - Len(s))
        OBVIOUS
      <3> QED
        OBVIOUS
    <2> QED
      OBVIOUS
  <1>3. /\ \A k \in 1 .. Len(r) : Len(s) + k \in 1 .. Len(s) + Len(r)
        /\ 1 .. Len(s) \subseteq 1 .. Len(s) + Len(r)
    OBVIOUS
  <1>4. \A i \in 1 .. Len(s) : \A k \in 1 .. Len(r) : s[i] # r[k]
    BY Zenon DEF Members
  <1>5. NoRepeat(s \o r)
    <2> SUFFICES ASSUME NEW i \in 1 .. Len(s) + Len(r), NEW j \in 1 .. Len(s) + Len(r),
                        (s \o r)[i] = (s \o r)[j]
                 PROVE  i = j
      BY DEF NoRepeat
    <2>1. CASE i \in 1 .. Len(s) /\ j \in 1 .. Len(s)
      BY <2>1 DEF NoRepeat
    <2>2. CASE i \in 1 .. Len(s) /\ \E k \in 1 .. Len(r) : j = Len(s) + k
      BY <2>2, <1>1, <1>4
    <2>3. CASE j \in 1 .. Len(s) /\ \E k \in 1 .. Len(r) : i = Len(s) + k
      BY <2>3, <1>1, <1>4
    <2>4. CASE (\E k \in 1 .. Len(r) : i = Len(s) + k) /\ \E k \in 1 .. Len(r) : j = Len(s) + k
      <3> PICK k \in 1 .. Len(r), l \in 1 .. Len(r) : i = Len(s) + k /\ j = Len(s) + l
        BY <2>4
      <3> r[k] = r[l]
        BY <1>1
      <3> k = l
        BY DEF NoRepeat
      <3> QED
        OBVIOUS
    <2> QED
      BY <1>2, <2>1, <2>2, <2>3, <2>4
  <1>6. ASSUME NEW y \in Members(s \o r) PROVE y \in Members(s) \cup Members(r)
    <2> PICK i \in 1 .. Len(s) + Len(r) : y = (s \o r)[i]
      BY <1>6 DEF Members
    <2>1. CASE i \in 1 .. Len(s)
      BY <2>1 DEF Members
    <2>2. CASE \E k \in 1 .. Len(r) : i = Len(s) + k
      BY <2>2, <1>1 DEF Members
    <2> QED
      BY <1>2, <2>1, <2>2
  <1>7. ASSUME NEW y \in Members(s) PROVE y \in Members(s \o r)
    BY <1>3, <1>7 DEF Members
  <1>8. ASSUME NEW y \in Members(r) PROVE y \in Members(s \o r)
    <2> PICK k \in 1 .. Len(r) : y = r[k]
      BY <1>8 DEF Members
    <2> Len(s) + k \in DOMAIN (s \o r) /\ (s \o r)[Len(s) + k] = y
      BY <1>1, <1>3
    <2> QED
      BY DEF Members
  <1> QED
    BY <1>5, <1>6, <1>7, <1>8

\* Taking an entry out of a list, wherever it is.
LEMMA TakenOut ==
    ASSUME NEW S, NEW s \in Seq(S), NoRepeat(s), NEW x \in Members(s)
    PROVE  /\ Without(s, x) \in Seq(S) /\ NoRepeat(Without(s, x))
           /\ Members(Without(s, x)) = Members(s) \ {x}
           /\ Len(Without(s, x)) = Len(s) - 1
  <1> DEFINE at == CHOOSE i \in DOMAIN s : s[i] = x
             w == Without(s, x)
  <1>1. at \in 1 .. Len(s) /\ s[at] = x /\ DOMAIN s = 1 .. Len(s) /\ Len(s) \in Nat
    BY DEF Members
  <1>2. w = [i \in 1 .. Len(s) - 1 |-> s[IF i < at THEN i ELSE i + 1]]
    BY DEF Without
  <1> HIDE DEF at, w
  <1>3. Len(s) - 1 \in Nat
    BY <1>1
  <1>4. \A i \in 1 .. Len(s) - 1 :
            /\ i < at => i \in 1 .. Len(s) /\ w[i] = s[i]
            /\ ~ (i < at) => i + 1 \in 1 .. Len(s) /\ w[i] = s[i + 1]
    BY <1>1, <1>2
  <1>5. w \in Seq(S) /\ Len(w) = Len(s) - 1 /\ DOMAIN w = 1 .. Len(s) - 1
    <2>1. \A i \in 1 .. Len(s) - 1 : s[IF i < at THEN i ELSE i + 1] \in S
      BY <1>1, <1>4
    <2> QED
      BY <1>2, <1>3, <2>1
  <1>6. NoRepeat(w)
    <2> SUFFICES ASSUME NEW i \in 1 .. Len(s) - 1, NEW j \in 1 .. Len(s) - 1, w[i] = w[j]
                 PROVE  i = j
      BY <1>5 DEF NoRepeat
    <2> QED
      BY <1>1, <1>4 DEF NoRepeat
  <1>7. ASSUME NEW y \in Members(w) PROVE y \in Members(s) \ {x}
    <2> PICK i \in 1 .. Len(s) - 1 : y = w[i]
      BY <1>5, <1>7 DEF Members
    <2>1. PICK j \in 1 .. Len(s) : j # at /\ y = s[j]
      BY <1>1, <1>4
    <2> QED
      BY <1>1, <2>1 DEF Members, NoRepeat
  <1>8. ASSUME NEW y \in Members(s) \ {x} PROVE y \in Members(w)
    <2> PICK j \in 1 .. Len(s) : y = s[j]
      BY <1>1, <1>8 DEF Members
    <2>1. j # at
      BY <1>1
    <2>2. CASE j < at
      <3> j \in 1 .. Len(s) - 1 /\ w[j] = y
        BY <1>1, <1>4, <2>2
      <3> QED
        BY <1>5 DEF Members
    <2>3. CASE j > at
      <3>1. j - 1 \in 1 .. Len(s) - 1 /\ ~ (j - 1 < at) /\ (j - 1) + 1 = j
        BY <1>1, <2>3
      <3>2. w[j - 1] = y
        BY <1>4, <3>1
      <3> QED
        BY <1>5, <3>1, <3>2 DEF Members
    <2> QED
      BY <1>1, <2>1, <2>2, <2>3
  <1> QED
    BY <1>5, <1>6, <1>7, <1>8 DEF w

LEMMA NotTakenOut ==
    ASSUME NEW s, NEW x, x \notin Members(s)
    PROVE  Without(s, x) = s
  BY DEF Without

=============================================================================
