--------------------------- MODULE MiniHDLCProofs ---------------------------
(***************************************************************************)
(* The framing of the serial link, for contents, tables of check sequences *)
(* and buffers of every size and any number of frames and faults: the      *)
(* types hold, what is received was sent, and a fault costs one frame at   *)
(* most.                                                                   *)
(*                                                                         *)
(* Two inductive invariants are about the octets still on the line.        *)
(* SentBefore hands them over first and then asks for OnlySent: each frame *)
(* whose content the receiver has seen, or will see, has a frame sent to   *)
(* its own.  Between \/ Within counts frames: those received, those that   *)
(* lie whole on the line, the one the receiver is in the middle of and the *)
(* faults are as many as the frames due, at least.                         *)
(***************************************************************************)
EXTENDS MiniHDLC, FiniteSetTheorems, SequenceTheorems, TLAPS

-----------------------------------------------------------------------------
(* Induction.  The rule of the library has an operator for a parameter,    *)
(* which the provers cannot instantiate; a set of naturals serves as well. *)

LEMMA LessIsWellFounded == IsWellFoundedOn({p \in Nat \X Nat : p[1] < p[2]}, Nat)
BY NatLessThanWellFounded DEF OpToRel

LEMMA Smallest ==
    ASSUME NEW T \in SUBSET Nat, T # {}
    PROVE  \E x \in T : \A y \in T : x <= y
<1>1. PICK x \in T : \A y \in T : ~ <<y, x>> \in {p \in Nat \X Nat : p[1] < p[2]}
    BY LessIsWellFounded, WFMin
<1>2. ASSUME NEW y \in T
      PROVE  x <= y
  <2>1. <<y, x>> \notin {p \in Nat \X Nat : p[1] < p[2]}
      BY <1>1
  <2> QED
      BY <2>1
<1> QED
    BY <1>2

\* A set of naturals with zero and all successors has them all.
LEMMA Inductive ==
    ASSUME NEW S \in SUBSET Nat, 0 \in S, \A n \in S : n + 1 \in S
    PROVE  \A n \in Nat : n \in S
<1> SUFFICES ASSUME Nat \ S # {}
             PROVE  FALSE
    OBVIOUS
<1>1. PICK x \in Nat \ S : \A y \in Nat \ S : x <= y
    BY Smallest
<1>2. x - 1 \in Nat /\ (x - 1) + 1 = x
    BY <1>1
<1>3. x - 1 \in S
    BY <1>1, <1>2
<1> QED
    BY <1>1, <1>2, <1>3

-----------------------------------------------------------------------------
(* Flattening *)

\* f is what FlattenSeq computes of the first n sequences of s.
Prolonged(f, s, i) == IF i = 1 THEN s[i] ELSE f[i - 1] \o s[i]
Flattens(f, s, n) ==
    /\ f = [i \in 1..n |-> f[i]]
    /\ \A i \in 1..n : f[i] = Prolonged(f, s, i)

LEMMA FlatteningGrows ==
    ASSUME NEW s, NEW n \in Nat, NEW f, Flattens(f, s, n)
    PROVE  \E g : Flattens(g, s, n + 1)
<1> DEFINE g == [i \in 1..n + 1 |-> IF i = n + 1 THEN Prolonged(f, s, i) ELSE f[i]]
<1>1. g = [i \in 1..n + 1 |-> g[i]]
    OBVIOUS
<1>2. g[n + 1] = Prolonged(f, s, n + 1) /\ \A i \in 1..n : g[i] = f[i]
    OBVIOUS
<1>3. \A i \in 1..n + 1 : i = 1 \/ i - 1 \in 1..n
    OBVIOUS
<1> HIDE DEF g
<1>4. \A i \in 1..n + 1 : Prolonged(g, s, i) = Prolonged(f, s, i)
    BY <1>2, <1>3 DEF Prolonged
<1>5. \A i \in 1..n : f[i] = Prolonged(f, s, i)
    BY DEF Flattens
<1>6. \A i \in 1..n + 1 : g[i] = Prolonged(g, s, i)
  <2>1. \A i \in 1..n + 1 : i = n + 1 \/ i \in 1..n
      OBVIOUS
  <2> QED
      BY <1>2, <1>4, <1>5, <2>1
<1> QED
    BY <1>1, <1>6 DEF Flattens

LEMMA FlatteningExists ==
    ASSUME NEW s
    PROVE  \A n \in Nat : \E f : Flattens(f, s, n)
<1> DEFINE S == {n \in Nat : \E f : Flattens(f, s, n)}
<1>1. 0 \in S
  <2>1. Flattens([i \in 1..0 |-> s[i]], s, 0)
      BY DEF Flattens
  <2> QED
      BY <2>1
<1>2. \A n \in S : n + 1 \in S
    BY FlatteningGrows
<1>3. S \in SUBSET Nat
    OBVIOUS
<1>4. \A n \in Nat : n \in S
  <2> HIDE DEF S
  <2> QED
      BY <1>1, <1>2, <1>3, Inductive
<1> QED
    BY <1>4

\* It depends on these sequences only.
Agree(s, t, k) == \A i \in 1..k : s[i] = t[i]

LEMMA FlatteningUnique ==
    ASSUME NEW s, NEW t, NEW m \in Nat, NEW k \in Nat, NEW f, NEW g, k <= m,
           Flattens(f, s, m), Flattens(g, t, k), Agree(s, t, k)
    PROVE  Agree(f, g, k)
<1> USE DEF Agree
<1> DEFINE S == {i \in Nat : i \in 1..k => f[i] = g[i]}
<1>1. 0 \in S /\ S \in SUBSET Nat
    OBVIOUS
<1>2. ASSUME NEW i \in S
      PROVE  i + 1 \in S
  <2>1. i \in Nat /\ (i \in 1..k => f[i] = g[i])
      OBVIOUS
  <2>2. ASSUME i + 1 \in 1..k
        PROVE  f[i + 1] = g[i + 1]
    <3>1. /\ i + 1 \in 1..m /\ (i + 1) - 1 = i
          /\ i + 1 # 1 => f[i] = g[i]
        BY <2>1, <2>2
    <3>2. Prolonged(f, s, i + 1) = Prolonged(g, t, i + 1)
        BY <2>2, <3>1 DEF Prolonged
    <3> QED
        BY <2>2, <3>1, <3>2 DEF Flattens
  <2> QED
      BY <2>1, <2>2
<1>3. \A i \in Nat : i \in S
  <2> HIDE DEF S
  <2> QED
      BY <1>1, <1>2, Inductive
<1> QED
    BY <1>3

LEMMA FlatteningType ==
    ASSUME NEW Z, NEW s \in Seq(Seq(Z)), NEW f, Flattens(f, s, Len(s))
    PROVE  \A i \in 1..Len(s) : f[i] \in Seq(Z)
<1> DEFINE S == {i \in Nat : i \in 1..Len(s) => f[i] \in Seq(Z)}
<1>0. Len(s) \in Nat /\ \A i \in 1..Len(s) : s[i] \in Seq(Z)
    BY LenProperties, ElementOfSeq
<1>1. 0 \in S /\ S \in SUBSET Nat
    OBVIOUS
<1>2. ASSUME NEW i \in S
      PROVE  i + 1 \in S
  <2>1. i \in Nat /\ (i \in 1..Len(s) => f[i] \in Seq(Z))
      OBVIOUS
  <2>2. ASSUME i + 1 \in 1..Len(s)
        PROVE  f[i + 1] \in Seq(Z)
    <3>1. /\ (i + 1) - 1 = i /\ s[i + 1] \in Seq(Z)
          /\ i + 1 # 1 => f[i] \in Seq(Z)
        BY <1>0, <2>1, <2>2
    <3>2. Prolonged(f, s, i + 1) \in Seq(Z)
        BY <3>1, ConcatProperties DEF Prolonged
    <3> QED
        BY <2>2, <3>2 DEF Flattens
  <2> QED
      BY <2>1, <2>2
<1>3. \A i \in Nat : i \in S
  <2> HIDE DEF S
  <2> QED
      BY <1>1, <1>2, Inductive
<1> QED
    BY <1>0, <1>3

\* FlattenSeq is that function at its last place.
LEMMA FlattenIs ==
    ASSUME NEW Z, NEW s \in Seq(Seq(Z)), Len(s) # 0, NEW f, Flattens(f, s, Len(s))
    PROVE  FlattenSeq(s) = f[Len(s)]
<1> DEFINE E(h) == [i \in 1..Len(s) |-> Prolonged(h, s, i)]
           g == CHOOSE h : h = E(h)
<1>1. FlattenSeq(s) = g[Len(s)]
    BY DEF FlattenSeq, Prolonged
<1>2. f = E(f)
  <2>1. f = [i \in 1..Len(s) |-> f[i]] /\ \A i \in 1..Len(s) : f[i] = Prolonged(f, s, i)
      BY DEF Flattens
  <2> QED
      BY <2>1
<1>3. g = E(g)
  <2> HIDE DEF E
  <2> QED
      BY <1>2
<1>4. Flattens(g, s, Len(s))
  <2> HIDE DEF g
  <2>1. g = [i \in 1..Len(s) |-> g[i]] /\ \A i \in 1..Len(s) : g[i] = Prolonged(g, s, i)
      BY <1>3
  <2> QED
      BY <2>1 DEF Flattens
<1>5. Len(s) \in Nat /\ Len(s) \in 1..Len(s) /\ Len(s) <= Len(s)
    BY LenProperties
<1> HIDE DEF g
<1>6. \A i \in 1..Len(s) : g[i] = f[i]
  <2> DEFINE n == Len(s)
  <2>1. n \in Nat /\ n <= n /\ Flattens(f, s, n) /\ Flattens(g, s, n)
      BY <1>4, <1>5
  <2> HIDE DEF n
  <2>2. Agree(s, s, n)
      BY DEF Agree
  <2>3. Agree(f, g, n)
      BY <2>1, <2>2, FlatteningUnique
  <2> QED
      BY <2>3 DEF n, Agree
<1> QED
    BY <1>1, <1>5, <1>6

LEMMA FlattenType ==
    ASSUME NEW Z, NEW s \in Seq(Seq(Z))
    PROVE  FlattenSeq(s) \in Seq(Z)
<1>0. Len(s) \in Nat
    BY LenProperties
<1>1. CASE Len(s) = 0
  <2>1. s = <<>>
      BY <1>1
  <2>2. FlattenSeq(s) = s
      BY <1>1 DEF FlattenSeq
  <2> HIDE DEF FlattenSeq
  <2> QED
      BY <2>1, <2>2, EmptySeq
<1>2. CASE Len(s) # 0
  <2>1. Len(s) \in 1..Len(s)
      BY <1>0, <1>2
  <2>2. PICK f : Flattens(f, s, Len(s))
      BY <1>0, FlatteningExists
  <2>3. FlattenSeq(s) = f[Len(s)]
      BY <1>2, <2>2, FlattenIs
  <2>4. f[Len(s)] \in Seq(Z)
      BY <2>1, <2>2, FlatteningType
  <2> QED
      BY <2>3, <2>4
<1> QED
    BY <1>1, <1>2

LEMMA FlattenEmpty == FlattenSeq(<<>>) = <<>>
BY DEF FlattenSeq

\* One sequence more at the end ...
LEMMA FlattenAppend ==
    ASSUME NEW Z, NEW s \in Seq(Seq(Z)), NEW x \in Seq(Z)
    PROVE  FlattenSeq(Append(s, x)) = FlattenSeq(s) \o x
<1> DEFINE t == Append(s, x)
           n == Len(s)
<1>1. /\ n \in Nat /\ t \in Seq(Seq(Z)) /\ Len(t) = n + 1
      /\ t[n + 1] = x /\ \A i \in 1..n : t[i] = s[i]
    BY LenProperties, AppendProperties
<1>2. n + 1 \in Nat /\ n + 1 # 0 /\ n + 1 \in 1..n + 1 /\ (n + 1) - 1 = n /\ n <= n /\ n <= n + 1
    BY <1>1
<1>3. n = 0 => s = <<>>
    OBVIOUS
<1>4. n = Len(s)
    OBVIOUS
<1> HIDE DEF t, n
<1>5. PICK f : Flattens(f, t, n + 1)
    BY <1>2, FlatteningExists
<1>6. f[n + 1] = Prolonged(f, t, n + 1)
    BY <1>2, <1>5 DEF Flattens
<1>7. FlattenSeq(t) = f[n + 1]
    BY <1>1, <1>2, <1>5, FlattenIs
<1>8. CASE n = 0
  <2>1. FlattenSeq(t) = x
      BY <1>1, <1>6, <1>7, <1>8 DEF Prolonged
  <2>2. FlattenSeq(s) = <<>>
      BY <1>3, <1>8, FlattenEmpty
  <2>3. <<>> \o x = x
      BY ConcatEmptySeq
  <2> QED
      BY <2>1, <2>2, <2>3 DEF t
<1>9. CASE n # 0
  <2>1. PICK g : Flattens(g, s, n)
      BY <1>1, FlatteningExists
  <2>2. FlattenSeq(s) = g[n]
      BY <1>4, <1>9, <2>1, FlattenIs
  <2>3. n \in 1..n
      BY <1>1, <1>9
  <2>5. \A i \in 1..n : g[i] = f[i]
    <3> DEFINE m == n + 1
    <3>1. m \in Nat /\ n \in Nat /\ n <= m /\ Flattens(f, t, m) /\ Agree(t, s, n)
        BY <1>1, <1>2, <1>5 DEF Agree
    <3> HIDE DEF m
    <3>2. Agree(f, g, n)
        BY <2>1, <3>1, FlatteningUnique
    <3> QED
        BY <3>2 DEF Agree
  <2>6. FlattenSeq(t) = f[n] \o x
      BY SMTT(30), <1>1, <1>2, <1>6, <1>7, <1>9 DEF Prolonged
  <2> QED
      BY <2>2, <2>3, <2>5, <2>6 DEF t
<1> QED
    BY <1>8, <1>9

\* ... and at the beginning.
LEMMA FlattenConsGrows ==
    ASSUME NEW Z, NEW x \in Seq(Z), NEW t \in Seq(Seq(Z)), NEW y \in Seq(Z),
           FlattenSeq(<<x>> \o t) = x \o FlattenSeq(t)
    PROVE  FlattenSeq(<<x>> \o Append(t, y)) = x \o FlattenSeq(Append(t, y))
<1>1. <<x>> \in Seq(Seq(Z)) /\ <<y>> \in Seq(Seq(Z))
    OBVIOUS
<1>2. <<x>> \o t \in Seq(Seq(Z))
    BY <1>1, ConcatProperties
<1>3. Append(t, y) = t \o <<y>> /\ Append(<<x>> \o t, y) = (<<x>> \o t) \o <<y>>
    BY <1>2, AppendIsConcat
<1>4. (<<x>> \o t) \o <<y>> = <<x>> \o (t \o <<y>>)
    BY <1>1, ConcatAssociative
<1>5. FlattenSeq(Append(<<x>> \o t, y)) = FlattenSeq(<<x>> \o t) \o y
    BY <1>2, FlattenAppend
<1>6. FlattenSeq(Append(t, y)) = FlattenSeq(t) \o y
    BY FlattenAppend
<1>7. FlattenSeq(t) \in Seq(Z)
    BY FlattenType
<1>8. (x \o FlattenSeq(t)) \o y = x \o (FlattenSeq(t) \o y)
    BY SMTT(30), <1>7, ConcatAssociative
<1> QED
    BY <1>3, <1>4, <1>5, <1>6, <1>8

LEMMA FlattenCons ==
    ASSUME NEW Z, NEW x \in Seq(Z)
    PROVE  \A s \in Seq(Seq(Z)) : FlattenSeq(<<x>> \o s) = x \o FlattenSeq(s)
<1> DEFINE Good(s) == FlattenSeq(<<x>> \o s) = x \o FlattenSeq(s)
           S == {n \in Nat : \A s \in Seq(Seq(Z)) : Len(s) = n => Good(s)}
<1>1. Good(<<>>)
  <2>1. <<>> \in Seq(Seq(Z)) /\ <<x>> \o <<>> = Append(<<>>, x)
      OBVIOUS
  <2>2. FlattenSeq(Append(<<>>, x)) = <<>> \o x
      BY <2>1, FlattenAppend, FlattenEmpty
  <2>3. <<>> \o x = x /\ x \o <<>> = x
      BY ConcatEmptySeq
  <2> QED
      BY <2>1, <2>2, <2>3, FlattenEmpty
<1>2. \A t \in Seq(Seq(Z)), y \in Seq(Z) : Good(t) => Good(Append(t, y))
    BY FlattenConsGrows
<1> HIDE DEF Good
<1>3. 0 \in S /\ S \in SUBSET Nat
  <2>1. \A s \in Seq(Seq(Z)) : Len(s) = 0 => s = <<>>
      OBVIOUS
  <2> QED
      BY <1>1, <2>1
<1>4. ASSUME NEW n \in Nat, \A s \in Seq(Seq(Z)) : Len(s) = n => Good(s),
             NEW s \in Seq(Seq(Z)), Len(s) = n + 1
      PROVE  Good(s)
  <2>1. s # <<>>
      BY <1>4
  <2>2. PICK t \in Seq(Seq(Z)), y \in Seq(Z) : s = Append(t, y)
      BY <2>1, SequenceEmptyOrAppend
  <2>3. Len(s) = Len(t) + 1 /\ Len(t) \in Nat
      BY <2>2, AppendProperties, LenProperties
  <2>4. Good(t)
      BY <1>4, <2>3
  <2> QED
      BY <1>2, <2>2, <2>4
<1>5. ASSUME NEW n \in S
      PROVE  n + 1 \in S
  <2>1. n \in Nat /\ \A s \in Seq(Seq(Z)) : Len(s) = n => Good(s)
      OBVIOUS
  <2>2. \A s \in Seq(Seq(Z)) : Len(s) = n + 1 => Good(s)
      BY <1>4, <2>1
  <2>3. n + 1 \in Nat
      BY <2>1
  <2> QED
      BY <2>2, <2>3
<1>6. \A n \in Nat : n \in S
  <2> HIDE DEF S
  <2> QED
      BY <1>3, <1>5, Inductive
<1>7. \A s \in Seq(Seq(Z)) : Len(s) \in Nat
    BY LenProperties
<1> QED
    BY <1>6, <1>7 DEF Good

-----------------------------------------------------------------------------
(* Octets *)

Data   == UNION {Range(c) : c \in Contents}
Lows   == {Low(c) : c \in Contents}
Highs  == {High(c) : c \in Contents}
Marks  == {FRAME_BOUNDARY, CONTROL_ESCAPE}
\* What is sent, but for the second octet of a check sequence; what is sent;
\* what the receiver may have in its buffer.
Plain  == Marks \cup {Invert(o) : o \in Marks} \cup Data \cup Highs
Octets == Plain \cup Lows
Stored == Octets \cup {Invert(o) : o \in Octets}

LEMMA MarkFacts ==
    /\ FRAME_BOUNDARY # CONTROL_ESCAPE
    /\ \A o \in Marks : Invert(o) = <<"INV", o>> /\ Invert(Invert(o)) = o /\ Invert(o) \notin Marks
<1>1. FRAME_BOUNDARY[1] = "FLAG" /\ CONTROL_ESCAPE[1] = "ESC"
    BY DEF FRAME_BOUNDARY, CONTROL_ESCAPE
<1>2. \A o \in Marks : o[1] # "INV" /\ Invert(o) = <<"INV", o>>
    BY <1>1 DEF Marks, Invert
<1>3. \A o : <<"INV", o>>[1] = "INV" /\ Invert(<<"INV", o>>) = o
    BY DEF Invert
<1> QED
    BY <1>1, <1>2, <1>3

LEMMA LowFacts ==
    /\ \A c, d : Low(c) = Low(d) => c = d
    /\ \A c : Low(c) \notin Marks /\ Low(c)[1] = "CRC"
<1>1. \A c : Low(c)[1] = "CRC" /\ Low(c)[3] = c
    BY DEF Low
<1>2. \A o \in Marks : o[1] # "CRC"
    BY DEF Marks, FRAME_BOUNDARY, CONTROL_ESCAPE
<1> QED
    BY <1>1, <1>2

\* Nothing but itself passes for the second octet of a check sequence, not even inverted.
LEMMA LowsApart ==
    /\ Plain \cap Lows = {}
    /\ \A o \in Octets : Invert(o) \notin Lows
    /\ \A c : Low(c) \in Stored => c \in Contents
<1> DEFINE other(o) == \A c : o # Low(c)
<1>1. \A o \in Data : other(o) /\ other(Invert(o))
    BY CheckAssumption, LowFacts DEF Data
<1>2. \A o \in Marks : other(o) /\ other(Invert(o)) /\ other(Invert(Invert(o)))
  <2>1. \A o : <<"INV", o>>[1] = "INV"
      OBVIOUS
  <2> QED
      BY <2>1, LowFacts, MarkFacts
<1>3. \A c, d : <<"CRC", "HI", c>> # Low(d)
  <2>1. \A c, d : <<"CRC", "HI", c>>[2] = "HI" /\ Low(d)[2] = "LO"
      BY DEF Low
  <2> QED
      BY <2>1
<1>4. \A o : o[1] = "CRC" => Invert(o)[1] = "INV"
    BY DEF Invert
<1>5. \A o \in Highs : other(o) /\ other(Invert(o))
  <2>1. \A c : <<"CRC", "HI", c>>[1] = "CRC"
      OBVIOUS
  <2>2. \A o \in Highs : o \in Marks \/ \E c : o = <<"CRC", "HI", c>>
      BY DEF Highs, High, Marks
  <2>3. ASSUME NEW o, NEW c, o = <<"CRC", "HI", c>>
        PROVE  other(o) /\ other(Invert(o))
      BY <1>3, <1>4, <2>1, <2>3, LowFacts
  <2> QED
      BY <1>2, <2>2, <2>3
<1>6. \A o \in Lows : other(Invert(o))
    BY <1>4, LowFacts DEF Lows
<1>7. \A o \in Lows : \E c \in Contents : o = Low(c)
    BY DEF Lows
<1> HIDE DEF other
<1>8. \A o \in Plain : other(o) /\ other(Invert(o))
    BY <1>1, <1>2, <1>5 DEF Plain
<1>9. \A o \in Octets : other(Invert(o))
    BY <1>6, <1>8 DEF Octets
<1>10. \A o : other(o) => o \notin Lows
    BY <1>7 DEF other
<1>11. ASSUME NEW c, Low(c) \in Stored
       PROVE  c \in Contents
  <2>1. ~other(Low(c))
      BY DEF other
  <2>2. Low(c) \in Lows
      BY <1>8, <1>9, <1>11, <2>1 DEF Stored, Octets
  <2> QED
      BY <1>7, <2>2, LowFacts
<1> QED
    BY <1>8, <1>9, <1>10, <1>11

LEMMA ContentTypes ==
    ASSUME NEW c \in Contents
    PROVE  /\ c \in Seq(Data) /\ High(c) \in Highs /\ Low(c) \in Lows
           /\ Low(c) \notin Marks
<1>1. c \in Seq(Range(c)) /\ Range(c) \subseteq Data
    BY MiniHDLCAssumption DEF Data
<1>2. c \in Seq(Data)
    BY <1>1, SeqMonotonic
<1> QED
    BY <1>2, LowFacts DEF Highs, Lows

\* An octet goes out as it is, or as an escape and its inverse.
LEMMA EscapedOctet ==
    ASSUME NEW o
    PROVE  /\ o \in Marks => Escaped(o) = <<CONTROL_ESCAPE, Invert(o)>>
           /\ o \notin Marks => Escaped(o) = <<o>>
           /\ NeedsEscape(o) <=> o \in Marks
BY DEF Escaped, NeedsEscape, Marks

LEMMA ShortSeq ==
    ASSUME NEW Z, NEW a \in Z, NEW b \in Z
    PROVE  /\ <<a>> \in Seq(Z) /\ Len(<<a>>) = 1 /\ <<a>>[1] = a
           /\ <<a, b>> \in Seq(Z) /\ Len(<<a, b>>) = 2 /\ <<a, b>>[1] = a /\ <<a, b>>[2] = b
OBVIOUS

LEMMA EscapedPlain ==
    ASSUME NEW o \in Plain
    PROVE  Escaped(o) \in Seq(Plain)
<1>1. CASE o \in Marks
  <2>1. CONTROL_ESCAPE \in Plain /\ Invert(o) \in Plain
      BY <1>1 DEF Plain, Marks
  <2>2. Escaped(o) = <<CONTROL_ESCAPE, Invert(o)>>
      BY <1>1, EscapedOctet
  <2> QED
      BY <2>1, <2>2, ShortSeq
<1>2. CASE o \notin Marks
  <2>1. Escaped(o) = <<o>>
      BY <1>2, EscapedOctet
  <2> QED
      BY <2>1, ShortSeq
<1> QED
    BY <1>1, <1>2

LEMMA EscapedAny ==
    ASSUME NEW o \in Octets
    PROVE  Escaped(o) \in Seq(Octets)
<1>1. CASE o \in Plain
  <2>1. Plain \subseteq Octets
      BY DEF Octets
  <2> QED
      BY <1>1, <2>1, EscapedPlain, SeqMonotonic
<1>2. CASE o \in Lows
  <2>1. o \notin Marks
      BY <1>2, LowFacts DEF Lows
  <2>2. Escaped(o) = <<o>>
      BY <2>1, EscapedOctet
  <2> QED
      BY <2>2, ShortSeq
<1> QED
    BY <1>1, <1>2 DEF Octets

-----------------------------------------------------------------------------
(* Frames *)

LEMMA EscapedEmpty == EscapedAll(<<>>) = <<>>
<1>1. [i \in DOMAIN <<>> |-> Escaped(<<>>[i])] = <<>>
    BY SMTT(30)
<1> QED
    BY <1>1, FlattenEmpty DEF EscapedAll

LEMMA EscapedEach ==
    ASSUME NEW Z, NEW Y, \A o \in Z : Escaped(o) \in Seq(Y), NEW s \in Seq(Z)
    PROVE  [i \in DOMAIN s |-> Escaped(s[i])] \in Seq(Seq(Y))
<1>1. Len(s) \in Nat /\ DOMAIN s = 1..Len(s) /\ \A i \in 1..Len(s) : s[i] \in Z
    BY LenProperties, ElementOfSeq
<1>2. \A i \in 1..Len(s) : Escaped(s[i]) \in Seq(Y)
    BY <1>1
<1> HIDE DEF Escaped
<1>3. [i \in 1..Len(s) |-> Escaped(s[i])] \in [1..Len(s) -> Seq(Y)]
    BY Zenon, <1>2
<1>4. [i \in 1..Len(s) |-> Escaped(s[i])] \in UNION {[1..n -> Seq(Y)] : n \in Nat}
    BY Zenon, <1>1, <1>3
<1> QED
    BY Zenon, <1>1, <1>4, SeqDef

LEMMA EscapedType ==
    ASSUME NEW Z, NEW Y, \A o \in Z : Escaped(o) \in Seq(Y), NEW s \in Seq(Z)
    PROVE  EscapedAll(s) \in Seq(Y)
BY EscapedEach, FlattenType DEF EscapedAll

LEMMA EscapedAppend ==
    ASSUME NEW s \in Seq(Octets), NEW o \in Octets
    PROVE  EscapedAll(Append(s, o)) = EscapedAll(s) \o Escaped(o)
<1> DEFINE each(t) == [i \in DOMAIN t |-> Escaped(t[i])]
<1>1. \A t \in Seq(Octets) : each(t) \in Seq(Seq(Octets))
    BY EscapedAny, EscapedEach
<1>2. each(Append(s, o)) = Append(each(s), Escaped(o))
  <2>1. /\ Len(s) \in Nat /\ DOMAIN s = 1..Len(s) /\ Append(s, o) \in Seq(Octets)
        /\ DOMAIN Append(s, o) = 1..Len(s) + 1
        /\ \A i \in 1..Len(s) : Append(s, o)[i] = s[i]
        /\ Append(s, o)[Len(s) + 1] = o
      BY AppendProperties, LenProperties
  <2>2. /\ each(s) \in Seq(Seq(Octets)) /\ Len(each(s)) = Len(s)
        /\ each(Append(s, o)) \in Seq(Seq(Octets)) /\ Len(each(Append(s, o))) = Len(s) + 1
    <3>1. DOMAIN each(s) = DOMAIN s /\ DOMAIN each(Append(s, o)) = DOMAIN Append(s, o)
        OBVIOUS
    <3>2. each(s) \in Seq(Seq(Octets)) /\ each(Append(s, o)) \in Seq(Seq(Octets))
        BY <1>1, <2>1
    <3> HIDE DEF each
    <3> QED
        BY <2>1, <3>1, <3>2, LenProperties
  <2>3. \A i \in 1..Len(s) + 1 : each(Append(s, o))[i] = IF i = Len(s) + 1 THEN Escaped(o) ELSE Escaped(s[i])
      BY <2>1
  <2>4. \A i \in 1..Len(s) : each(s)[i] = Escaped(s[i])
      BY <2>1
  <2> HIDE DEF each
  <2>5. /\ Append(each(s), Escaped(o)) \in Seq(Seq(Octets))
        /\ Len(Append(each(s), Escaped(o))) = Len(s) + 1
        /\ \A i \in 1..Len(s) : Append(each(s), Escaped(o))[i] = each(s)[i]
        /\ Append(each(s), Escaped(o))[Len(s) + 1] = Escaped(o)
      BY <2>2, EscapedAny, AppendProperties
  <2>6. \A i \in 1..Len(s) + 1 : each(Append(s, o))[i] = Append(each(s), Escaped(o))[i]
    <3>1. \A i \in 1..Len(s) + 1 : i = Len(s) + 1 \/ i \in 1..Len(s)
        BY <2>1
    <3> QED
        BY <2>3, <2>4, <2>5, <3>1
  <2> QED
      BY <2>2, <2>5, <2>6, SeqEqual
<1>3. FlattenSeq(Append(each(s), Escaped(o))) = FlattenSeq(each(s)) \o Escaped(o)
    BY <1>1, EscapedAny, FlattenAppend
<1> QED
    BY <1>2, <1>3 DEF EscapedAll

LEMMA EscapedCons ==
    ASSUME NEW s \in Seq(Octets), NEW o \in Octets
    PROVE  EscapedAll(<<o>> \o s) = Escaped(o) \o EscapedAll(s)
<1> DEFINE each(t) == [i \in DOMAIN t |-> Escaped(t[i])]
           l == <<o>> \o s
           r == <<Escaped(o)>> \o each(s)
<1>1. \A t \in Seq(Octets) : each(t) \in Seq(Seq(Octets)) /\ DOMAIN each(t) = DOMAIN t
    BY EscapedAny, EscapedEach
<1>2. each(l) = r
  <2>1. <<o>> \in Seq(Octets) /\ Len(<<o>>) = 1 /\ <<o>>[1] = o
      OBVIOUS
  <2>2. /\ Len(s) \in Nat /\ DOMAIN s = 1..Len(s) /\ l \in Seq(Octets) /\ Len(l) = 1 + Len(s)
        /\ DOMAIN l = 1..1 + Len(s)
        /\ \A i \in 1..1 + Len(s) : l[i] = IF i = 1 THEN o ELSE s[i - 1]
    <3>1. /\ l \in Seq(Octets) /\ Len(l) = 1 + Len(s)
          /\ \A i \in 1..1 + Len(s) : l[i] = IF i <= 1 THEN <<o>>[i] ELSE s[i - 1]
        BY <2>1, ConcatProperties
    <3>2. \A i \in 1..1 + Len(s) : i <= 1 => i = 1
        OBVIOUS
    <3> QED
        BY <2>1, <3>1, <3>2, LenProperties
  <2>3. each(s) \in Seq(Seq(Octets)) /\ Len(each(s)) = Len(s) /\ each(l) \in Seq(Seq(Octets))
        /\ Len(each(l)) = 1 + Len(s)
    <3> HIDE DEF each, l
    <3> QED
        BY <1>1, <2>2, LenProperties
  <2>4. /\ \A i \in 1..1 + Len(s) : each(l)[i] = Escaped(l[i])
        /\ \A i \in 1..Len(s) : each(s)[i] = Escaped(s[i])
      BY <2>2
  <2>5. /\ <<Escaped(o)>> \in Seq(Seq(Octets)) /\ Len(<<Escaped(o)>>) = 1
        /\ <<Escaped(o)>>[1] = Escaped(o)
    <3>1. Escaped(o) \in Seq(Octets)
        BY EscapedAny
    <3> HIDE DEF Escaped
    <3> QED
        BY <3>1
  <2> HIDE DEF each, l
  <2>6. /\ r \in Seq(Seq(Octets)) /\ Len(r) = 1 + Len(s)
        /\ \A i \in 1..1 + Len(s) : r[i] = IF i = 1 THEN Escaped(o) ELSE each(s)[i - 1]
    <3>1. /\ r \in Seq(Seq(Octets)) /\ Len(r) = 1 + Len(s)
          /\ \A i \in 1..1 + Len(s) : r[i] = IF i <= 1 THEN <<Escaped(o)>>[i] ELSE each(s)[i - 1]
        BY <2>3, <2>5, ConcatProperties
    <3>2. \A i \in 1..1 + Len(s) : i <= 1 => i = 1
        OBVIOUS
    <3> QED
        BY <2>5, <3>1, <3>2
  <2>7. \A i \in 1..1 + Len(s) : each(l)[i] = r[i]
    <3> HIDE DEF r
    <3>1. SUFFICES ASSUME NEW i \in 1..1 + Len(s)
                   PROVE  each(l)[i] = r[i]
        OBVIOUS
    <3>2. CASE i = 1
        BY <2>2, <2>4, <2>6, <3>2
    <3>3. CASE i # 1
      <4>1. i - 1 \in 1..Len(s)
          BY <2>2, <3>3
      <4>2. each(l)[i] = Escaped(s[i - 1]) /\ r[i] = each(s)[i - 1]
          BY <2>2, <2>4, <2>6, <3>3
      <4> QED
          BY <2>4, <4>1, <4>2
    <3> QED
        BY <3>2, <3>3
  <2> HIDE DEF r
  <2> QED
      BY <2>3, <2>6, <2>7, SeqEqual
<1>3. FlattenSeq(r) = Escaped(o) \o FlattenSeq(each(s))
    BY <1>1, EscapedAny, FlattenCons
<1> QED
    BY <1>2, <1>3 DEF EscapedAll

\* A frame: a boundary, the escaped content, the check sequence, a boundary.  The one
\* octet of it that tells its content is the second of the check sequence.
LEMMA FrameShape ==
    ASSUME NEW c \in Contents
    PROVE  /\ c \o Check(c) \in Seq(Octets) /\ Len(c \o Check(c)) = Len(c) + 2
           /\ Len(c) \in Nat /\ c \in Seq(Octets)
           /\ EscapedAll(c \o Check(c)) \in Seq(Octets)
           /\ Framed(c) = <<FRAME_BOUNDARY>> \o (EscapedAll(c \o Check(c)) \o <<FRAME_BOUNDARY>>)
           /\ Framed(c) \in Seq(Octets) /\ Len(Framed(c)) \in Nat /\ Len(Framed(c)) >= 2
           /\ \A i \in 1..Len(Framed(c)) :
                 Framed(c)[i] \in Lows => i = Len(Framed(c)) - 1 /\ Framed(c)[i] = Low(c)
<1> DEFINE h == High(c)
           l == Low(c)
           b == FRAME_BOUNDARY
           p == EscapedAll(Append(c, h))
           s == c \o Check(c)
           e == EscapedAll(s)
<1>1. /\ c \in Seq(Plain) /\ h \in Plain /\ l \in Lows /\ l \notin Marks /\ b \in Plain
      /\ l \in Octets /\ Plain \subseteq Octets
  <2>1. Data \subseteq Plain /\ Highs \subseteq Plain /\ b \in Plain
      BY DEF Plain, Marks
  <2> QED
      BY <2>1, ContentTypes, SeqMonotonic DEF Octets
<1>2. /\ Append(c, h) \in Seq(Plain) /\ Len(Append(c, h)) = Len(c) + 1 /\ Len(c) \in Nat
    BY <1>1, AppendProperties, LenProperties
<1>3. /\ Append(c, h) \in Seq(Octets) /\ c \in Seq(Octets)
    BY <1>1, <1>2, SeqMonotonic
<1>4. s = Append(Append(c, h), l)
  <2>1. Check(c) = <<h>> \o <<l>>
      BY DEF Check
  <2>2. Append(c, h) = c \o <<h>> /\ Append(Append(c, h), l) = (c \o <<h>>) \o <<l>>
      BY <1>1, <1>3, AppendIsConcat
  <2>3. <<h>> \in Seq(Octets) /\ <<l>> \in Seq(Octets)
      BY <1>1, ShortSeq
  <2>4. (c \o <<h>>) \o <<l>> = c \o (<<h>> \o <<l>>)
      BY <1>3, <2>3, ConcatAssociative
  <2> QED
      BY <2>1, <2>2, <2>4
<1> HIDE DEF s
<1>5. s \in Seq(Octets) /\ Len(s) = Len(c) + 2
    BY <1>1, <1>2, <1>3, <1>4, AppendProperties
<1>6. e = p \o <<l>>
  <2>1. e = p \o Escaped(l)
      BY <1>1, <1>3, <1>4, EscapedAppend
  <2> QED
      BY <1>1, <2>1, EscapedOctet
<1>7. p \in Seq(Plain)
    BY <1>2, EscapedPlain, EscapedType
<1>8. e \in Seq(Octets)
    BY <1>5, EscapedAny, EscapedType
<1>9. <<b>> \in Seq(Plain) /\ Len(<<b>>) = 1 /\ <<b>>[1] = b
    BY <1>1, ShortSeq
<1>10. Framed(c) = <<b>> \o e \o <<b>>
    BY DEF Framed, s
<1> HIDE DEF e, p, h, l, b
<1>11. <<b>> \in Seq(Octets)
    BY <1>1, <1>9, SeqMonotonic
<1>12. Framed(c) = <<b>> \o (e \o <<b>>)
    BY <1>8, <1>10, <1>11, ConcatAssociative
<1>13. e \o <<b>> \in Seq(Octets) /\ Len(e \o <<b>>) = Len(e) + 1 /\ Len(e) \in Nat
    BY <1>8, <1>9, <1>11, ConcatProperties, LenProperties
<1>14. /\ Framed(c) \in Seq(Octets) /\ Len(Framed(c)) = Len(e) + 2
       /\ \A i \in 1..Len(e) + 2 : Framed(c)[i] =
             IF i <= 1 THEN <<b>>[i] ELSE (e \o <<b>>)[i - 1]
  <2>1. /\ Framed(c) \in Seq(Octets) /\ Len(Framed(c)) = 1 + (Len(e) + 1)
        /\ \A i \in 1..1 + (Len(e) + 1) : Framed(c)[i] =
              IF i <= 1 THEN <<b>>[i] ELSE (e \o <<b>>)[i - 1]
      BY <1>9, <1>11, <1>12, <1>13, ConcatProperties
  <2>2. 1 + (Len(e) + 1) = Len(e) + 2
      BY <1>13
  <2> QED
      BY <2>1, <2>2
<1>15. \A i \in 1..Len(e) + 1 : (e \o <<b>>)[i] = IF i <= Len(e) THEN e[i] ELSE <<b>>[i - Len(e)]
    BY <1>8, <1>9, <1>11, ConcatProperties
<1>16. /\ Len(p) \in Nat /\ Len(e) = Len(p) + 1 /\ \A i \in 1..Len(p) : p[i] \in Plain
       /\ \A i \in 1..Len(p) + 1 : e[i] = IF i <= Len(p) THEN p[i] ELSE <<l>>[i - Len(p)]
  <2>1. p \in Seq(Octets) /\ <<l>> \in Seq(Octets) /\ Len(<<l>>) = 1
      BY <1>1, <1>7, SeqMonotonic, ShortSeq
  <2> QED
      BY <1>6, <1>7, <2>1, ConcatProperties, LenProperties, ElementOfSeq
<1>17. ASSUME NEW i \in 1..Len(e) + 2, Framed(c)[i] \in Lows
       PROVE  i = Len(e) + 1 /\ Framed(c)[i] = l
  <2>1. b \notin Lows /\ \A j \in 1..Len(p) : p[j] \notin Lows
      BY <1>1, <1>16, LowsApart
  <2>2. i # 1
      BY <1>9, <1>14, <1>17, <2>1
  <2>3. i - 1 \in 1..Len(e) + 1 /\ Framed(c)[i] = (e \o <<b>>)[i - 1]
      BY <1>13, <1>14, <2>2
  <2>4. i - 1 <= Len(e)
    <3> SUFFICES ASSUME ~(i - 1 <= Len(e))
                 PROVE  FALSE
        OBVIOUS
    <3>1. (i - 1) - Len(e) = 1
        BY <1>13, <2>3
    <3> QED
        BY <1>9, <1>15, <1>17, <2>1, <2>3, <3>1
  <2>5. i - 1 \in 1..Len(p) + 1 /\ Framed(c)[i] = e[i - 1]
      BY <1>13, <1>15, <1>16, <2>3, <2>4
  <2>6. ~(i - 1 <= Len(p))
    <3> SUFFICES ASSUME i - 1 <= Len(p)
                 PROVE  FALSE
        OBVIOUS
    <3>1. i - 1 \in 1..Len(p) /\ e[i - 1] = p[i - 1]
        BY <1>13, <1>16, <2>5
    <3> QED
        BY <1>17, <2>1, <2>5, <3>1
  <2>7. i - 1 = Len(p) + 1 /\ (i - 1) - Len(p) = 1
      BY <1>16, <2>5, <2>6
  <2>8. e[i - 1] = <<l>>[1]
      BY <1>16, <2>5, <2>6, <2>7
  <2> QED
      BY <1>13, <1>16, <2>5, <2>7, <2>8
<1>18. Len(Framed(c)) = Len(e) + 2 /\ Len(e) + 2 \in Nat /\ Len(e) + 2 >= 2 /\ (Len(e) + 2) - 1 = Len(e) + 1
    BY <1>13, <1>14
<1>19. \A i \in 1..Len(Framed(c)) :
          Framed(c)[i] \in Lows => i = Len(Framed(c)) - 1 /\ Framed(c)[i] = l
    BY <1>17, <1>18
<1>20. /\ s \in Seq(Octets) /\ Len(s) = Len(c) + 2 /\ Len(c) \in Nat /\ c \in Seq(Octets)
       /\ e \in Seq(Octets) /\ Framed(c) = <<b>> \o (e \o <<b>>)
       /\ Framed(c) \in Seq(Octets) /\ Len(Framed(c)) \in Nat /\ Len(Framed(c)) >= 2
    BY <1>2, <1>3, <1>5, <1>8, <1>12, <1>14, <1>18
<1> QED
    BY <1>19, <1>20 DEF e, s, l, b

-----------------------------------------------------------------------------
(* Types *)

TypeInv ==
    /\ sent \in Seq(Contents) /\ received \in Seq(Contents)
    /\ line \in Seq(Octets) /\ frame \in Seq(Stored)
    /\ Len(frame) < MaxFrameLength
    /\ inEscape \in BOOLEAN /\ tooLong \in Nat /\ faults \in 0..MaxFaults

\* What the receiver takes for a frame ends in the octet that tells its content.
LEMMA ValidFrame ==
    ASSUME NEW f \in Seq(Stored), Valid(f)
    PROVE  /\ Content(f) \in Contents
           /\ Len(f) \in Nat /\ Len(f) >= 2 /\ f[Len(f)] = Low(Content(f))
<1>1. Len(f) \in Nat /\ Len(f) >= 2 /\ Len(f) - 1 \in Int
    BY LenProperties DEF Valid
<1>2. SubSeq(f, Len(f) - 1, Len(f))[2] = f[Len(f)]
    BY <1>1
<1>3. Check(Content(f))[2] = Low(Content(f))
    BY DEF Check
<1>4. f[Len(f)] = Low(Content(f))
    BY <1>2, <1>3 DEF Valid
<1>5. f[Len(f)] \in Stored
    BY <1>1, ElementOfSeq
<1> QED
    BY <1>1, <1>4, <1>5, LowsApart

LEMMA MarksSent ==
    /\ FRAME_BOUNDARY \in Plain /\ CONTROL_ESCAPE \in Plain /\ Invert(FRAME_BOUNDARY) \in Plain
    /\ Plain \subseteq Octets /\ Octets \subseteq Stored /\ \A o \in Octets : Invert(o) \in Stored
BY DEF Plain, Octets, Stored, Marks

\* An octet at the end of the line: its first one, and the others.
LEMMA FirstOctet ==
    ASSUME NEW Z, NEW L \in Seq(Z), L # <<>>
    PROVE  /\ Head(L) \in Z /\ Tail(L) \in Seq(Z) /\ L = <<Head(L)>> \o Tail(L)
           /\ <<Head(L)>> \in Seq(Z) /\ Len(<<Head(L)>>) = 1 /\ <<Head(L)>>[1] = Head(L)
<1>1. Head(L) \in Z /\ Tail(L) \in Seq(Z)
    BY HeadTailProperties
<1>2. L = <<Head(L)>> \o Tail(L)
    BY HeadTailAppend, <1>1
<1> QED
    BY <1>1, <1>2, ShortSeq

LEMMA Bounds == MaxFrameLength \in Nat /\ 0 < MaxFrameLength /\ MaxFrames \in Nat /\ MaxFaults \in Nat
<1>1. MaxFrameLength \in Nat \ {0} /\ MaxFrames \in Nat /\ MaxFaults \in Nat
    BY MiniHDLCAssumption
<1> QED
    BY <1>1

LEMMA Emptied ==
    ASSUME NEW Z, NEW f, f = <<>>
    PROVE  f \in Seq(Z) /\ Len(f) = 0 /\ Len(f) < MaxFrameLength
BY EmptySeq, Bounds

LEMMA TypesStep ==
    ASSUME TypeInv, [Next]_vars
    PROVE  TypeInv'
<1> USE DEF TypeInv
<1>0. MaxFrameLength \in Nat /\ MaxFaults \in Nat
    BY Bounds
<1>1. ASSUME NEW c \in Contents, SendFrame(c)
      PROVE  TypeInv'
  <2>1. sent' \in Seq(Contents) /\ line' \in Seq(Octets)
      BY <1>1, FrameShape, AppendProperties, ConcatProperties DEF SendFrame
  <2> QED
      BY <1>1, <2>1 DEF SendFrame
<1>2. ASSUME NEW c \in Contents, SendPart(c)
      PROVE  TypeInv'
  <2>1. PICK n \in 1..Len(Framed(c)) - 1 : line' = line \o SubSeq(Framed(c), 1, n)
      BY <1>2 DEF SendPart
  <2>2. /\ Framed(c) \in Seq(Octets) /\ Len(Framed(c)) \in Nat /\ n \in 1..Len(Framed(c))
        /\ 1 \in 1..Len(Framed(c)) + 1
      BY SMTT(30), <2>1, FrameShape
  <2>3. SubSeq(Framed(c), 1, n) \in Seq(Octets)
    <3> HIDE DEF Framed
    <3> QED
        BY <2>2, SubSeqProperties
  <2>4. sent' \in Seq(Contents) /\ line' \in Seq(Octets)
      BY <1>2, <2>1, <2>3, AppendProperties, ConcatProperties DEF SendPart
  <2>5. faults' \in 0..MaxFaults
      BY <1>0, <1>2 DEF SendPart
  <2> QED
      BY <1>2, <2>4, <2>5 DEF SendPart
<1>3. CASE Receive
  <2>1. /\ line # <<>> /\ line' = Tail(line) /\ HandleChar(Head(line))
        /\ UNCHANGED <<sent, faults>>
      BY <1>3 DEF Receive
  <2>2. Head(line) \in Octets /\ line' \in Seq(Octets)
      BY <2>1, FirstOctet
  <2>3. ASSUME Boundary
        PROVE  TypeInv'
    <3>1. received' \in Seq(Contents)
        BY <2>3, ValidFrame, AppendProperties DEF Boundary
    <3>2. frame' \in Seq(Stored) /\ Len(frame') < MaxFrameLength
        BY <2>3, Emptied DEF Boundary, AfterBoundary
    <3> QED
        BY <2>1, <2>2, <2>3, <3>1, <3>2 DEF Boundary, EscapeAfterBoundary
  <2>4. ASSUME NEW o \in Stored, Store(o)
        PROVE  TypeInv'
    <3>1. /\ frame' \in Seq(Stored) /\ Len(frame') < MaxFrameLength /\ tooLong' \in Nat
      <4>1. /\ Append(frame, o) \in Seq(Stored) /\ Len(Append(frame, o)) = Len(frame) + 1
            /\ Len(frame) \in Nat
          BY AppendProperties, LenProperties
      <4>2. CASE Full
          BY <2>4, <4>2, Emptied DEF Store
      <4>3. CASE ~Full
        <5>1. Len(frame) + 1 # MaxFrameLength /\ frame' = Append(frame, o) /\ tooLong' = tooLong
            BY <2>4, <4>3 DEF Store, Full
        <5> QED
            BY <1>0, <4>1, <5>1
      <4> QED
          BY <4>2, <4>3
    <3> QED
        BY <2>1, <2>2, <2>4, <3>1 DEF Store
  <2>5. CASE inEscape' = TRUE /\ UNCHANGED <<frame, received, tooLong>>
      BY <2>1, <2>2, <2>5
  <2> QED
      BY <2>1, <2>2, <2>3, <2>4, <2>5, MarksSent DEF HandleChar
<1>4. CASE Lose
  <2>1. line' \in Seq(Octets)
      BY <1>4, FirstOctet DEF Lose
  <2> QED
      BY <1>0, <1>4, <2>1 DEF Lose
<1>5. CASE Corrupt
  <2>1. PICK o \in Octets : line' = <<o>> \o Tail(line)
      BY <1>5, MarksSent DEF Corrupt
  <2>2. <<o>> \in Seq(Octets) /\ Tail(line) \in Seq(Octets)
      BY <1>5, FirstOctet, ShortSeq DEF Corrupt
  <2>3. line' \in Seq(Octets)
      BY <2>1, <2>2, ConcatProperties
  <2> QED
      BY <1>0, <1>5, <2>3 DEF Corrupt
<1>6. CASE ReceiverRestarts
  <2>1. frame' \in Seq(Stored) /\ Len(frame') < MaxFrameLength
      BY <1>6, Emptied DEF ReceiverRestarts
  <2>2. /\ UNCHANGED <<sent, line, received, tooLong>> /\ inEscape' \in BOOLEAN
        /\ faults < MaxFaults /\ faults' = faults + 1
      BY <1>6 DEF ReceiverRestarts
  <2> QED
      BY <1>0, <2>1, <2>2
<1>7. CASE UNCHANGED vars
    BY <1>7 DEF vars
<1> QED
    BY <1>1, <1>2, <1>3, <1>4, <1>5, <1>6, <1>7 DEF Next

LEMMA TypesStart == Init => TypeInv
<1> SUFFICES ASSUME Init
             PROVE  TypeInv
    OBVIOUS
<1>1. /\ sent = <<>> /\ line = <<>> /\ frame = <<>> /\ received = <<>>
      /\ inEscape = FALSE /\ tooLong = 0 /\ faults = 0
    BY DEF Init
<1>2. /\ sent \in Seq(Contents) /\ received \in Seq(Contents) /\ line \in Seq(Octets)
      /\ frame \in Seq(Stored) /\ Len(frame) < MaxFrameLength
    BY <1>1, Emptied
<1>3. inEscape \in BOOLEAN
    BY <1>1
<1>4. tooLong = 0 /\ faults = 0
    BY <1>1
<1>5. tooLong \in Nat /\ faults \in 0..MaxFaults
    BY <1>4, Bounds
<1> QED
    BY <1>2, <1>3, <1>5 DEF TypeInv

LEMMA TypesAlways == Spec => []TypeInv
<1> QED
    BY TypesStart, TypesStep, PTL DEF Spec

\* Type correctness: the receiver's buffer is never full between two octets, and what
\* it hands over are contents that frames are made of. (handleChar)
THEOREM TypesHold == Spec => []TypeOK
<1>1. TypeInv => TypeOK
    BY DEF TypeInv, TypeOK
<1> QED
    BY <1>1, TypesAlways, PTL

-----------------------------------------------------------------------------
(* What is received was sent.  The octets on their way through the link,   *)
(* those handed over first: each of them that tells the content of a frame *)
(* has a frame sent to its own, in the order they were sent.               *)

Marked(r) == [i \in DOMAIN r |-> Low(r[i])]

IsLow(W, i) == W[i] \in Lows

PlacedBy(g, W, t) ==
    /\ \A i \in 1..Len(W) : IsLow(W, i) => g[i] \in 1..Len(t) /\ W[i] = Low(t[g[i]])
    /\ \A i, j \in 1..Len(W) : IsLow(W, i) /\ IsLow(W, j) /\ i < j => g[i] < g[j]
Placed(W, t) == \E g : PlacedBy(g, W, t)

\* The octets that tell a content in V are some of those in W, in their order.
TakenBy(h, V, W) ==
    /\ \A i \in 1..Len(V) : IsLow(V, i) => h[i] \in 1..Len(W) /\ V[i] = W[h[i]]
    /\ \A i, j \in 1..Len(V) : IsLow(V, i) /\ IsLow(V, j) /\ i < j => h[i] < h[j]

LEMMA PlacedTaken ==
    ASSUME NEW V \in Seq(Stored), NEW W \in Seq(Stored), NEW t \in Seq(Contents), NEW h,
           Placed(W, t), TakenBy(h, V, W)
    PROVE  Placed(V, t)
<1>0. Len(V) \in Nat /\ Len(W) \in Nat /\ Len(t) \in Nat
    BY LenProperties
<1>1. PICK g : PlacedBy(g, W, t)
    BY DEF Placed
<1> DEFINE G == [i \in 1..Len(V) |-> g[h[i]]]
<1>2. \A i \in 1..Len(V) : G[i] = g[h[i]]
    OBVIOUS
<1> HIDE DEF G
<1>3. \A i \in 1..Len(V) : IsLow(V, i) => h[i] \in 1..Len(W) /\ IsLow(W, h[i]) /\ V[i] = W[h[i]]
    BY DEF TakenBy, IsLow
<1>4. \A i \in 1..Len(V) : IsLow(V, i) => G[i] \in 1..Len(t) /\ V[i] = Low(t[G[i]])
    BY <1>1, <1>2, <1>3 DEF PlacedBy
<1>5. ASSUME NEW i \in 1..Len(V), NEW j \in 1..Len(V), IsLow(V, i), IsLow(V, j), i < j
      PROVE  G[i] < G[j]
  <2>1. h[i] < h[j]
      BY <1>5 DEF TakenBy
  <2> QED
      BY <1>1, <1>2, <1>3, <1>5, <2>1 DEF PlacedBy
<1> QED
    BY <1>4, <1>5 DEF Placed, PlacedBy

LEMMA Joined ==
    ASSUME NEW Z, NEW A \in Seq(Z), NEW B \in Seq(Z)
    PROVE  /\ A \o B \in Seq(Z) /\ Len(A) \in Nat /\ Len(B) \in Nat
           /\ Len(A \o B) = Len(A) + Len(B)
           /\ \A i \in 1..Len(A) + Len(B) : (A \o B)[i] = IF i <= Len(A) THEN A[i] ELSE B[i - Len(A)]
BY ConcatProperties, LenProperties

\* Octets may get lost ...
LEMMA PlacedDrop ==
    ASSUME NEW A \in Seq(Stored), NEW B \in Seq(Stored), NEW C \in Seq(Stored),
           NEW t \in Seq(Contents), Placed(A \o (B \o C), t)
    PROVE  Placed(A \o C, t)
<1> DEFINE V == A \o C
           W == A \o (B \o C)
           a == Len(A)
           b == Len(B)
           c == Len(C)
           h == [i \in 1..a + c |-> IF i <= a THEN i ELSE i + b]
<1>1. /\ V \in Seq(Stored) /\ Len(V) = a + c
      /\ \A i \in 1..a + c : V[i] = IF i <= a THEN A[i] ELSE C[i - a]
    BY Joined
<1>2. /\ B \o C \in Seq(Stored) /\ Len(B \o C) = b + c
      /\ \A i \in 1..b + c : (B \o C)[i] = IF i <= b THEN B[i] ELSE C[i - b]
    BY Joined
<1>3. /\ W \in Seq(Stored) /\ Len(W) = a + (b + c)
      /\ \A i \in 1..a + (b + c) : W[i] = IF i <= a THEN A[i] ELSE (B \o C)[i - a]
    BY <1>2, Joined
<1>4. a \in Nat /\ b \in Nat /\ c \in Nat
    BY Joined
<1>5. \A i \in 1..a + c : h[i] = IF i <= a THEN i ELSE i + b
    OBVIOUS
<1> HIDE DEF V, W, a, b, c, h
<1>6. ASSUME NEW i \in 1..a + c
      PROVE  h[i] \in 1..a + (b + c) /\ V[i] = W[h[i]]
  <2>1. CASE i <= a
    <3>1. h[i] = i /\ i \in 1..a + (b + c)
        BY <1>4, <1>5, <2>1
    <3> QED
        BY <1>1, <1>3, <2>1, <3>1
  <2>2. CASE ~(i <= a)
    <3>1. /\ h[i] = i + b /\ i + b \in 1..a + (b + c) /\ ~(i + b <= a)
          /\ (i + b) - a \in 1..b + c /\ ~((i + b) - a <= b) /\ ((i + b) - a) - b = i - a
        BY <1>4, <1>5, <2>2
    <3>2. W[i + b] = (B \o C)[(i + b) - a]
        BY <1>3, <3>1
    <3>3. (B \o C)[(i + b) - a] = C[i - a]
        BY <1>2, <3>1
    <3> QED
        BY <1>1, <2>2, <3>1, <3>2, <3>3
  <2> QED
      BY <2>1, <2>2
<1>7. \A i, j \in 1..a + c : i < j => h[i] < h[j]
    BY <1>4, <1>5
<1>8. TakenBy(h, V, W)
    BY <1>1, <1>3, <1>6, <1>7 DEF TakenBy
<1>9. Placed(W, t)
    BY DEF W
<1> QED
    BY <1>1, <1>3, <1>8, <1>9, PlacedTaken DEF V

\* ... or become others, but none that tells a content ...
LEMMA PlacedChange ==
    ASSUME NEW A \in Seq(Stored), NEW C \in Seq(Stored), NEW x \in Stored, NEW y \in Stored,
           NEW t \in Seq(Contents), Placed(A \o (<<x>> \o C), t), y = x \/ y \notin Lows
    PROVE  Placed(A \o (<<y>> \o C), t)
<1> DEFINE V == A \o (<<y>> \o C)
           W == A \o (<<x>> \o C)
           a == Len(A)
           c == Len(C)
           h == [i \in 1..a + (1 + c) |-> i]
<1>1. ASSUME NEW z \in Stored
      PROVE  /\ A \o (<<z>> \o C) \in Seq(Stored) /\ Len(A \o (<<z>> \o C)) = a + (1 + c)
             /\ \A i \in 1..a + (1 + c) : (A \o (<<z>> \o C))[i] =
                   IF i <= a THEN A[i] ELSE IF i = a + 1 THEN z ELSE C[(i - a) - 1]
  <2> DEFINE B == <<z>> \o C
             D == A \o B
  <2>0. a \in Nat /\ c \in Nat
      BY Joined
  <2>1. <<z>> \in Seq(Stored) /\ Len(<<z>>) = 1 /\ <<z>>[1] = z
      BY ShortSeq
  <2>2. /\ B \in Seq(Stored) /\ Len(B) = 1 + c
        /\ \A i \in 1..1 + c : B[i] = IF i <= 1 THEN <<z>>[i] ELSE C[i - 1]
      BY <2>1, Joined
  <2>3. \A i \in 1..1 + c : B[i] = IF i = 1 THEN z ELSE C[i - 1]
    <3>1. \A i \in 1..1 + c : i <= 1 => i = 1
        OBVIOUS
    <3> HIDE DEF B
    <3> QED
        BY <2>1, <2>2, <3>1
  <2> HIDE DEF B
  <2>4. /\ D \in Seq(Stored) /\ Len(D) = a + (1 + c)
        /\ \A i \in 1..a + (1 + c) : D[i] = IF i <= a THEN A[i] ELSE B[i - a]
    <3>1. /\ D \in Seq(Stored) /\ Len(D) = a + Len(B)
          /\ \A i \in 1..a + Len(B) : D[i] = IF i <= a THEN A[i] ELSE B[i - a]
        BY <2>2, Joined
    <3>2. Len(B) = 1 + c
        BY <2>2
    <3> HIDE DEF D, c
    <3> QED
        BY <3>1, <3>2
  <2> HIDE DEF D, a, c
  <2>5. \A i \in 1..a + (1 + c) : D[i] =
           IF i <= a THEN A[i] ELSE IF i = a + 1 THEN z ELSE C[(i - a) - 1]
    <3>1. \A i \in 1..a + (1 + c) : ~(i <= a) => i - a \in 1..1 + c /\ (i - a = 1 <=> i = a + 1)
        BY <2>0
    <3> QED
        BY <2>3, <2>4, <3>1
  <2> QED
      BY <2>4, <2>5 DEF B, D
<1>2. /\ V \in Seq(Stored) /\ Len(V) = a + (1 + c)
      /\ \A i \in 1..a + (1 + c) : V[i] =
            IF i <= a THEN A[i] ELSE IF i = a + 1 THEN y ELSE C[(i - a) - 1]
    BY <1>1
<1>3. /\ W \in Seq(Stored) /\ Len(W) = a + (1 + c)
      /\ \A i \in 1..a + (1 + c) : W[i] =
            IF i <= a THEN A[i] ELSE IF i = a + 1 THEN x ELSE C[(i - a) - 1]
    BY <1>1
<1>4. \A i \in 1..a + (1 + c) : h[i] = i
    OBVIOUS
<1>5. Placed(W, t)
    OBVIOUS
<1> HIDE DEF V, W, a, c, h
<1>6. \A i \in 1..a + (1 + c) : IsLow(V, i) => V[i] = W[i]
    BY <1>2, <1>3 DEF IsLow
<1>7. TakenBy(h, V, W)
    BY <1>2, <1>3, <1>4, <1>6 DEF TakenBy
<1> QED
    BY <1>2, <1>3, <1>5, <1>7, PlacedTaken DEF V

\* ... and a frame is sent with one that tells its content, or none.
OneLow(X, k, c) == \A i \in 1..Len(X) : X[i] \in Lows => i = k /\ X[i] = Low(c)

LEMMA PlacedSend ==
    ASSUME NEW W \in Seq(Stored), NEW X \in Seq(Stored), NEW t \in Seq(Contents),
           NEW c \in Contents, NEW k, Placed(W, t), OneLow(X, k, c)
    PROVE  Placed(W \o X, Append(t, c))
<1> DEFINE V == W \o X
           u == Append(t, c)
           w == Len(W)
           x == Len(X)
           n == Len(t)
<1>1. /\ V \in Seq(Stored) /\ Len(V) = w + x /\ w \in Nat /\ x \in Nat
      /\ \A i \in 1..w + x : V[i] = IF i <= w THEN W[i] ELSE X[i - w]
    BY Joined
<1>2. /\ u \in Seq(Contents) /\ Len(u) = n + 1 /\ n \in Nat /\ u[n + 1] = c
      /\ \A i \in 1..n : u[i] = t[i]
    BY AppendProperties, LenProperties
<1>3. PICK g : PlacedBy(g, W, t)
    BY DEF Placed
<1> DEFINE G == [i \in 1..w + x |-> IF i <= w THEN g[i] ELSE n + 1]
<1>4. \A i \in 1..w + x : G[i] = IF i <= w THEN g[i] ELSE n + 1
    OBVIOUS
<1> HIDE DEF V, u, G
<1>5. ASSUME NEW i \in 1..w + x, IsLow(V, i)
      PROVE  /\ G[i] \in 1..n + 1 /\ V[i] = Low(u[G[i]])
             /\ IF i <= w THEN G[i] = g[i] /\ G[i] \in 1..n /\ i \in 1..w /\ IsLow(W, i)
                ELSE i - w = k /\ G[i] = n + 1
  <2>1. CASE i <= w
    <3>1. i \in 1..w /\ IsLow(W, i) /\ G[i] = g[i] /\ V[i] = W[i]
        BY <1>1, <1>4, <1>5, <2>1 DEF IsLow
    <3>2. g[i] \in 1..n /\ W[i] = Low(t[g[i]])
        BY <1>3, <3>1 DEF PlacedBy
    <3> QED
        BY <1>2, <2>1, <3>1, <3>2
  <2>2. CASE ~(i <= w)
    <3>1. i - w \in 1..x /\ V[i] = X[i - w] /\ G[i] = n + 1
        BY <1>1, <1>4, <2>2
    <3>2. i - w = k /\ X[i - w] = Low(c)
        BY <1>5, <3>1 DEF IsLow, OneLow
    <3> QED
        BY <1>2, <2>2, <3>1, <3>2
  <2> QED
      BY <2>1, <2>2
<1>6. ASSUME NEW i \in 1..w + x, NEW j \in 1..w + x, IsLow(V, i), IsLow(V, j), i < j
      PROVE  G[i] < G[j]
  <2>1. CASE j <= w
    <3>1. i <= w
        BY <1>1, <1>6, <2>1
    <3>2. /\ G[i] = g[i] /\ i \in 1..w /\ IsLow(W, i)
          /\ G[j] = g[j] /\ j \in 1..w /\ IsLow(W, j)
        BY <1>5, <1>6, <2>1, <3>1
    <3> QED
        BY <1>3, <1>6, <3>2 DEF PlacedBy
  <2>2. CASE ~(j <= w) /\ i <= w
    <3>1. G[j] = n + 1 /\ G[i] \in 1..n
        BY <1>5, <1>6, <2>2
    <3> QED
        BY <1>2, <3>1
  <2>3. CASE ~(j <= w) /\ ~(i <= w)
    <3>1. j - w = k /\ i - w = k
        BY <1>5, <1>6, <2>3
    <3> QED
        BY <1>1, <1>6, <3>1
  <2> QED
      BY <2>1, <2>2, <2>3
<1>7. PlacedBy(G, V, u)
    BY <1>1, <1>2, <1>5, <1>6 DEF PlacedBy
<1> QED
    BY <1>7 DEF Placed, V, u

LEMMA MarkedType ==
    ASSUME NEW r \in Seq(Contents)
    PROVE  /\ Marked(r) \in Seq(Stored) /\ Len(Marked(r)) = Len(r) /\ Len(r) \in Nat
           /\ \A i \in 1..Len(r) : Marked(r)[i] = Low(r[i]) /\ Marked(r)[i] \in Lows
                                   /\ r[i] \in Contents
<1>1. Len(r) \in Nat /\ DOMAIN r = 1..Len(r) /\ \A i \in 1..Len(r) : r[i] \in Contents
    BY LenProperties, ElementOfSeq
<1>2. \A i \in 1..Len(r) : Low(r[i]) \in Lows
    BY <1>1 DEF Lows
<1>3. Marked(r) = [i \in 1..Len(r) |-> Low(r[i])]
    BY <1>1 DEF Marked
<1>4. Marked(r) \in [1..Len(r) -> Stored]
    BY <1>2, <1>3 DEF Octets, Stored
<1>5. Marked(r) \in Seq(Stored)
    BY <1>1, <1>4, SeqDef
<1>6. DOMAIN Marked(r) = 1..Len(r)
    BY <1>3
<1>7. Len(Marked(r)) = Len(r)
    BY <1>1, <1>5, <1>6, LenProperties
<1>8. \A i \in 1..Len(r) : Marked(r)[i] = Low(r[i])
    BY <1>3
<1> QED
    BY <1>1, <1>2, <1>5, <1>7, <1>8

LEMMA MarkedAppend ==
    ASSUME NEW r \in Seq(Contents), NEW c \in Contents
    PROVE  Marked(Append(r, c)) = Marked(r) \o <<Low(c)>>
<1> DEFINE u == Append(r, c)
           n == Len(r)
           R == Marked(r) \o <<Low(c)>>
<1>1. /\ u \in Seq(Contents) /\ Len(u) = n + 1 /\ n \in Nat /\ u[n + 1] = c
      /\ \A i \in 1..n : u[i] = r[i]
    BY AppendProperties, LenProperties
<1>2. /\ Marked(u) \in Seq(Stored) /\ Len(Marked(u)) = n + 1
      /\ \A i \in 1..n + 1 : Marked(u)[i] = Low(u[i])
    BY <1>1, MarkedType
<1>3. /\ Marked(r) \in Seq(Stored) /\ Len(Marked(r)) = n
      /\ \A i \in 1..n : Marked(r)[i] = Low(r[i])
    BY MarkedType
<1>4. Low(c) \in Stored
    BY DEF Lows, Octets, Stored
<1>5. <<Low(c)>> \in Seq(Stored) /\ Len(<<Low(c)>>) = 1 /\ <<Low(c)>>[1] = Low(c)
    BY <1>4, ShortSeq
<1>6. /\ R \in Seq(Stored) /\ Len(R) = n + 1
      /\ \A i \in 1..n + 1 : R[i] = IF i <= n THEN Marked(r)[i] ELSE <<Low(c)>>[i - n]
    BY <1>3, <1>5, Joined
<1> HIDE DEF u, R
<1>7. ASSUME NEW i \in 1..n + 1
      PROVE  Marked(u)[i] = R[i]
  <2>1. CASE i <= n
    <3>1. i \in 1..n
        BY <1>1, <2>1
    <3> QED
        BY <1>1, <1>2, <1>3, <1>6, <2>1, <3>1
  <2>2. CASE ~(i <= n)
    <3>1. i = n + 1 /\ i - n = 1
        BY <1>1, <2>2
    <3>2. R[i] = Low(c)
        BY <1>5, <1>6, <2>2, <3>1
    <3> QED
        BY <1>1, <1>2, <3>1, <3>2
  <2> QED
      BY <2>1, <2>2
<1>8. Marked(u) = R
    BY <1>2, <1>6, <1>7, SeqEqual
<1> QED
    BY <1>8 DEF u, R

\* So what is handed over was sent.
LEMMA PlacedThinned ==
    ASSUME NEW r \in Seq(Contents), NEW Y \in Seq(Stored), NEW t \in Seq(Contents),
           Placed(Marked(r) \o Y, t)
    PROVE  Thinned(r, t)
<1> DEFINE W == Marked(r) \o Y
           n == Len(r)
<1>0. /\ n \in Nat /\ DOMAIN r = 1..n /\ DOMAIN t = 1..Len(t) /\ Len(t) \in Nat
      /\ Marked(r) \in Seq(Stored) /\ Len(Marked(r)) = n
      /\ \A i \in 1..n : Marked(r)[i] = Low(r[i]) /\ Marked(r)[i] \in Lows
    BY MarkedType, LenProperties
<1>1. /\ Len(W) = n + Len(Y) /\ Len(Y) \in Nat
      /\ \A i \in 1..n + Len(Y) : W[i] = IF i <= n THEN Marked(r)[i] ELSE Y[i - n]
  <2> DEFINE M == Marked(r)
  <2>1. M \in Seq(Stored) /\ Len(M) = n
      BY <1>0
  <2> HIDE DEF M
  <2>2. /\ Len(M \o Y) = Len(M) + Len(Y) /\ Len(Y) \in Nat
        /\ \A i \in 1..Len(M) + Len(Y) : (M \o Y)[i] = IF i <= Len(M) THEN M[i] ELSE Y[i - Len(M)]
      BY <2>1, Joined
  <2> QED
      BY <2>1, <2>2 DEF M
<1>2. PICK g : PlacedBy(g, W, t)
    BY DEF Placed
<1> HIDE DEF W
<1>3. \A i \in 1..n : i \in 1..Len(W) /\ W[i] = Low(r[i]) /\ IsLow(W, i)
    BY <1>0, <1>1 DEF IsLow
<1>4. \A i \in 1..n : g[i] \in 1..Len(t) /\ Low(r[i]) = Low(t[g[i]])
    BY <1>2, <1>3 DEF PlacedBy
<1>5. \A i \in 1..n : r[i] = t[g[i]]
    BY <1>4, LowFacts
<1>6. \A i, j \in 1..n : i < j => g[i] < g[j]
    BY <1>2, <1>3 DEF PlacedBy
<1> DEFINE f == [i \in 1..n |-> g[i]]
<1>7. f \in [DOMAIN r -> DOMAIN t] /\ \A i \in 1..n : f[i] = g[i]
    BY <1>0, <1>4
<1> HIDE DEF f
<1>8. /\ \A i, j \in DOMAIN r : i < j => f[i] < f[j]
      /\ \A i \in DOMAIN r : r[i] = t[f[i]]
    BY <1>0, <1>5, <1>6, <1>7
<1> QED
    BY <1>7, <1>8 DEF Thinned

\* The octets of the link, and what happens to them.
Through(r, f, L) == Marked(r) \o (f \o L)

LEMMA Regrouped ==
    /\ \A a, b, c \in Seq(Stored) : (a \o b) \o c = a \o (b \o c)
    /\ \A a, b, c \in Seq(Octets) : (a \o b) \o c = a \o (b \o c)
BY SMTT(30), ConcatAssociative

LEMMA ThroughShape ==
    ASSUME NEW r \in Seq(Contents), NEW f \in Seq(Stored), NEW L \in Seq(Stored)
    PROVE  /\ Through(r, f, L) \in Seq(Stored)
           /\ Marked(r) \in Seq(Stored) /\ Marked(r) \o f \in Seq(Stored)
           /\ Through(r, f, L) = (Marked(r) \o f) \o L
<1>1. Marked(r) \in Seq(Stored)
    BY MarkedType
<1> HIDE DEF Marked
<1> QED
    BY SMTT(30), <1>1, ConcatAssociative, ConcatProperties DEF Through

LEMMA ThroughLosing ==
    ASSUME NEW r \in Seq(Contents), NEW f \in Seq(Stored), NEW h \in Stored, NEW R \in Seq(Stored),
           NEW t \in Seq(Contents), Placed(Through(r, f, <<h>> \o R), t)
    PROVE  Placed(Through(r, f, R), t)
<1> DEFINE A == Marked(r) \o f
           B == <<h>>
<1>1. B \in Seq(Stored)
    BY ShortSeq
<1> HIDE DEF B
<1>2. B \o R \in Seq(Stored)
    BY <1>1, ConcatProperties
<1>3. Through(r, f, B \o R) = A \o (B \o R) /\ Through(r, f, R) = A \o R /\ A \in Seq(Stored)
    BY ZenonT(40), <1>2, ThroughShape
<1>4. Placed(Through(r, f, B \o R), t)
    BY DEF B
<1> HIDE DEF A
<1> QED
    BY <1>1, <1>3, <1>4, PlacedDrop

LEMMA ThroughChanging ==
    ASSUME NEW r \in Seq(Contents), NEW f \in Seq(Stored), NEW h \in Stored, NEW R \in Seq(Stored),
           NEW t \in Seq(Contents), Placed(Through(r, f, <<h>> \o R), t),
           NEW o \in Stored, o = h \/ o \notin Lows
    PROVE  Placed(Through(r, f, <<o>> \o R), t)
<1> DEFINE A == Marked(r) \o f
<1>1. ASSUME NEW x \in Stored
      PROVE  Through(r, f, <<x>> \o R) = A \o (<<x>> \o R) /\ A \in Seq(Stored)
  <2>1. <<x>> \o R \in Seq(Stored)
      BY ShortSeq, ConcatProperties
  <2> DEFINE L == <<x>> \o R
  <2> HIDE DEF L
  <2>2. L \in Seq(Stored)
      BY <2>1 DEF L
  <2>3. Through(r, f, L) = A \o L /\ A \in Seq(Stored)
      BY <2>2, ThroughShape
  <2> QED
      BY <2>3 DEF L
<1> HIDE DEF A
<1> QED
    BY ZenonT(40), <1>1, PlacedChange

LEMMA ThroughStoring ==
    ASSUME NEW r, NEW f \in Seq(Stored), NEW o \in Stored, NEW R \in Seq(Stored)
    PROVE  Through(r, Append(f, o), R) = Through(r, f, <<o>> \o R)
<1>1. <<o>> \in Seq(Stored)
    BY ShortSeq
<1>2. Append(f, o) = f \o <<o>>
    BY AppendIsConcat
<1>3. (f \o <<o>>) \o R = f \o (<<o>> \o R)
    BY <1>1, ConcatAssociative
<1> QED
    BY <1>2, <1>3 DEF Through

LEMMA ThroughEmptying ==
    ASSUME NEW r \in Seq(Contents), NEW f \in Seq(Stored), NEW R \in Seq(Stored),
           NEW t \in Seq(Contents), Placed(Through(r, f, R), t)
    PROVE  Placed(Through(r, <<>>, R), t)
<1>1. <<>> \o R = R
    BY ConcatEmptySeq
<1>2. Marked(r) \in Seq(Stored)
    BY MarkedType
<1> QED
    BY <1>1, <1>2, PlacedDrop DEF Through

LEMMA ThroughHanding ==
    ASSUME NEW r \in Seq(Contents), NEW f \in Seq(Stored), NEW R \in Seq(Stored),
           NEW t \in Seq(Contents), Placed(Through(r, f, R), t), Valid(f)
    PROVE  Placed(Through(Append(r, Content(f)), <<>>, R), t)
<1> DEFINE c == Content(f)
           l == Low(c)
<1>1. c \in Contents /\ Len(f) \in Nat /\ Len(f) >= 2 /\ f[Len(f)] = l
    BY ValidFrame
<1> HIDE DEF c
<1>2. f # <<>>
    BY <1>1
<1>3. PICK p \in Seq(Stored), o \in Stored : f = Append(p, o)
    BY <1>2, SequenceEmptyOrAppend
<1>4. o = l /\ f = p \o <<l>>
  <2>1. Len(f) = Len(p) + 1 /\ f[Len(p) + 1] = o /\ f = p \o <<o>>
      BY <1>3, AppendProperties, AppendIsConcat
  <2> QED
      BY <1>1, <2>1
<1> HIDE DEF l
<1>5. <<l>> \in Seq(Stored) /\ Marked(r) \in Seq(Stored)
    BY <1>3, <1>4, ShortSeq, MarkedType
<1>6. <<l>> \o R \in Seq(Stored)
    BY <1>5, ConcatProperties
<1>7. f \o R = p \o (<<l>> \o R)
    BY <1>3, <1>4, <1>5, ConcatAssociative
<1>8. Placed(Marked(r) \o (<<l>> \o R), t)
    BY <1>3, <1>5, <1>6, <1>7, PlacedDrop DEF Through
<1>9. Marked(r) \o (<<l>> \o R) = (Marked(r) \o <<l>>) \o R
  <2> DEFINE M == Marked(r)
             B == <<l>>
  <2>1. M \in Seq(Stored) /\ B \in Seq(Stored)
      BY <1>5
  <2> HIDE DEF M, B
  <2>2. M \o (B \o R) = (M \o B) \o R
      BY ZenonT(40), <2>1, Regrouped
  <2> QED
      BY <2>2 DEF M, B
<1>10. Marked(Append(r, c)) = Marked(r) \o <<l>>
    BY <1>1, MarkedAppend DEF l
<1>11. <<>> \o R = R
    BY ConcatEmptySeq
<1> QED
    BY <1>8, <1>9, <1>10, <1>11 DEF Through, c

LEMMA ThroughSending ==
    ASSUME NEW r \in Seq(Contents), NEW f \in Seq(Stored), NEW L \in Seq(Stored),
           NEW X \in Seq(Stored), NEW t \in Seq(Contents), NEW c \in Contents, NEW k,
           Placed(Through(r, f, L), t), OneLow(X, k, c)
    PROVE  Placed(Through(r, f, L \o X), Append(t, c))
<1> DEFINE A == Marked(r) \o f
           Y == L \o X
           W == Through(r, f, L)
<1>1. Y \in Seq(Stored)
    BY ConcatProperties
<1>2. W = A \o L /\ W \in Seq(Stored) /\ Placed(W, t)
    BY ThroughShape
<1>0. A \in Seq(Stored)
    BY ThroughShape
<1> HIDE DEF Y
<1>3. Through(r, f, Y) = A \o Y
    BY ZenonT(40), <1>1, ThroughShape
<1> HIDE DEF A, W
<1>4. A \o (L \o X) = (A \o L) \o X
    BY ZenonT(40), <1>0, Regrouped
<1>5. Placed(W \o X, Append(t, c))
    BY <1>2, PlacedSend
<1> QED
    BY <1>2, <1>3, <1>4, <1>5 DEF Y

SentBefore == Placed(Through(received, frame, line), sent)

LEMMA SentBeforeStep ==
    ASSUME TypeInv, SentBefore, [Next]_vars
    PROVE  SentBefore'
<1>0. /\ sent \in Seq(Contents) /\ received \in Seq(Contents)
      /\ line \in Seq(Octets) /\ line \in Seq(Stored) /\ frame \in Seq(Stored)
    BY MarksSent, SeqMonotonic DEF TypeInv
<1>1. Placed(Through(received, frame, line), sent)
    BY DEF SentBefore
<1>2. ASSUME NEW c \in Contents, SendFrame(c)
      PROVE  SentBefore'
  <2> DEFINE X == Framed(c)
  <2>1. /\ sent' = Append(sent, c) /\ line' = line \o X /\ UNCHANGED <<frame, received>>
      BY <1>2 DEF SendFrame
  <2>2. X \in Seq(Stored) /\ OneLow(X, Len(X) - 1, c)
      BY FrameShape, MarksSent, SeqMonotonic DEF OneLow
  <2> HIDE DEF X
  <2>3. Placed(Through(received, frame, line \o X), Append(sent, c))
      BY <1>0, <1>1, <2>2, ThroughSending
  <2> QED
      BY <2>1, <2>3 DEF SentBefore
<1>3. ASSUME NEW c \in Contents, SendPart(c)
      PROVE  SentBefore'
  <2> DEFINE F == Framed(c)
  <2>1. PICK n \in 1..Len(F) - 1 : line' = line \o SubSeq(F, 1, n)
      BY <1>3 DEF SendPart
  <2> DEFINE X == SubSeq(F, 1, n)
  <2>2. sent' = Append(sent, c) /\ UNCHANGED <<frame, received>>
      BY <1>3 DEF SendPart
  <2>3. /\ F \in Seq(Stored) /\ Len(F) \in Nat
        /\ \A i \in 1..Len(F) : F[i] \in Lows => i = Len(F) - 1 /\ F[i] = Low(c)
      BY FrameShape, MarksSent, SeqMonotonic
  <2> HIDE DEF F
  <2>4. n \in Nat /\ n <= Len(F)
      BY <2>1, <2>3
  <2>5. X \in Seq(Stored) /\ Len(X) = n /\ \A i \in 1..n : X[i] = F[i] /\ i \in 1..Len(F)
      BY <2>3, <2>4
  <2> HIDE DEF X
  <2>6. OneLow(X, Len(F) - 1, c)
      BY <2>3, <2>5 DEF OneLow
  <2>7. Placed(Through(received, frame, line \o X), Append(sent, c))
      BY <1>0, <1>1, <2>5, <2>6, ThroughSending
  <2> QED
      BY <2>1, <2>2, <2>7 DEF SentBefore, X
<1> DEFINE h == Head(line)
           R == Tail(line)
<1>4. ASSUME line # <<>>
      PROVE  /\ h \in Octets /\ h \in Stored /\ R \in Seq(Stored) /\ line = <<h>> \o R
             /\ Placed(Through(received, frame, R), sent)
  <2>1. h \in Octets /\ h \in Stored /\ R \in Seq(Stored) /\ line = <<h>> \o R
      BY <1>0, <1>4, FirstOctet, MarksSent
  <2> HIDE DEF h, R
  <2> QED
      BY <1>0, <1>1, <2>1, ThroughLosing
<1>5. CASE Receive
  <2>1. /\ line # <<>> /\ line' = R /\ HandleChar(h) /\ sent' = sent
      BY <1>5 DEF Receive
  <2> HIDE DEF h, R
  <2>2. /\ h \in Octets /\ h \in Stored /\ R \in Seq(Stored) /\ line = <<h>> \o R
        /\ Placed(Through(received, frame, R), sent)
      BY <1>4, <2>1
  <2>3. ASSUME Boundary
        PROVE  SentBefore'
    <3>1. frame' = <<>>
        BY <2>3 DEF Boundary, AfterBoundary
    <3>2. CASE Valid(frame)
      <4>1. received' = Append(received, Content(frame))
          BY <2>3, <3>2 DEF Boundary
      <4>2. Placed(Through(Append(received, Content(frame)), <<>>, R), sent)
          BY <1>0, <2>2, <3>2, ThroughHanding
      <4> QED
          BY <2>1, <3>1, <4>1, <4>2 DEF SentBefore
    <3>3. CASE ~Valid(frame)
      <4>1. received' = received
          BY <2>3, <3>3 DEF Boundary
      <4>2. Placed(Through(received, <<>>, R), sent)
          BY <1>0, <2>2, ThroughEmptying
      <4> QED
          BY <2>1, <3>1, <4>1, <4>2 DEF SentBefore
    <3> QED
        BY <3>2, <3>3
  <2>4. ASSUME NEW o \in Stored, o = h \/ o \notin Lows, Store(o)
        PROVE  SentBefore'
    <3>1. received' = received
        BY <2>4 DEF Store
    <3>2. CASE Full
      <4>1. frame' = <<>>
          BY <2>4, <3>2 DEF Store
      <4>2. Placed(Through(received, <<>>, R), sent)
          BY <1>0, <2>2, ThroughEmptying
      <4> QED
          BY <2>1, <3>1, <4>1, <4>2 DEF SentBefore
    <3>3. CASE ~Full
      <4>1. frame' = Append(frame, o)
          BY <2>4, <3>3 DEF Store
      <4>2. Placed(Through(received, frame, <<o>> \o R), sent)
          BY <1>0, <1>1, <2>2, <2>4, ThroughChanging
      <4>3. Through(received, Append(frame, o), R) = Through(received, frame, <<o>> \o R)
          BY <1>0, <2>2, ThroughStoring
      <4> QED
          BY <2>1, <3>1, <4>1, <4>2, <4>3 DEF SentBefore
    <3> QED
        BY <3>2, <3>3
  <2>5. CASE UNCHANGED <<frame, received, tooLong>>
      BY <2>1, <2>2, <2>5 DEF SentBefore
  <2>6. Invert(h) \in Stored /\ Invert(h) \notin Lows
      BY <2>2, MarksSent, LowsApart
  <2> QED
      BY <2>1, <2>2, <2>3, <2>4, <2>5, <2>6 DEF HandleChar
<1>6. CASE Lose
  <2>1. line # <<>> /\ line' = R /\ UNCHANGED <<sent, frame, received>>
      BY <1>6 DEF Lose
  <2> HIDE DEF R
  <2> QED
      BY <1>4, <2>1 DEF SentBefore
<1>7. CASE Corrupt
  <2>1. line # <<>> /\ UNCHANGED <<sent, frame, received>>
      BY <1>7 DEF Corrupt
  <2>2. PICK o \in {FRAME_BOUNDARY, CONTROL_ESCAPE, Invert(FRAME_BOUNDARY)} : line' = <<o>> \o R
      BY <1>7 DEF Corrupt
  <2>3. o \in Stored /\ o \notin Lows
      BY <2>2, MarksSent, LowsApart
  <2> HIDE DEF h, R
  <2>4. Placed(Through(received, frame, <<o>> \o R), sent)
      BY <1>0, <1>1, <1>4, <2>1, <2>3, ThroughChanging
  <2> QED
      BY <2>1, <2>2, <2>4 DEF SentBefore
<1>8. CASE ReceiverRestarts
  <2>1. frame' = <<>> /\ UNCHANGED <<sent, line, received>>
      BY <1>8 DEF ReceiverRestarts
  <2>2. Placed(Through(received, <<>>, line), sent)
      BY <1>0, <1>1, ThroughEmptying
  <2> QED
      BY <2>1, <2>2 DEF SentBefore
<1>9. CASE UNCHANGED vars
    BY <1>1, <1>9 DEF vars, SentBefore
<1> QED
    BY <1>2, <1>3, <1>5, <1>6, <1>7, <1>8, <1>9 DEF Next

LEMMA SentBeforeStart == Init => SentBefore
<1> SUFFICES ASSUME Init
             PROVE  SentBefore
    OBVIOUS
<1>1. sent = <<>> /\ received = <<>> /\ frame = <<>> /\ line = <<>>
    BY DEF Init
<1>2. Marked(<<>>) = <<>>
    BY DEF Marked
<1>3. Through(received, frame, line) = <<>>
    BY <1>1, <1>2, ConcatEmptySeq, EmptySeq DEF Through
<1>4. PlacedBy(<<>>, <<>>, <<>>)
    BY DEF PlacedBy
<1> QED
    BY <1>1, <1>3, <1>4 DEF SentBefore, Placed

\* Whatever the line loses or changes and whoever restarts, what the receiver hands over
\* are frames that were sent, whole, in the order they were sent and each at most once.
\* (handleChar)
THEOREM OnlyFramesSent == Spec => []OnlySent
<1>1. ASSUME TypeInv, SentBefore
      PROVE  OnlySent
  <2>1. /\ sent \in Seq(Contents) /\ received \in Seq(Contents)
        /\ line \in Seq(Stored) /\ frame \in Seq(Stored)
      BY <1>1, MarksSent, SeqMonotonic DEF TypeInv
  <2>2. frame \o line \in Seq(Stored)
      BY <2>1, ConcatProperties
  <2> QED
      BY <1>1, <2>1, <2>2, PlacedThinned DEF SentBefore, Through, OnlySent
<1>2. TypeInv /\ SentBefore /\ [Next]_vars => SentBefore'
    BY SentBeforeStep
<1>3. TypeInv /\ SentBefore => OnlySent
    BY <1>1
<1> QED
    BY <1>2, <1>3, TypesAlways, SentBeforeStart, PTL DEF Spec

-----------------------------------------------------------------------------
(* What a fault costs.  The frames that lie whole on the line, none of     *)
(* them over another, behind the one the receiver has the beginning of.    *)

FrameAt(L, p, c) ==
    /\ c \in Contents /\ Fits(c) /\ p \in Nat
    /\ p + Len(Framed(c)) <= Len(L)
    /\ \A i \in 1..Len(Framed(c)) : L[p + i] = Framed(c)[i]

CarriedBy(pos, con, L, n) ==
    /\ \A k \in 1..n : FrameAt(L, pos[k], con[k])
    /\ \A j, k \in 1..n : j < k => pos[j] + Len(Framed(con[j])) <= pos[k]
Carries(L, n) == \E pos, con : CarriedBy(pos, con, L, n)

LEMMA FrameShift ==
    ASSUME NEW X \in Seq(Octets), NEW L \in Seq(Octets), NEW p \in Nat, NEW c
    PROVE  FrameAt(X \o L, Len(X) + p, c) <=> FrameAt(L, p, c)
<1> SUFFICES ASSUME c \in Contents
             PROVE  FrameAt(X \o L, Len(X) + p, c) <=> FrameAt(L, p, c)
    BY DEF FrameAt
<1> DEFINE F == Framed(c)
           V == X \o L
           x == Len(X)
<1>1. /\ V \in Seq(Octets) /\ Len(V) = x + Len(L) /\ x \in Nat /\ Len(L) \in Nat
      /\ \A i \in 1..x + Len(L) : V[i] = IF i <= x THEN X[i] ELSE L[i - x]
    BY Joined
<1>2. Len(F) \in Nat
    BY FrameShape
<1> HIDE DEF F, V, x
<1>3. x + p \in Nat /\ ((x + p) + Len(F) <= Len(V) <=> p + Len(F) <= Len(L))
    BY <1>1, <1>2
<1>4. ASSUME p + Len(F) <= Len(L), NEW i \in 1..Len(F)
      PROVE  V[(x + p) + i] = L[p + i]
  <2>1. /\ (x + p) + i \in 1..x + Len(L) /\ ~((x + p) + i <= x)
        /\ ((x + p) + i) - x = p + i
      BY <1>1, <1>2, <1>4
  <2> QED
      BY <1>1, <2>1
<1>5. FrameAt(V, x + p, c) <=> FrameAt(L, p, c)
    BY <1>3, <1>4 DEF FrameAt, F
<1> QED
    BY <1>5 DEF V, x

LEMMA FrameKept ==
    ASSUME NEW L \in Seq(Octets), NEW X \in Seq(Octets), NEW p, NEW c, FrameAt(L, p, c)
    PROVE  FrameAt(L \o X, p, c)
<1> DEFINE F == Framed(c)
           V == L \o X
<1>1. /\ V \in Seq(Octets) /\ Len(V) = Len(L) + Len(X) /\ Len(X) \in Nat /\ Len(L) \in Nat
      /\ \A i \in 1..Len(L) + Len(X) : V[i] = IF i <= Len(L) THEN L[i] ELSE X[i - Len(L)]
    BY Joined
<1>2. /\ c \in Contents /\ Fits(c) /\ p \in Nat /\ p + Len(F) <= Len(L)
      /\ \A i \in 1..Len(F) : L[p + i] = F[i]
    BY DEF FrameAt
<1>3. Len(F) \in Nat
    BY <1>2, FrameShape
<1> HIDE DEF F, V
<1>4. p + Len(F) <= Len(V)
    BY <1>1, <1>2, <1>3
<1>5. ASSUME NEW i \in 1..Len(F)
      PROVE  V[p + i] = F[i]
  <2>1. p + i \in 1..Len(L) + Len(X) /\ p + i <= Len(L)
      BY <1>1, <1>2, <1>3
  <2> QED
      BY <1>1, <1>2, <2>1
<1>6. FrameAt(V, p, c)
    BY <1>2, <1>4, <1>5 DEF FrameAt, F
<1> QED
    BY <1>6 DEF V

LEMMA FrameBounds ==
    ASSUME NEW L \in Seq(Octets), NEW p, NEW c, FrameAt(L, p, c)
    PROVE  /\ c \in Contents /\ Fits(c) /\ p \in Nat /\ Len(Framed(c)) \in Nat
           /\ Len(Framed(c)) >= 2 /\ p + Len(Framed(c)) <= Len(L) /\ Len(L) \in Nat
BY FrameShape, LenProperties DEF FrameAt

LEMMA CarriesNone ==
    ASSUME NEW L
    PROVE  Carries(L, 0)
<1>1. CarriedBy(<<>>, <<>>, L, 0)
    BY DEF CarriedBy
<1> QED
    BY <1>1 DEF Carries

LEMMA CarriesKept ==
    ASSUME NEW L \in Seq(Octets), NEW X \in Seq(Octets), NEW n \in Nat, Carries(L, n)
    PROVE  Carries(L \o X, n)
<1>1. PICK pos, con : CarriedBy(pos, con, L, n)
    BY DEF Carries
<1>2. \A k \in 1..n : FrameAt(L \o X, pos[k], con[k])
    BY <1>1, FrameKept DEF CarriedBy
<1>3. CarriedBy(pos, con, L \o X, n)
    BY <1>1, <1>2 DEF CarriedBy
<1> QED
    BY <1>3 DEF Carries

LEMMA CarriesBehind ==
    ASSUME NEW X \in Seq(Octets), NEW L \in Seq(Octets), NEW n \in Nat, Carries(L, n)
    PROVE  Carries(X \o L, n)
<1>0. Len(X) \in Nat
    BY LenProperties
<1>1. PICK pos, con : CarriedBy(pos, con, L, n)
    BY DEF Carries
<1> DEFINE P == [k \in 1..n |-> Len(X) + pos[k]]
<1>2. \A k \in 1..n : P[k] = Len(X) + pos[k]
    OBVIOUS
<1> HIDE DEF P
<1>3. \A k \in 1..n : FrameAt(L, pos[k], con[k]) /\ pos[k] \in Nat /\ Len(Framed(con[k])) \in Nat
    BY <1>1, FrameBounds DEF CarriedBy
<1>4. ASSUME NEW k \in 1..n
      PROVE  FrameAt(X \o L, P[k], con[k])
  <2>1. P[k] = Len(X) + pos[k] /\ FrameAt(L, pos[k], con[k]) /\ pos[k] \in Nat
      BY <1>2, <1>3
  <2> QED
      BY <2>1, FrameShift
<1>5. ASSUME NEW j \in 1..n, NEW k \in 1..n, j < k
      PROVE  P[j] + Len(Framed(con[j])) <= P[k]
  <2>1. pos[j] + Len(Framed(con[j])) <= pos[k]
      BY <1>1, <1>5 DEF CarriedBy
  <2>2. /\ P[j] = Len(X) + pos[j] /\ P[k] = Len(X) + pos[k]
        /\ pos[j] \in Nat /\ pos[k] \in Nat /\ Len(Framed(con[j])) \in Nat
      BY <1>2, <1>3
  <2> QED
      BY <1>0, <2>1, <2>2
<1> QED
    BY <1>4, <1>5 DEF Carries, CarriedBy

LEMMA CarriesSent ==
    ASSUME NEW L \in Seq(Octets), NEW n \in Nat, Carries(L, n), NEW c \in Contents, Fits(c)
    PROVE  Carries(L \o Framed(c), n + 1)
<1> DEFINE F == Framed(c)
<1>0. Len(L) \in Nat /\ F \in Seq(Octets) /\ Len(F) \in Nat
    BY FrameShape, LenProperties
<1>1. PICK pos, con : CarriedBy(pos, con, L, n)
    BY DEF Carries
<1> DEFINE P == [k \in 1..n + 1 |-> IF k = n + 1 THEN Len(L) ELSE pos[k]]
           C == [k \in 1..n + 1 |-> IF k = n + 1 THEN c ELSE con[k]]
<1>2. /\ \A k \in 1..n + 1 : k = n + 1 \/ k \in 1..n
      /\ \A k \in 1..n : k # n + 1 /\ k \in 1..n + 1
      /\ n + 1 \in 1..n + 1
    OBVIOUS
<1>3. /\ \A k \in 1..n : P[k] = pos[k] /\ C[k] = con[k]
      /\ P[n + 1] = Len(L) /\ C[n + 1] = c
    BY <1>2
<1> HIDE DEF P, C
<1>4. FrameAt(L \o F, Len(L), c)
  <2>1. FrameAt(F, 0, c)
    <3>1. 0 + Len(F) <= Len(F) /\ \A i \in 1..Len(F) : F[0 + i] = F[i]
        BY <1>0
    <3> QED
        BY <3>1 DEF FrameAt
  <2>2. Len(L) + 0 = Len(L)
      BY <1>0
  <2> HIDE DEF F
  <2>3. FrameAt(L \o F, Len(L) + 0, c)
      BY <1>0, <2>1, FrameShift
  <2> QED
      BY <2>2, <2>3
<1> HIDE DEF F
<1>5. \A k \in 1..n : FrameAt(L \o F, pos[k], con[k])
    BY <1>0, <1>1, FrameKept DEF CarriedBy
<1>6. \A k \in 1..n + 1 : FrameAt(L \o F, P[k], C[k])
    BY <1>2, <1>3, <1>4, <1>5
<1>7. ASSUME NEW j \in 1..n + 1, NEW k \in 1..n + 1, j < k
      PROVE  P[j] + Len(Framed(C[j])) <= P[k]
  <2>1. j \in 1..n /\ P[j] = pos[j] /\ C[j] = con[j]
      BY <1>3, <1>7
  <2>2. CASE k = n + 1
    <3>1. FrameAt(L, pos[j], con[j])
        BY <1>1, <2>1 DEF CarriedBy
    <3> QED
        BY <1>3, <2>1, <2>2, <3>1, FrameBounds
  <2>3. CASE k \in 1..n
      BY <1>1, <1>3, <1>7, <2>1, <2>3 DEF CarriedBy
  <2> QED
      BY <1>2, <2>2, <2>3
<1> QED
    BY <1>6, <1>7 DEF Carries, CarriedBy, F

\* What comes before the frames is no loss to them.
Beyond(x, pos, n) == \A k \in 1..n : x <= pos[k]

LEMMA CarriesCut ==
    ASSUME NEW X \in Seq(Octets), NEW R \in Seq(Octets), NEW n \in Nat, NEW pos, NEW con,
           CarriedBy(pos, con, X \o R, n), Beyond(Len(X), pos, n)
    PROVE  Carries(R, n)
<1>0. Len(X) \in Nat /\ X \o R \in Seq(Octets)
    BY LenProperties, ConcatProperties
<1> DEFINE P == [k \in 1..n |-> pos[k] - Len(X)]
<1>2. \A k \in 1..n : P[k] = pos[k] - Len(X)
    OBVIOUS
<1> HIDE DEF P
<1>3. \A k \in 1..n : FrameAt(X \o R, pos[k], con[k]) /\ pos[k] \in Nat /\ Len(Framed(con[k])) \in Nat
    BY <1>0, FrameBounds DEF CarriedBy
<1>4. \A k \in 1..n : P[k] \in Nat /\ pos[k] = Len(X) + P[k]
    BY <1>0, <1>2, <1>3 DEF Beyond
<1>5. \A k \in 1..n : FrameAt(R, P[k], con[k])
    BY <1>3, <1>4, FrameShift
<1>6. ASSUME NEW j \in 1..n, NEW k \in 1..n, j < k
      PROVE  P[j] + Len(Framed(con[j])) <= P[k]
  <2>1. pos[j] + Len(Framed(con[j])) <= pos[k]
      BY <1>6 DEF CarriedBy
  <2>2. /\ P[j] \in Nat /\ pos[j] = Len(X) + P[j] /\ P[k] \in Nat /\ pos[k] = Len(X) + P[k]
        /\ Len(Framed(con[j])) \in Nat
      BY <1>3, <1>4
  <2> QED
      BY <1>0, <2>1, <2>2
<1> QED
    BY <1>5, <1>6 DEF Carries, CarriedBy

Begins(F, L) == Len(F) <= Len(L) /\ \A i \in 1..Len(F) : L[i] = F[i]

LEMMA Prefix ==
    ASSUME NEW L \in Seq(Octets), NEW F \in Seq(Octets), Begins(F, L)
    PROVE  \E R \in Seq(Octets) : L = F \o R
<1> DEFINE f == Len(F)
           l == Len(L)
           R == [i \in 1..l - f |-> L[f + i]]
<1>1. l \in Nat /\ f \in Nat /\ l - f \in Nat /\ \A i \in 1..l : L[i] \in Octets
    BY LenProperties, ElementOfSeq DEF Begins
<1>2. \A i \in 1..l - f : f + i \in 1..l /\ (f + i) - f = i /\ ~(f + i <= f)
    BY <1>1
<1>3. R \in [1..l - f -> Octets] /\ \A i \in 1..l - f : R[i] = L[f + i]
    BY <1>1, <1>2
<1>4. R \in Seq(Octets) /\ Len(R) = l - f
  <2>1. R \in Seq(Octets)
      BY <1>1, <1>3, SeqDef
  <2>2. DOMAIN R = 1..l - f
      OBVIOUS
  <2> HIDE DEF R
  <2> QED
      BY <1>1, <2>1, <2>2, LenProperties
<1> HIDE DEF R
<1> DEFINE V == F \o R
<1>5. /\ V \in Seq(Octets) /\ Len(V) = f + Len(R)
      /\ \A i \in 1..f + Len(R) : V[i] = IF i <= f THEN F[i] ELSE R[i - f]
    BY <1>4, Joined
<1> HIDE DEF V
<1>6. f + Len(R) = l
    BY <1>1, <1>4
<1> HIDE DEF f, l
<1>7. ASSUME NEW i \in 1..l
      PROVE  L[i] = V[i]
  <2>1. CASE i <= f
    <3>1. i \in 1..f
        BY <1>1, <2>1
    <3>2. L[i] = F[i]
        BY <3>1 DEF f, Begins
    <3> QED
        BY <1>5, <1>6, <2>1, <3>2
  <2>2. CASE ~(i <= f)
    <3>1. i - f \in 1..l - f /\ f + (i - f) = i
        BY <1>1, <2>2
    <3> QED
        BY <1>3, <1>5, <1>6, <2>2, <3>1
  <2> QED
      BY <2>1, <2>2
<1>8. L = V
    BY <1>5, <1>6, <1>7, SeqEqual DEF l
<1> QED
    BY <1>4, <1>8 DEF V

\* Without its first octet the line carries as many frames, unless it began with one.
LEMMA CarriesFirst ==
    ASSUME NEW h \in Octets, NEW R \in Seq(Octets), NEW n \in Nat, Carries(<<h>> \o R, n)
    PROVE  \/ Carries(R, n)
           \/ /\ n # 0
              /\ \E c \in Contents, Q \in Seq(Octets) :
                    Fits(c) /\ <<h>> \o R = Framed(c) \o Q /\ Carries(Q, n - 1)
<1> DEFINE H == <<h>>
           L == H \o R
<1>0. H \in Seq(Octets) /\ Len(H) = 1
    BY ShortSeq
<1> HIDE DEF H
<1>1. L \in Seq(Octets)
    BY <1>0, ConcatProperties
<1>2. PICK pos, con : CarriedBy(pos, con, L, n)
    BY DEF Carries, H
<1>3. CASE n = 0
    BY <1>3, CarriesNone
<1>4. CASE n # 0 /\ pos[1] # 0
  <2>1. 1 \in 1..n
      BY <1>4
  <2>2. \A k \in 1..n : FrameAt(L, pos[k], con[k])
      BY <1>2 DEF CarriedBy
  <2>3. \A k \in 1..n : pos[k] \in Nat /\ Len(Framed(con[k])) \in Nat
      BY <1>1, <2>2, FrameBounds
  <2>4. \A k \in 1..n : k # 1 => pos[1] + Len(Framed(con[1])) <= pos[k]
    <3>1. \A k \in 1..n : k # 1 => 1 < k
        OBVIOUS
    <3> QED
        BY <1>2, <2>1, <3>1 DEF CarriedBy
  <2>5. Beyond(1, pos, n)
    <3>1. pos[1] \in Nat /\ pos[1] # 0 /\ Len(Framed(con[1])) \in Nat
        BY <1>4, <2>1, <2>3
    <3> QED
        BY <2>3, <2>4, <3>1 DEF Beyond
  <2> QED
      BY <1>0, <1>2, <2>5, CarriesCut
<1>5. CASE n # 0 /\ pos[1] = 0
  <2> DEFINE c == con[1]
             F == Framed(c)
             m == n - 1
  <2>1. 1 \in 1..n /\ m \in Nat /\ \A k \in 1..m : k + 1 \in 1..n /\ 1 < k + 1
      BY <1>5
  <2>2. FrameAt(L, 0, c)
      BY <1>2, <1>5, <2>1 DEF CarriedBy
  <2>3. /\ c \in Contents /\ Fits(c) /\ F \in Seq(Octets) /\ Len(F) \in Nat
        /\ Begins(F, L)
    <3>1. c \in Contents /\ Fits(c) /\ F \in Seq(Octets) /\ Len(F) \in Nat
        BY <1>1, <2>2, FrameBounds, FrameShape
    <3>2. 0 + Len(F) <= Len(L) /\ \A i \in 1..Len(F) : L[0 + i] = F[i]
        BY <2>2 DEF FrameAt
    <3> HIDE DEF F, L
    <3>3. \A i \in 1..Len(F) : 0 + i = i
        BY <3>1
    <3> QED
        BY <3>1, <3>2, <3>3 DEF Begins
  <2>4. PICK Q \in Seq(Octets) : L = F \o Q
    <3> HIDE DEF F, L
    <3> QED
        BY <1>1, <2>3, Prefix
  <2> DEFINE P == [k \in 1..m |-> pos[k + 1]]
             C == [k \in 1..m |-> con[k + 1]]
  <2>5. \A k \in 1..m : P[k] = pos[k + 1] /\ C[k] = con[k + 1]
      OBVIOUS
  <2> HIDE DEF P, C, m
  <2>6. CarriedBy(P, C, L, m)
    <3>1. \A k \in 1..m : FrameAt(L, P[k], C[k])
        BY <1>2, <2>1, <2>5 DEF CarriedBy
    <3>2. ASSUME NEW j \in 1..m, NEW k \in 1..m, j < k
          PROVE  P[j] + Len(Framed(C[j])) <= P[k]
      <4>1. j + 1 \in 1..n /\ k + 1 \in 1..n /\ j + 1 < k + 1
          BY <2>1, <3>2
      <4> QED
          BY <1>2, <2>5, <4>1 DEF CarriedBy
    <3> QED
        BY <3>1, <3>2 DEF CarriedBy
  <2>7. Beyond(Len(F), P, m)
    <3>1. ASSUME NEW k \in 1..m
          PROVE  Len(F) <= P[k]
      <4>1. pos[1] + Len(Framed(con[1])) <= pos[k + 1]
          BY <1>2, <2>1 DEF CarriedBy
      <4>2. 0 + Len(F) = Len(F)
          BY <2>3
      <4> QED
          BY <1>5, <2>5, <4>1, <4>2
    <3> QED
        BY <3>1 DEF Beyond
  <2> HIDE DEF F, L
  <2>8. Carries(Q, m)
    <3>1. CarriedBy(P, C, F \o Q, m)
        BY <2>4, <2>6
    <3>2. m \in Nat /\ F \in Seq(Octets)
        BY <2>1, <2>3
    <3> QED
        BY <2>7, <3>1, <3>2, CarriesCut
  <2> QED
      BY <1>5, <2>3, <2>4, <2>8 DEF m, F, L, H
<1> QED
    BY <1>3, <1>4, <1>5

-----------------------------------------------------------------------------
(* A frame on its way: the receiver has the beginning of it, the rest of   *)
(* it comes next.                                                          *)

LEMMA FirstOf ==
    ASSUME NEW o \in Octets, NEW s \in Seq(Octets)
    PROVE  /\ <<o>> \o s \in Seq(Octets) /\ <<o>> \o s # <<>>
           /\ Head(<<o>> \o s) = o /\ Tail(<<o>> \o s) = s
<1> DEFINE L == <<o>> \o s
<1>1. <<o>> \in Seq(Octets) /\ Len(<<o>>) = 1 /\ <<o>>[1] = o
    BY ShortSeq
<1>2. /\ L \in Seq(Octets) /\ Len(L) = 1 + Len(s) /\ Len(s) \in Nat
      /\ \A i \in 1..1 + Len(s) : L[i] = IF i <= 1 THEN <<o>>[i] ELSE s[i - 1]
    BY <1>1, ConcatProperties, LenProperties
<1> HIDE DEF L
<1>3. L # <<>> /\ Head(L) = o
  <2>1. 1 \in 1..1 + Len(s) /\ Len(L) # 0
      BY <1>2
  <2>2. L[1] = o
      BY <1>1, <1>2, <2>1
  <2> QED
      BY <2>1, <2>2
<1>4. Tail(L) = s
  <2>1. /\ Tail(L) \in Seq(Octets) /\ Len(Tail(L)) = Len(L) - 1
        /\ \A i \in 1..Len(Tail(L)) : Tail(L)[i] = L[i + 1]
      BY <1>2, <1>3, HeadTailProperties
  <2> DEFINE T == Tail(L)
  <2> HIDE DEF T
  <2>2. T \in Seq(Octets) /\ Len(T) = Len(s) /\ \A i \in 1..Len(s) : T[i] = L[i + 1]
      BY <1>2, <2>1 DEF T
  <2>3. \A i \in 1..Len(s) : i + 1 \in 1..1 + Len(s) /\ ~(i + 1 <= 1) /\ (i + 1) - 1 = i
      BY <1>2
  <2>4. \A i \in 1..Len(s) : T[i] = s[i]
      BY <1>2, <2>2, <2>3
  <2>5. T = s
      BY <2>2, <2>4, SeqEqual
  <2> QED
      BY <2>5 DEF T
<1> QED
    BY <1>2, <1>3, <1>4 DEF L

\* What is left to come of the octets q, the first of them perhaps half there.
Rest(q, e) == IF e THEN Tail(EscapedAll(q)) ELSE EscapedAll(q)

LEMMA RestOfOne ==
    ASSUME NEW o \in Octets, NEW t \in Seq(Octets)
    PROVE  /\ EscapedAll(t) \in Seq(Octets)
           /\ o \in Marks => /\ Rest(<<o>> \o t, FALSE) = <<CONTROL_ESCAPE>> \o Rest(<<o>> \o t, TRUE)
                             /\ Rest(<<o>> \o t, TRUE) = <<Invert(o)>> \o EscapedAll(t)
           /\ o \notin Marks => Rest(<<o>> \o t, FALSE) = <<o>> \o EscapedAll(t)
<1> DEFINE q == <<o>> \o t
           r == EscapedAll(t)
<1>1. r \in Seq(Octets)
    BY EscapedAny, EscapedType
<1>2. EscapedAll(q) = Escaped(o) \o r
    BY EscapedCons
<1>3. ASSUME o \in Marks
      PROVE  EscapedAll(q) = <<CONTROL_ESCAPE>> \o (<<Invert(o)>> \o r)
  <2>1. Invert(o) \in Octets /\ CONTROL_ESCAPE \in Octets
      BY <1>3, MarksSent DEF Plain, Octets
  <2>2. <<CONTROL_ESCAPE, Invert(o)>> = <<CONTROL_ESCAPE>> \o <<Invert(o)>>
      OBVIOUS
  <2>3. Escaped(o) = <<CONTROL_ESCAPE>> \o <<Invert(o)>>
      BY <1>3, <2>2, EscapedOctet
  <2>4. <<CONTROL_ESCAPE>> \in Seq(Octets) /\ <<Invert(o)>> \in Seq(Octets)
      BY <2>1, ShortSeq
  <2> DEFINE a == <<CONTROL_ESCAPE>>
             b == <<Invert(o)>>
  <2> HIDE DEF a, b, q, r
  <2>5. a \in Seq(Octets) /\ b \in Seq(Octets) /\ EscapedAll(q) = (a \o b) \o r
      BY <1>2, <2>3, <2>4 DEF a, b
  <2>6. (a \o b) \o r = a \o (b \o r)
      BY SMTT(30), <1>1, <2>5, ConcatAssociative
  <2> QED
      BY <2>5, <2>6 DEF a, b
<1>4. ASSUME o \in Marks
      PROVE  Tail(EscapedAll(q)) = <<Invert(o)>> \o r
  <2>1. Invert(o) \in Octets /\ CONTROL_ESCAPE \in Octets
      BY <1>4, MarksSent DEF Plain, Octets
  <2> HIDE DEF r, q
  <2>2. <<Invert(o)>> \o r \in Seq(Octets)
      BY <1>1, <2>1, FirstOf
  <2> QED
      BY <1>3, <1>4, <2>1, <2>2, FirstOf
<1>5. ASSUME o \notin Marks
      PROVE  EscapedAll(q) = <<o>> \o r
    BY <1>2, <1>5, EscapedOctet
<1>6. Rest(q, FALSE) = EscapedAll(q) /\ Rest(q, TRUE) = Tail(EscapedAll(q))
    BY DEF Rest
<1> HIDE DEF q, r
<1>7. /\ o \in Marks => /\ Rest(q, FALSE) = <<CONTROL_ESCAPE>> \o Rest(q, TRUE)
                        /\ Rest(q, TRUE) = <<Invert(o)>> \o r
      /\ o \notin Marks => Rest(q, FALSE) = <<o>> \o r
    BY <1>3, <1>4, <1>5, <1>6
<1> QED
    BY <1>1, <1>7 DEF q, r

LEMMA RestType ==
    ASSUME NEW q \in Seq(Octets), NEW e \in BOOLEAN, e => q # <<>> /\ Head(q) \in Marks
    PROVE  Rest(q, e) \in Seq(Octets)
<1>1. CASE ~e
  <2>1. Rest(q, e) = EscapedAll(q)
      BY <1>1 DEF Rest
  <2> QED
      BY <2>1, EscapedAny, EscapedType
<1>2. CASE e
  <2> DEFINE o == Head(q)
             t == Tail(q)
  <2>1. o \in Octets /\ t \in Seq(Octets) /\ q = <<o>> \o t /\ o \in Marks
      BY <1>2, FirstOctet
  <2> HIDE DEF o, t
  <2>2. Rest(q, e) = Rest(<<o>> \o t, TRUE)
      BY <1>2, <2>1 DEF Rest
  <2>3. Rest(<<o>> \o t, TRUE) = <<Invert(o)>> \o EscapedAll(t) /\ EscapedAll(t) \in Seq(Octets)
      BY <2>1, RestOfOne
  <2>4. Invert(o) \in Octets
      BY <2>1 DEF Plain, Octets
  <2> QED
      BY ZenonT(40), <2>2, <2>3, <2>4, FirstOf
<1> QED
    BY <1>1, <1>2

\* A whole frame is taken for what it is.
LEMMA WholeFrame ==
    ASSUME NEW c \in Contents, NEW f, f = c \o Check(c)
    PROVE  Valid(f) /\ Content(f) = c
<1> DEFINE n == Len(c)
           k == Check(c)
<1>1. c \in Seq(Octets) /\ n \in Nat /\ f \in Seq(Octets) /\ Len(f) = n + 2
    BY FrameShape
<1>2. High(c) \in Octets /\ Low(c) \in Octets
    BY ContentTypes DEF Plain, Octets
<1>3. k \in Seq(Octets) /\ Len(k) = 2
    BY <1>2, ShortSeq DEF Check
<1> HIDE DEF k
<1>4. \A i \in 1..n + 2 : f[i] = IF i <= n THEN c[i] ELSE k[i - n]
    BY <1>1, <1>3, Joined DEF k
<1>5. \A i \in 1..n + 2 : f[i] \in Octets
    BY <1>1, ElementOfSeq
<1>6. SubSeq(f, 1, n) = c
  <2> DEFINE s == SubSeq(f, 1, n)
  <2>1. 1 \in Int /\ n \in Int /\ \A i \in 1..n : f[i] \in Octets
      BY <1>1, <1>5
  <2>2. /\ s \in Seq(Octets) /\ Len(s) = (IF 1 <= n THEN n - 1 + 1 ELSE 0)
        /\ \A i \in 1..n - 1 + 1 : s[i] = f[1 + i - 1]
      BY <2>1, SubSeqProperties
  <2> HIDE DEF s
  <2>3. Len(s) = n
      BY <1>1, <2>2
  <2>4. \A i \in 1..n : i \in 1..n - 1 + 1 /\ 1 + i - 1 = i /\ i \in 1..n + 2 /\ i <= n
      BY <1>1
  <2>5. \A i \in 1..n : s[i] = c[i]
      BY <1>4, <2>2, <2>4
  <2>6. s = c
      BY <1>1, <2>2, <2>3, <2>5, SeqEqual
  <2> QED
      BY <2>6 DEF s
<1>7. SubSeq(f, n + 1, n + 2) = k
  <2> DEFINE s == SubSeq(f, n + 1, n + 2)
  <2>2. /\ s \in Seq(Octets)
        /\ Len(s) = (IF n + 1 <= n + 2 THEN (n + 2) - (n + 1) + 1 ELSE 0)
        /\ \A i \in 1..(n + 2) - (n + 1) + 1 : s[i] = f[(n + 1) + i - 1]
    <3> DEFINE a == n + 1
               b == n + 2
    <3>1. f \in Seq(Octets) /\ a \in Nat /\ b \in Nat /\ 1 <= a /\ a <= b /\ b <= Len(f)
        BY <1>1
    <3> HIDE DEF a, b
    <3>2. /\ SubSeq(f, a, b) \in Seq(Octets)
          /\ Len(SubSeq(f, a, b)) = (IF a <= b THEN b - a + 1 ELSE 0)
          /\ \A i \in 1..b - a + 1 : SubSeq(f, a, b)[i] = f[a + i - 1]
        BY <3>1
    <3> QED
        BY <3>2 DEF a, b
  <2> HIDE DEF s
  <2>3. Len(s) = 2
      BY <1>1, <2>2
  <2>4. \A i \in 1..2 : /\ i \in 1..(n + 2) - (n + 1) + 1 /\ (n + 1) + i - 1 = n + i
                        /\ n + i \in 1..n + 2 /\ ~(n + i <= n) /\ (n + i) - n = i
      BY <1>1
  <2>5. \A i \in 1..2 : s[i] = k[i]
      BY <1>4, <2>2, <2>4
  <2>6. s = k
      BY <1>3, <2>2, <2>3, <2>5, SeqEqual
  <2> QED
      BY <2>6 DEF s
<1>8. Len(f) - 2 = n /\ Len(f) - 1 = n + 1 /\ Len(f) >= 2
    BY <1>1
<1>9. Content(f) = c
    BY <1>6, <1>8 DEF Content
<1>10. SubSeq(f, Len(f) - 1, Len(f)) = Check(Content(f))
    BY <1>1, <1>7, <1>8, <1>9 DEF k
<1> QED
    BY <1>8, <1>9, <1>10 DEF Valid

-----------------------------------------------------------------------------
(* The frames due *)

Fitting(s) == {i \in DOMAIN s : Fits(s[i])}

LEMMA FittingFinite ==
    ASSUME NEW s \in Seq(Contents)
    PROVE  IsFiniteSet(Fitting(s)) /\ Cardinality(Fitting(s)) \in Nat /\ Len(s) + 1 \notin Fitting(s)
<1>1. Len(s) \in Nat /\ DOMAIN s = 1..Len(s)
    BY LenProperties
<1>2. Fitting(s) \subseteq 1..Len(s)
    BY <1>1 DEF Fitting
<1>3. IsFiniteSet(1..Len(s))
    BY <1>1, FS_Interval
<1>4. IsFiniteSet(Fitting(s))
    BY <1>2, <1>3, FS_Subset
<1>5. Len(s) + 1 \notin 1..Len(s)
    BY <1>1
<1> QED
    BY <1>2, <1>4, <1>5, FS_CardinalityType

LEMMA DueSent ==
    ASSUME NEW s \in Seq(Contents), NEW c \in Contents
    PROVE  Cardinality(Fitting(Append(s, c))) =
               IF Fits(c) THEN Cardinality(Fitting(s)) + 1 ELSE Cardinality(Fitting(s))
<1> DEFINE u == Append(s, c)
           n == Len(s)
<1>1. /\ n \in Nat /\ DOMAIN s = 1..n /\ u \in Seq(Contents) /\ DOMAIN u = 1..n + 1
      /\ u[n + 1] = c /\ \A i \in 1..n : u[i] = s[i]
    BY AppendProperties, LenProperties
<1>2. \A i : i \in 1..n + 1 <=> i \in 1..n \/ i = n + 1
    BY <1>1
<1> HIDE DEF u, n
<1>3. Fitting(u) = IF Fits(c) THEN Fitting(s) \cup {n + 1} ELSE Fitting(s)
    BY <1>1, <1>2 DEF Fitting
<1>4. IsFiniteSet(Fitting(s)) /\ n + 1 \notin Fitting(s)
    BY FittingFinite DEF n
<1>5. Cardinality(Fitting(s) \cup {n + 1}) = Cardinality(Fitting(s)) + 1
    BY <1>4, FS_AddElement
<1> QED
    BY <1>3, <1>5 DEF u

-----------------------------------------------------------------------------
(* The frames on the line make up for those due: there is no other, or the *)
(* receiver is within one.                                                 *)

Short(n) == Due <= Len(received) + faults + n

Between == \E n \in Nat : Carries(line, n) /\ Short(n)

Arriving(c, q, R) ==
    /\ c \in Contents /\ Fits(c) /\ q \in Seq(Octets) /\ R \in Seq(Octets)
    /\ frame \o q = c \o Check(c)
    /\ inEscape => q # <<>> /\ Head(q) \in Marks
    /\ line = Rest(q, inEscape) \o (<<FRAME_BOUNDARY>> \o R)
Within == \E c, q, R : \E n \in Nat : Arriving(c, q, R) /\ Carries(R, n) /\ Short(n + 1)

LEMMA Counts ==
    ASSUME TypeInv
    PROVE  Len(received) \in Nat /\ faults \in Nat /\ Due \in Nat /\ Due = Cardinality(Fitting(sent))
<1>1. Due = Cardinality(Fitting(sent))
    BY DEF Due, Fitting
<1>2. Cardinality(Fitting(sent)) \in Nat
    BY FittingFinite DEF TypeInv
<1>3. Len(received) \in Nat
    BY LenProperties DEF TypeInv
<1>4. faults \in Nat
    BY Bounds DEF TypeInv
<1> QED
    BY <1>1, <1>2, <1>3, <1>4

\* The rest of a frame on its way, with the boundary, is lost without the frames behind.
LEMMA BehindFirst ==
    ASSUME NEW X \in Seq(Octets), NEW R \in Seq(Octets), NEW n \in Nat, Carries(R, n),
           NEW L, L = X \o (<<FRAME_BOUNDARY>> \o R)
    PROVE  L # <<>> /\ L \in Seq(Octets) /\ Carries(L, n) /\ Carries(Tail(L), n)
<1> DEFINE S == <<FRAME_BOUNDARY>> \o R
<1>1. S \in Seq(Octets) /\ S # <<>> /\ Tail(S) = R
    BY FirstOf, MarksSent
<1>2. Carries(S, n)
  <2>1. <<FRAME_BOUNDARY>> \in Seq(Octets)
      BY MarksSent, ShortSeq
  <2> DEFINE B == <<FRAME_BOUNDARY>>
  <2> HIDE DEF B
  <2>2. B \in Seq(Octets)
      BY <2>1 DEF B
  <2>3. Carries(B \o R, n)
      BY <2>2, CarriesBehind
  <2> QED
      BY <2>3 DEF B
<1> HIDE DEF S
<1>3. L = X \o S
    BY DEF S
<1>4. L \in Seq(Octets) /\ Carries(L, n)
    BY <1>1, <1>2, <1>3, ConcatProperties, CarriesBehind
<1>5. CASE X = <<>>
  <2>1. L = S
      BY <1>1, <1>3, <1>5, ConcatEmptySeq
  <2> QED
      BY <1>1, <1>4, <2>1
<1>6. CASE X # <<>>
  <2> DEFINE o == Head(X)
             Y == Tail(X)
             A == <<o>>
  <2>1. o \in Octets /\ Y \in Seq(Octets) /\ X = A \o Y /\ A \in Seq(Octets)
      BY <1>6, FirstOctet
  <2> HIDE DEF o, Y
  <2>2. Y \o S \in Seq(Octets) /\ Carries(Y \o S, n)
      BY <1>1, <1>2, <2>1, ConcatProperties, CarriesBehind
  <2>3. L = A \o (Y \o S)
    <3> HIDE DEF A
    <3>1. (A \o Y) \o S = A \o (Y \o S)
        BY SMTT(30), <1>1, <2>1, Regrouped
    <3> QED
        BY <1>3, <2>1, <3>1
  <2> DEFINE T == Y \o S
  <2> HIDE DEF T
  <2>4. L = <<o>> \o T /\ T \in Seq(Octets) /\ Carries(T, n)
      BY <2>2, <2>3 DEF T
  <2>5. L # <<>> /\ Tail(L) = T
      BY <2>1, <2>4, FirstOf
  <2> QED
      BY <1>4, <2>4, <2>5
<1> QED
    BY <1>5, <1>6

\* The frame at the head of the line.
LEMMA HeadOfFrame ==
    ASSUME NEW c \in Contents, NEW Q \in Seq(Octets)
    PROVE  /\ Head(Framed(c) \o Q) = FRAME_BOUNDARY
           /\ Tail(Framed(c) \o Q) = EscapedAll(c \o Check(c)) \o (<<FRAME_BOUNDARY>> \o Q)
<1> DEFINE e == EscapedAll(c \o Check(c))
           b == <<FRAME_BOUNDARY>>
           S == e \o (b \o Q)
<1>0. Framed(c) = b \o (e \o b)
    BY FrameShape
<1>1. e \in Seq(Octets) /\ b \in Seq(Octets)
    BY FrameShape, MarksSent, ShortSeq
<1> HIDE DEF e, b
<1>2. e \o b \in Seq(Octets) /\ b \o Q \in Seq(Octets) /\ S \in Seq(Octets)
    BY <1>1, ConcatProperties
<1>3. Framed(c) \o Q = b \o S
  <2>1. (b \o (e \o b)) \o Q = b \o ((e \o b) \o Q)
      BY SMTT(30), <1>1, <1>2, Regrouped
  <2>2. (e \o b) \o Q = e \o (b \o Q)
      BY SMTT(30), <1>1, Regrouped
  <2> QED
      BY <1>0, <2>1, <2>2
<1> HIDE DEF S
<1>4. Head(<<FRAME_BOUNDARY>> \o S) = FRAME_BOUNDARY /\ Tail(<<FRAME_BOUNDARY>> \o S) = S
    BY <1>2, FirstOf, MarksSent
<1> QED
    BY <1>3, <1>4 DEF b, e, S

\* Losing the first octet of a line costs no more than a frame.
LEMMA CarriesLess ==
    ASSUME NEW L \in Seq(Octets), L # <<>>, NEW n \in Nat, Carries(L, n)
    PROVE  \/ Carries(Tail(L), n)
           \/ /\ n # 0 /\ Carries(Tail(L), n - 1)
              /\ \E c \in Contents, Q \in Seq(Octets) :
                    Fits(c) /\ L = Framed(c) \o Q /\ Carries(Q, n - 1)
<1> DEFINE h == Head(L)
           R == Tail(L)
<1>1. h \in Octets /\ R \in Seq(Octets) /\ L = <<h>> \o R
    BY FirstOctet
<1> HIDE DEF h, R
<1>2. CASE Carries(R, n)
    BY <1>2 DEF R
<1>3. CASE /\ n # 0
           /\ \E c \in Contents, Q \in Seq(Octets) :
                 Fits(c) /\ <<h>> \o R = Framed(c) \o Q /\ Carries(Q, n - 1)
  <2>1. PICK c \in Contents, Q \in Seq(Octets) :
               Fits(c) /\ <<h>> \o R = Framed(c) \o Q /\ Carries(Q, n - 1)
      BY <1>3
  <2>2. n - 1 \in Nat
      BY <1>3
  <2>3. EscapedAll(c \o Check(c)) \in Seq(Octets)
      BY FrameShape
  <2>4. L = Framed(c) \o Q
      BY <1>1, <2>1
  <2>5. Tail(L) = EscapedAll(c \o Check(c)) \o (<<FRAME_BOUNDARY>> \o Q)
      BY <2>4, HeadOfFrame
  <2>6. Carries(Tail(L), n - 1)
      BY <2>1, <2>2, <2>3, <2>5, BehindFirst
  <2> QED
      BY <1>3, <2>1, <2>4, <2>6
<1>4. Carries(<<h>> \o R, n)
    BY <1>1
<1> QED
    BY ZenonT(40), <1>1, <1>2, <1>3, <1>4, CarriesFirst

LEMMA FirstOfTwo ==
    ASSUME NEW o \in Octets, NEW Y \in Seq(Octets), NEW S \in Seq(Octets)
    PROVE  Head((<<o>> \o Y) \o S) = o /\ Tail((<<o>> \o Y) \o S) = Y \o S
<1> DEFINE A == <<o>>
           T == Y \o S
<1>1. A \in Seq(Octets) /\ T \in Seq(Octets)
    BY ShortSeq, ConcatProperties
<1> HIDE DEF A
<1>2. (A \o Y) \o S = A \o (Y \o S)
    BY <1>1, Regrouped
<1> HIDE DEF T
<1>3. Head(<<o>> \o T) = o /\ Tail(<<o>> \o T) = T
    BY <1>1, FirstOf
<1> QED
    BY <1>2, <1>3 DEF A, T

LEMMA ArrivingShape ==
    ASSUME TypeInv, NEW c, NEW q, NEW R, Arriving(c, q, R)
    PROVE  /\ Rest(q, inEscape) \in Seq(Octets) /\ <<FRAME_BOUNDARY>> \o R \in Seq(Octets)
           /\ frame \in Seq(Stored) /\ q \in Seq(Stored)
           /\ Len(frame) \in Nat /\ Len(q) \in Nat /\ Len(frame) + Len(q) < MaxFrameLength
<1>1. /\ c \in Contents /\ Fits(c) /\ q \in Seq(Octets) /\ R \in Seq(Octets)
      /\ frame \o q = c \o Check(c) /\ (inEscape => q # <<>> /\ Head(q) \in Marks)
    BY DEF Arriving
<1>2. inEscape \in BOOLEAN /\ frame \in Seq(Stored)
    BY DEF TypeInv
<1>3. Rest(q, inEscape) \in Seq(Octets)
    BY <1>1, <1>2, RestType
<1>4. <<FRAME_BOUNDARY>> \o R \in Seq(Octets)
    BY <1>1, FirstOf, MarksSent
<1>5. q \in Seq(Stored)
    BY <1>1, MarksSent, SeqMonotonic
<1>6. Len(frame \o q) = Len(frame) + Len(q) /\ Len(frame) \in Nat /\ Len(q) \in Nat
    BY <1>2, <1>5, Joined
<1>7. Len(c \o Check(c)) = Len(c) + 2 /\ Len(c) + 2 < MaxFrameLength
    BY <1>1, FrameShape DEF Fits
<1>8. Len(frame) + Len(q) < MaxFrameLength
    BY <1>1, <1>6, <1>7
<1> QED
    BY <1>2, <1>3, <1>4, <1>5, <1>6, <1>8

\* A frame is sent behind the one on its way.
LEMMA ArrivingKept ==
    ASSUME TypeInv, NEW c, NEW q, NEW R, Arriving(c, q, R), NEW X \in Seq(Octets),
           line' = line \o X, UNCHANGED <<frame, inEscape>>
    PROVE  Arriving(c, q, R \o X)'
<1> DEFINE A == Rest(q, inEscape)
           B == <<FRAME_BOUNDARY>>
<1>1. A \in Seq(Octets) /\ B \in Seq(Octets) /\ R \in Seq(Octets) /\ B \o R \in Seq(Octets)
    BY ArrivingShape, MarksSent, ShortSeq DEF Arriving
<1>2. line = A \o (B \o R)
    BY DEF Arriving
<1> HIDE DEF A, B
<1>3. R \o X \in Seq(Octets)
    BY <1>1, ConcatProperties
<1>4. (A \o (B \o R)) \o X = A \o ((B \o R) \o X)
    BY ZenonT(40), <1>1, Regrouped
<1>5. (B \o R) \o X = B \o (R \o X)
    BY SMTT(30), <1>1, Regrouped
<1>6. line' = A \o (B \o (R \o X))
    BY <1>2, <1>4, <1>5
<1>7. /\ c \in Contents /\ Fits(c) /\ q \in Seq(Octets)
      /\ frame' \o q = c \o Check(c) /\ (inEscape' => q # <<>> /\ Head(q) \in Marks)
    BY DEF Arriving
<1>8. A = Rest(q, inEscape')
    BY DEF A
<1> QED
    BY <1>3, <1>6, <1>7, <1>8 DEF Arriving, B

LEMMA DueSame ==
    ASSUME sent' = sent
    PROVE  Due' = Due
BY DEF Due

LEMMA DueGrows ==
    ASSUME TypeInv, NEW c \in Contents, sent' = Append(sent, c)
    PROVE  Due' = IF Fits(c) THEN Due + 1 ELSE Due
<1>1. Due' = Cardinality(Fitting(Append(sent, c))) /\ Due = Cardinality(Fitting(sent))
    BY DEF Due, Fitting
<1>2. sent \in Seq(Contents)
    BY DEF TypeInv
<1> QED
    BY <1>1, <1>2, DueSent

LEMMA SendKeeps ==
    ASSUME TypeInv, Between \/ Within, NEW c \in Contents, SendFrame(c)
    PROVE  Between' \/ Within'
<1> DEFINE F == Framed(c)
<1>1. /\ sent' = Append(sent, c) /\ line' = line \o F
      /\ UNCHANGED <<frame, inEscape, received, faults>>
    BY DEF SendFrame
<1>2. F \in Seq(Octets) /\ line \in Seq(Octets)
    BY FrameShape DEF TypeInv
<1>3. Len(received) \in Nat /\ faults \in Nat /\ Due \in Nat
    BY Counts
<1>4. Due' = IF Fits(c) THEN Due + 1 ELSE Due
    BY <1>1, DueGrows
<1>5. \A n \in Nat : Short(n) => Short(n + 1)' /\ (~Fits(c) => Short(n)')
    BY <1>1, <1>3, <1>4 DEF Short
<1>6. ASSUME NEW L \in Seq(Octets), NEW n \in Nat, Carries(L, n)
      PROVE  (Fits(c) => Carries(L \o F, n + 1)) /\ Carries(L \o F, n)
    BY <1>2, <1>6, CarriesSent, CarriesKept
<1> HIDE DEF F
<1>7. CASE Between
  <2>1. PICK n \in Nat : Carries(line, n) /\ Short(n)
      BY <1>7 DEF Between
  <2>2. n + 1 \in Nat
      OBVIOUS
  <2> QED
      BY <1>1, <1>2, <1>5, <1>6, <2>1, <2>2 DEF Between
<1>8. CASE Within
  <2>1. PICK d, q, R : \E n \in Nat : Arriving(d, q, R) /\ Carries(R, n) /\ Short(n + 1)
      BY <1>8 DEF Within
  <2>2. PICK n \in Nat : Arriving(d, q, R) /\ Carries(R, n) /\ Short(n + 1)
      BY <2>1
  <2>3. n + 1 \in Nat /\ R \in Seq(Octets)
      BY <2>2 DEF Arriving
  <2>4. Arriving(d, q, R \o F)'
      BY <1>1, <1>2, <2>2, ArrivingKept
  <2>5. CASE Fits(c)
    <3>1. Carries(R \o F, n + 1) /\ Short((n + 1) + 1)'
        BY <1>5, <1>6, <2>2, <2>3, <2>5
    <3> QED
        BY <2>3, <2>4, <3>1 DEF Within
  <2>6. CASE ~Fits(c)
    <3>1. Carries(R \o F, n) /\ Short(n + 1)'
        BY <1>5, <1>6, <2>2, <2>3, <2>6
    <3> QED
        BY <2>3, <2>4, <3>1 DEF Within
  <2> QED
      BY <2>5, <2>6
<1> QED
    BY <1>7, <1>8

LEMMA SendPartKeeps ==
    ASSUME TypeInv, Between \/ Within, NEW c \in Contents, SendPart(c)
    PROVE  Between' \/ Within'
<1> DEFINE F == Framed(c)
<1>1. PICK m \in 1..Len(F) - 1 : line' = line \o SubSeq(F, 1, m)
    BY DEF SendPart
<1> DEFINE X == SubSeq(F, 1, m)
<1>2. /\ sent' = Append(sent, c) /\ faults' = faults + 1
      /\ UNCHANGED <<frame, inEscape, received>>
    BY DEF SendPart
<1>3. F \in Seq(Octets) /\ Len(F) \in Nat /\ line \in Seq(Octets)
    BY FrameShape DEF TypeInv
<1> HIDE DEF F
<1>4. X \in Seq(Octets)
    BY <1>1, <1>3
<1>5. line' = line \o X
    BY <1>1
<1> HIDE DEF X
<1>6. Len(received) \in Nat /\ faults \in Nat /\ Due \in Nat
    BY Counts
<1>7. Due' <= Due + 1 /\ Due' \in Nat
  <2>1. Due' = IF Fits(c) THEN Due + 1 ELSE Due
      BY <1>2, DueGrows
  <2> QED
      BY <1>6, <2>1
<1>8. \A n \in Nat : Short(n) => Short(n)'
    BY <1>2, <1>6, <1>7 DEF Short
<1>9. CASE Between
  <2>1. PICK n \in Nat : Carries(line, n) /\ Short(n)
      BY <1>9 DEF Between
  <2>2. Carries(line \o X, n)
      BY <1>3, <1>4, <2>1, CarriesKept
  <2> QED
      BY <1>5, <1>8, <2>1, <2>2 DEF Between
<1>10. CASE Within
  <2>1. PICK d, q, R : \E n \in Nat : Arriving(d, q, R) /\ Carries(R, n) /\ Short(n + 1)
      BY <1>10 DEF Within
  <2>2. PICK n \in Nat : Arriving(d, q, R) /\ Carries(R, n) /\ Short(n + 1)
      BY <2>1
  <2>3. n + 1 \in Nat /\ R \in Seq(Octets)
      BY <2>2 DEF Arriving
  <2>4. Arriving(d, q, R \o X)'
      BY <1>2, <1>4, <1>5, <2>2, ArrivingKept
  <2>5. Carries(R \o X, n) /\ Short(n + 1)'
      BY <1>4, <1>8, <2>2, <2>3, CarriesKept
  <2> QED
      BY <2>4, <2>5 DEF Within
<1> QED
    BY <1>9, <1>10

\* A fault at the head of the line costs the frame there at most.
LEMMA FaultKeeps ==
    ASSUME TypeInv, Between \/ Within, line # <<>>,
           \A n \in Nat : Carries(Tail(line), n) => Carries(line', n),
           faults' = faults + 1, UNCHANGED <<sent, received>>
    PROVE  Between'
<1>1. Len(received) \in Nat /\ faults \in Nat /\ Due \in Nat
    BY Counts
<1>2. Due' = Due
    BY DueSame
<1>3. \A n \in Nat : Short(n) => Short(n)' /\ (n # 0 => Short(n - 1)')
    BY <1>1, <1>2 DEF Short
<1>4. CASE Between
  <2>1. PICK n \in Nat : Carries(line, n) /\ Short(n)
      BY <1>4 DEF Between
  <2>2. CASE Carries(Tail(line), n)
      BY <1>3, <2>1, <2>2 DEF Between
  <2>3. CASE n # 0 /\ Carries(Tail(line), n - 1)
    <3>1. n - 1 \in Nat
        BY <2>3
    <3> QED
        BY <1>3, <2>1, <2>3, <3>1 DEF Between
  <2>4. line \in Seq(Octets)
      BY DEF TypeInv
  <2> QED
      BY <2>1, <2>2, <2>3, <2>4, CarriesLess
<1>5. CASE Within
  <2>1. PICK d, q, R : \E n \in Nat : Arriving(d, q, R) /\ Carries(R, n) /\ Short(n + 1)
      BY <1>5 DEF Within
  <2>2. PICK n \in Nat : Arriving(d, q, R) /\ Carries(R, n) /\ Short(n + 1)
      BY <2>1
  <2>3. Rest(q, inEscape) \in Seq(Octets) /\ R \in Seq(Octets)
        /\ line = Rest(q, inEscape) \o (<<FRAME_BOUNDARY>> \o R)
      BY <2>2, ArrivingShape DEF Arriving
  <2>4. Carries(Tail(line), n)
      BY <2>2, <2>3, BehindFirst
  <2>5. Short(n)'
    <3>1. n + 1 \in Nat /\ n + 1 # 0 /\ (n + 1) - 1 = n
        OBVIOUS
    <3> QED
        BY <1>3, <2>2, <3>1
  <2> QED
      BY <2>4, <2>5 DEF Between
<1> QED
    BY <1>4, <1>5

LEMMA LineKeeps ==
    ASSUME TypeInv, Between \/ Within, Lose \/ Corrupt
    PROVE  Between'
<1>1. CASE Lose
  <2>1. line # <<>> /\ line' = Tail(line) /\ faults' = faults + 1 /\ UNCHANGED <<sent, received>>
      BY <1>1 DEF Lose
  <2> QED
      BY <2>1, FaultKeeps
<1>2. CASE Corrupt
  <2>1. line # <<>> /\ faults' = faults + 1 /\ UNCHANGED <<sent, received>>
      BY <1>2 DEF Corrupt
  <2>2. PICK o \in Octets : line' = <<o>> \o Tail(line)
      BY <1>2, MarksSent DEF Corrupt
  <2>3. Tail(line) \in Seq(Octets) /\ <<o>> \in Seq(Octets)
      BY <2>1, FirstOctet, ShortSeq DEF TypeInv
  <2>4. \A n \in Nat : Carries(Tail(line), n) => Carries(line', n)
      BY <2>2, <2>3, CarriesBehind
  <2> QED
      BY <2>1, <2>4, FaultKeeps
<1> QED
    BY <1>1, <1>2

LEMMA RestartKeeps ==
    ASSUME TypeInv, Between \/ Within, ReceiverRestarts
    PROVE  Between'
<1>1. faults' = faults + 1 /\ UNCHANGED <<sent, line, received>>
    BY DEF ReceiverRestarts
<1>2. Len(received) \in Nat /\ faults \in Nat /\ Due \in Nat /\ Due' = Due
    BY <1>1, Counts, DueSame
<1>3. \A n \in Nat : (Short(n) => Short(n)') /\ (Short(n + 1) => Short(n)')
    BY <1>1, <1>2 DEF Short
<1>4. CASE Between
    BY <1>1, <1>3, <1>4 DEF Between
<1>5. CASE Within
  <2>1. PICK d, q, R : \E n \in Nat : Arriving(d, q, R) /\ Carries(R, n) /\ Short(n + 1)
      BY <1>5 DEF Within
  <2>2. PICK n \in Nat : Arriving(d, q, R) /\ Carries(R, n) /\ Short(n + 1)
      BY <2>1
  <2>3. Rest(q, inEscape) \in Seq(Octets) /\ R \in Seq(Octets)
        /\ line = Rest(q, inEscape) \o (<<FRAME_BOUNDARY>> \o R)
      BY <2>2, ArrivingShape DEF Arriving
  <2>4. Carries(line, n)
      BY <2>2, <2>3, BehindFirst
  <2> QED
      BY <1>1, <1>3, <2>2, <2>4 DEF Between
<1> QED
    BY <1>4, <1>5

LEMMA HandedOver ==
    ASSUME TypeInv, Receive
    PROVE  /\ line # <<>> /\ line' = Tail(line) /\ HandleChar(Head(line)) /\ sent' = sent
           /\ \A n \in Nat : Short(n) => Short(n)'
<1>1. line # <<>> /\ line' = Tail(line) /\ HandleChar(Head(line)) /\ UNCHANGED <<sent, faults>>
    BY DEF Receive
<1>2. received' = received \/ received' = Append(received, Content(frame))
    BY <1>1 DEF HandleChar, Boundary, Store
<1>3. Len(received) \in Nat /\ faults \in Nat /\ Due \in Nat /\ Due' = Due
    BY <1>1, Counts, DueSame
<1>4. Len(Append(received, Content(frame))) = Len(received) + 1
    BY DEF TypeInv
<1>5. Len(received') \in Nat /\ Len(received') >= Len(received)
    BY <1>2, <1>3, <1>4
<1>6. \A n \in Nat : Short(n) => Short(n)'
    BY <1>1, <1>3, <1>5 DEF Short
<1> QED
    BY <1>1, <1>6

\* Between two frames the next one is found.
LEMMA ReceiveBetween ==
    ASSUME TypeInv, Between, Receive
    PROVE  Between' \/ Within'
<1>1. /\ line # <<>> /\ line' = Tail(line) /\ HandleChar(Head(line))
      /\ \A n \in Nat : Short(n) => Short(n)'
    BY HandedOver
<1>2. PICK n \in Nat : Carries(line, n) /\ Short(n)
    BY DEF Between
<1>3. line \in Seq(Octets)
    BY DEF TypeInv
<1>4. CASE Carries(Tail(line), n)
    BY <1>1, <1>2, <1>4 DEF Between
<1>5. ASSUME n # 0, NEW c \in Contents, NEW Q \in Seq(Octets),
             Fits(c), line = Framed(c) \o Q, Carries(Q, n - 1)
      PROVE  Within'
  <2> DEFINE q == c \o Check(c)
  <2>1. Head(line) = FRAME_BOUNDARY /\ Tail(line) = EscapedAll(q) \o (<<FRAME_BOUNDARY>> \o Q)
      BY <1>5, HeadOfFrame
  <2>2. Boundary
      BY <1>1, <2>1 DEF HandleChar
  <2>3. frame' = <<>> /\ inEscape' = FALSE
      BY <2>2 DEF Boundary, AfterBoundary, EscapeAfterBoundary
  <2>4. q \in Seq(Octets)
      BY FrameShape
  <2> HIDE DEF q
  <2>5. <<>> \o q = q
      BY <2>4, ConcatEmptySeq
  <2>6. frame' \o q = q
      BY <2>3, <2>5
  <2>7. Rest(q, inEscape') = EscapedAll(q)
      BY <2>3 DEF Rest
  <2>8. ~inEscape'
      BY <2>3
  <2>9. line' = Rest(q, inEscape') \o (<<FRAME_BOUNDARY>> \o Q)
      BY <1>1, <2>1, <2>7
  <2>10. Arriving(c, q, Q)'
      BY <1>5, <2>4, <2>6, <2>8, <2>9 DEF Arriving, q
  <2>11. n - 1 \in Nat /\ (n - 1) + 1 = n
      BY <1>5
  <2>12. Short((n - 1) + 1)'
      BY <1>1, <1>2, <2>11
  <2> QED
      BY <1>5, <2>10, <2>11, <2>12 DEF Within
<1> QED
    BY <1>2, <1>3, <1>1, <1>4, <1>5, CarriesLess

\* An octet of a frame on its way finds room.
LEMMA OctetTaken ==
    ASSUME TypeInv, NEW c, NEW o \in Octets, NEW t \in Seq(Octets), NEW R,
           Arriving(c, <<o>> \o t, R), Store(o),
           line' = EscapedAll(t) \o (<<FRAME_BOUNDARY>> \o R)
    PROVE  Arriving(c, t, R)'
<1> DEFINE A == <<o>>
           q == A \o t
<1>1. /\ c \in Contents /\ Fits(c) /\ R \in Seq(Octets) /\ frame \o q = c \o Check(c)
    BY DEF Arriving
<1>2. A \in Seq(Octets) /\ Len(A) = 1 /\ A \in Seq(Stored) /\ t \in Seq(Stored) /\ o \in Stored
    BY MarksSent, ShortSeq, SeqMonotonic
<1>3. Len(frame) \in Nat /\ Len(q) \in Nat /\ Len(frame) + Len(q) < MaxFrameLength
      /\ frame \in Seq(Stored)
    BY ArrivingShape
<1> HIDE DEF A
<1>4. Len(q) = 1 + Len(t) /\ Len(t) \in Nat
    BY ZenonT(40), <1>2, Joined
<1>5. ~Full
    BY <1>3, <1>4, Bounds DEF Full
<1>6. frame' = Append(frame, o) /\ inEscape' = FALSE
    BY <1>5 DEF Store
<1>7. Append(frame, o) = frame \o A
    BY <1>2, <1>3, AppendIsConcat DEF A
<1>8. (frame \o A) \o t = frame \o (A \o t)
  <2>1. frame \in Seq(Stored)
      BY <1>3
  <2> QED
      BY <1>2, <2>1, Regrouped
<1>9. frame' \o t = c \o Check(c)
    BY <1>1, <1>6, <1>7, <1>8
<1>10. Rest(t, inEscape') = EscapedAll(t) /\ ~inEscape'
    BY <1>6 DEF Rest
<1> QED
    BY <1>1, <1>9, <1>10 DEF Arriving

\* Within a frame it is taken to its end, octet for octet.
LEMMA ReceiveWithin ==
    ASSUME TypeInv, Within, Receive
    PROVE  Between' \/ Within'
<1>1. /\ line # <<>> /\ line' = Tail(line) /\ HandleChar(Head(line)) /\ sent' = sent
      /\ \A n \in Nat : Short(n) => Short(n)'
    BY HandedOver
<1>2. PICK c, q, R : \E n \in Nat : Arriving(c, q, R) /\ Carries(R, n) /\ Short(n + 1)
    BY DEF Within
<1>3. PICK n \in Nat : Arriving(c, q, R) /\ Carries(R, n) /\ Short(n + 1)
    BY <1>2
<1>4. n + 1 \in Nat /\ Short(n + 1)'
    BY <1>1, <1>3
<1> DEFINE S == <<FRAME_BOUNDARY>> \o R
<1>5. /\ c \in Contents /\ q \in Seq(Octets) /\ R \in Seq(Octets) /\ frame \o q = c \o Check(c)
      /\ (inEscape => q # <<>> /\ Head(q) \in Marks)
      /\ line = Rest(q, inEscape) \o S
    BY <1>3 DEF Arriving
<1>6. S \in Seq(Octets) /\ Head(S) = FRAME_BOUNDARY /\ Tail(S) = R
    BY <1>5, FirstOf, MarksSent
<1>7. frame \in Seq(Stored) /\ inEscape \in BOOLEAN
    BY DEF TypeInv
<1>8. CASE q = <<>>
  <2>1. Rest(q, inEscape) = <<>>
      BY <1>5, <1>8, EscapedEmpty DEF Rest
  <2>2. line = S
    <3> HIDE DEF S
    <3>1. <<>> \o S = S
        BY <1>6, ConcatEmptySeq
    <3> QED
        BY <1>5, <2>1, <3>1
  <2>3. Boundary
      BY <1>1, <1>6, <2>2 DEF HandleChar
  <2>4. frame = c \o Check(c)
      BY <1>5, <1>7, <1>8, ConcatEmptySeq
  <2>5. Valid(frame)
      BY <1>5, <2>4, WholeFrame
  <2>6. received' = Append(received, Content(frame))
      BY <2>3, <2>5 DEF Boundary
  <2>7. line' = R
      BY <1>1, <1>6, <2>2
  <2>8. Short(n)'
    <3>1. Len(received') = Len(received) + 1 /\ Len(received) \in Nat /\ Due \in Nat /\ faults \in Nat
        BY <2>6, Counts DEF TypeInv
    <3>2. Due' = Due /\ faults' = faults
        BY <1>1, DueSame DEF Receive
    <3> QED
        BY <1>3, <3>1, <3>2 DEF Short
  <2> QED
      BY <1>3, <2>7, <2>8 DEF Between
<1>9. CASE q # <<>>
  <2> DEFINE o == Head(q)
             t == Tail(q)
             Y == EscapedAll(t)
  <2>1. o \in Octets /\ t \in Seq(Octets) /\ q = <<o>> \o t
      BY <1>5, <1>9, FirstOctet
  <2> HIDE DEF o, t
  <2>2. /\ Y \in Seq(Octets)
        /\ o \in Marks => /\ Rest(q, FALSE) = <<CONTROL_ESCAPE>> \o Rest(q, TRUE)
                          /\ Rest(q, TRUE) = <<Invert(o)>> \o Y
        /\ o \notin Marks => Rest(q, FALSE) = <<o>> \o Y
      BY <2>1, RestOfOne
  <2> HIDE DEF Y, S
  <2>3. ASSUME Store(o), line' = Y \o S
        PROVE  Within'
    <3>1. Arriving(c, <<o>> \o t, R)
        BY <1>3, <2>1
    <3>2. line' = EscapedAll(t) \o (<<FRAME_BOUNDARY>> \o R)
        BY <2>3 DEF Y, S
    <3>3. Arriving(c, t, R)'
        BY <2>1, <2>3, <3>1, <3>2, OctetTaken
    <3> QED
        BY <1>3, <1>4, <3>3 DEF Within
  <2>4. CASE ~inEscape /\ o \notin Marks
    <3>1. line = (<<o>> \o Y) \o S
        BY <1>5, <2>2, <2>4 DEF Rest
    <3>2. Head(line) = o /\ Tail(line) = Y \o S
        BY <1>6, <2>1, <2>2, <3>1, FirstOfTwo
    <3>3. o # FRAME_BOUNDARY /\ o # CONTROL_ESCAPE
        BY <2>4 DEF Marks
    <3>4. Store(o) /\ line' = Y \o S
        BY <1>1, <2>4, <3>2, <3>3 DEF HandleChar
    <3> QED
        BY <2>3, <3>4
  <2>5. CASE inEscape /\ o \in Marks
    <3>1. Rest(q, inEscape) = Rest(q, TRUE)
        BY <2>5 DEF Rest
    <3>2. line = (<<Invert(o)>> \o Y) \o S
        BY <1>5, <2>2, <2>5, <3>1
    <3>3. Invert(o) \in Octets /\ Invert(o) \notin Marks /\ Invert(Invert(o)) = o
        BY <2>5, MarkFacts DEF Plain, Octets
    <3>4. Head(line) = Invert(o) /\ Tail(line) = Y \o S
        BY <1>6, <2>2, <3>2, <3>3, FirstOfTwo
    <3>5. Invert(o) # FRAME_BOUNDARY
        BY <3>3 DEF Marks
    <3>6. Store(Invert(Head(line)))
        BY <1>1, <2>5, <3>4, <3>5 DEF HandleChar
    <3>7. Store(o) /\ line' = Y \o S
        BY <1>1, <3>3, <3>4, <3>6
    <3> QED
        BY <2>3, <3>7
  <2>6. CASE ~inEscape /\ o \in Marks
    <3> DEFINE X == Rest(q, TRUE)
    <3>1. X \in Seq(Octets)
        BY <1>5, <1>9, <2>6, RestType DEF o
    <3>2. line = Rest(q, FALSE) \o S
        BY <1>5, <2>6 DEF Rest
    <3>3. Rest(q, FALSE) = <<CONTROL_ESCAPE>> \o X
        BY <2>2, <2>6
    <3> HIDE DEF X
    <3>4. Head(line) = CONTROL_ESCAPE /\ Tail(line) = X \o S
      <4>1. CONTROL_ESCAPE \in Octets
          BY MarksSent
      <4>2. line = (<<CONTROL_ESCAPE>> \o X) \o S
          BY <3>2, <3>3
      <4> QED
          BY <1>6, <3>1, <4>1, <4>2, FirstOfTwo
    <3>5. inEscape' = TRUE /\ frame' = frame
        BY <1>1, <2>6, <3>4, MarkFacts DEF HandleChar
    <3>6. Rest(q, inEscape') = X
        BY <3>5 DEF Rest, X
    <3>7. line' = Rest(q, inEscape') \o (<<FRAME_BOUNDARY>> \o R)
        BY <1>1, <3>4, <3>6 DEF S
    <3>8. q # <<>> /\ Head(q) \in Marks
        BY <1>9, <2>6 DEF o
    <3>9. Arriving(c, q, R)'
        BY <1>3, <3>5, <3>7, <3>8 DEF Arriving
    <3> QED
        BY <1>3, <1>4, <3>9 DEF Within
  <2> QED
      BY <1>5, <1>7, <1>9, <2>4, <2>5, <2>6 DEF o
<1> QED
    BY <1>8, <1>9

LEMMA FramesStep ==
    ASSUME TypeInv, Between \/ Within, [Next]_vars
    PROVE  Between' \/ Within'
<1>1. ASSUME NEW c \in Contents, SendFrame(c) \/ SendPart(c)
      PROVE  Between' \/ Within'
    BY <1>1, SendKeeps, SendPartKeeps
<1>2. CASE Receive
    BY <1>2, ReceiveBetween, ReceiveWithin
<1>3. CASE Lose \/ Corrupt
    BY <1>3, LineKeeps
<1>4. CASE ReceiverRestarts
    BY <1>4, RestartKeeps
<1>5. CASE UNCHANGED vars
  <2>1. UNCHANGED <<sent, line, frame, inEscape, received, faults>>
      BY <1>5 DEF vars
  <2>2. Due' = Due
      BY <2>1, DueSame
  <2>3. \A n : Short(n)' <=> Short(n)
      BY <2>1, <2>2 DEF Short
  <2>4. \A c, q, R : Arriving(c, q, R) => Arriving(c, q, R)'
      BY <2>1 DEF Arriving
  <2>5. Between => Between'
      BY <2>1, <2>3 DEF Between
  <2>6. Within => Within'
      BY <2>3, <2>4 DEF Within
  <2> QED
      BY <2>5, <2>6
<1> QED
    BY <1>1, <1>2, <1>3, <1>4, <1>5 DEF Next

LEMMA FramesStart == Init => Between
<1> SUFFICES ASSUME Init
             PROVE  Between
    OBVIOUS
<1>1. sent = <<>> /\ received = <<>> /\ faults = 0
    BY DEF Init
<1>2. Fitting(<<>>) = {}
    BY DEF Fitting
<1>3. Due = 0
  <2>1. Due = Cardinality(Fitting(sent))
      BY DEF Due, Fitting
  <2> QED
      BY <1>1, <1>2, <2>1, FS_EmptySet
<1>4. Len(received) = 0
    BY <1>1
<1>5. Short(0)
  <2>1. faults = 0
      BY <1>1
  <2> QED
      BY <1>3, <1>4, <2>1 DEF Short
<1> QED
    BY <1>5, CarriesNone DEF Between

LEMMA FramesAlways == Spec => [](Between \/ Within)
<1>1. Init => Between \/ Within
    BY FramesStart
<1>2. TypeInv /\ (Between \/ Within) /\ [Next]_vars => (Between \/ Within)'
    BY FramesStep
<1> QED
    BY <1>1, <1>2, TypesAlways, PTL DEF Spec

\* A fault costs one frame at most: once the line is empty every frame that fits into the
\* receiver's buffer was handed over, but for one at most for each octet lost or changed
\* and for each restart; frames too long for the buffer cost nobody else's. (handleChar)
THEOREM FaultsCostOneFrame == Spec => []OneFaultOneFrame
<1>1. ASSUME TypeInv, Between \/ Within
      PROVE  OneFaultOneFrame
  <2> SUFFICES ASSUME line = <<>>
               PROVE  Due <= Len(received) + faults
      BY DEF OneFaultOneFrame
  <2>1. CASE Between
    <3>1. PICK n \in Nat : Carries(line, n) /\ Short(n)
        BY <2>1 DEF Between
    <3>2. n = 0
      <4> SUFFICES ASSUME n # 0
                   PROVE  FALSE
          OBVIOUS
      <4>1. 1 \in 1..n
          OBVIOUS
      <4>2. PICK pos, con : CarriedBy(pos, con, line, n)
          BY <3>1 DEF Carries
      <4>3. FrameAt(line, pos[1], con[1])
          BY <4>1, <4>2 DEF CarriedBy
      <4>4. line \in Seq(Octets) /\ Len(line) = 0
          BY <1>1 DEF TypeInv
      <4>5. /\ pos[1] \in Nat /\ Len(Framed(con[1])) \in Nat /\ Len(Framed(con[1])) >= 2
            /\ pos[1] + Len(Framed(con[1])) <= Len(line)
          BY <4>3, <4>4, FrameBounds
      <4> QED
          BY <4>4, <4>5
    <3>3. Len(received) \in Nat /\ faults \in Nat /\ Due \in Nat
        BY <1>1, Counts
    <3> QED
        BY <3>1, <3>2, <3>3 DEF Short
  <2>2. CASE Within
    <3>1. PICK c, q, R : \E n \in Nat : Arriving(c, q, R) /\ Carries(R, n) /\ Short(n + 1)
        BY <2>2 DEF Within
    <3>2. PICK n \in Nat : Arriving(c, q, R) /\ Carries(R, n) /\ Short(n + 1)
        BY <3>1
    <3>3. Rest(q, inEscape) \in Seq(Octets) /\ R \in Seq(Octets)
          /\ line = Rest(q, inEscape) \o (<<FRAME_BOUNDARY>> \o R)
        BY <1>1, <3>2, ArrivingShape DEF Arriving
    <3>4. line # <<>>
        BY <3>2, <3>3, BehindFirst
    <3> QED
        BY <3>4
  <2> QED
      BY <1>1, <2>1, <2>2
<1>2. TypeInv /\ (Between \/ Within) => OneFaultOneFrame
    BY <1>1
<1> QED
    BY <1>2, TypesAlways, FramesAlways, PTL

=============================================================================
