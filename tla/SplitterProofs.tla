--------------------------- MODULE SplitterProofs ---------------------------
(***************************************************************************)
(* Proofs about modules Splitter and Tokenizer, for scripts of any length: *)
(* no character is lost or repeated, the line numbers are exact, a script  *)
(* made of tokens becomes its statements, and the two readers agree on     *)
(* where strings and comments end.                                         *)
(***************************************************************************)
EXTENDS Tokenizer, SequenceLemmas

-----------------------------------------------------------------------------
(***************************************************************************)
(* Parts of texts, and their lines.                                        *)
(***************************************************************************)
(* A part of a text is a text, of the characters at its positions.         *)
LEMMA PartOfText ==
  ASSUME NEW s \in Seq(Characters), NEW a \in Nat, NEW b \in Nat, a >= 1, b <= Len(s)
  PROVE  /\ SubSeq(s, a, b) \in Seq(Characters)
         /\ Len(SubSeq(s, a, b)) = IF a <= b THEN b - a + 1 ELSE 0
         /\ \A k \in 1..(b - a + 1) : SubSeq(s, a, b)[k] = s[a + k - 1]
<1>1. \A k \in a..b : s[k] \in Characters
  OBVIOUS
<1>2. QED  BY <1>1, SubSeqProperties

(* One character more is one line more exactly when it ends a line.        *)
LEMMA LinesStep ==
  ASSUME NEW s \in Seq(Characters), NEW k \in 1..Len(s)
  PROVE  /\ Lines(SubSeq(s, 1, k - 1)) \in Nat \ {0}
         /\ Lines(SubSeq(s, 1, k)) =
              Lines(SubSeq(s, 1, k - 1)) + (IF s[k] = "\n" THEN 1 ELSE 0)
<1> DEFINE p == SubSeq(s, 1, k - 1)
           q == SubSeq(s, 1, k)
           P == {h \in DOMAIN p : p[h] = "\n"}
           Q == {h \in DOMAIN q : q[h] = "\n"}
<1>1. /\ p \in Seq(Characters) /\ Len(p) = k - 1
      /\ q \in Seq(Characters) /\ Len(q) = k
  BY PartOfText
<1>2. DOMAIN p = 1..(k - 1) /\ DOMAIN q = 1..k
  BY <1>1
<1>3. (\A h \in 1..(k - 1) : p[h] = s[h]) /\ (\A h \in 1..k : q[h] = s[h])
  BY PartOfText
<1>4. P = {h \in 1..(k - 1) : s[h] = "\n"} /\ Q = {h \in 1..k : s[h] = "\n"}
  BY <1>2, <1>3
<1>5. IsFiniteSet(P)
  <2>1. IsFiniteSet(1..(k - 1))
    BY FS_Interval
  <2>2. QED  BY <1>4, <2>1, FS_Subset
<1>6. Cardinality(P) \in Nat
  BY <1>5, FS_CardinalityType
<1> HIDE DEF P, Q
<1>0. /\ Lines(p) = 1 + Cardinality(P)
      /\ Lines(q) = 1 + Cardinality(Q)
  BY Zenon DEF Lines, P, Q
<1>7. CASE s[k] = "\n"
  <2>1. Q = P \cup {k} /\ k \notin P
    BY <1>4, <1>7
  <2>2. Cardinality(Q) = Cardinality(P) + 1
    BY <1>5, <2>1, FS_AddElement
  <2>3. QED  BY <1>0, <1>6, <1>7, <2>2
<1>8. CASE s[k] # "\n"
  <2>1. Q = P
    BY <1>4, <1>8
  <2>2. QED  BY <1>0, <1>6, <1>8, <2>1
<1>9. QED  BY <1>7, <1>8

(* How many newlines there are up to a position.                           *)
LEMMA LinesUpTo ==
  ASSUME NEW s \in Seq(Characters), NEW b \in 0..Len(s)
  PROVE  LET newlines == {h \in 1..b : s[h] = "\n"}
         IN  /\ IsFiniteSet(newlines) /\ Cardinality(newlines) \in Nat
             /\ Lines(SubSeq(s, 1, b)) = 1 + Cardinality(newlines)
<1> DEFINE q == SubSeq(s, 1, b)
           N == {h \in 1..b : s[h] = "\n"}
<1>1. DOMAIN q = 1..b /\ \A h \in 1..b : q[h] = s[h]
  BY PartOfText
<1>2. {h \in DOMAIN q : q[h] = "\n"} = N
  BY <1>1
<1>3. IsFiniteSet(1..b)
  BY FS_Interval
<1>4. IsFiniteSet(N) /\ Cardinality(N) \in Nat
  BY <1>3, FS_Subset, FS_CardinalityType
<1> HIDE DEF N
<1>5. Lines(q) = 1 + Cardinality(N)
  BY <1>2, Zenon DEF Lines
<1>6. QED  BY <1>4, <1>5 DEF N

(* Lines do not decrease, and stay where no character ends one.            *)
LEMMA LinesBetween ==
  ASSUME NEW s \in Seq(Characters), NEW a \in 0..Len(s), NEW b \in 0..Len(s), a <= b
  PROVE  /\ Lines(SubSeq(s, 1, a)) \in Nat \ {0} /\ Lines(SubSeq(s, 1, b)) \in Nat \ {0}
         /\ Lines(SubSeq(s, 1, a)) <= Lines(SubSeq(s, 1, b))
         /\ (\A k \in (a + 1)..b : s[k] # "\n") =>
               Lines(SubSeq(s, 1, a)) = Lines(SubSeq(s, 1, b))
<1> DEFINE A == {h \in 1..a : s[h] = "\n"}
           B == {h \in 1..b : s[h] = "\n"}
<1>1. /\ IsFiniteSet(A) /\ Cardinality(A) \in Nat
      /\ Lines(SubSeq(s, 1, a)) = 1 + Cardinality(A)
  BY LinesUpTo
<1>2. /\ IsFiniteSet(B) /\ Cardinality(B) \in Nat
      /\ Lines(SubSeq(s, 1, b)) = 1 + Cardinality(B)
  BY LinesUpTo
<1>3. A \subseteq B /\ ((\A k \in (a + 1)..b : s[k] # "\n") => A = B)
  OBVIOUS
<1> HIDE DEF A, B
<1>4. Cardinality(A) <= Cardinality(B)
  BY <1>2, <1>3, FS_Subset
<1>5. QED  BY <1>1, <1>2, <1>3, <1>4

(* A dollar tag is what the text starts with, and has no space in it.      *)
LEMMA DollarTag ==
  ASSUME NEW s \in Seq(Characters), readDollarTag(s) # << >>
  PROVE  LET t == readDollarTag(s)
         IN  /\ t \in Seq(Characters)
             /\ Len(t) \in 2..Len(s)
             /\ t = SubSeq(s, 1, Len(t))
             /\ \A k \in 1..Len(t) : t[k] = s[k] /\ s[k] \notin Space
<1> DEFINE ends == {k \in 2..Len(s) : s[1] = "$" /\ s[k] = "$"
                                        /\ \A h \in 2..(k - 1) : s[h] \in TagChars}
           m == Min(ends)
<1>1. readDollarTag(s) = IF ends = {} THEN << >> ELSE SubSeq(s, 1, m)
  BY Zenon DEF readDollarTag
<1>2. ends # {} /\ ends \in SUBSET Nat
  BY <1>1
<1>3. m \in ends
  BY <1>2, MinIsLeast
<1> HIDE DEF m
<1>7. /\ m \in 2..Len(s) /\ s[1] = "$" /\ s[m] = "$"
      /\ \A h \in 2..(m - 1) : s[h] \in TagChars
  BY <1>3
<1> HIDE DEF ends
<1>4. /\ SubSeq(s, 1, m) \in Seq(Characters) /\ Len(SubSeq(s, 1, m)) = m
      /\ \A k \in 1..m : SubSeq(s, 1, m)[k] = s[k]
  BY <1>7, PartOfText
<1>5. \A k \in 1..m : s[k] \notin Space
  <2> TAKE k \in 1..m
  <2>1. k = 1 \/ k = m \/ k \in 2..(m - 1)
    BY <1>7
  <2>2. QED  BY <1>7, <2>1 DEF TagChars, Space
<1>6. QED  BY <1>1, <1>2, <1>4, <1>5, <1>7

-----------------------------------------------------------------------------
(***************************************************************************)
(* The inductive invariant: where the text and the lines stand, and what   *)
(* the mode says of the dollar tag.                                        *)
(***************************************************************************)
Solid(text) == {k \in DOMAIN text : text[k] \notin Space}

(* In text s before position p, with the segment c so far, the line l, and *)
(* the segment's line sl if it has started, st.                            *)
Placed(s, p, c, l, sl, st) ==
  /\ s \in Seq(Characters) /\ p \in 1..(Len(s) + 1)
  /\ c \in Seq(Characters) /\ Len(c) <= p - 1
  /\ l \in Nat /\ sl \in 1..l /\ st \in BOOLEAN
  /\ c = SubSeq(s, p - Len(c), p - 1)
  /\ Len(c) < p - 1 => s[p - Len(c) - 1] = ";"
  /\ l = Lines(SubSeq(s, 1, p - 1))
  /\ st <=> Solid(c) # {}
  /\ st => sl = Lines(SubSeq(s, 1, p - 1 - Len(c) + Min(Solid(c))))

Place == Placed(sql, i, current, line, segmentLine, segmentStarted)

Rest ==
  /\ script \in Seq(Token)
  /\ mode \in {"sql", "line comment", "block comment", "single", "double", "dollar"}
  /\ dollarTag \in Seq(Characters) /\ (dollarTag # << >> <=> mode = "dollar")
  /\ \A k \in 1..Len(dollarTag) : dollarTag[k] \notin Space
  /\ segmentHasContent \in BOOLEAN
  /\ out \in Seq(Segment)
  /\ pc \in {"scan", "done", "error"}

Inv == Place /\ Rest

(* The text of the segment c up to position p, put to n characters more.   *)
Extends(s, p, c, n, d) ==
  /\ c = SubSeq(s, p - Len(c), p - 1)
  /\ d = c \o SubSeq(s, p, p + n - 1)

(* What the text d is then, len being the length of c.                     *)
IsExtension(s, p, c, len, n, d) ==
  /\ d \in Seq(Characters) /\ Len(d) = len + n
  /\ d = SubSeq(s, p - len, p + n - 1)
  /\ \A k \in 1..len : d[k] = c[k]
  /\ d[len + 1] = s[p]

(* It is the text of the segment up to position p + n.                     *)
LEMMA Extended ==
  ASSUME NEW s \in Seq(Characters), NEW p \in 1..Len(s), NEW c \in Seq(Characters),
         NEW len \in Nat, len = Len(c), len <= p - 1,
         NEW n \in Nat \ {0}, p + n - 1 <= Len(s),
         NEW d, Extends(s, p, c, n, d)
  PROVE  IsExtension(s, p, c, len, n, d)
<1>0. Len(s) \in Nat
  BY LenProperties
<1>1. PICK w : w = SubSeq(s, p, p + n - 1)
  OBVIOUS
<1>2. w \in Seq(Characters) /\ Len(w) = n /\ w[1] = s[p]
  <2> DEFINE e == p + n - 1
  <2>1. /\ e \in Nat /\ p \in Nat /\ p >= 1 /\ e <= Len(s) /\ p <= e
        /\ 1 \in 1..(e - p + 1) /\ p + 1 - 1 = p /\ e - p + 1 = n
    BY <1>0
  <2>2. w = SubSeq(s, p, e)
    BY <1>1
  <2> HIDE DEF e
  <2>3. /\ SubSeq(s, p, e) \in Seq(Characters)
        /\ Len(SubSeq(s, p, e)) = IF p <= e THEN e - p + 1 ELSE 0
        /\ \A h \in 1..(e - p + 1) : SubSeq(s, p, e)[h] = s[p + h - 1]
    BY <2>1, PartOfText
  <2>4. \A h \in 1..(e - p + 1) : w[h] = s[p + h - 1]
    BY <2>2, <2>3, Zenon
  <2>5. w \in Seq(Characters) /\ Len(w) = n
    BY <2>1, <2>2, <2>3
  <2>6. w[1] = s[p + 1 - 1]
    BY <2>1, <2>4, Zenon
  <2>7. QED  BY <2>1, <2>5, <2>6
<1>3. d = c \o w
  BY <1>1, Zenon DEF Extends
<1>4. /\ c \o w \in Seq(Characters) /\ Len(c \o w) = Len(c) + Len(w)
      /\ \A k \in 1..(Len(c) + Len(w)) :
           (c \o w)[k] = IF k <= Len(c) THEN c[k] ELSE w[k - Len(c)]
  BY <1>2, ConcatProperties
<1>5. \A k \in 1..(len + n) : d[k] = IF k <= len THEN c[k] ELSE w[k - len]
  BY <1>2, <1>3, <1>4
<1>6. d[len + 1] = s[p]
  <2>1. len + 1 \in 1..(len + n) /\ ~(len + 1 <= len) /\ (len + 1) - len = 1
    OBVIOUS
  <2>2. d[len + 1] = w[(len + 1) - len]
    BY <1>5, <2>1
  <2>3. QED  BY <1>2, <2>1, <2>2
<1>7. \A k \in 1..len : d[k] = c[k]
  BY <1>5
<1>8. d = SubSeq(s, p - len, p + n - 1)
  <2>0. c = SubSeq(s, p - len, p - 1) /\ d = c \o SubSeq(s, p, p + n - 1)
    BY Zenon DEF Extends
  <2> DEFINE a == p - len
             b == p - 1
             e == p + n - 1
  <2>1. a \in 1..(Len(s) + 1) /\ b \in (a - 1)..Len(s) /\ e \in b..Len(s) /\ b + 1 = p
    BY <1>0
  <2>2. c = SubSeq(s, a, b) /\ d = c \o SubSeq(s, p, e)
    BY <2>0, Zenon
  <2> HIDE DEF a, b, e
  <2>3. SubSeq(s, a, b) \o SubSeq(s, b + 1, e) = SubSeq(s, a, e)
    BY <2>1, ConcatAdjacentSubSeq
  <2>4. d = SubSeq(s, a, e)
    BY <2>1, <2>2, <2>3
  <2>5. QED  BY <2>4, Zenon DEF a, e
<1>9. d \in Seq(Characters) /\ Len(d) = len + n
  BY <1>2, <1>3, <1>4
<1>10. QED  BY <1>6, <1>7, <1>8, <1>9, Zenon DEF IsExtension

(* A step that writes n characters, and counts their lines, keeps the      *)
(* place; two and more of them never start with a space.                   *)
Writes(s, p, c, n, d, k) ==
  /\ p + n - 1 <= Len(s)
  /\ n > 1 => s[p] \notin Space
  /\ d = c \o SubSeq(s, p, p + n - 1)
  /\ k = Lines(SubSeq(s, 1, p + n - 1))

(* Writing some characters keeps the place exact, if it starts the segment *)
(* when the first of them is not a space.                                  *)
LEMMA PlacedWrite ==
  ASSUME NEW s, NEW p, NEW c, NEW l, NEW sl, NEW st, Placed(s, p, c, l, sl, st),
         NEW n \in Nat \ {0}, NEW d, NEW k, Writes(s, p, c, n, d, k)
  PROVE  Placed(s, p + n, d, k, IF ~st /\ s[p] \notin Space THEN l ELSE sl,
                st \/ (~st /\ s[p] \notin Space))
<1>1. /\ s \in Seq(Characters) /\ p \in 1..(Len(s) + 1)
      /\ c \in Seq(Characters) /\ Len(c) <= p - 1
      /\ l \in Nat /\ sl \in 1..l /\ st \in BOOLEAN
  BY Zenon DEF Placed
<1>2. p + n - 1 <= Len(s) /\ (n > 1 => s[p] \notin Space)
  BY Zenon DEF Writes
<1>3. PICK len \in Nat : len = Len(c)
  BY <1>1, LenProperties
<1>4. PICK size \in Nat : size = Len(s)
  BY <1>1, LenProperties
<1>5. /\ p \in 1..size /\ p \in 1..Len(s) /\ p + n - 1 <= size /\ len <= p - 1
      /\ DOMAIN c = 1..len
  BY <1>1, <1>2, <1>3, <1>4, LenProperties
<1>6. l = Lines(SubSeq(s, 1, p - 1)) /\ k = Lines(SubSeq(s, 1, p + n - 1))
  BY Zenon DEF Placed, Writes
<1>7. l \in Nat /\ k \in Nat /\ l <= k
  <2>1. p - 1 \in 0..Len(s) /\ p + n - 1 \in 0..Len(s) /\ p - 1 <= p + n - 1
    BY <1>4, <1>5
  <2>2. QED  BY <1>1, <1>6, <2>1, LinesBetween
<1>8. /\ d \in Seq(Characters) /\ Len(d) = len + n
      /\ d = SubSeq(s, p - len, p + n - 1)
      /\ \A h \in 1..len : d[h] = c[h]
      /\ d[len + 1] = s[p]
  <2>1. Extends(s, p, c, n, d)
    BY Zenon DEF Placed, Writes, Extends
  <2>2. /\ s \in Seq(Characters) /\ p \in 1..Len(s) /\ c \in Seq(Characters)
        /\ len \in Nat /\ len = Len(c) /\ len <= p - 1
        /\ n \in Nat \ {0} /\ p + n - 1 <= Len(s)
    BY <1>1, <1>2, <1>3, <1>5
  <2>3. IsExtension(s, p, c, len, n, d)
    BY <2>1, <2>2, Extended
  <2>4. QED  BY <2>3, Zenon DEF IsExtension
<1>9. /\ d \in Seq(Characters) /\ Len(d) = len + n /\ DOMAIN d = 1..(len + n)
  BY <1>8, LenProperties
<1>10. \A h \in 1..len : d[h] = c[h]
  BY <1>8, Zenon
<1>11. d[len + 1] = s[p]
  BY <1>8, Zenon
(* The text is in place.                                                   *)
<1>12. (p + n) - Len(d) = p - len /\ (p + n) - 1 = p + n - 1
  BY <1>5, <1>9
<1>13. /\ d = SubSeq(s, (p + n) - Len(d), (p + n) - 1)
       /\ k = Lines(SubSeq(s, 1, (p + n) - 1))
  BY <1>6, <1>8, <1>12, Zenon
<1>14. p + n \in 1..(Len(s) + 1) /\ Len(d) <= (p + n) - 1
  BY <1>4, <1>5, <1>9
<1>15. Len(d) < (p + n) - 1 => s[(p + n) - Len(d) - 1] = ";"
  <2>1. Len(d) < (p + n) - 1 => len < p - 1
    BY <1>5, <1>9
  <2>2. len < p - 1 => s[(p - len) - 1] = ";"
    BY <1>3, Zenon DEF Placed
  <2>3. QED  BY <1>12, <2>1, <2>2, Zenon
<1>16. /\ s \in Seq(Characters) /\ p + n \in 1..(Len(s) + 1)
       /\ d \in Seq(Characters) /\ Len(d) <= (p + n) - 1
       /\ d = SubSeq(s, (p + n) - Len(d), (p + n) - 1)
       /\ Len(d) < (p + n) - 1 => s[(p + n) - Len(d) - 1] = ";"
       /\ k = Lines(SubSeq(s, 1, (p + n) - 1))
  BY <1>1, <1>9, <1>13, <1>14, <1>15, Zenon
(* So is the line of the segment.                                          *)
<1>17. Solid(c) = {h \in 1..len : c[h] \notin Space} /\ Solid(c) \in SUBSET Nat
  BY <1>5 DEF Solid
<1>18. Solid(d) = {h \in 1..(len + n) : d[h] \notin Space} /\ Solid(d) \in SUBSET Nat
  BY <1>9 DEF Solid
<1>19. st <=> Solid(c) # {}
  BY Zenon DEF Placed
<1>20. (p + n) - 1 - Len(d) = p - 1 - len
  BY <1>5, <1>9
<1>21. CASE st
  <2>1. Min(Solid(c)) \in Solid(c) /\ \A h \in Solid(c) : Min(Solid(c)) <= h
    BY <1>17, <1>19, <1>21, MinIsLeast
  <2>2. PICK m \in Nat : m = Min(Solid(c))
    BY <1>17, <2>1
  <2>3. m \in 1..len /\ c[m] \notin Space /\ \A h \in 1..len : c[h] \notin Space => m <= h
    BY <1>17, <2>1, <2>2
  <2>4. m \in Solid(d) /\ \A h \in 1..len : d[h] \notin Space => m <= h
    BY <1>10, <1>18, <2>3
  <2>5. Min(Solid(d)) \in Solid(d) /\ \A h \in Solid(d) : Min(Solid(d)) <= h
    BY <1>18, <2>4, MinIsLeast
  <2>6. \A h \in Solid(d) : m <= h
    BY <1>18, <2>3, <2>4
  <2>7. Min(Solid(d)) = m
    BY <1>18, <2>4, <2>5, <2>6
  <2>8. sl = Lines(SubSeq(s, 1, (p - 1 - len) + m))
    BY <1>3, <1>21, <2>2, Zenon DEF Placed
  <2>9. sl = Lines(SubSeq(s, 1, (p + n) - 1 - Len(d) + Min(Solid(d))))
    BY <1>20, <2>7, <2>8, Zenon
  <2>10. sl \in 1..k /\ TRUE \in BOOLEAN
    BY <1>1, <1>7
  <2>11. Solid(d) # {}
    BY <2>4
  <2>12. Placed(s, p + n, d, k, sl, TRUE)
    BY <1>7, <1>16, <2>9, <2>10, <2>11, Zenon DEF Placed
  <2>13. QED  BY <1>21, <2>12
<1>22. CASE ~st /\ s[p] \notin Space
  <2>1. len + 1 \in Solid(d)
    BY <1>11, <1>18, <1>22
  <2>2. \A h \in 1..len : d[h] \in Space
    BY <1>10, <1>17, <1>19, <1>22
  <2>3. \A h \in Solid(d) : len + 1 <= h
    BY <1>18, <2>2
  <2>4. Min(Solid(d)) \in Solid(d) /\ \A h \in Solid(d) : Min(Solid(d)) <= h
    BY <1>18, <2>1, MinIsLeast
  <2>5. Min(Solid(d)) = len + 1
    <3>1. PICK m \in Nat : m = Min(Solid(d))
      BY <1>18, <2>4
    <3>2. m <= len + 1 /\ len + 1 <= m
      BY <2>1, <2>3, <2>4, <3>1
    <3>3. QED  BY <3>1, <3>2
  <2>6. (p + n) - 1 - Len(d) + Min(Solid(d)) = p
    BY <1>5, <1>20, <2>5
  <2>7. l = Lines(SubSeq(s, 1, p))
    <3>1. s[p] # "\n"
      BY <1>22 DEF Space
    <3>2. /\ Lines(SubSeq(s, 1, p - 1)) \in Nat \ {0}
          /\ Lines(SubSeq(s, 1, p)) =
               Lines(SubSeq(s, 1, p - 1)) + (IF s[p] = "\n" THEN 1 ELSE 0)
      BY <1>1, <1>5, LinesStep
    <3>3. QED  BY <1>6, <3>1, <3>2
  <2>8. l = Lines(SubSeq(s, 1, (p + n) - 1 - Len(d) + Min(Solid(d))))
    BY <2>6, <2>7, Zenon
  <2>9. l \in 1..k /\ TRUE \in BOOLEAN
    BY <1>1, <1>7
  <2>10. Solid(d) # {}
    BY <2>1
  <2>11. Placed(s, p + n, d, k, l, TRUE)
    BY <1>7, <1>16, <2>8, <2>9, <2>10, Zenon DEF Placed
  <2>12. QED  BY <1>1, <1>22, <2>11
<1>23. CASE ~st /\ s[p] \in Space
  <2>1. n = 1
    BY <1>2, <1>23
  <2>2. \A h \in 1..len : d[h] \in Space
    BY <1>10, <1>17, <1>19, <1>23
  <2>3. Solid(d) = {}
    BY <1>11, <1>18, <1>23, <2>1, <2>2
  <2>4. sl \in 1..k /\ FALSE \in BOOLEAN
    BY <1>1, <1>7
  <2>5. Placed(s, p + n, d, k, sl, FALSE)
    BY <1>7, <1>16, <2>3, <2>4, Zenon DEF Placed
  <2>6. QED  BY <1>1, <1>23, <2>5
<1>24. QED  BY <1>1, <1>21, <1>22, <1>23

-----------------------------------------------------------------------------
(***************************************************************************)
(* The parts of an iteration keep the place.                               *)
(***************************************************************************)
(* What the place says without the texts it is made of.                    *)
LEMMA PlaceTypes ==
  ASSUME Place
  PROVE  /\ sql \in Seq(Characters) /\ Len(sql) \in Nat /\ i \in 1..(Len(sql) + 1)
         /\ current \in Seq(Characters) /\ Len(current) \in Nat /\ Len(current) <= i - 1
         /\ line \in Nat /\ segmentLine \in 1..line /\ segmentStarted \in BOOLEAN
         /\ line = Lines(SubSeq(sql, 1, i - 1))
<1>1. /\ sql \in Seq(Characters) /\ i \in 1..(Len(sql) + 1)
      /\ current \in Seq(Characters) /\ Len(current) <= i - 1
      /\ line \in Nat /\ segmentLine \in 1..line /\ segmentStarted \in BOOLEAN
      /\ line = Lines(SubSeq(sql, 1, i - 1))
  BY Zenon DEF Place, Placed
<1>2. Len(sql) \in Nat /\ Len(current) \in Nat
  BY <1>1, LenProperties
<1>3. QED  BY <1>1, <1>2, Zenon

(* The position alone.                                                     *)
LEMMA PositionType == Place => i \in Nat
BY PlaceTypes

(* Characters written with their lines counted keep the place.             *)
LEMMA WriteKeepsPlace ==
  ASSUME Place, NEW n \in Nat \ {0}, i + n - 1 <= Len(sql), n > 1 => ch \notin Space,
         Write(n), UNCHANGED sql, line' = Lines(SubSeq(sql, 1, i + n - 1))
  PROVE  Place'
<1>1. Writes(sql, i, current, n, current', line')
  BY Zenon DEF Write, Writes, ch
<1>2. Placed(sql, i + n, current', line',
             IF ~segmentStarted /\ sql[i] \notin Space THEN line ELSE segmentLine,
             segmentStarted \/ (~segmentStarted /\ sql[i] \notin Space))
  <2>1. Placed(sql, i, current, line, segmentLine, segmentStarted)
    BY Zenon DEF Place
  <2>2. QED  BY <1>1, <2>1, PlacedWrite
<1>3. /\ i' = i + n /\ sql' = sql
      /\ segmentLine' = IF ~segmentStarted /\ sql[i] \notin Space THEN line ELSE segmentLine
      /\ segmentStarted' = (segmentStarted \/ (~segmentStarted /\ sql[i] \notin Space))
  BY Zenon DEF Write, StartSegment, Starting, ch
<1>4. Placed(sql', i', current', line', segmentLine', segmentStarted')
  BY <1>2, <1>3, Zenon
<1>5. QED  BY <1>4, Zenon DEF Place

(* One character, with its line counted.                                   *)
LEMMA WriteOne ==
  ASSUME Place, i <= Len(sql), Write(1), UNCHANGED sql, CountLine
  PROVE  Place'
<1>1. /\ sql \in Seq(Characters) /\ i \in 1..Len(sql) /\ Len(sql) \in Nat /\ line \in Nat
      /\ line = Lines(SubSeq(sql, 1, i - 1))
  BY PlaceTypes
<1>2. Lines(SubSeq(sql, 1, i)) = Lines(SubSeq(sql, 1, i - 1)) + (IF ch = "\n" THEN 1 ELSE 0)
  BY <1>1, LinesStep, Zenon DEF ch
<1>3. line' = IF ch = "\n" THEN line + 1 ELSE line
  BY Zenon DEF CountLine
<1>4. line' = Lines(SubSeq(sql, 1, i)) /\ i = i + 1 - 1
  <2>1. line' = line + (IF ch = "\n" THEN 1 ELSE 0)
    BY <1>1, <1>3
  <2>2. i = i + 1 - 1
    BY <1>1
  <2>3. QED  BY <1>1, <1>2, <2>1, <2>2, Zenon
<1>5. 1 \in Nat \ {0} /\ i + 1 - 1 <= Len(sql) /\ ~(1 > 1)
  BY <1>1
<1>6. line' = Lines(SubSeq(sql, 1, i + 1 - 1))
  BY <1>4, Zenon
<1>7. QED  BY <1>5, <1>6, WriteKeepsPlace, Zenon

(* Several characters, none of which ends a line.                          *)
LEMMA WriteFlat ==
  ASSUME Place, NEW n \in Nat \ {0}, i + n - 1 <= Len(sql), ch \notin Space,
         \A k \in i..(i + n - 1) : sql[k] # "\n",
         Write(n), UNCHANGED <<sql, line>>
  PROVE  Place'
<1>1. /\ sql \in Seq(Characters) /\ i \in 1..(Len(sql) + 1) /\ Len(sql) \in Nat
      /\ line = Lines(SubSeq(sql, 1, i - 1))
  BY PlaceTypes
<1>2. /\ i - 1 \in 0..Len(sql) /\ i + n - 1 \in 0..Len(sql) /\ i - 1 <= i + n - 1
      /\ \A k \in ((i - 1) + 1)..(i + n - 1) : sql[k] # "\n"
  BY <1>1
<1>3. Lines(SubSeq(sql, 1, i - 1)) = Lines(SubSeq(sql, 1, i + n - 1))
  BY <1>1, <1>2, LinesBetween
<1>4. line' = Lines(SubSeq(sql, 1, i + n - 1))
  BY <1>1, <1>3, Zenon
<1>5. QED  BY <1>4, WriteKeepsPlace, Zenon

(* Two characters, a pair of which neither ends a line.                    *)
LEMMA WritePair ==
  ASSUME Place, NEW a, NEW b, a \notin Space, b \notin Space, Next2(a, b), i \in Nat,
         Write(2), UNCHANGED <<sql, line>>
  PROVE  Place'
<1>1. i < Len(sql) /\ sql[i] = a /\ sql[i + 1] = b /\ Len(sql) \in Nat
  BY PlaceTypes, Zenon DEF Next2
<1>2. a # "\n" /\ b # "\n"
  BY Zenon DEF Space
<1>3. /\ 2 \in Nat \ {0} /\ i + 2 - 1 <= Len(sql)
      /\ \A k \in i..(i + 2 - 1) : k = i \/ k = i + 1
  BY <1>1
<1>4. ch \notin Space
  BY <1>1, Zenon DEF ch
<1>5. \A k \in i..(i + 2 - 1) : sql[k] # "\n"
  BY <1>1, <1>2, <1>3, Zenon
<1>6. QED  BY <1>3, <1>4, <1>5, WriteFlat, Zenon

(* A tag that stands at the next characters.                               *)
LEMMA WriteTag ==
  ASSUME Place, NEW tag \in Seq(Characters), Len(tag) \in Nat \ {0},
         i + Len(tag) - 1 <= Len(sql),
         \A k \in 1..Len(tag) : sql[i + k - 1] = tag[k] /\ tag[k] \notin Space,
         Write(Len(tag)), UNCHANGED <<sql, line>>
  PROVE  Place'
<1>1. i \in Nat /\ Len(sql) \in Nat
  BY PlaceTypes
<1>2. \A k \in i..(i + Len(tag) - 1) : sql[k] \notin Space
  <2> TAKE k \in i..(i + Len(tag) - 1)
  <2>1. k - i + 1 \in 1..Len(tag) /\ i + (k - i + 1) - 1 = k
    BY <1>1
  <2>2. QED  BY <2>1, Zenon
<1>3. i \in i..(i + Len(tag) - 1)
  BY <1>1
<1>4. ch \notin Space
  BY <1>2, <1>3, Zenon DEF ch
<1>5. \A k \in i..(i + Len(tag) - 1) : sql[k] # "\n"
  BY <1>2, Zenon DEF Space
<1>6. QED  BY <1>4, <1>5, WriteFlat, Zenon

-----------------------------------------------------------------------------
(* The text of a script is a text.                                         *)
LEMMA TextOfScript ==
  ASSUME NEW tokens \in Seq(Token)
  PROVE  TextOf(tokens) \in Seq(Characters)
<1> DEFINE texts == [k \in DOMAIN tokens |-> tokens[k].text]
<1>1. DOMAIN tokens = 1..Len(tokens) /\ Len(tokens) \in Nat
  BY LenProperties
<1>2. \A k \in 1..Len(tokens) : tokens[k] \in Token
  BY ElementOfSeq
<1>3. \A k \in 1..Len(tokens) : texts[k] \in Seq(Characters)
  BY <1>1, <1>2 DEF Token
<1>4. texts \in Seq(Seq(Characters)) /\ Len(texts) = Len(tokens)
  BY <1>1, <1>3, IsASeq, LenProperties
<1>5. TextOf(tokens) = FlattenSeq(texts)
  BY Zenon DEF TextOf
<1>6. QED  BY <1>4, <1>5, FlattenInSeq

-----------------------------------------------------------------------------
(***************************************************************************)
(* The invariant holds at the start, and every step keeps it.              *)
(***************************************************************************)
(* A scan that has not begun stands at line 1, in front of everything.     *)
LEMMA InitInv == Init => Inv
<1> SUFFICES ASSUME Init  PROVE Inv
  OBVIOUS
<1>1. script \in Seq(Token)
  BY ScriptsAssumption DEF Init
<1>2. sql \in Seq(Characters) /\ Len(sql) \in Nat
  BY <1>1, TextOfScript, LenProperties DEF Init
<1>3. << >> \in Seq(Characters) /\ << >> \in Seq(Segment) /\ Len(<< >>) = 0
  BY EmptySeq
<1>4. Rest
  <2>1. /\ mode = "sql" /\ dollarTag = << >> /\ segmentHasContent = FALSE
        /\ out = << >> /\ pc = "scan"
    BY DEF Init
  <2>2. \A k \in 1..Len(dollarTag) : dollarTag[k] \notin Space
    BY <1>3, <2>1
  <2>3. QED  BY <1>1, <1>3, <2>1, <2>2 DEF Rest
<1>5. /\ i = 1 /\ current = << >> /\ line = 1 /\ segmentLine = 1
      /\ segmentStarted = FALSE
  BY DEF Init
<1>6. Solid(<< >>) = {}
  BY DEF Solid
<1>7. Lines(SubSeq(sql, 1, 0)) = 1
  <2> DEFINE newlines == {h \in 1..0 : sql[h] = "\n"}
  <2>1. Lines(SubSeq(sql, 1, 0)) = 1 + Cardinality(newlines)
    BY <1>2, LinesUpTo
  <2>2. newlines = {}
    OBVIOUS
  <2> HIDE DEF newlines
  <2>3. QED  BY <2>1, <2>2, FS_EmptySet
<1>8. SubSeq(sql, 1, 0) = << >>
  BY <1>2, SubSeqEmpty
<1>9. Placed(sql, 1, << >>, 1, 1, FALSE)
  <2>1. /\ 1 \in 1..(Len(sql) + 1) /\ Len(<< >>) <= 1 - 1 /\ 1 \in Nat /\ 1 \in 1..1
        /\ FALSE \in BOOLEAN /\ 1 - Len(<< >>) = 1 /\ 1 - 1 = 0 /\ ~(Len(<< >>) < 1 - 1)
    BY <1>2, <1>3
  <2>2. << >> = SubSeq(sql, 1 - Len(<< >>), 1 - 1) /\ 1 = Lines(SubSeq(sql, 1, 1 - 1))
    BY <1>7, <1>8, <2>1, Zenon
  <2>3. QED  BY <1>2, <1>3, <1>6, <2>1, <2>2, Zenon DEF Placed
<1>10. QED  BY <1>4, <1>5, <1>9 DEF Inv, Place

(* The text that a segment is made of, without the spaces around it.       *)
LEMMA Trimmed ==
  ASSUME NEW s \in Seq(Characters)
  PROVE  TrimSpace(s) \in Seq(Characters)
<1> DEFINE solid == {k \in DOMAIN s : s[k] \notin Space}
<1>1. DOMAIN s = 1..Len(s) /\ Len(s) \in Nat
  BY LenProperties
<1>2. CASE solid = {}
  <2>1. TrimSpace(s) = << >>
    BY <1>2, Zenon DEF TrimSpace
  <2>2. QED  BY <2>1, EmptySeq
<1>3. CASE solid # {}
  <2>1. solid \in SUBSET (1..Len(s)) /\ solid \in SUBSET Nat
    BY <1>1
  <2>2. TrimSpace(s) = SubSeq(s, Min(solid), Max(solid))
    BY <1>3, Zenon DEF TrimSpace
  <2> HIDE DEF solid
  <2>3. Min(solid) \in solid /\ Max(solid) \in solid
    BY <1>1, <1>3, <2>1, MinIsLeast, MaxIsGreatest
  <2>4. PICK a \in 1..Len(s), b \in 1..Len(s) : a = Min(solid) /\ b = Max(solid)
    BY <2>1, <2>3
  <2>5. SubSeq(s, a, b) \in Seq(Characters)
    BY <1>1, <2>4, PartOfText
  <2>6. QED  BY <2>2, <2>4, <2>5, Zenon
<1>4. QED  BY <1>2, <1>3

(* A segment that is made is appended to those there are, with its line.   *)
LEMMA EmittedType ==
  ASSUME Inv, NEW first \in Nat \ {0}
  PROVE  Emitted(first) \in Seq(Segment)
<1>1. out \in Seq(Segment) /\ current \in Seq(Characters)
  BY PlaceTypes, Zenon DEF Inv, Rest
<1>2. [sql |-> TrimSpace(current), line |-> first] \in Segment
  BY <1>1, Trimmed DEF Segment
<1>3. Append(out, [sql |-> TrimSpace(current), line |-> first]) \in Seq(Segment)
  BY <1>1, <1>2, AppendProperties
<1>4. QED  BY <1>1, <1>3, Zenon DEF Emitted

(* The steps inside comments and strings, and those that open them: each   *)
(* writes a character, or several that end no line.                        *)
LEMMA LineCommentKeeps == ASSUME Inv, LineComment  PROVE Inv'
<1>1. Place'
  BY WriteOne, Zenon DEF Inv, LineComment, In, Kept
<1>2. Rest'
  BY DEF Inv, Rest, LineComment, In, Kept
<1>3. QED  BY <1>1, <1>2, Zenon DEF Inv

(* Each step of the scanner in turn: inside of a block comment.            *)
LEMMA BlockCommentKeeps == ASSUME Inv, BlockComment  PROVE Inv'
<1>1. Place'
  <2>1. CASE Next2("*", "/") /\ Write(2)
    <3>1. "*" \notin Space /\ "/" \notin Space
      BY DEF Space
    <3>2. CountLine /\ ch = "*"
      BY <2>1, Zenon DEF BlockComment, Next2, ch
    <3>3. i \in Nat /\ line' = line
      BY <3>1, <3>2, PlaceTypes DEF Inv, CountLine, Space
    <3>4. QED  BY <2>1, <3>1, <3>3, WritePair, Zenon DEF Inv, BlockComment, Kept
  <2>2. CASE Write(1)
    BY <2>2, WriteOne, Zenon DEF Inv, BlockComment, In, Kept
  <2>3. QED  BY <2>1, <2>2, Zenon DEF BlockComment
<1>2. Rest'
  BY DEF Inv, Rest, BlockComment, In, Kept
<1>3. QED  BY <1>1, <1>2, Zenon DEF Inv

(* Inside of a string or a quoted name.                                    *)
LEMMA QuotedKeeps ==
  ASSUME Inv, NEW m \in {"single", "double"}, NEW quote \in {"'", "\""}, Quoted(m, quote)
  PROVE  Inv'
<1>1. Place'
  <2>1. CASE Next2(quote, quote) /\ Write(2)
    <3>1. quote \notin Space
      BY DEF Space
    <3>2. CountLine /\ ch = quote
      BY <2>1, Zenon DEF Quoted, Next2, ch
    <3>3. i \in Nat /\ line' = line
      <4>1. ch # "\n"
        BY <3>1, <3>2, Zenon DEF Space
      <4>2. line' = line
        BY <3>2, <4>1, Zenon DEF CountLine
      <4>3. QED  BY <4>2, PositionType, Zenon DEF Inv
    <3>4. QED  BY <2>1, <3>1, <3>3, WritePair, Zenon DEF Inv, Quoted, Kept
  <2>2. CASE Write(1)
    BY <2>2, WriteOne, Zenon DEF Inv, Quoted, In, Kept
  <2>3. QED  BY <2>1, <2>2, Zenon DEF Quoted
<1>2. Rest'
  BY DEF Inv, Rest, Quoted, In, Kept
<1>3. QED  BY <1>1, <1>2, Zenon DEF Inv

(* Where a comment begins.                                                 *)
LEMMA OpenCommentKeeps == ASSUME Inv, OpenComment  PROVE Inv'
<1>1. Place'
  <2>1. "*" \notin Space /\ "/" \notin Space /\ "-" \notin Space
    BY DEF Space
  <2>2. i \in Nat
    BY PlaceTypes DEF Inv
  <2>3. CASE Next2("-", "-")
    BY <2>1, <2>2, <2>3, WritePair, Zenon DEF Inv, OpenComment, Kept
  <2>4. CASE Next2("/", "*")
    BY <2>1, <2>2, <2>4, WritePair, Zenon DEF Inv, OpenComment, Kept
  <2>5. QED  BY <2>3, <2>4, Zenon DEF OpenComment
<1>2. Rest'
  BY DEF Inv, Rest, OpenComment, In, Kept
<1>3. QED  BY <1>1, <1>2, Zenon DEF Inv

(* Any other character.                                                    *)
LEMMA OtherKeeps == ASSUME Inv, Other  PROVE Inv'
<1>1. Place'
  BY WriteOne, Zenon DEF Inv, Other, In, Kept
<1>2. Rest'
  BY DEF Inv, Rest, Other, In, Kept, Content
<1>3. QED  BY <1>1, <1>2, Zenon DEF Inv

(* What is left of the text, character by character.                       *)
LEMMA RestOfText ==
  ASSUME Place, i <= Len(sql)
  PROVE  LET left == SubSeq(sql, i, Len(sql))
         IN  /\ left \in Seq(Characters) /\ Len(left) = Len(sql) - i + 1
             /\ \A k \in 1..Len(left) : left[k] = sql[i + k - 1]
<1>1. sql \in Seq(Characters) /\ Len(sql) \in Nat /\ i \in Nat /\ i >= 1
  BY PlaceTypes
<1>2. PICK n \in Nat : n = Len(sql)
  BY <1>1
<1>3. /\ SubSeq(sql, i, n) \in Seq(Characters)
      /\ Len(SubSeq(sql, i, n)) = IF i <= n THEN n - i + 1 ELSE 0
      /\ \A k \in 1..(n - i + 1) : SubSeq(sql, i, n)[k] = sql[i + k - 1]
  BY <1>1, <1>2, PartOfText
<1>4. Len(SubSeq(sql, i, n)) = n - i + 1
  BY <1>2, <1>3
<1>5. \A k \in 1..Len(SubSeq(sql, i, n)) : SubSeq(sql, i, n)[k] = sql[i + k - 1]
  BY <1>3, <1>4, Zenon
<1>6. QED  BY <1>2, <1>3, <1>4, <1>5, Zenon

(* A closing tag is the tag that opened the string, so it ends no line.    *)
LEMMA DollarQuotedKeeps == ASSUME Inv, DollarQuoted  PROVE Inv'
<1> DEFINE left == SubSeq(sql, i, Len(sql))
<1>1. i <= Len(sql) /\ mode = "dollar" /\ Place /\ Rest
  BY DEF DollarQuoted, In, Inv
<1>2. /\ left \in Seq(Characters) /\ Len(left) = Len(sql) - i + 1
      /\ \A k \in 1..Len(left) : left[k] = sql[i + k - 1]
  BY <1>1, RestOfText
<1>3. /\ dollarTag \in Seq(Characters) /\ dollarTag # << >>
      /\ \A k \in 1..Len(dollarTag) : dollarTag[k] \notin Space
  BY <1>1 DEF Rest
<1>4. CASE IsPrefix(dollarTag, left)
  <2>1. Write(Len(dollarTag)) /\ mode' = "sql" /\ dollarTag' = << >> /\ CountLine
    BY <1>4, Zenon DEF DollarQuoted
  <2> HIDE DEF left
  <2>2. /\ Len(dollarTag) <= Len(left)
        /\ SubSeq(dollarTag, 1, Len(dollarTag)) = SubSeq(left, 1, Len(dollarTag))
    BY <1>4, Zenon DEF IsPrefix
  <2>3. PICK n \in Nat : n = Len(dollarTag)
    BY <1>3, LenProperties
  <2>4. n \in Nat \ {0} /\ Len(left) \in Nat
    BY <1>2, <1>3, <2>3, EmptySeq, LenProperties
  <2>5. \A k \in 1..n : SubSeq(dollarTag, 1, n)[k] = dollarTag[k]
    BY <1>3, <2>3, <2>4, PartOfText
  <2>6. \A k \in 1..n : SubSeq(left, 1, n)[k] = left[k]
    BY <1>2, <2>2, <2>3, <2>4, PartOfText
  <2>7. \A k \in 1..n : dollarTag[k] = left[k]
    BY <2>2, <2>3, <2>5, <2>6, Zenon
  <2>8. \A k \in 1..n : k \in 1..Len(left)
    BY <2>2, <2>3, <2>4
  <2>9. \A k \in 1..Len(dollarTag) : sql[i + k - 1] = dollarTag[k] /\ dollarTag[k] \notin Space
    BY <1>2, <1>3, <2>3, <2>7, <2>8, Zenon
  <2>10. Len(dollarTag) \in Nat \ {0} /\ i + Len(dollarTag) - 1 <= Len(sql)
    BY <1>1, <1>2, <2>2, <2>3, <2>4, PlaceTypes
  <2>11. line' = line
    <3>1. i + 1 - 1 = i /\ 1 \in 1..Len(dollarTag)
      BY <1>1, <2>10, PlaceTypes
    <3>2. sql[i] \notin Space
      BY <2>9, <3>1, Zenon
    <3>3. QED  BY <2>1, <3>2 DEF CountLine, ch, Space
  <2>12. UNCHANGED <<sql, line>>
    BY <2>11 DEF DollarQuoted, Kept
  <2>13. Place'
    BY <1>1, <1>3, <2>1, <2>9, <2>10, <2>12, WriteTag, Zenon
  <2>14. Rest'
    <3>1. << >> \in Seq(Characters) /\ Len(<< >>) = 0
      BY EmptySeq
    <3>2. \A k \in 1..Len(dollarTag') : dollarTag'[k] \notin Space
      BY <2>1, <3>1
    <3>3. QED  BY <1>1, <2>1, <3>1, <3>2 DEF Rest, DollarQuoted, Kept
  <2>15. QED  BY <2>13, <2>14, Zenon DEF Inv
<1>5. CASE ~IsPrefix(dollarTag, left)
  <2>1. Write(1) /\ UNCHANGED <<mode, dollarTag>>
    BY <1>5, Zenon DEF DollarQuoted
  <2>2. Place'
    BY <1>1, <2>1, WriteOne, Zenon DEF DollarQuoted, Kept
  <2>3. Rest'
    BY <1>1, <2>1 DEF Rest, DollarQuoted, Kept
  <2>4. QED  BY <2>2, <2>3, Zenon DEF Inv
<1>6. QED  BY <1>4, <1>5

(* An opening tag ends no line either.                                     *)
LEMMA OpenQuoteKeeps == ASSUME Inv, OpenQuote  PROVE Inv'
<1>1. i <= Len(sql) /\ mode = "sql" /\ Place /\ Rest /\ line' = line
  BY DEF OpenQuote, In, Inv
<1>2. CASE /\ ch \in {"'", "\""} /\ mode' \in {"single", "double"}
           /\ Write(1) /\ UNCHANGED dollarTag
  <2>1. CountLine
    BY <1>1, <1>2 DEF CountLine
  <2>2. Place'
    BY <1>1, <1>2, <2>1, WriteOne, Zenon DEF OpenQuote, Kept
  <2>3. Rest'
    BY <1>1, <1>2 DEF Rest, OpenQuote, Kept, Content
  <2>4. QED  BY <2>2, <2>3, Zenon DEF Inv
<1>3. CASE /\ tagHere # << >> /\ mode' = "dollar"
           /\ dollarTag' = tagHere /\ Write(Len(tagHere))
  <2> DEFINE left == SubSeq(sql, i, Len(sql))
  <2>1. /\ left \in Seq(Characters) /\ Len(left) = Len(sql) - i + 1
        /\ \A k \in 1..Len(left) : left[k] = sql[i + k - 1]
    BY <1>1, RestOfText
  <2>2. tagHere = readDollarTag(left)
    BY Zenon DEF tagHere
  <2> HIDE DEF left
  <2>3. readDollarTag(left) # << >>
    BY <1>3, <2>2, Zenon
  <2>4. /\ tagHere \in Seq(Characters)
        /\ Len(tagHere) \in 2..Len(left)
        /\ \A k \in 1..Len(tagHere) : tagHere[k] = left[k] /\ left[k] \notin Space
    BY <2>1, <2>2, <2>3, DollarTag, Zenon
  <2>5. /\ Len(tagHere) \in Nat \ {0} /\ i + Len(tagHere) - 1 <= Len(sql)
        /\ 1..Len(tagHere) \subseteq 1..Len(left)
    BY <1>1, <2>1, <2>4, PlaceTypes
  <2>6. \A k \in 1..Len(tagHere) : sql[i + k - 1] = tagHere[k] /\ tagHere[k] \notin Space
    BY <2>1, <2>4, <2>5, Zenon
  <2>7. Place'
    BY <1>1, <1>3, <2>4, <2>5, <2>6, WriteTag, Zenon DEF OpenQuote, Kept
  <2>8. Rest'
    <3>1. /\ dollarTag' \in Seq(Characters) /\ dollarTag' # << >> /\ mode' = "dollar"
          /\ \A k \in 1..Len(dollarTag') : dollarTag'[k] \notin Space
      BY <1>3, <2>4, <2>6, Zenon
    <3>2. QED  BY <1>1, <3>1 DEF Rest, OpenQuote, Kept, Content
  <2>9. QED  BY <2>7, <2>8, Zenon DEF Inv
<1>4. QED  BY <1>2, <1>3 DEF OpenQuote

(* A separator starts a new segment just behind itself.                    *)
LEMMA SemicolonKeeps == ASSUME Inv, Semicolon  PROVE Inv'
<1>1. /\ i <= Len(sql) /\ sql[i] = ";" /\ Place /\ Rest
      /\ i' = i + 1 /\ current' = << >> /\ segmentStarted' = FALSE
      /\ sql' = sql /\ line' = line
  BY DEF Semicolon, In, Inv, ch
<1>2. /\ sql \in Seq(Characters) /\ Len(sql) \in Nat /\ i \in 1..Len(sql)
      /\ line \in Nat /\ segmentLine \in 1..line /\ line = Lines(SubSeq(sql, 1, i - 1))
  <2>1. /\ sql \in Seq(Characters) /\ Len(sql) \in Nat /\ i \in 1..(Len(sql) + 1)
        /\ line \in Nat /\ segmentLine \in 1..line /\ line = Lines(SubSeq(sql, 1, i - 1))
    BY <1>1, PlaceTypes, Zenon
  <2>2. i \in 1..Len(sql)
    <3>1. Len(sql) \in Nat /\ i \in 1..(Len(sql) + 1) /\ i <= Len(sql)
      BY <1>1, <2>1, Zenon
    <3>2. QED  BY <3>1
  <2>3. QED  BY <2>1, <2>2, Zenon
<1>3. segmentLine' \in 1..line
  <2>1. line >= 1
    BY <1>2
  <2>2. segmentLine' = line \/ segmentLine' = segmentLine
    BY DEF Semicolon
  <2>3. QED  BY <1>2, <2>1, <2>2
<1>4. << >> \in Seq(Characters) /\ Len(<< >>) = 0 /\ Solid(<< >>) = {}
  BY EmptySeq DEF Solid
<1>5. line = Lines(SubSeq(sql, 1, i))
  <2>1. /\ Lines(SubSeq(sql, 1, i - 1)) \in Nat \ {0}
        /\ Lines(SubSeq(sql, 1, i)) =
             Lines(SubSeq(sql, 1, i - 1)) + (IF sql[i] = "\n" THEN 1 ELSE 0)
    BY <1>2, LinesStep, Zenon
  <2>2. sql[i] # "\n"
    BY <1>1
  <2>3. QED  BY <1>2, <2>1, <2>2
<1>6. << >> = SubSeq(sql, i + 1, i)
  BY <1>2, SubSeqEmpty
<1>7. Placed(sql, i + 1, << >>, line, segmentLine', FALSE)
  <2>1. /\ i + 1 \in 1..(Len(sql) + 1) /\ Len(<< >>) <= (i + 1) - 1 /\ FALSE \in BOOLEAN
        /\ (i + 1) - Len(<< >>) = i + 1 /\ (i + 1) - 1 = i
    BY <1>2, <1>4
  <2>2. /\ << >> = SubSeq(sql, (i + 1) - Len(<< >>), (i + 1) - 1)
        /\ line = Lines(SubSeq(sql, 1, (i + 1) - 1))
        /\ sql[(i + 1) - Len(<< >>) - 1] = ";"
    BY <1>1, <1>5, <1>6, <2>1, Zenon
  <2>3. QED  BY <1>2, <1>3, <1>4, <2>1, <2>2, Zenon DEF Placed
<1>8. Place'
  BY <1>1, <1>7, Zenon DEF Place
<1>9. Rest'
  <2>1. segmentLine' \in Nat \ {0}
    BY <1>2, <1>3
  <2>2. out' \in Seq(Segment)
    BY <2>1, EmittedType, Zenon DEF Semicolon
  <2>3. QED  BY <1>1, <2>2 DEF Rest, Semicolon
<1>10. QED  BY <1>8, <1>9, Zenon DEF Inv

(* The end of the script changes nothing but the result.                   *)
LEMMA EndKeeps == ASSUME Inv, End  PROVE Inv'
<1>1. Place'
  BY DEF Inv, Place, End
<1>2. Rest'
  <2>1. segmentLine \in Nat \ {0} /\ << >> \in Seq(Segment)
    BY PlaceTypes, EmptySeq DEF Inv
  <2>2. out' \in Seq(Segment) /\ pc' \in {"done", "error"}
    BY <2>1, EmittedType DEF End
  <2>3. QED  BY <2>2 DEF Inv, Rest, End
<1>3. QED  BY <1>1, <1>2, Zenon DEF Inv

(* Every step keeps the invariant.                                         *)
LEMMA NextInv == Inv /\ [Next]_vars => Inv'
<1> SUFFICES ASSUME Inv, [Next]_vars  PROVE Inv'
  OBVIOUS
<1>1. CASE UNCHANGED vars
  BY <1>1 DEF Inv, Place, Rest, vars
<1>2. ASSUME SingleQuoted \/ DoubleQuoted  PROVE Inv'
  BY <1>2, QuotedKeeps, Zenon DEF SingleQuoted, DoubleQuoted
<1>3. QED
  BY <1>1, <1>2, LineCommentKeeps, BlockCommentKeeps, DollarQuotedKeeps, OpenCommentKeeps,
     OpenQuoteKeeps, SemicolonKeeps, OtherKeeps, EndKeeps, Zenon DEF Next, Done

(* The invariant holds in every state of every scan                        *)
(* (splitSQLStatementsWithLines), for every set of scripts of any length.  *)
THEOREM Invariance == Spec => []Inv
BY InitInv, NextInv, PTL DEF Spec

-----------------------------------------------------------------------------
(***************************************************************************)
(* Where the tokens of a script are in its text.                           *)
(***************************************************************************)
Texts(tokens) == [k \in DOMAIN tokens |-> tokens[k].text]

(* How many characters the first k tokens have.                            *)
Offset(tokens, k) == Size(Texts(tokens), k)

(* Tokens have texts.                                                      *)
LEMMA TokenTexts ==
  ASSUME NEW tokens \in Seq(Token)
  PROVE  /\ Texts(tokens) \in Seq(Seq(Characters)) /\ Len(Texts(tokens)) = Len(tokens)
         /\ Len(tokens) \in Nat /\ DOMAIN tokens = 1..Len(tokens)
         /\ \A k \in 1..Len(tokens) : /\ tokens[k] \in Token
                                      /\ tokens[k].text \in Seq(Characters)
                                      /\ Texts(tokens)[k] = tokens[k].text
         /\ TextOf(tokens) = FlattenSeq(Texts(tokens))
<1>1. DOMAIN tokens = 1..Len(tokens) /\ Len(tokens) \in Nat
  BY LenProperties
<1>2. \A k \in 1..Len(tokens) : tokens[k] \in Token
  BY ElementOfSeq
<1>3. \A k \in 1..Len(tokens) : tokens[k].text \in Seq(Characters)
  BY <1>2 DEF Token
<1>4. \A k \in 1..Len(tokens) : Texts(tokens)[k] = tokens[k].text
  BY <1>1 DEF Texts
<1>5. Texts(tokens) \in Seq(Seq(Characters)) /\ Len(Texts(tokens)) = Len(tokens)
  BY <1>1, <1>3, IsASeq, LenProperties DEF Texts
<1>6. TextOf(tokens) = FlattenSeq(Texts(tokens))
  BY Zenon DEF TextOf, Texts
<1>7. QED  BY <1>1, <1>2, <1>3, <1>4, <1>5, <1>6, Zenon

(* The text of some tokens of a script is a part of the script's.          *)
LEMMA TextOfPart ==
  ASSUME NEW tokens \in Seq(Token), NEW b \in 0..Len(tokens), NEW a \in 0..b
  PROVE  TextOf(SubSeq(tokens, a + 1, b)) =
           SubSeq(TextOf(tokens), Offset(tokens, a) + 1, Offset(tokens, b))
<1>1. PICK s : s = Texts(tokens)
  OBVIOUS
<1>2. /\ s \in Seq(Seq(Characters)) /\ Len(s) = Len(tokens) /\ Len(tokens) \in Nat
      /\ \A k \in 1..Len(tokens) : s[k] = tokens[k].text
      /\ TextOf(tokens) = FlattenSeq(s)
  BY <1>1, TokenTexts
<1>3. PICK r : r = SubSeq(tokens, a + 1, b)
  OBVIOUS
<1>4. PICK n \in Nat : n = b - a
  OBVIOUS
<1>5. /\ a + 1 \in Nat /\ b \in Nat /\ a + 1 >= 1 /\ b <= Len(tokens) /\ b - (a + 1) + 1 = n
      /\ (~(a + 1 <= b) => n = 0)
      /\ \A k \in 1..n : (a + 1) + k - 1 \in 1..Len(tokens)
  <2>1. /\ a \in Nat /\ b \in Nat /\ a <= b /\ b <= Len(tokens)
        /\ \A k \in 1..n : a + k \in 1..Len(tokens)
    BY <1>2, <1>4
  <2>2. QED  BY <1>4, <2>1
<1>6. r \in Seq(Token) /\ Len(r) = n /\ \A k \in 1..n : r[k] = tokens[(a + 1) + k - 1]
  <2>1. /\ SubSeq(tokens, a + 1, b) \in Seq(Token)
        /\ Len(SubSeq(tokens, a + 1, b)) = IF a + 1 <= b THEN b - (a + 1) + 1 ELSE 0
        /\ \A k \in 1..(b - (a + 1) + 1) :
             SubSeq(tokens, a + 1, b)[k] = tokens[(a + 1) + k - 1]
    BY <1>5, PartOfSeq
  <2>2. QED  BY <1>3, <1>5, <2>1
<1>7. PICK u : u = Texts(r)
  OBVIOUS
<1>8. /\ u \in Seq(Seq(Characters)) /\ Len(u) = n /\ TextOf(r) = FlattenSeq(u)
      /\ \A k \in 1..n : u[k] = r[k].text
  BY <1>6, <1>7, TokenTexts
<1>9. PICK v : v = SubSeq(s, a + 1, b)
  OBVIOUS
<1>10. /\ v \in Seq(Seq(Characters)) /\ Len(v) = n
       /\ \A k \in 1..n : v[k] = s[(a + 1) + k - 1]
  <2>1. /\ SubSeq(s, a + 1, b) \in Seq(Seq(Characters))
        /\ Len(SubSeq(s, a + 1, b)) = IF a + 1 <= b THEN b - (a + 1) + 1 ELSE 0
        /\ \A k \in 1..(b - (a + 1) + 1) : SubSeq(s, a + 1, b)[k] = s[(a + 1) + k - 1]
    BY <1>2, <1>5, PartOfSeq
  <2>2. QED  BY <1>5, <1>9, <2>1
<1>11. \A k \in 1..n : u[k] = v[k]
  BY <1>2, <1>5, <1>6, <1>8, <1>10
<1>12. u = v
  BY <1>8, <1>10, <1>11, SeqEqual
<1>13. FlattenSeq(v) = SubSeq(FlattenSeq(s), Size(s, a) + 1, Size(s, b))
  BY <1>2, <1>9, PartsInWhole
<1>14. QED  BY <1>1, <1>2, <1>3, <1>8, <1>12, <1>13, Zenon DEF Offset

(* The text of a token stands behind the texts of those before it.         *)
Stands(s, tokens, k) ==
  /\ tokens[k].text \in Seq(Characters) /\ Len(tokens[k].text) \in Nat
  /\ Offset(tokens, k - 1) \in Nat /\ Offset(tokens, k) \in Nat
  /\ Offset(tokens, k) = Offset(tokens, k - 1) + Len(tokens[k].text)
  /\ Offset(tokens, k) <= Len(s)
  /\ \A h \in 1..Len(tokens[k].text) : s[Offset(tokens, k - 1) + h] = tokens[k].text[h]

(* The first token stands at the start, the last at the end.               *)
LEMMA Offsets ==
  ASSUME NEW tokens \in Seq(Token), NEW s, s = TextOf(tokens)
  PROVE  /\ s \in Seq(Characters) /\ Len(s) \in Nat
         /\ Offset(tokens, 0) = 0 /\ Offset(tokens, Len(tokens)) = Len(s)
         /\ \A k \in 0..Len(tokens) : Offset(tokens, k) \in Nat
         /\ \A k \in 1..Len(tokens) : Stands(s, tokens, k)
<1>1. PICK u : u = Texts(tokens)
  OBVIOUS
<1>2. /\ u \in Seq(Seq(Characters)) /\ Len(u) = Len(tokens) /\ Len(tokens) \in Nat
      /\ \A k \in 1..Len(tokens) : /\ tokens[k].text \in Seq(Characters)
                                   /\ u[k] = tokens[k].text
      /\ s = FlattenSeq(u)
  BY <1>1, TokenTexts
<1>3. /\ Size(u, 0) = 0 /\ Size(u, Len(u)) = Len(FlattenSeq(u))
      /\ \A k \in 0..Len(u) : Size(u, k) \in Nat
      /\ \A k \in 1..Len(u) : Len(u[k]) \in Nat /\ Size(u, k) = Size(u, k - 1) + Len(u[k])
  BY <1>2, SizeStep
<1>4. \A k : Offset(tokens, k) = Size(u, k)
  BY <1>1, Zenon DEF Offset
<1>5. s \in Seq(Characters) /\ Len(s) \in Nat
  BY <1>2, FlattenInSeq, LenProperties
<1>6. ASSUME NEW k \in 1..Len(tokens)  PROVE Stands(s, tokens, k)
  <2>1. PICK x : x = tokens[k].text
    OBVIOUS
  <2>2. k - 1 \in 0..Len(u) /\ k \in 0..Len(u) /\ k \in 1..Len(u) /\ u[k] = x
    BY <1>2, <2>1
  <2>3. /\ x \in Seq(Characters) /\ Len(x) \in Nat
        /\ Size(u, k - 1) \in Nat /\ Size(u, k) \in Nat
        /\ Size(u, k) = Size(u, k - 1) + Len(x)
    BY <1>2, <1>3, <2>1, <2>2
  <2>4. /\ Size(u, k) <= Len(FlattenSeq(u))
        /\ \A h \in 1..Len(u[k]) : FlattenSeq(u)[Size(u, k - 1) + h] = u[k][h]
    BY <1>2, <2>2, PartInWhole
  <2>5. QED  BY <1>2, <1>4, <2>1, <2>2, <2>3, <2>4, Zenon DEF Stands
<1>7. QED  BY <1>2, <1>3, <1>4, <1>5, <1>6, Zenon

(* More tokens have no fewer characters.                                   *)
LEMMA OffsetGrows ==
  ASSUME NEW tokens \in Seq(Token), NEW b \in 0..Len(tokens), NEW a \in 0..b
  PROVE  Offset(tokens, a) <= Offset(tokens, b)
<1>1. Texts(tokens) \in Seq(Seq(Characters)) /\ Len(Texts(tokens)) = Len(tokens)
  BY TokenTexts
<1>2. QED  BY <1>1, SizeGrows, Zenon DEF Offset

(* Every character is one of a token.                                      *)
LEMMA TokenAt ==
  ASSUME NEW tokens \in Seq(Token), NEW b \in 0..Len(tokens), NEW a \in 0..b,
         NEW z \in (Offset(tokens, a) + 1)..Offset(tokens, b)
  PROVE  \E k \in (a + 1)..b :
           \E h \in 1..Len(tokens[k].text) : z = Offset(tokens, k - 1) + h
<1> DEFINE Found(d) == \E k \in (a + 1)..d :
                         \E h \in 1..Len(tokens[k].text) : z = Offset(tokens, k - 1) + h
           G == {d \in 0..(b - a) : z <= Offset(tokens, a + d) => Found(a + d)}
<1>1. /\ Len(tokens) \in Nat
      /\ \A k \in 0..Len(tokens) : Offset(tokens, k) \in Nat
      /\ \A k \in 1..Len(tokens) : /\ Len(tokens[k].text) \in Nat
                                   /\ Offset(tokens, k) =
                                        Offset(tokens, k - 1) + Len(tokens[k].text)
  <2>1. PICK s : s = TextOf(tokens)
    OBVIOUS
  <2>2. Len(tokens) \in Nat
    BY TokenTexts
  <2>3. /\ \A k \in 0..Len(tokens) : Offset(tokens, k) \in Nat
        /\ \A k \in 1..Len(tokens) : Stands(s, tokens, k)
    BY <2>1, Offsets
  <2>4. QED  BY <2>2, <2>3, Zenon DEF Stands
<1>2. z \in Nat
  <2>1. Offset(tokens, a) \in Nat /\ Offset(tokens, b) \in Nat
    BY <1>1
  <2>2. PICK o \in Nat, e \in Nat : o = Offset(tokens, a) /\ e = Offset(tokens, b)
    BY <2>1, Zenon
  <2>3. z \in (o + 1)..e
    BY <2>2
  <2>4. QED  BY <2>3
<1>3. 0 \in G
  <2>1. Offset(tokens, a) \in Nat /\ ~(z <= Offset(tokens, a)) /\ a + 0 = a /\ 0 \in 0..(b - a)
    BY <1>1, <1>2
  <2> HIDE DEF Found
  <2>2. QED  BY <2>1
<1>4. ASSUME NEW d \in 1..(b - a), d - 1 \in G  PROVE d \in G
  <2>1. PICK k \in 1..Len(tokens) : k = a + d
    BY <1>1
  <2>2. a + (d - 1) = k - 1 /\ k - 1 \in 0..Len(tokens) /\ k \in (a + 1)..k /\ d \in 0..(b - a)
    BY <1>1, <2>1
  <2>3. SUFFICES ASSUME z <= Offset(tokens, k)  PROVE Found(k)
    BY <2>1, <2>2
  <2>4. CASE z <= Offset(tokens, k - 1)
    <3>1. Found(k - 1)
      BY <1>4, <2>2, <2>4, Zenon
    <3>2. \A j \in (a + 1)..(k - 1) : j \in (a + 1)..k
      BY <1>1
    <3>3. QED  BY <3>1, <3>2, Zenon
  <2>5. CASE ~(z <= Offset(tokens, k - 1))
    <3>1. PICK o \in Nat : o = Offset(tokens, k - 1)
      BY <1>1, <2>2
    <3>2. PICK l \in Nat : l = Len(tokens[k].text)
      BY <1>1
    <3>3. Offset(tokens, k) = o + l
      BY <1>1, <3>1, <3>2
    <3>4. z - o \in 1..l /\ z = o + (z - o)
      BY <1>2, <2>3, <2>5, <3>1, <3>3
    <3>5. QED  BY <2>2, <3>1, <3>2, <3>4, Zenon
  <2>6. QED  BY <2>4, <2>5
<1>5. b - a \in Nat /\ b - a \in 0..(b - a) /\ a + (b - a) = b
  OBVIOUS
<1> HIDE DEF Found
<1>6. b - a \in G
  <2> HIDE DEF G
  <2>1. QED  BY <1>3, <1>4, <1>5, UpToNat
<1>7. z <= Offset(tokens, b)
  BY <1>1
<1>8. Found(b)
  BY <1>5, <1>6, <1>7
<1>9. QED  BY <1>8 DEF Found

-----------------------------------------------------------------------------
(***************************************************************************)
(* What the tokens of a well-formed script begin with.                     *)
(***************************************************************************)
Modes == {"line comment", "block comment", "single", "double", "dollar"}

(* The first character of what is read in a mode.                          *)
Mark(m) ==
  IF m = "line comment" THEN "-" ELSE IF m = "block comment" THEN "/"
  ELSE IF m = "single" THEN "'" ELSE IF m = "double" THEN "\"" ELSE "$"

(* How many characters begin what is read in a mode, and how many end it.  *)
Width(text, m) ==
  IF m \in {"line comment", "block comment"} THEN 2
  ELSE IF m = "dollar" THEN Len(readDollarTag(text)) ELSE 1

EndWidth(text, m) ==
  IF m = "block comment" THEN 2
  ELSE IF m = "dollar" THEN Len(readDollarTag(text)) ELSE 1

(* Outside of comments and strings a token is read character by character. *)
Loose(token) == token.kind = "space" \/ (token.kind = "content" /\ Bare(token.text))

(* A text begins with the characters of its prefix.                        *)
LEMMA PrefixChars ==
  ASSUME NEW x \in Seq(Characters), NEW a, NEW b
  PROVE  /\ IsPrefix(<<a>>, x) => Len(x) >= 1 /\ x[1] = a
         /\ IsPrefix(<<a, b>>, x) => Len(x) >= 2 /\ x[1] = a /\ x[2] = b
<1>1. ASSUME IsPrefix(<<a>>, x)  PROVE Len(x) >= 1 /\ x[1] = a
  <2>1. Len(<<a>>) = 1 /\ SubSeq(<<a>>, 1, 1)[1] = a
    OBVIOUS
  <2>2. 1 <= Len(x) /\ SubSeq(<<a>>, 1, 1) = SubSeq(x, 1, 1)
    BY <1>1, <2>1, Zenon DEF IsPrefix
  <2>3. \A k \in 1..1 : SubSeq(x, 1, 1)[k] = x[k]
    BY <2>2, PartOfText
  <2>4. QED  BY <2>1, <2>2, <2>3, LenProperties
<1>2. ASSUME IsPrefix(<<a, b>>, x)  PROVE Len(x) >= 2 /\ x[1] = a /\ x[2] = b
  <2>1. Len(<<a, b>>) = 2 /\ SubSeq(<<a, b>>, 1, 2)[1] = a /\ SubSeq(<<a, b>>, 1, 2)[2] = b
    OBVIOUS
  <2>2. 2 <= Len(x) /\ SubSeq(<<a, b>>, 1, 2) = SubSeq(x, 1, 2)
    BY <1>2, <2>1, Zenon DEF IsPrefix
  <2>3. \A k \in 1..2 : SubSeq(x, 1, 2)[k] = x[k]
    BY <2>2, PartOfText
  <2>4. QED  BY <2>1, <2>2, <2>3, LenProperties
<1>3. QED  BY <1>1, <1>2, Zenon

(* A dollar tag begins with a dollar sign, and depends on the text up to   *)
(* its end only.                                                           *)
LEMMA TagOfStart ==
  ASSUME NEW x \in Seq(Characters), readDollarTag(x) # << >>
  PROVE  /\ x[1] = "$"
         /\ \A s \in Seq(Characters) :
              Len(x) <= Len(s) /\ (\A k \in 1..Len(x) : s[k] = x[k]) =>
                readDollarTag(s) = readDollarTag(x)
<1> DEFINE Ends(s) == {k \in 2..Len(s) : s[1] = "$" /\ s[k] = "$"
                                          /\ \A h \in 2..(k - 1) : s[h] \in TagChars}
<1>1. \A s : readDollarTag(s) = IF Ends(s) = {} THEN << >> ELSE SubSeq(s, 1, Min(Ends(s)))
  BY Zenon DEF readDollarTag
<1>2. Ends(x) # {} /\ Len(x) \in Nat
  BY <1>1, LenProperties
<1>3. \A s : Ends(s) \in SUBSET Nat
  OBVIOUS
<1>4. Min(Ends(x)) \in Ends(x) /\ \A k \in Ends(x) : Min(Ends(x)) <= k
  BY <1>2, <1>3, MinIsLeast, Zenon
<1>5. PICK m : m = Min(Ends(x))
  OBVIOUS
<1>6. m \in 2..Len(x) /\ x[1] = "$" /\ m \in Ends(x)
  BY <1>4, <1>5
<1>7. ASSUME NEW s \in Seq(Characters), Len(x) <= Len(s), \A k \in 1..Len(x) : s[k] = x[k]
      PROVE  readDollarTag(s) = readDollarTag(x)
  <2>1. Len(s) \in Nat
    BY LenProperties
  <2>2. m \in Ends(s)
    <3>1. m \in 2..Len(s) /\ 1 \in 1..Len(x) /\ m \in 1..Len(x)
      BY <1>2, <1>6, <1>7, <2>1
    <3>2. s[1] = "$" /\ s[m] = "$"
      BY <1>6, <1>7, <3>1
    <3>3. \A h \in 2..(m - 1) : s[h] \in TagChars
      <4>1. \A h \in 2..(m - 1) : x[h] \in TagChars
        BY <1>6
      <4>2. \A h \in 2..(m - 1) : h \in 1..Len(x)
        BY <1>2, <1>6
      <4>3. QED  BY <1>7, <4>1, <4>2, Zenon
    <3>4. QED  BY <3>1, <3>2, <3>3
  <2>3. Min(Ends(s)) \in Ends(s) /\ \A k \in Ends(s) : Min(Ends(s)) <= k
    BY <1>3, <2>2, MinIsLeast, Zenon
  <2>4. PICK n : n = Min(Ends(s))
    OBVIOUS
  <2>5. n \in Ends(s) /\ n <= m
    BY <2>2, <2>3, <2>4, Zenon
  <2>6. n \in Ends(x)
    BY <1>2, <1>6, <1>7, <2>1, <2>5
  <2>7. m <= n
    BY <1>4, <1>5, <2>6
  <2>8. m = n
    <3>1. m \in Nat /\ n \in Nat
      BY <1>3, <1>6, <2>5
    <3>2. QED  BY <2>5, <2>7, <3>1
  <2>9. PICK y : y = SubSeq(x, 1, m)
    OBVIOUS
  <2>10. PICK z : z = SubSeq(s, 1, m)
    OBVIOUS
  <2>11. y \in Seq(Characters) /\ Len(y) = m /\ \A k \in 1..m : y[k] = x[k]
    BY <1>6, <2>9, PartOfText
  <2>12. z \in Seq(Characters) /\ Len(z) = m /\ \A k \in 1..m : z[k] = s[k]
    <3>1. m \in Nat /\ m <= Len(s) /\ 1 <= m /\ m - 1 + 1 = m
      BY <1>2, <1>6, <1>7, <2>1
    <3>2. QED  BY <2>10, <3>1, PartOfText
  <2>13. \A k \in 1..m : y[k] = z[k]
    BY <1>6, <1>7, <2>11, <2>12
  <2>14. y = z
    BY <2>11, <2>12, <2>13, SeqEqual
  <2>15. Ends(s) # {}
    BY <2>2
  <2> HIDE DEF Ends
  <2>16. readDollarTag(s) = z /\ readDollarTag(x) = y
    BY <1>1, <1>2, <1>5, <2>4, <2>8, <2>9, <2>10, <2>15, Zenon
  <2>17. QED  BY <2>14, <2>16, Zenon
<1>8. QED  BY <1>6, <1>7, Zenon

(* What begins with the marks of a mode is at least as long as they are.   *)
BeginsBy(x, m) ==
  /\ x[1] = Mark(m) /\ Len(x) \in Nat \ {0} /\ Width(x, m) \in 1..Len(x)
  /\ m = "line comment"  => x[2] = "-" /\ Len(x) >= 2
  /\ m = "block comment" => x[2] = "*" /\ Len(x) >= 2
  /\ m = "dollar" => /\ Len(readDollarTag(x)) \in 2..Len(x)
                     /\ \A k \in 1..Len(readDollarTag(x)) : readDollarTag(x)[k] = x[k]
                     /\ readDollarTag(x) \in Seq(Characters) /\ readDollarTag(x) # << >>

(* So a text that begins something begins with its marks.                  *)
LEMMA BeginsMark ==
  ASSUME NEW x \in Seq(Characters), NEW m \in Modes, Begins(x, m)
  PROVE  BeginsBy(x, m)
<1>1. Len(x) \in Nat
  BY LenProperties
<1>2. CASE m = "line comment"
  <2>1. IsPrefix(<<"-", "-">>, x)
    BY <1>2, Zenon DEF Begins
  <2>2. Len(x) >= 2 /\ x[1] = "-" /\ x[2] = "-"
    BY <2>1, PrefixChars, Zenon
  <2>3. Mark(m) = "-" /\ Width(x, m) = 2
    BY <1>2, Zenon DEF Mark, Width
  <2>4. Width(x, m) \in 1..Len(x) /\ Len(x) \in Nat \ {0}
    BY <1>1, <2>2, <2>3
  <2>5. m # "block comment" /\ m # "dollar"
    BY <1>2
  <2>6. QED  BY <2>2, <2>3, <2>4, <2>5, Zenon DEF BeginsBy
<1>3. CASE m = "block comment"
  <2>1. IsPrefix(<<"/", "*">>, x)
    BY <1>3, Zenon DEF Begins
  <2>2. Len(x) >= 2 /\ x[1] = "/" /\ x[2] = "*"
    BY <2>1, PrefixChars, Zenon
  <2>3. Mark(m) = "/" /\ Width(x, m) = 2
    BY <1>3, Zenon DEF Mark, Width
  <2>4. Width(x, m) \in 1..Len(x) /\ Len(x) \in Nat \ {0}
    BY <1>1, <2>2, <2>3
  <2>5. m # "line comment" /\ m # "dollar"
    BY <1>3
  <2>6. QED  BY <2>2, <2>3, <2>4, <2>5, Zenon DEF BeginsBy
<1>4. CASE m \in {"single", "double"}
  <2>1. IsPrefix(<<Mark(m)>>, x)
    BY <1>4, Zenon DEF Begins, Mark
  <2>2. Len(x) >= 1 /\ x[1] = Mark(m)
    BY <2>1, PrefixChars, Zenon
  <2>3. Width(x, m) = 1
    BY <1>4, Zenon DEF Width
  <2>4. Width(x, m) \in 1..Len(x) /\ Len(x) \in Nat \ {0}
    BY <1>1, <2>2, <2>3
  <2>5. m # "line comment" /\ m # "block comment" /\ m # "dollar"
    BY <1>4
  <2>6. QED  BY <2>2, <2>4, <2>5, Zenon DEF BeginsBy
<1>5. CASE m = "dollar"
  <2>1. readDollarTag(x) # << >>
    BY <1>5, Zenon DEF Begins
  <2>2. x[1] = "$"
    BY <2>1, TagOfStart
  <2>3. /\ readDollarTag(x) \in Seq(Characters)
        /\ Len(readDollarTag(x)) \in 2..Len(x)
        /\ \A k \in 1..Len(readDollarTag(x)) :
             readDollarTag(x)[k] = x[k] /\ x[k] \notin Space
    BY <2>1, DollarTag, Zenon
  <2>4. Mark(m) = "$" /\ Width(x, m) = Len(readDollarTag(x))
    BY <1>5, Zenon DEF Mark, Width
  <2>5. Width(x, m) \in 1..Len(x) /\ Len(x) \in Nat \ {0}
    BY <1>1, <2>3, <2>4
  <2>6. m # "line comment" /\ m # "block comment"
    BY <1>5
  <2>7. QED  BY <2>1, <2>2, <2>3, <2>4, <2>5, <2>6, Zenon DEF BeginsBy
<1>6. QED  BY <1>2, <1>3, <1>4, <1>5, Zenon DEF Modes

(* The marks differ, and are no spaces or semicolons.                      *)
LEMMA MarksDiffer ==
  /\ \A m, o \in Modes : Mark(m) = Mark(o) => m = o
  /\ \A m \in Modes : Mark(m) \notin Space /\ Mark(m) # ";" /\ Mark(m) \notin TagChars
                      /\ Mark(m) # "*"
<1>1. ASSUME NEW m \in Modes, NEW o \in Modes, Mark(m) = Mark(o)  PROVE m = o
  <2>1. CASE m = "line comment"
    BY <1>1, <2>1, Zenon DEF Modes, Mark
  <2>2. CASE m = "block comment"
    BY <1>1, <2>2, Zenon DEF Modes, Mark
  <2>3. CASE m = "single"
    BY <1>1, <2>3, Zenon DEF Modes, Mark
  <2>4. CASE m = "double"
    BY <1>1, <2>4, Zenon DEF Modes, Mark
  <2>5. CASE m = "dollar"
    BY <1>1, <2>5, Zenon DEF Modes, Mark
  <2>6. QED  BY <2>1, <2>2, <2>3, <2>4, <2>5, Zenon DEF Modes
<1>2. ASSUME NEW m \in Modes
      PROVE  Mark(m) \notin Space /\ Mark(m) # ";" /\ Mark(m) \notin TagChars /\ Mark(m) # "*"
  BY Zenon DEF Modes, Mark, Space, TagChars
<1>3. QED  BY <1>1, <1>2, Zenon

(* In a bare text nothing begins.                                          *)
LEMMA BareBeginsNothing ==
  ASSUME NEW x \in Seq(Characters), Bare(x), NEW m \in Modes
  PROVE  ~Begins(x, m)
<1>1. SUFFICES ASSUME Begins(x, m)  PROVE FALSE
  OBVIOUS
<1>2. BeginsBy(x, m)
  BY <1>1, BeginsMark
<1>3. x[1] = Mark(m) /\ Len(x) \in Nat \ {0}
  BY <1>2, Zenon DEF BeginsBy
<1>4. 1 \in DOMAIN x
  BY <1>3, LenProperties
<1>5. x[1] \in TagChars \cup {"*", "-", "/"}
  BY <1>4, Zenon DEF Bare
<1>6. m = "line comment" \/ m = "block comment"
  <2>1. Mark(m) \in {"-", "/"}
    BY <1>3, <1>5, MarksDiffer, Zenon
  <2>2. Mark("line comment") = "-" /\ Mark("block comment") = "/"
    BY Zenon DEF Mark
  <2>3. "line comment" \in Modes /\ "block comment" \in Modes
    BY Zenon DEF Modes
  <2>4. QED  BY <2>1, <2>2, <2>3, MarksDiffer, Zenon
<1>7. /\ m = "line comment" => x[1] = "-" /\ x[2] = "-" /\ Len(x) >= 2
      /\ m = "block comment" => x[1] = "/" /\ x[2] = "*" /\ Len(x) >= 2
  BY <1>2, Zenon DEF BeginsBy, Mark
<1>8. 1 \in 1..(Len(x) - 1) /\ 1 + 1 = 2
  <2>1. Len(x) >= 2
    BY <1>6, <1>7, Zenon
  <2>2. QED  BY <1>3, <2>1
<1>9. ~Pair(x, 1, "-", "-") /\ ~Pair(x, 1, "/", "*")
  BY <1>8, Zenon DEF Bare
<1>10. QED  BY <1>6, <1>7, <1>8, <1>9, Zenon DEF Pair

(* A token that begins something has its end where that has its.           *)
DelimitedBy(token, m) ==
  /\ \/ Complete(token.text, m) /\ ~Unclosed(token)
     \/ Cut(token.text, m) /\ Unclosed(token)
  /\ m \in {"single", "double", "dollar"} => token.kind \in {"content", "open"}
  /\ m \in {"line comment", "block comment"} => token.kind \in {"comment", "open"}
  /\ token.kind = "open" => m # "line comment" /\ Unclosed(token)
  /\ Unclosed(token) => token.kind = "open" \/ m = "line comment"
  /\ ~Loose(token) /\ token.kind # "semicolon"

(* A token that begins something is of a kind that does, and not in two ways.*)
LEMMA Delimited ==
  ASSUME NEW token \in Token, IsToken(token), NEW m \in Modes, Begins(token.text, m)
  PROVE  DelimitedBy(token, m)
<1>1. PICK x \in Seq(Characters) : x = token.text
  BY DEF Token
<1>2. BeginsBy(x, m)
  BY <1>1, BeginsMark, Zenon
<1>3. x[1] = Mark(m) /\ Len(x) \in Nat \ {0} /\ 1 \in DOMAIN x
  <2>1. x[1] = Mark(m) /\ Len(x) \in Nat \ {0}
    BY <1>2, Zenon DEF BeginsBy
  <2>2. 1 \in DOMAIN x
    BY <2>1, LenProperties
  <2>3. QED  BY <2>1, <2>2
<1>4. x[1] \notin Space /\ x[1] # ";"
  BY <1>3, MarksDiffer, Zenon
<1>5. ASSUME NEW o \in Modes, Begins(x, o)  PROVE o = m
  <2>1. x[1] = Mark(o)
    BY <1>5, BeginsMark, Zenon DEF BeginsBy
  <2>2. QED  BY <1>3, <2>1, MarksDiffer, Zenon
<1>6. ~Bare(x)
  BY <1>1, BareBeginsNothing, Zenon
<1>7. Complete(x, m) => ~Cut(x, m)
  BY <1>3, Zenon DEF Complete, Cut
<1>8. "line comment" \in Modes /\ {"single", "double", "dollar", "block comment"} \subseteq Modes
  BY Zenon DEF Modes
<1>9. /\ \A o \in Modes : Complete(x, o) => o = m
      /\ \A o \in Modes : Cut(x, o) => o = m
  BY <1>5, Zenon DEF Complete, Cut
<1>10. CASE token.kind = "semicolon" /\ x = <<";">>
  <2>1. x[1] = ";"
    BY <1>10
  <2>2. QED  BY <1>4, <2>1
<1>11. CASE token.kind = "space" /\ \A k \in DOMAIN x : x[k] \in Space
  BY <1>3, <1>4, <1>11, Zenon
<1>12. CASE /\ token.kind = "content"
            /\ \E o \in {"single", "double", "dollar"} : Complete(x, o)
  <2>1. m \in {"single", "double", "dollar"} /\ Complete(x, m)
    BY <1>8, <1>9, <1>12, Zenon
  <2>2. ~Unclosed(token) /\ ~Loose(token)
    BY <1>1, <1>6, <1>12, Zenon DEF Unclosed, Loose
  <2>3. QED  BY <1>1, <1>12, <2>1, <2>2, Zenon DEF DelimitedBy
<1>13. CASE token.kind = "comment" /\ Complete(x, "line comment")
  <2>1. m = "line comment" /\ Complete(x, m)
    BY <1>8, <1>9, <1>13, Zenon
  <2>2. ~Unclosed(token) /\ ~Loose(token)
    BY <1>1, <1>7, <1>13, <2>1, Zenon DEF Unclosed, Loose
  <2>3. QED  BY <1>1, <1>13, <2>1, <2>2, Zenon DEF DelimitedBy
<1>14. CASE token.kind = "comment" /\ Cut(x, "line comment")
  <2>1. m = "line comment" /\ Cut(x, m)
    BY <1>8, <1>9, <1>14, Zenon
  <2>2. Unclosed(token) /\ ~Loose(token)
    BY <1>1, <1>14, Zenon DEF Unclosed, Loose
  <2>3. QED  BY <1>1, <1>14, <2>1, <2>2, Zenon DEF DelimitedBy
<1>15. CASE token.kind = "comment" /\ Complete(x, "block comment")
  <2>1. m = "block comment" /\ Complete(x, m)
    BY <1>8, <1>9, <1>15, Zenon
  <2>2. ~Cut(x, "line comment")
    BY <1>8, <1>9, <2>1, Zenon
  <2>3. ~Unclosed(token) /\ ~Loose(token)
    BY <1>1, <1>15, <2>2, Zenon DEF Unclosed, Loose
  <2>4. QED  BY <1>1, <1>15, <2>1, <2>3, Zenon DEF DelimitedBy
<1>16. CASE /\ token.kind = "open"
            /\ \E o \in {"single", "double", "dollar", "block comment"} : Cut(x, o)
  <2>1. m \in {"single", "double", "dollar", "block comment"} /\ Cut(x, m)
    BY <1>8, <1>9, <1>16, Zenon
  <2>2. Unclosed(token) /\ ~Loose(token)
    BY <1>16, Zenon DEF Unclosed, Loose
  <2>3. QED  BY <1>1, <1>16, <2>1, <2>2, Zenon DEF DelimitedBy
<1>17. CASE token.kind = "content" /\ Bare(x)
  BY <1>6, <1>17
<1>18. \/ token.kind = "semicolon" /\ x = <<";">>
       \/ token.kind = "space" /\ \A k \in DOMAIN x : x[k] \in Space
       \/ token.kind = "content" /\ Bare(x)
       \/ /\ token.kind = "content"
          /\ \E o \in {"single", "double", "dollar"} : Complete(x, o)
       \/ token.kind = "comment" /\ Complete(x, "line comment")
       \/ token.kind = "comment" /\ Cut(x, "line comment")
       \/ token.kind = "comment" /\ Complete(x, "block comment")
       \/ /\ token.kind = "open"
          /\ \E o \in {"single", "double", "dollar", "block comment"} : Cut(x, o)
  BY <1>1, Zenon DEF IsToken
<1>19. QED
  BY <1>10, <1>11, <1>12, <1>13, <1>14, <1>15, <1>16, <1>17, <1>18, Zenon

(* A token is a semicolon, is read character by character, or begins       *)
(* something; it is not empty, and only space begins with a space.         *)
LEMMA Forms ==
  ASSUME NEW token \in Token, IsToken(token)
  PROVE  /\ \/ token.kind = "semicolon" /\ token.text = <<";">>
            \/ Loose(token) \/ \E m \in Modes : Begins(token.text, m)
         /\ token.text \in Seq(Characters) /\ Len(token.text) \in Nat \ {0}
         /\ token.kind # "space" => token.text[1] \notin Space
         /\ token.kind = "space" => \A k \in 1..Len(token.text) : token.text[k] \in Space
<1>1. PICK x \in Seq(Characters) : x = token.text
  BY DEF Token
<1>2. Len(x) \in Nat /\ DOMAIN x = 1..Len(x)
  BY LenProperties
<1>3. \/ token.kind = "semicolon" /\ x = <<";">>
      \/ token.kind = "space" /\ x # << >> /\ \A k \in DOMAIN x : x[k] \in Space
      \/ token.kind = "content" /\ Bare(x)
      \/ token.kind # "space" /\ \E m \in Modes : Begins(x, m)
  BY <1>1, Zenon DEF IsToken, Complete, Cut, Modes
<1>4. CASE token.kind = "semicolon" /\ x = <<";">>
  <2>1. Len(x) = 1 /\ x[1] = ";"
    BY <1>4
  <2>2. x[1] \notin Space
    BY <2>1 DEF Space
  <2>3. Len(x) \in Nat \ {0}
    <3>1. 1 \in Nat \ {0}
      OBVIOUS
    <3>2. QED  BY <2>1, <3>1, Zenon
  <2>4. token.kind # "space"
    BY <1>4, Zenon
  <2>5. QED  BY <1>1, <1>4, <2>2, <2>3, <2>4, Zenon
<1>5. CASE token.kind = "space" /\ x # << >> /\ \A k \in DOMAIN x : x[k] \in Space
  <2>1. Len(x) \in Nat \ {0}
    BY <1>5, EmptySeq
  <2>2. QED  BY <1>1, <1>2, <1>5, <2>1, Zenon DEF Loose
<1>6. CASE token.kind = "content" /\ Bare(x)
  <2>1. x # << >> /\ \A k \in DOMAIN x : x[k] \in TagChars \cup {"*", "-", "/"}
    BY <1>6, Zenon DEF Bare
  <2>2. Len(x) \in Nat \ {0}
    BY <2>1, EmptySeq
  <2>3. 1 \in DOMAIN x
    BY <1>2, <2>2
  <2>4. x[1] \notin Space
    BY <2>1, <2>3, Zenon DEF Space, TagChars
  <2>5. QED  BY <1>1, <1>6, <2>2, <2>4, Zenon DEF Loose
<1>7. CASE token.kind # "space" /\ \E m \in Modes : Begins(x, m)
  <2>1. PICK m \in Modes : Begins(x, m)
    BY <1>7
  <2>2. x[1] = Mark(m) /\ Len(x) \in Nat \ {0}
    BY <2>1, BeginsMark, Zenon DEF BeginsBy
  <2>3. x[1] \notin Space
    BY <2>2, MarksDiffer, Zenon
  <2>4. QED  BY <1>1, <1>7, <2>1, <2>2, <2>3, Zenon
<1>8. QED  BY <1>3, <1>4, <1>5, <1>6, <1>7, Zenon

(* The characters of a token that is read character by character.          *)
LEMMA LooseChars ==
  ASSUME NEW token \in Token, IsToken(token), Loose(token),
         NEW k \in 1..Len(token.text)
  PROVE  /\ token.text[k] \notin {"'", "\"", ";", "$"}
         /\ token.kind = "content" <=> token.text[k] \notin Space
         /\ token.kind \in {"space", "content"} /\ ~Unclosed(token)
         /\ k < Len(token.text) =>
              ~Pair(token.text, k, "-", "-") /\ ~Pair(token.text, k, "/", "*")
<1>1. PICK x \in Seq(Characters) : x = token.text
  BY DEF Token
<1>2. Len(x) \in Nat /\ DOMAIN x = 1..Len(x) /\ k \in DOMAIN x
  BY <1>1, LenProperties
<1>3. token.kind \in {"space", "content"} /\ ~Unclosed(token)
  BY Zenon DEF Loose, Unclosed
<1>4. CASE token.kind = "space"
  <2>1. x[k] \in Space
    BY <1>1, <1>2, <1>4, Forms, Zenon
  <2>2. x[k] \notin {"'", "\"", ";", "$"} /\ x[k] # "-" /\ x[k] # "/"
    BY <2>1, Zenon DEF Space
  <2>3. token.kind # "content"
    BY <1>4
  <2>4. QED  BY <1>1, <1>3, <2>1, <2>2, <2>3, Zenon DEF Pair
<1>5. CASE token.kind = "content"
  <2>1. Bare(x)
    BY <1>1, <1>5, Zenon DEF Loose
  <2>2. x[k] \in TagChars \cup {"*", "-", "/"}
    BY <1>2, <2>1, Zenon DEF Bare
  <2>3. x[k] \notin {"'", "\"", ";", "$"} /\ x[k] \notin Space
    BY <2>2, Zenon DEF Space, TagChars
  <2>4. k < Len(x) => k \in 1..(Len(x) - 1)
    BY <1>1, <1>2
  <2>5. k < Len(x) => ~Pair(x, k, "-", "-") /\ ~Pair(x, k, "/", "*")
    BY <2>1, <2>4, Zenon DEF Bare
  <2>6. QED  BY <1>1, <1>3, <1>5, <2>3, <2>5, Zenon
<1>6. QED  BY <1>3, <1>4, <1>5, Zenon

(* One more character is one more quote or none.                           *)
LEMMA QuotesStep ==
  ASSUME NEW x \in Seq(Characters), NEW q
  PROVE  /\ Quotes(x, q, 1) = 0
         /\ \A k \in 1..Len(x) : Quotes(x, q, k) \in Nat
         /\ \A k \in 2..Len(x) :
              Quotes(x, q, k) = Quotes(x, q, k - 1) + (IF x[k] = q THEN 1 ELSE 0)
<1> DEFINE Q(k) == {h \in 2..k : x[h] = q}
<1>1. \A k : Quotes(x, q, k) = Cardinality(Q(k))
  BY Zenon DEF Quotes
<1>2. Len(x) \in Nat
  BY LenProperties
<1>3. ASSUME NEW k \in 1..Len(x)  PROVE IsFiniteSet(Q(k)) /\ Cardinality(Q(k)) \in Nat
  <2>1. IsFiniteSet(2..k)
    BY FS_Interval
  <2>2. QED  BY <2>1, FS_Subset, FS_CardinalityType
<1>4. Quotes(x, q, 1) = 0
  <2>1. Q(1) = {}
    OBVIOUS
  <2>2. QED  BY <1>1, <2>1, FS_EmptySet
<1>5. ASSUME NEW k \in 2..Len(x)
      PROVE  Quotes(x, q, k) = Quotes(x, q, k - 1) + (IF x[k] = q THEN 1 ELSE 0)
  <2>1. k - 1 \in 1..Len(x)
    BY <1>2
  <2>2. IsFiniteSet(Q(k - 1)) /\ Cardinality(Q(k - 1)) \in Nat
    BY <1>3, <2>1
  <2>3. CASE x[k] = q
    <3>1. Q(k) = Q(k - 1) \cup {k} /\ k \notin Q(k - 1)
      BY <1>2, <2>3
    <3> HIDE DEF Q
    <3>2. Cardinality(Q(k)) = Cardinality(Q(k - 1)) + 1
      BY <2>2, <3>1, FS_AddElement
    <3>3. QED  BY <1>1, <2>3, <3>2
  <2>4. CASE x[k] # q
    <3>1. Q(k) = Q(k - 1)
      BY <1>2, <2>4
    <3> HIDE DEF Q
    <3>2. QED  BY <1>1, <2>2, <2>4, <3>1
  <2>5. QED  BY <2>3, <2>4
<1> HIDE DEF Q
<1>6. QED  BY <1>1, <1>3, <1>4, <1>5

(* The same of one character.                                              *)
LEMMA QuoteCounted ==
  ASSUME NEW x \in Seq(Characters), NEW q, NEW k \in 2..Len(x)
  PROVE  Quotes(x, q, k) = Quotes(x, q, k - 1) + (IF x[k] = q THEN 1 ELSE 0)
BY QuotesStep

-----------------------------------------------------------------------------
(***************************************************************************)
(* What the scan knows of the tokens.                                      *)
(***************************************************************************)
(* The mode and the dollar tag after p characters of a token: in a comment *)
(* or a string there is room for its end, and an open quote is not half of *)
(* a doubled one.                                                          *)
Inside(token, p, m, tag) ==
  \/ m = "sql" /\ (p = 0 \/ Loose(token))
  \/ /\ m \in Modes /\ Begins(token.text, m) /\ p >= Width(token.text, m)
     /\ \A k \in Closings(token.text, m) : p + EndWidth(token.text, m) <= k
     /\ m \in {"single", "double"} => Quotes(token.text, Mark(m), p) % 2 = 0
     /\ m = "dollar" => tag = readDollarTag(token.text)

(* The scan is p characters into the token t, or behind the last, when it  *)
(* is at position pos.                                                     *)
ReadsIn(tokens, pos, m, tag, t, p) ==
  /\ t \in 1..(Len(tokens) + 1) /\ p \in Nat
  /\ pos = Offset(tokens, t - 1) + p + 1
  /\ t = Len(tokens) + 1 => p = 0 /\ m = "sql"
  /\ t <= Len(tokens) => /\ p <= Len(tokens[t].text)
                         /\ p = Len(tokens[t].text) => Unclosed(tokens[t])
                         /\ Inside(tokens[t], p, m, tag)
  /\ \A k \in 1..(t - 1) : ~Unclosed(tokens[k])

Reads(t, p) == ReadsIn(script, i, mode, dollarTag, t, p)

(* Something of the tokens from a to b is content.                         *)
ContentIn(tokens, a, b) == \E k \in a..b : tokens[k].kind = "content"

(* Before position pos, n characters of the current segment have been read:*)
(* those of the piece behind the cut c, and whether there is content in it *)
(* is known, but in a script that ends inside a string or a comment.       *)
GathersIn(tokens, pos, n, has, t, p, c) ==
  /\ c \in Cuts(tokens) /\ c < t
  /\ \A k \in (c + 1)..(t - 1) : tokens[k].kind # "semicolon"
  /\ n = pos - 1 - Offset(tokens, c)
  /\ \/ t <= Len(tokens) /\ tokens[t].kind = "open" /\ p > 0
     \/ has <=> \/ ContentIn(tokens, c + 1, t - 1)
                \/ t <= Len(tokens) /\ tokens[t].kind = "content" /\ p > 0

(* The segments made are the statements before that piece.                 *)
Gathers(t, p, c) ==
  /\ GathersIn(script, i, Len(current), segmentHasContent, t, p, c)
  /\ AreStatements(out, script, c)

Known ==
  /\ sql = TextOf(script)
  /\ WellFormed(script) =>
       /\ pc = "scan" => \E t, p, c : Reads(t, p) /\ Gathers(t, p, c)
       /\ SplitsIntoStatements

(* Where the scan is when it is p characters into the token t, whose text  *)
(* is x: o characters are before it.                                       *)
Here(t, p, x, o) ==
  /\ t \in 1..Len(script) /\ script[t] \in Token /\ IsToken(script[t]) /\ x = script[t].text
  /\ x \in Seq(Characters) /\ Len(x) \in Nat \ {0} /\ p \in 0..(Len(x) - 1)
  /\ sql \in Seq(Characters) /\ Len(sql) \in Nat /\ o \in Nat /\ o + Len(x) <= Len(sql)
  /\ i = o + p + 1 /\ ch = x[p + 1]
  /\ \A h \in 1..Len(x) : sql[o + h] = x[h]
  /\ Inside(script[t], p, mode, dollarTag)
  /\ Unclosed(script[t]) => o + Len(x) = Len(sql)
  /\ script[t].kind = "content" /\ p + 1 = Len(x) /\ i < Len(sql) => ~Merges(x, sql[i + 1])

(* Before its end the scan is somewhere in a token.                        *)
LEMMA ScanIsHere ==
  ASSUME Inv, sql = TextOf(script), WellFormed(script), i <= Len(sql), NEW t, NEW p, Reads(t, p)
  PROVE  \E o : Here(t, p, script[t].text, o)
<1>1. script \in Seq(Token)
  BY Zenon DEF Inv, Rest
<1>2. /\ Len(script) \in Nat /\ DOMAIN script = 1..Len(script)
      /\ \A k \in 1..Len(script) : script[k] \in Token
  BY <1>1, TokenTexts, Zenon
<1>3. /\ sql \in Seq(Characters) /\ Len(sql) \in Nat
      /\ Offset(script, 0) = 0 /\ Offset(script, Len(script)) = Len(sql)
      /\ \A k \in 0..Len(script) : Offset(script, k) \in Nat
      /\ \A k \in 1..Len(script) : Stands(sql, script, k)
  BY <1>1, Offsets, Zenon
<1>4. /\ t \in 1..(Len(script) + 1) /\ p \in Nat
      /\ i = Offset(script, t - 1) + p + 1
      /\ t = Len(script) + 1 => p = 0
  BY Zenon DEF Reads, ReadsIn
<1>5. t # Len(script) + 1
  <2>1. SUFFICES ASSUME t = Len(script) + 1  PROVE FALSE
    OBVIOUS
  <2>2. t - 1 = Len(script) /\ p = 0
    BY <1>2, <1>4, <2>1
  <2>3. i = Len(sql) + 0 + 1
    BY <1>3, <1>4, <2>2
  <2>4. QED  BY <1>3, <2>3
<1>6. t \in 1..Len(script) /\ t - 1 \in 0..Len(script) /\ t <= Len(script)
  BY <1>2, <1>4, <1>5
<1>7. PICK x : x = script[t].text
  OBVIOUS
<1>8. PICK o : o = Offset(script, t - 1)
  OBVIOUS
<1>9. /\ script[t] \in Token /\ IsToken(script[t])
      /\ Unclosed(script[t]) => t = Len(script)
  BY <1>2, <1>6, Zenon DEF WellFormed
<1>10. x \in Seq(Characters) /\ Len(x) \in Nat \ {0}
  BY <1>7, <1>9, Forms, Zenon
<1>11. /\ o \in Nat /\ Offset(script, t) = o + Len(x) /\ o + Len(x) <= Len(sql)
       /\ \A h \in 1..Len(x) : sql[o + h] = x[h]
  BY <1>3, <1>6, <1>7, <1>8, Zenon DEF Stands
<1>12. /\ p <= Len(x) /\ (p = Len(x) => Unclosed(script[t]))
       /\ Inside(script[t], p, mode, dollarTag)
  BY <1>6, <1>7, Zenon DEF Reads, ReadsIn
<1>13. Unclosed(script[t]) => o + Len(x) = Len(sql)
  BY <1>3, <1>9, <1>11, Zenon
<1>14. i = o + p + 1
  BY <1>4, <1>8
<1>15. p # Len(x)
  <2>1. SUFFICES ASSUME p = Len(x)  PROVE FALSE
    OBVIOUS
  <2>2. o + Len(x) = Len(sql)
    BY <1>12, <1>13, <2>1
  <2>3. QED  BY <1>3, <1>14, <2>1, <2>2
<1>16. p \in 0..(Len(x) - 1)
  BY <1>4, <1>10, <1>12, <1>15
<1>17. ch = x[p + 1]
  <2>1. p + 1 \in 1..Len(x) /\ o + (p + 1) = i
    BY <1>10, <1>11, <1>14, <1>16
  <2>2. sql[o + (p + 1)] = x[p + 1]
    BY <1>11, <2>1
  <2>3. QED  BY <2>1, <2>2, Zenon DEF ch
<1>18. ASSUME script[t].kind = "content", p + 1 = Len(x), i < Len(sql)
       PROVE  ~Merges(x, sql[i + 1])
  <2>1. i = o + Len(x)
    BY <1>10, <1>14, <1>16, <1>18, <1>11
  <2>2. t # Len(script)
    <3>1. SUFFICES ASSUME t = Len(script)  PROVE FALSE
      OBVIOUS
    <3>2. o + Len(x) = Len(sql)
      BY <1>3, <1>11, <3>1
    <3>3. QED  BY <1>3, <1>18, <2>1, <3>2
  <2>3. t + 1 \in 1..Len(script) /\ t + 1 \in 2..Len(script) /\ (t + 1) - 1 = t
    <3>1. Len(script) \in Nat /\ t \in 1..Len(script)
      BY <1>2, <1>6, Zenon
    <3>2. QED  BY <2>2, <3>1
  <2>4. script[t + 1] \in Token /\ IsToken(script[t + 1])
    BY <1>2, <2>3, Zenon DEF WellFormed
  <2>5. Len(script[t + 1].text) \in Nat \ {0}
    BY <2>4, Forms, Zenon
  <2>6. \A h \in 1..Len(script[t + 1].text) :
          sql[Offset(script, (t + 1) - 1) + h] = script[t + 1].text[h]
    BY <1>3, <2>3, Zenon DEF Stands
  <2>7. sql[i + 1] = script[t + 1].text[1]
    <3>1. 1 \in 1..Len(script[t + 1].text)
      BY <2>5
    <3>2. sql[Offset(script, (t + 1) - 1) + 1] = script[t + 1].text[1]
      BY <2>6, <3>1
    <3>3. Offset(script, (t + 1) - 1) = i
      BY <1>11, <2>1, <2>3
    <3>4. QED  BY <3>2, <3>3
  <2>8. script[(t + 1) - 1].kind = "content" =>
          ~Merges(script[(t + 1) - 1].text, script[t + 1].text[1])
    BY <2>3, Zenon DEF WellFormed
  <2>9. QED  BY <1>7, <1>18, <2>3, <2>7, <2>8, Zenon
<1>19. Here(t, p, x, o)
  BY <1>3, <1>6, <1>7, <1>9, <1>10, <1>11, <1>12, <1>13, <1>14, <1>16, <1>17, <1>18, Zenon
  DEF Here
<1>20. QED  BY <1>7, <1>19, Zenon

(* What the scan sees next, in the token or behind it.                     *)
LEMMA SeenNext ==
  ASSUME NEW t, NEW p, NEW x, NEW o, Here(t, p, x, o), i < Len(sql)
  PROVE  /\ p + 1 < Len(x) => p + 2 <= Len(x) /\ sql[i + 1] = x[p + 2]
         /\ p + 1 = Len(x) => ~Unclosed(script[t])
<1>1. /\ x \in Seq(Characters) /\ Len(x) \in Nat \ {0} /\ p \in 0..(Len(x) - 1)
      /\ o \in Nat /\ i = o + p + 1 /\ Len(sql) \in Nat
      /\ \A h \in 1..Len(x) : sql[o + h] = x[h]
      /\ Unclosed(script[t]) => o + Len(x) = Len(sql)
  BY Zenon DEF Here
<1>2. ASSUME p + 1 < Len(x)  PROVE p + 2 <= Len(x) /\ sql[i + 1] = x[p + 2]
  <2>1. p + 2 \in 1..Len(x) /\ o + (p + 2) = i + 1
    BY <1>1, <1>2
  <2>2. sql[o + (p + 2)] = x[p + 2]
    BY <1>1, <2>1
  <2>3. QED  BY <1>1, <2>1, <2>2
<1>3. ASSUME p + 1 = Len(x), Unclosed(script[t])  PROVE FALSE
  <2>1. i = Len(sql)
    BY <1>1, <1>3
  <2>2. QED  BY <1>1, <2>1
<1>4. QED  BY <1>2, <1>3, Zenon

(* n characters more of the token t are read, from p on.                   *)
Moves(t, p, n) ==
  /\ n \in Nat \ {0} /\ p + n <= Len(script[t].text) /\ Write(n)
  /\ \/ p + n = Len(script[t].text) /\ ~Unclosed(script[t]) /\ mode' = "sql"
     \/ /\ p + n = Len(script[t].text) => Unclosed(script[t])
        /\ Inside(script[t], p + n, mode', dollarTag')
  /\ script[t].kind # "semicolon"
  /\ \/ script[t].kind = "open"
     \/ p > 0 /\ segmentHasContent' = segmentHasContent
     \/ segmentHasContent' <=> segmentHasContent \/ script[t].kind = "content"
  /\ UNCHANGED <<script, sql, out, pc>>

(* In a comment or a string, what the invariant says of it.                *)
LEMMA InsideMode ==
  ASSUME NEW t, NEW p, NEW x, NEW o, Here(t, p, x, o), mode # "sql"
  PROVE  /\ mode \in Modes /\ Begins(x, mode) /\ p >= Width(x, mode) /\ p > 0
         /\ \A k \in Closings(x, mode) : p + EndWidth(x, mode) <= k
         /\ mode \in {"single", "double"} => Quotes(x, Mark(mode), p) % 2 = 0
         /\ mode = "dollar" => dollarTag = readDollarTag(x)
         /\ BeginsBy(x, mode) /\ DelimitedBy(script[t], mode)
<1>1. /\ Inside(script[t], p, mode, dollarTag) /\ x = script[t].text /\ x \in Seq(Characters)
      /\ script[t] \in Token /\ IsToken(script[t]) /\ Len(x) \in Nat \ {0}
      /\ p \in 0..(Len(x) - 1)
  BY Zenon DEF Here
<1>2. /\ mode \in Modes /\ Begins(x, mode) /\ p >= Width(x, mode)
      /\ \A k \in Closings(x, mode) : p + EndWidth(x, mode) <= k
      /\ mode \in {"single", "double"} => Quotes(x, Mark(mode), p) % 2 = 0
      /\ mode = "dollar" => dollarTag = readDollarTag(x)
  BY <1>1, Zenon DEF Inside
<1>3. BeginsBy(x, mode) /\ DelimitedBy(script[t], mode)
  BY <1>1, <1>2, BeginsMark, Delimited, Zenon
<1>4. Width(x, mode) \in 1..Len(x)
  BY <1>3, Zenon DEF BeginsBy
<1>5. p > 0
  BY <1>1, <1>2, <1>4
<1>6. QED  BY <1>2, <1>3, <1>5, Zenon

(* Where what a token begins has its end, the token has its.               *)
LEMMA EndsAtEnd ==
  ASSUME NEW token, NEW m, DelimitedBy(token, m), NEW x, x = token.text
  PROVE  /\ \A k \in Closings(x, m) : k = Len(x) /\ ~Unclosed(token)
         /\ Len(x) \notin Closings(x, m) => Unclosed(token)
<1>1. \/ Closings(x, m) = {Len(x)} /\ ~Unclosed(token)
      \/ Closings(x, m) = {} /\ Unclosed(token)
  BY Zenon DEF DelimitedBy, Complete, Cut
<1>2. QED  BY <1>1, Zenon

(* Some characters more that do not reach the end leave the scan inside.   *)
LEMMA GoesOn ==
  ASSUME NEW t, NEW p, NEW x, NEW o, Here(t, p, x, o), mode # "sql",
         NEW n \in Nat \ {0}, p + n <= Len(x), Write(n),
         \A k \in Closings(x, mode) : p + n + EndWidth(x, mode) <= k,
         mode \in {"single", "double"} => Quotes(x, Mark(mode), p + n) % 2 = 0,
         UNCHANGED <<mode, dollarTag, segmentHasContent, script, sql, out, pc>>
  PROVE  Moves(t, p, n)
<1>1. /\ x = script[t].text /\ x \in Seq(Characters) /\ Len(x) \in Nat \ {0}
      /\ p \in 0..(Len(x) - 1)
  BY Zenon DEF Here
<1>2. /\ mode \in Modes /\ Begins(x, mode) /\ p >= Width(x, mode) /\ p > 0
      /\ mode = "dollar" => dollarTag = readDollarTag(x)
      /\ BeginsBy(x, mode) /\ DelimitedBy(script[t], mode)
  BY InsideMode, Zenon
<1>3. p + n >= Width(x, mode)
  <2>1. Width(x, mode) \in 1..Len(x)
    BY <1>2, Zenon DEF BeginsBy
  <2>2. QED  BY <1>1, <1>2, <2>1
<1>4. Inside(script[t], p + n, mode, dollarTag)
  BY <1>1, <1>2, <1>3, Zenon DEF Inside
<1>5. ASSUME p + n = Len(x)  PROVE Unclosed(script[t])
  <2>1. SUFFICES ASSUME Len(x) \in Closings(x, mode)  PROVE FALSE
    BY <1>1, <1>2, EndsAtEnd, Zenon
  <2>2. Len(x) + EndWidth(x, mode) <= Len(x)
    BY <1>5, <2>1
  <2>3. EndWidth(x, mode) \in Nat \ {0}
    <3>1. mode = "dollar" => Len(readDollarTag(x)) \in 2..Len(x)
      BY <1>2, Zenon DEF BeginsBy
    <3>2. EndWidth(x, mode) \in {1, 2} \/ EndWidth(x, mode) \in 2..Len(x)
      BY <3>1, Zenon DEF EndWidth
    <3>3. QED  BY <1>1, <3>2
  <2>4. QED  BY <1>1, <2>2, <2>3
<1>6. script[t].kind # "semicolon"
  BY <1>2, Zenon DEF DelimitedBy
<1>7. mode' = mode /\ dollarTag' = dollarTag /\ segmentHasContent' = segmentHasContent
  OBVIOUS
<1>8. Inside(script[t], p + n, mode', dollarTag')
  BY <1>4, <1>7
<1>9. UNCHANGED <<script, sql, out, pc>>
  OBVIOUS
<1>10. QED  BY <1>1, <1>2, <1>5, <1>6, <1>7, <1>8, <1>9, Zenon DEF Moves

(* Those that reach the end of what the token began are the last of it.    *)
LEMMA Ends ==
  ASSUME NEW t, NEW p, NEW x, NEW o, Here(t, p, x, o), mode # "sql",
         NEW n \in Nat \ {0}, p + n \in Closings(x, mode), Write(n), mode' = "sql",
         UNCHANGED <<segmentHasContent, script, sql, out, pc>>
  PROVE  Moves(t, p, n)
<1>1. /\ x = script[t].text /\ x \in Seq(Characters) /\ Len(x) \in Nat \ {0}
      /\ p \in 0..(Len(x) - 1)
  BY Zenon DEF Here
<1>2. p > 0 /\ DelimitedBy(script[t], mode)
  BY InsideMode, Zenon
<1>3. p + n = Len(x) /\ ~Unclosed(script[t])
  BY <1>1, <1>2, EndsAtEnd, Zenon
<1>4. p + n <= Len(x)
  BY <1>1, <1>3
<1>5. script[t].kind # "semicolon"
  BY <1>2, Zenon DEF DelimitedBy
<1>6. segmentHasContent' = segmentHasContent /\ UNCHANGED <<script, sql, out, pc>>
  OBVIOUS
<1>7. QED  BY <1>1, <1>2, <1>3, <1>4, <1>5, <1>6, Zenon DEF Moves

(* Where the ends are, mode by mode.                                       *)
ClosesAt(x, m, k) ==
  \/ m = "line comment"  /\ x[k] = "\n"
  \/ m = "block comment" /\ k >= 4 /\ x[k - 1] = "*" /\ x[k] = "/"
  \/ m \in {"single", "double"} /\ ClosingQuote(x, Mark(m), k)
  \/ m = "dollar" /\ k >= 2 * Len(readDollarTag(x))
                  /\ SubSeq(x, k - Len(readDollarTag(x)) + 1, k) = readDollarTag(x)

(* These are the positions that end what the text begins.                  *)
LEMMA ClosingsAre ==
  ASSUME NEW x \in Seq(Characters), NEW m
  PROVE  \A k : k \in Closings(x, m) <=> k \in 1..Len(x) /\ ClosesAt(x, m, k)
<1>1. DOMAIN x = 1..Len(x)
  BY LenProperties
<1>2. Mark("single") = "'" /\ Mark("double") = "\""
  BY Zenon DEF Mark
<1>3. \A k : ClosesAt(x, m, k) <=>
         \/ m = "line comment"  /\ x[k] = "\n"
         \/ m = "block comment" /\ k >= 4 /\ x[k - 1] = "*" /\ x[k] = "/"
         \/ m = "single"        /\ ClosingQuote(x, "'", k)
         \/ m = "double"        /\ ClosingQuote(x, "\"", k)
         \/ m = "dollar" /\ k >= 2 * Len(readDollarTag(x))
                         /\ SubSeq(x, k - Len(readDollarTag(x)) + 1, k) = readDollarTag(x)
  <2> TAKE k
  <2>1. m \in {"single", "double"} /\ ClosingQuote(x, Mark(m), k) <=>
          \/ m = "single" /\ ClosingQuote(x, "'", k)
          \/ m = "double" /\ ClosingQuote(x, "\"", k)
    BY <1>2, Zenon
  <2>2. QED  BY <2>1, Zenon DEF ClosesAt
<1>4. QED  BY <1>1, <1>3, Zenon DEF Closings

(* What is next when two characters are.                                   *)
LEMMA NextTwo ==
  ASSUME NEW t, NEW p, NEW x, NEW o, Here(t, p, x, o), NEW a, NEW b
  PROVE  /\ Next2(a, b) => i < Len(sql) /\ x[p + 1] = a
         /\ p + 1 < Len(x) => (Next2(a, b) <=> x[p + 1] = a /\ x[p + 2] = b)
<1>1. /\ Len(x) \in Nat \ {0} /\ p \in 0..(Len(x) - 1) /\ o \in Nat /\ i = o + p + 1
      /\ Len(sql) \in Nat /\ o + Len(x) <= Len(sql) /\ ch = x[p + 1]
  BY Zenon DEF Here
<1>2. p + 1 < Len(x) => i < Len(sql)
  BY <1>1
<1>3. p + 1 < Len(x) => sql[i + 1] = x[p + 2]
  BY <1>2, SeenNext, Zenon
<1>4. QED  BY <1>1, <1>2, <1>3, Zenon DEF Next2, ch

(* A line comment goes on to the end of its line.                          *)
LEMMA LineCommentMoves ==
  ASSUME NEW t, NEW p, NEW x, NEW o, Here(t, p, x, o), LineComment
  PROVE  Moves(t, p, 1)
<1>1. /\ mode = "line comment" /\ mode # "sql" /\ Write(1)
      /\ mode' = IF ch = "\n" THEN "sql" ELSE mode
      /\ UNCHANGED <<dollarTag, segmentHasContent, script, sql, out, pc>>
  BY DEF LineComment, In, Kept
<1>2. /\ x \in Seq(Characters) /\ Len(x) \in Nat \ {0} /\ p \in 0..(Len(x) - 1)
      /\ ch = x[p + 1]
  BY Zenon DEF Here
<1>3. p + 1 \in 1..Len(x) /\ 1 \in Nat \ {0} /\ p + 1 <= Len(x)
  BY <1>2
<1>4. p + 1 \in Closings(x, mode) <=> ch = "\n"
  <2>1. p + 1 \in Closings(x, mode) <=> ClosesAt(x, mode, p + 1)
    BY <1>2, <1>3, ClosingsAre, Zenon
  <2>2. ClosesAt(x, mode, p + 1) <=> x[p + 1] = "\n"
    BY <1>1, Zenon DEF ClosesAt
  <2>3. QED  BY <1>2, <2>1, <2>2, Zenon
<1>5. CASE ch = "\n"
  BY <1>1, <1>3, <1>4, <1>5, Ends, Zenon
<1>6. CASE ch # "\n"
  <2>1. \A k \in Closings(x, mode) : p + 1 + EndWidth(x, mode) <= k
    <3> TAKE k \in Closings(x, mode)
    <3>1. EndWidth(x, mode) = 1
      BY <1>1, Zenon DEF EndWidth
    <3>2. p + 1 <= k /\ k # p + 1 /\ k \in 1..Len(x)
      BY <1>1, <1>2, <1>4, <1>6, <3>1, InsideMode, ClosingsAre, Zenon
    <3>3. QED  BY <1>2, <3>1, <3>2
  <2>2. mode \notin {"single", "double"}
    BY <1>1
  <2>3. mode' = mode
    BY <1>1, <1>6
  <2>4. QED  BY <1>1, <1>3, <2>1, <2>2, <2>3, GoesOn, Zenon
<1>7. QED  BY <1>5, <1>6

(* A block comment goes on to the first star and slash.                    *)
LEMMA BlockCommentMoves ==
  ASSUME NEW t, NEW p, NEW x, NEW o, Here(t, p, x, o), BlockComment
  PROVE  \E n : Moves(t, p, n)
<1>1. /\ mode = "block comment" /\ mode # "sql"
      /\ \/ Next2("*", "/") /\ Write(2) /\ mode' = "sql"
         \/ ~Next2("*", "/") /\ Write(1) /\ UNCHANGED mode
      /\ UNCHANGED <<dollarTag, segmentHasContent, script, sql, out, pc>>
  BY DEF BlockComment, In, Kept
<1>2. /\ x \in Seq(Characters) /\ Len(x) \in Nat \ {0} /\ p \in 0..(Len(x) - 1)
      /\ ch = x[p + 1] /\ x = script[t].text
  BY Zenon DEF Here
<1>3. /\ Begins(x, mode) /\ p >= Width(x, mode) /\ DelimitedBy(script[t], mode)
      /\ \A k \in Closings(x, mode) : p + EndWidth(x, mode) <= k
  BY <1>1, InsideMode, Zenon
<1>4. Width(x, mode) = 2 /\ EndWidth(x, mode) = 2
  BY <1>1, Zenon DEF Width, EndWidth
<1>5. p >= 2 /\ p \in Nat
  BY <1>2, <1>3, <1>4
<1>6. p + 2 <= Len(x) => (p + 2 \in Closings(x, mode) <=> Next2("*", "/"))
  <2>1. SUFFICES ASSUME p + 2 <= Len(x)
                 PROVE  p + 2 \in Closings(x, mode) <=> Next2("*", "/")
    OBVIOUS
  <2>2. p + 1 < Len(x) /\ p + 2 \in 1..Len(x) /\ p + 2 >= 4 /\ (p + 2) - 1 = p + 1
    BY <1>2, <1>5, <2>1
  <2>3. Next2("*", "/") <=> x[p + 1] = "*" /\ x[p + 2] = "/"
    BY <2>2, NextTwo, Zenon
  <2>4. p + 2 \in Closings(x, mode) <=> ClosesAt(x, mode, p + 2)
    BY <1>2, <2>2, ClosingsAre, Zenon
  <2>5. ClosesAt(x, mode, p + 2) <=> x[(p + 2) - 1] = "*" /\ x[p + 2] = "/"
    BY <1>1, <2>2, Zenon DEF ClosesAt
  <2>6. QED  BY <2>2, <2>3, <2>4, <2>5, Zenon
<1>7. CASE Next2("*", "/")
  <2>1. Write(2) /\ mode' = "sql"
    BY <1>1, <1>7
  <2>2. p + 2 <= Len(x)
    <3>1. SUFFICES ASSUME ~(p + 2 <= Len(x))  PROVE FALSE
      OBVIOUS
    <3>2. p + 1 = Len(x) /\ ~(p + 2 <= Len(x))
      BY <1>2, <3>1
    <3>3. ~Unclosed(script[t])
      BY <1>7, <3>2, NextTwo, SeenNext, Zenon
    <3>4. Len(x) \in Closings(x, mode)
      BY <1>2, <1>3, <3>3, EndsAtEnd, Zenon
    <3>5. p + 2 <= Len(x)
      BY <1>3, <1>4, <3>4
    <3>6. QED  BY <3>2, <3>5
  <2>3. p + 2 \in Closings(x, mode) /\ 2 \in Nat \ {0}
    BY <1>6, <1>7, <2>2
  <2>4. Moves(t, p, 2)
    BY <1>1, <2>1, <2>3, Ends, Zenon
  <2>5. QED  BY <2>4
<1>8. CASE ~Next2("*", "/")
  <2>1. Write(1) /\ UNCHANGED mode
    BY <1>1, <1>8
  <2>2. \A k \in Closings(x, mode) : p + 1 + EndWidth(x, mode) <= k
    <3> TAKE k \in Closings(x, mode)
    <3>1. p + 2 <= k /\ k \in 1..Len(x)
      <4>1. p + EndWidth(x, mode) <= k /\ k \in 1..Len(x)
        BY <1>2, <1>3, ClosingsAre, Zenon
      <4>2. QED  BY <1>4, <4>1
    <3>2. k # p + 2
      <4>1. SUFFICES ASSUME k = p + 2  PROVE FALSE
        OBVIOUS
      <4>2. p + 2 <= Len(x)
        BY <1>2, <3>1, <4>1
      <4>3. p + 2 \in Closings(x, mode)
        BY <4>1
      <4>4. QED  BY <1>6, <1>8, <4>2, <4>3
    <3>3. QED  BY <1>2, <1>4, <3>1, <3>2
  <2>3. 1 \in Nat \ {0} /\ p + 1 <= Len(x)
    BY <1>2
  <2>4. mode \notin {"single", "double"}
    BY <1>1
  <2>5. Moves(t, p, 1)
    BY <1>1, <2>1, <2>2, <2>3, <2>4, GoesOn, Zenon
  <2>6. QED  BY <2>5
<1>9. QED  BY <1>7, <1>8

(* A string or a name goes on to the quote that is not one of two.         *)
LEMMA QuotedMoves ==
  ASSUME NEW t, NEW p, NEW x, NEW o, Here(t, p, x, o),
         NEW m \in {"single", "double"}, NEW q, q = Mark(m), Quoted(m, q)
  PROVE  \E n : Moves(t, p, n)
<1>1. /\ mode = m /\ mode # "sql" /\ mode \in {"single", "double"} /\ q = Mark(mode)
      /\ \/ Next2(q, q) /\ Write(2) /\ UNCHANGED mode
         \/ ch = q /\ ~Next2(q, q) /\ Write(1) /\ mode' = "sql"
         \/ ch # q /\ Write(1) /\ UNCHANGED mode
      /\ UNCHANGED <<dollarTag, segmentHasContent, script, sql, out, pc>>
  <2>1. mode = m /\ q = Mark(mode)
    BY DEF Quoted, In
  <2>2. mode # "sql" /\ mode \in {"single", "double"}
    BY <2>1
  <2>3. QED  BY <2>1, <2>2, Zenon DEF Quoted, Kept
<1>2. /\ x \in Seq(Characters) /\ Len(x) \in Nat \ {0} /\ p \in 0..(Len(x) - 1)
      /\ ch = x[p + 1] /\ x = script[t].text
      /\ script[t].kind = "content" /\ p + 1 = Len(x) /\ i < Len(sql) => ~Merges(x, sql[i + 1])
  BY Zenon DEF Here
<1>3. /\ Quotes(x, q, p) % 2 = 0 /\ p > 0 /\ DelimitedBy(script[t], mode)
      /\ \A k \in Closings(x, mode) : p + EndWidth(x, mode) <= k
  BY <1>1, InsideMode, Zenon
<1>4. EndWidth(x, mode) = 1
  BY <1>1, Zenon DEF EndWidth
<1>5. p + 1 \in 2..Len(x) /\ (p + 1) - 1 = p /\ p \in 1..Len(x)
  BY <1>2, <1>3
<1>6. /\ Quotes(x, q, p) \in Nat
      /\ Quotes(x, q, p + 1) = Quotes(x, q, p) + (IF x[p + 1] = q THEN 1 ELSE 0)
  <2>1. x \in Seq(Characters)
    BY <1>2, Zenon
  <2>2. /\ \A k \in 1..Len(x) : Quotes(x, q, k) \in Nat
        /\ \A k \in 2..Len(x) :
             Quotes(x, q, k) = Quotes(x, q, k - 1) + (IF x[k] = q THEN 1 ELSE 0)
    BY <2>1, QuotesStep, Zenon
  <2>3. QED  BY <1>5, <2>1, <2>2, Zenon
<1>7. \A k : k \in Closings(x, mode) <=> k \in 1..Len(x) /\ ClosingQuote(x, q, k)
  <2>1. mode # "line comment" /\ mode # "block comment" /\ mode # "dollar"
    BY <1>1
  <2>2. \A k : ClosesAt(x, mode, k) <=> ClosingQuote(x, q, k)
    BY <1>1, <2>1, Zenon DEF ClosesAt
  <2>3. QED  BY <1>2, <2>2, ClosingsAre, Zenon
<1>8. \A k \in Closings(x, mode) : k \in 1..Len(x) /\ p + 1 <= k
  BY <1>3, <1>4, <1>7, Zenon
<1>9. 1 \in Nat \ {0} /\ 2 \in Nat \ {0} /\ p + 1 <= Len(x)
  BY <1>2
<1>10. CASE Next2(q, q) /\ Write(2) /\ UNCHANGED mode
  <2>1. x[p + 1] = q /\ i < Len(sql) /\ sql[i + 1] = q
    <3>1. x[p + 1] = q /\ i < Len(sql)
      BY <1>10, NextTwo, Zenon
    <3>2. QED  BY <1>10, <3>1, Zenon DEF Next2
  <2>2. p + 2 <= Len(x)
    <3>1. SUFFICES ASSUME ~(p + 2 <= Len(x))  PROVE FALSE
      OBVIOUS
    <3>2. p + 1 = Len(x)
      BY <1>2, <3>1
    <3>3. ~Unclosed(script[t])
      BY <2>1, <3>2, SeenNext, Zenon
    <3>4. script[t].kind = "content"
      BY <1>1, <1>3, <3>3, Zenon DEF DelimitedBy
    <3>5. ~Merges(x, q)
      BY <1>2, <2>1, <3>2, <3>4, Zenon
    <3>6. x[Len(x)] = q
      BY <2>1, <3>2
    <3>7. <<q, q>> \in {<<"'", "'">>, <<"\"", "\"">>, <<"-", "-">>, <<"/", "*">>}
      BY <1>1, Zenon DEF Mark
    <3>8. QED  BY <3>5, <3>6, <3>7, Zenon DEF Merges
  <2>3. p + 1 < Len(x) /\ p + 2 \in 2..Len(x) /\ (p + 2) - 1 = p + 1 /\ (p + 1) + 1 = p + 2
    BY <1>2, <2>2
  <2>4. x[p + 2] = q
    BY <1>10, <2>3, NextTwo, Zenon
  <2>5. Quotes(x, q, p + 2) = Quotes(x, q, p) + 2
    <3>1. PICK k \in 2..Len(x) : k = p + 2
      BY <2>3
    <3>2. Quotes(x, q, p + 2) = Quotes(x, q, p + 1) + 1
      <4>1. Quotes(x, q, k) = Quotes(x, q, k - 1) + (IF x[k] = q THEN 1 ELSE 0)
        BY <1>2, <3>1, QuoteCounted
      <4>2. k - 1 = p + 1 /\ x[k] = q
        BY <2>3, <2>4, <3>1
      <4>3. Quotes(x, q, k) = Quotes(x, q, p + 1) + 1
        BY <4>1, <4>2, Zenon
      <4>4. QED  BY <3>1, <4>3, Zenon
    <3>3. Quotes(x, q, p + 1) = Quotes(x, q, p) + 1
      BY <1>6, <2>1, Zenon
    <3>4. QED  BY <1>6, <3>2, <3>3
  <2>6. Quotes(x, q, p + 2) % 2 = 0
    BY <1>3, <1>6, <2>5
  <2>7. \A k \in Closings(x, mode) : p + 2 + EndWidth(x, mode) <= k
    <3> TAKE k \in Closings(x, mode)
    <3>1. k \in 1..Len(x) /\ p + 1 <= k /\ ClosingQuote(x, q, k)
      BY <1>7, <1>8, Zenon
    <3>2. k # p + 1
      <4>1. SUFFICES ASSUME k = p + 1  PROVE FALSE
        OBVIOUS
      <4>2. x[(p + 1) + 1] # q
        BY <2>3, <3>1, <4>1, Zenon DEF ClosingQuote
      <4>3. QED  BY <2>3, <2>4, <4>2, Zenon
    <3>3. k # p + 2
      <4>1. SUFFICES ASSUME k = p + 2  PROVE FALSE
        OBVIOUS
      <4>2. Quotes(x, q, p + 2) % 2 = 1
        BY <3>1, <4>1, Zenon DEF ClosingQuote
      <4>3. QED  BY <2>6, <4>2
    <3>4. QED  BY <1>2, <1>4, <3>1, <3>2, <3>3
  <2>8. Quotes(x, Mark(mode), p + 2) % 2 = 0
    BY <1>1, <2>6, Zenon
  <2>9. Moves(t, p, 2)
    BY <1>1, <1>9, <1>10, <2>2, <2>7, <2>8, GoesOn, Zenon
  <2>10. QED  BY <2>9
<1>11. CASE ch = q /\ ~Next2(q, q) /\ Write(1) /\ mode' = "sql"
  <2>1. Quotes(x, q, p + 1) = Quotes(x, q, p) + 1
    BY <1>2, <1>6, <1>11, Zenon
  <2>2. Quotes(x, q, p + 1) % 2 = 1
    BY <1>3, <1>6, <2>1
  <2>3. p + 1 < Len(x) => x[(p + 1) + 1] # q
    <3>1. SUFFICES ASSUME p + 1 < Len(x), x[(p + 1) + 1] = q  PROVE FALSE
      OBVIOUS
    <3>2. (p + 1) + 1 = p + 2
      BY <1>2
    <3>3. x[p + 2] = q /\ x[p + 1] = q
      BY <1>2, <1>11, <3>1, <3>2
    <3>4. Next2(q, q) <=> x[p + 1] = q /\ x[p + 2] = q
      BY <3>1, NextTwo, Zenon
    <3>5. QED  BY <1>11, <3>3, <3>4, Zenon
  <2>4. ClosingQuote(x, q, p + 1)
    BY <1>2, <1>5, <1>11, <2>2, <2>3, Zenon DEF ClosingQuote
  <2>5. p + 1 \in Closings(x, mode)
    <3>1. p + 1 \in 1..Len(x)
      BY <1>5
    <3>2. QED  BY <1>7, <2>4, <3>1, Zenon
  <2>6. Moves(t, p, 1)
    BY <1>1, <1>9, <1>11, <2>5, Ends, Zenon
  <2>7. QED  BY <2>6
<1>12. CASE ch # q /\ Write(1) /\ UNCHANGED mode
  <2>1. Quotes(x, q, p + 1) = Quotes(x, q, p) + 0
    BY <1>2, <1>6, <1>12, Zenon
  <2>2. Quotes(x, q, p + 1) % 2 = 0
    BY <1>3, <1>6, <2>1
  <2>3. \A k \in Closings(x, mode) : p + 1 + EndWidth(x, mode) <= k
    <3> TAKE k \in Closings(x, mode)
    <3>1. k \in 1..Len(x) /\ p + 1 <= k /\ x[k] = q
      BY <1>7, <1>8, Zenon DEF ClosingQuote
    <3>2. k # p + 1
      BY <1>2, <1>12, <3>1, Zenon
    <3>3. QED  BY <1>2, <1>4, <3>1, <3>2
  <2>4. Quotes(x, Mark(mode), p + 1) % 2 = 0
    BY <1>1, <2>2, Zenon
  <2>5. Moves(t, p, 1)
    BY <1>1, <1>9, <1>12, <2>3, <2>4, GoesOn, Zenon
  <2>6. QED  BY <2>5
<1>13. QED  BY <1>1, <1>10, <1>11, <1>12, Zenon

(* A tag is in a text at a position when its characters are.               *)
LEMMA TagAt ==
  ASSUME NEW s \in Seq(Characters), NEW tag \in Seq(Characters), NEW k \in Nat,
         k + Len(tag) <= Len(s)
  PROVE  SubSeq(s, k + 1, k + Len(tag)) = tag <=> \A h \in 1..Len(tag) : s[k + h] = tag[h]
<1>0. PICK l \in Nat : l = Len(tag)
  BY LenProperties
<1>1. PICK z : z = SubSeq(s, k + 1, k + l)
  OBVIOUS
<1>2. z \in Seq(Characters) /\ Len(z) = l /\ \A h \in 1..l : z[h] = s[k + h]
  <2>1. PICK b \in Nat : b = k + l
    OBVIOUS
  <2>2. k <= b /\ b <= Len(s) /\ b - k = l
    BY <1>0, <2>1
  <2>3. z = SubSeq(s, k + 1, b)
    BY <1>1, <2>1, Zenon
  <2>4. k \in Nat /\ b \in Nat /\ k <= b /\ b <= Len(s)
    BY <2>2
  <2>5. z \in Seq(Characters) /\ Len(z) = b - k /\ \A h \in 1..(b - k) : z[h] = s[k + h]
    BY <2>3, <2>4, PartBehind, Zenon
  <2>6. QED  BY <2>2, <2>5, Zenon
<1>3. ASSUME z = tag  PROVE \A h \in 1..l : s[k + h] = tag[h]
  BY <1>2, <1>3, Zenon
<1>4. ASSUME \A h \in 1..l : s[k + h] = tag[h]  PROVE z = tag
  <2>1. \A h \in 1..l : z[h] = tag[h]
    BY <1>2, <1>4, Zenon
  <2>2. QED  BY <1>0, <1>2, <2>1, SeqEqual
<1>5. QED  BY <1>0, <1>1, <1>3, <1>4, Zenon

(* A dollar-quoted string goes on to its tag.                              *)
LEMMA DollarQuotedMoves ==
  ASSUME NEW t, NEW p, NEW x, NEW o, Here(t, p, x, o), DollarQuoted
  PROVE  \E n : Moves(t, p, n)
<1> DEFINE left == SubSeq(sql, i, Len(sql))
           closes == IsPrefix(dollarTag, left)
<1>1. /\ mode = "dollar" /\ mode # "sql" /\ mode \notin {"single", "double"}
      /\ \/ closes /\ Write(Len(dollarTag)) /\ mode' = "sql"
         \/ ~closes /\ Write(1) /\ UNCHANGED <<mode, dollarTag>>
      /\ UNCHANGED <<segmentHasContent, script, sql, out, pc>>
  <2>1. mode = "dollar"
    BY DEF DollarQuoted, In
  <2>2. mode # "sql" /\ mode \notin {"single", "double"}
    BY <2>1
  <2>3. \/ closes /\ Write(Len(dollarTag)) /\ mode' = "sql"
        \/ ~closes /\ Write(1) /\ UNCHANGED <<mode, dollarTag>>
    BY Zenon DEF DollarQuoted
  <2> HIDE DEF closes
  <2>4. QED  BY <2>1, <2>2, <2>3, Zenon DEF DollarQuoted, Kept
<1>2. /\ x \in Seq(Characters) /\ Len(x) \in Nat \ {0} /\ p \in 0..(Len(x) - 1)
      /\ ch = x[p + 1] /\ x = script[t].text /\ sql \in Seq(Characters) /\ Len(sql) \in Nat
      /\ o \in Nat /\ o + Len(x) <= Len(sql) /\ i = o + p + 1
      /\ \A h \in 1..Len(x) : sql[o + h] = x[h]
      /\ Unclosed(script[t]) => o + Len(x) = Len(sql)
  BY Zenon DEF Here
<1>3. /\ p >= Width(x, mode) /\ DelimitedBy(script[t], mode) /\ BeginsBy(x, mode)
      /\ \A k \in Closings(x, mode) : p + EndWidth(x, mode) <= k
      /\ dollarTag = readDollarTag(x)
  BY <1>1, InsideMode, Zenon
<1>4. PICK l : l = Len(dollarTag)
  OBVIOUS
<1>5. /\ Width(x, mode) = l /\ EndWidth(x, mode) = l /\ l \in 2..Len(x)
      /\ dollarTag \in Seq(Characters)
  <2>1. Width(x, mode) = l /\ EndWidth(x, mode) = l
    BY <1>1, <1>3, <1>4, Zenon DEF Width, EndWidth
  <2>2. l \in 2..Len(x) /\ dollarTag \in Seq(Characters)
    BY <1>1, <1>3, <1>4, Zenon DEF BeginsBy
  <2>3. QED  BY <2>1, <2>2
<1>6. p >= l /\ l \in Nat \ {0} /\ p \in Nat
  BY <1>2, <1>3, <1>5
<1>7. \A k : k \in Closings(x, mode) <=>
         k \in 1..Len(x) /\ k >= 2 * l /\ SubSeq(x, k - l + 1, k) = dollarTag
  <2>1. \A k : ClosesAt(x, mode, k) <=>
           k >= 2 * l /\ SubSeq(x, k - l + 1, k) = dollarTag
    BY <1>1, <1>3, <1>4, Zenon DEF ClosesAt
  <2>2. QED  BY <1>2, <2>1, ClosingsAre, Zenon
<1>8. /\ left \in Seq(Characters) /\ Len(left) = Len(sql) - i + 1
      /\ \A k \in 1..Len(left) : left[k] = sql[i + k - 1]
  <2>1. PICK n \in Nat : n = Len(sql)
    BY <1>2
  <2>2. i \in Nat /\ i >= 1 /\ i <= n
    BY <1>2, <2>1
  <2>3. /\ SubSeq(sql, i, n) \in Seq(Characters)
        /\ Len(SubSeq(sql, i, n)) = IF i <= n THEN n - i + 1 ELSE 0
        /\ \A k \in 1..(n - i + 1) : SubSeq(sql, i, n)[k] = sql[i + k - 1]
    BY <1>2, <2>1, <2>2, PartOfText
  <2>4. QED  BY <2>1, <2>2, <2>3, Zenon
<1> HIDE DEF left
<1>9. Len(left) = Len(sql) - o - p
  BY <1>2, <1>8
<1>10. p + l <= Len(x) => (p + l \in Closings(x, mode) <=> closes)
  <2>1. SUFFICES ASSUME p + l <= Len(x)  PROVE p + l \in Closings(x, mode) <=> closes
    OBVIOUS
  <2>2. /\ p + l \in 1..Len(x) /\ p + l >= 2 * l /\ (p + l) - l + 1 = p + 1
        /\ l <= Len(left) /\ l \in Nat /\ p \in Nat
    BY <1>2, <1>6, <1>9, <2>1
  <2>3. p + l \in Closings(x, mode) <=> SubSeq(x, p + 1, p + l) = dollarTag
    BY <1>7, <2>2, Zenon
  <2>4. SubSeq(x, p + 1, p + l) = dollarTag <=> \A h \in 1..l : x[p + h] = dollarTag[h]
    <3>1. /\ x \in Seq(Characters) /\ dollarTag \in Seq(Characters)
          /\ p \in Nat /\ p + Len(dollarTag) <= Len(x)
      BY <1>2, <1>4, <1>5, <2>1, <2>2
    <3>2. SubSeq(x, p + 1, p + Len(dollarTag)) = dollarTag <=>
            \A h \in 1..Len(dollarTag) : x[p + h] = dollarTag[h]
      BY <3>1, TagAt
    <3>3. QED  BY <1>4, <3>2, Zenon
  <2>5. closes <=> SubSeq(left, 1, l) = dollarTag
    <3>1. SubSeq(dollarTag, 1, l) = dollarTag
      BY <1>4, <1>5, SubSeqFull, Zenon
    <3>2. QED  BY <1>4, <2>2, <3>1, Zenon DEF IsPrefix
  <2>6. SubSeq(left, 1, l) = dollarTag <=> \A h \in 1..l : left[h] = dollarTag[h]
    <3>1. /\ left \in Seq(Characters) /\ dollarTag \in Seq(Characters)
          /\ 0 \in Nat /\ 0 + Len(dollarTag) <= Len(left)
      BY <1>4, <1>5, <1>8, <2>2
    <3>2. SubSeq(left, 0 + 1, 0 + Len(dollarTag)) = dollarTag <=>
            \A h \in 1..Len(dollarTag) : left[0 + h] = dollarTag[h]
      BY <3>1, TagAt
    <3>3. 0 + 1 = 1 /\ 0 + l = l /\ \A h \in 1..l : 0 + h = h
      BY <2>2
    <3>4. QED  BY <1>4, <3>2, <3>3, Zenon
  <2>7. \A h \in 1..l : left[h] = x[p + h]
    <3> TAKE h \in 1..l
    <3>1. /\ h \in 1..Len(left) /\ p + h \in 1..Len(x) /\ i + h - 1 = o + (p + h)
      BY <1>2, <1>6, <2>1, <2>2
    <3>2. left[h] = sql[i + h - 1]
      BY <1>8, <3>1
    <3>3. sql[o + (p + h)] = x[p + h]
      BY <1>2, <3>1
    <3>4. QED  BY <3>1, <3>2, <3>3, Zenon
  <2>8. QED  BY <2>3, <2>4, <2>5, <2>6, <2>7, Zenon
<1>11. CASE closes /\ Write(Len(dollarTag)) /\ mode' = "sql"
  <2>1. p + l <= Len(x)
    <3>1. CASE Unclosed(script[t])
      <4>1. l <= Len(left)
        BY <1>4, <1>11, Zenon DEF IsPrefix
      <4>2. QED  BY <1>2, <1>6, <1>9, <3>1, <4>1
    <3>2. CASE ~Unclosed(script[t])
      <4>1. Len(x) \in Closings(x, mode)
        BY <1>2, <1>3, <3>2, EndsAtEnd, Zenon
      <4>2. QED  BY <1>3, <1>5, <4>1
    <3>3. QED  BY <3>1, <3>2
  <2>2. p + l \in Closings(x, mode)
    BY <1>10, <1>11, <2>1
  <2>3. Write(l)
    BY <1>4, <1>11
  <2>4. Moves(t, p, l)
    BY <1>1, <1>6, <1>11, <2>2, <2>3, Ends, Zenon
  <2>5. QED  BY <2>4
<1>12. CASE ~closes /\ Write(1) /\ UNCHANGED <<mode, dollarTag>>
  <2>1. \A k \in Closings(x, mode) : p + 1 + EndWidth(x, mode) <= k
    <3> TAKE k \in Closings(x, mode)
    <3>1. p + l <= k /\ k \in 1..Len(x)
      BY <1>3, <1>5, <1>7, Zenon
    <3>2. k # p + l
      <4>1. SUFFICES ASSUME k = p + l  PROVE FALSE
        OBVIOUS
      <4>2. p + l <= Len(x)
        BY <1>2, <3>1, <4>1
      <4>3. QED  BY <1>10, <1>12, <4>1, <4>2
    <3>3. QED  BY <1>2, <1>5, <1>6, <3>1, <3>2
  <2>2. 1 \in Nat \ {0} /\ p + 1 <= Len(x)
    BY <1>2
  <2>3. Write(1) /\ UNCHANGED <<mode, dollarTag, segmentHasContent, script, sql, out, pc>>
    BY <1>1, <1>12
  <2> HIDE DEF closes
  <2>4. Moves(t, p, 1)
    BY <1>1, <2>1, <2>2, <2>3, GoesOn, Zenon
  <2>5. QED  BY <2>4
<1>13. QED  BY <1>1, <1>11, <1>12, Zenon

-----------------------------------------------------------------------------
(***************************************************************************)
(* Outside of comments and strings: what the scan sees tells what kind of  *)
(* token it is in.                                                         *)
(***************************************************************************)
(* In a token read character by character nothing begins, nor ends.        *)
LEMMA LooseSees ==
  ASSUME NEW t, NEW p, NEW x, NEW o, Here(t, p, x, o), Loose(script[t])
  PROVE  /\ ch \notin {"'", "\"", ";", "$"} /\ ~Next2("-", "-") /\ ~Next2("/", "*")
         /\ script[t].kind = "content" <=> ch \notin Space
         /\ script[t].kind \in {"space", "content"} /\ ~Unclosed(script[t])
<1>1. /\ x \in Seq(Characters) /\ Len(x) \in Nat \ {0} /\ p \in 0..(Len(x) - 1)
      /\ ch = x[p + 1] /\ x = script[t].text /\ script[t] \in Token /\ IsToken(script[t])
      /\ script[t].kind = "content" /\ p + 1 = Len(x) /\ i < Len(sql) => ~Merges(x, sql[i + 1])
  BY Zenon DEF Here
<1>2. PICK k \in 1..Len(script[t].text) : k = p + 1
  BY <1>1
<1>3. /\ script[t].text[k] \notin {"'", "\"", ";", "$"}
      /\ script[t].kind = "content" <=> script[t].text[k] \notin Space
      /\ script[t].kind \in {"space", "content"} /\ ~Unclosed(script[t])
      /\ k < Len(script[t].text) => /\ ~Pair(script[t].text, k, "-", "-")
                                    /\ ~Pair(script[t].text, k, "/", "*")
  BY <1>1, LooseChars
<1>4. /\ ch \notin {"'", "\"", ";", "$"}
      /\ script[t].kind = "content" <=> ch \notin Space
  BY <1>1, <1>2, <1>3, Zenon
<1>5. k < Len(x) => ~Pair(x, k, "-", "-") /\ ~Pair(x, k, "/", "*")
  BY <1>1, <1>3, Zenon
<1>6. ASSUME NEW a, NEW b, <<a, b>> \in {<<"-", "-">>, <<"/", "*">>}, Next2(a, b)
      PROVE  FALSE
  <2>1. ch = a /\ i < Len(sql) /\ sql[i + 1] = b
    BY <1>6, Zenon DEF Next2, ch
  <2>2. (a = "-" /\ b = "-") \/ (a = "/" /\ b = "*")
    BY <1>6
  <2>3. CASE k < Len(x)
    <3>1. p + 1 < Len(x) /\ k + 1 = p + 2
      BY <1>1, <1>2, <2>3
    <3>2. x[p + 1] = a /\ x[p + 2] = b
      BY <1>6, <3>1, NextTwo, Zenon
    <3>3. x[k] = a /\ x[k + 1] = b
      BY <1>2, <3>1, <3>2, Zenon
    <3>4. Pair(x, k, a, b)
      BY <3>3, Zenon DEF Pair
    <3>5. QED  BY <1>5, <2>2, <2>3, <3>4, Zenon
  <2>4. CASE ~(k < Len(x))
    <3>1. p + 1 = Len(x)
      BY <1>1, <1>2, <2>4
    <3>2. a \notin Space
      BY <2>2, Zenon DEF Space
    <3>3. script[t].kind = "content"
      BY <1>4, <2>1, <3>2, Zenon
    <3>4. ~Merges(x, b)
      BY <1>1, <2>1, <3>1, <3>3, Zenon
    <3>5. x[Len(x)] = a
      BY <1>1, <2>1, <3>1, Zenon
    <3>6. <<a, b>> \in {<<"'", "'">>, <<"\"", "\"">>, <<"-", "-">>, <<"/", "*">>}
      BY <2>2, Zenon
    <3>7. QED  BY <3>4, <3>5, <3>6, Zenon DEF Merges
  <2>5. QED  BY <2>3, <2>4
<1>7. ~Next2("-", "-") /\ ~Next2("/", "*")
  <2>1. /\ <<"-", "-">> \in {<<"-", "-">>, <<"/", "*">>}
        /\ <<"/", "*">> \in {<<"-", "-">>, <<"/", "*">>}
    OBVIOUS
  <2>2. ~Next2("-", "-")
    BY <1>6, <2>1
  <2>3. ~Next2("/", "*")
    BY <1>6, <2>1
  <2>4. QED  BY <2>2, <2>3
<1>8. QED  BY <1>3, <1>4, <1>7, Zenon

(* A dollar tag begins with a dollar sign.                                 *)
LEMMA NoTagHere == ASSUME Place, i <= Len(sql), ch # "$"  PROVE tagHere = << >>
<1> DEFINE left == SubSeq(sql, i, Len(sql))
<1>1. /\ left \in Seq(Characters) /\ Len(left) = Len(sql) - i + 1
      /\ \A k \in 1..Len(left) : left[k] = sql[i + k - 1]
  BY RestOfText
<1>2. tagHere = readDollarTag(left)
  BY Zenon DEF tagHere
<1> HIDE DEF left
<1>3. 1 \in 1..Len(left) /\ i + 1 - 1 = i
  BY <1>1, PlaceTypes
<1>4. left[1] = sql[i]
  BY <1>1, <1>3, Zenon
<1>5. SUFFICES ASSUME readDollarTag(left) # << >>  PROVE FALSE
  BY <1>2
<1>6. left[1] = "$"
  BY <1>1, <1>5, TagOfStart
<1>7. QED  BY <1>4, <1>6, Zenon DEF ch

(* A separator is one character.                                           *)
LEMMA SemicolonSeen ==
  ASSUME NEW t, NEW p, NEW x, NEW o, Here(t, p, x, o), script[t].kind = "semicolon"
  PROVE  ch = ";" /\ p = 0 /\ Len(x) = 1
<1>1. /\ Len(x) \in Nat \ {0} /\ p \in 0..(Len(x) - 1)
      /\ ch = x[p + 1] /\ x = script[t].text /\ IsToken(script[t])
  BY Zenon DEF Here
<1>2. x = <<";">>
  BY <1>1 DEF IsToken
<1>3. Len(x) = 1 /\ x[1] = ";"
  BY <1>2
<1>4. p = 0 /\ p + 1 = 1
  <2>1. p \in 0..(Len(x) - 1)
    BY <1>1, Zenon
  <2>2. Len(x) = 1
    BY <1>3, Zenon
  <2>3. QED  BY <2>1, <2>2
<1>5. QED  BY <1>1, <1>3, <1>4, Zenon

(* What begins a comment or a string is seen as such.                      *)
LEMMA BeginSeen ==
  ASSUME Place, NEW t, NEW x, NEW o, Here(t, 0, x, o), NEW m \in Modes, Begins(x, m)
  PROVE  /\ ch = Mark(m)
         /\ m = "line comment" => Next2("-", "-")
         /\ m = "block comment" => Next2("/", "*")
         /\ m = "dollar" => tagHere = readDollarTag(x) /\ tagHere # << >>
<1>1. /\ x \in Seq(Characters) /\ Len(x) \in Nat \ {0} /\ ch = x[0 + 1]
      /\ sql \in Seq(Characters) /\ Len(sql) \in Nat /\ o \in Nat /\ o + Len(x) <= Len(sql)
      /\ i = o + 0 + 1 /\ \A h \in 1..Len(x) : sql[o + h] = x[h]
  BY Zenon DEF Here
<1>2. BeginsBy(x, m)
  BY <1>1, BeginsMark, Zenon
<1>3. /\ x[1] = Mark(m)
      /\ m = "line comment"  => x[2] = "-" /\ Len(x) >= 2
      /\ m = "block comment" => x[2] = "*" /\ Len(x) >= 2
      /\ m = "dollar" => readDollarTag(x) # << >>
  BY <1>2, Zenon DEF BeginsBy
<1>4. 0 + 1 = 1 /\ 0 + 2 = 2
  OBVIOUS
<1>5. ch = Mark(m)
  BY <1>1, <1>3, <1>4, Zenon
<1>6. ASSUME NEW a, NEW b, x[1] = a, x[2] = b, Len(x) >= 2  PROVE Next2(a, b)
  <2>1. 0 + 1 < Len(x)
    BY <1>1, <1>6
  <2>2. Next2(a, b) <=> x[0 + 1] = a /\ x[0 + 2] = b
    BY <2>1, NextTwo, Zenon
  <2>3. QED  BY <1>4, <1>6, <2>2, Zenon
<1>7. m = "line comment" => Next2("-", "-")
  BY <1>3, <1>6, Zenon DEF Mark
<1>8. m = "block comment" => Next2("/", "*")
  BY <1>3, <1>6, Zenon DEF Mark
<1>9. ASSUME m = "dollar"  PROVE tagHere = readDollarTag(x) /\ tagHere # << >>
  <2> DEFINE left == SubSeq(sql, i, Len(sql))
  <2>0. i <= Len(sql)
    BY <1>1
  <2>1. /\ left \in Seq(Characters) /\ Len(left) = Len(sql) - i + 1
        /\ \A k \in 1..Len(left) : left[k] = sql[i + k - 1]
    BY <2>0, RestOfText
  <2>2. tagHere = readDollarTag(left)
    BY Zenon DEF tagHere
  <2> HIDE DEF left
  <2>3. Len(x) <= Len(left)
    BY <1>1, <2>1
  <2>4. \A k \in 1..Len(x) : left[k] = x[k]
    <3> TAKE k \in 1..Len(x)
    <3>1. k \in 1..Len(left) /\ i + k - 1 = o + k
      BY <1>1, <2>1
    <3>2. left[k] = sql[i + k - 1]
      BY <2>1, <3>1, Zenon
    <3>3. sql[o + k] = x[k]
      BY <1>1, Zenon
    <3>4. QED  BY <3>1, <3>2, <3>3, Zenon
  <2>5. readDollarTag(x) # << >>
    BY <1>3, <1>9
  <2>6. \A s \in Seq(Characters) :
          Len(x) <= Len(s) /\ (\A k \in 1..Len(x) : s[k] = x[k]) =>
            readDollarTag(s) = readDollarTag(x)
    BY <1>1, <2>5, TagOfStart
  <2>7. readDollarTag(left) = readDollarTag(x)
    BY <2>1, <2>3, <2>4, <2>6, Zenon
  <2>8. QED  BY <2>2, <2>5, <2>7, Zenon
<1>10. QED  BY <1>5, <1>7, <1>8, <1>9, Zenon

(* Between the marks that begin a comment or a string and those that end   *)
(* it no character is of both.                                             *)
LEMMA ClosingsFar ==
  ASSUME NEW x \in Seq(Characters), NEW m \in Modes, Begins(x, m), NEW k \in Closings(x, m)
  PROVE  Width(x, m) + EndWidth(x, m) <= k
<1>1. BeginsBy(x, m)
  BY BeginsMark
<1>2. k \in 1..Len(x) /\ ClosesAt(x, m, k) /\ Len(x) \in Nat
  BY ClosingsAre, LenProperties
<1>3. CASE m = "line comment"
  <2>1. x[1] = "-" /\ x[2] = "-" /\ x[k] = "\n"
    BY <1>1, <1>2, <1>3, Zenon DEF BeginsBy, ClosesAt, Mark
  <2>2. k # 1 /\ k # 2
    BY <2>1, Zenon
  <2>3. Width(x, m) = 2 /\ EndWidth(x, m) = 1
    BY <1>3, Zenon DEF Width, EndWidth
  <2>4. QED  BY <1>2, <2>2, <2>3
<1>4. CASE m = "block comment"
  <2>1. k >= 4
    BY <1>2, <1>4, Zenon DEF ClosesAt
  <2>2. Width(x, m) = 2 /\ EndWidth(x, m) = 2
    BY <1>4, Zenon DEF Width, EndWidth
  <2>3. QED  BY <1>2, <2>1, <2>2
<1>5. CASE m \in {"single", "double"}
  <2>1. ClosingQuote(x, Mark(m), k)
    BY <1>2, <1>5, Zenon DEF ClosesAt
  <2>2. k \in 2..Len(x)
    BY <2>1, Zenon DEF ClosingQuote
  <2>3. Width(x, m) = 1 /\ EndWidth(x, m) = 1
    BY <1>5, Zenon DEF Width, EndWidth
  <2>4. QED  BY <1>2, <2>2, <2>3
<1>6. CASE m = "dollar"
  <2>1. k >= 2 * Len(readDollarTag(x))
    BY <1>2, <1>6, Zenon DEF ClosesAt
  <2>2. Len(readDollarTag(x)) \in 2..Len(x)
    BY <1>1, <1>6, Zenon DEF BeginsBy
  <2>3. Width(x, m) = Len(readDollarTag(x)) /\ EndWidth(x, m) = Len(readDollarTag(x))
    BY <1>6, Zenon DEF Width, EndWidth
  <2>4. QED  BY <1>2, <2>1, <2>2, <2>3
<1>7. QED  BY <1>3, <1>4, <1>5, <1>6 DEF Modes

(* The marks that begin a comment or a string are read.                    *)
LEMMA Opens ==
  ASSUME NEW t, NEW x, NEW o, Here(t, 0, x, o), NEW m \in Modes, Begins(x, m),
         NEW n, n = Width(x, m), Write(n), mode' = m,
         m = "dollar" => dollarTag' = readDollarTag(x),
         \/ script[t].kind = "open"
         \/ segmentHasContent' <=> segmentHasContent \/ script[t].kind = "content",
         UNCHANGED <<script, sql, out, pc>>
  PROVE  Moves(t, 0, n)
<1>1. /\ x \in Seq(Characters) /\ Len(x) \in Nat \ {0} /\ x = script[t].text
      /\ script[t] \in Token /\ IsToken(script[t])
  BY Zenon DEF Here
<1>2. BeginsBy(x, m) /\ DelimitedBy(script[t], m)
  BY <1>1, BeginsMark, Delimited, Zenon
<1>3. n \in 1..Len(x)
  BY <1>2, Zenon DEF BeginsBy
<1>4. n \in Nat \ {0} /\ 0 + n = n /\ n <= Len(x)
  BY <1>1, <1>3
<1>5. \A k \in Closings(x, m) : n + EndWidth(x, m) <= k
  BY <1>1, ClosingsFar, Zenon
<1>6. m \in {"single", "double"} => Quotes(x, Mark(m), n) % 2 = 0
  <2>1. SUFFICES ASSUME m \in {"single", "double"}  PROVE Quotes(x, Mark(m), n) % 2 = 0
    OBVIOUS
  <2>2. n = 1
    BY <2>1, Zenon DEF Width
  <2>3. Quotes(x, Mark(m), 1) = 0
    BY <1>1, QuotesStep
  <2>4. 0 % 2 = 0
    OBVIOUS
  <2>5. QED  BY <2>2, <2>3, <2>4, Zenon
<1>7. n >= Width(x, m)
  BY <1>4
<1>8. Inside(script[t], n, mode', dollarTag')
  BY <1>1, <1>5, <1>6, <1>7, Zenon DEF Inside
<1>9. n = Len(x) => Unclosed(script[t])
  <2>1. SUFFICES ASSUME n = Len(x), ~Unclosed(script[t])  PROVE FALSE
    OBVIOUS
  <2>2. Len(x) \in Closings(x, m)
    BY <1>1, <1>2, <2>1, EndsAtEnd, Zenon
  <2>3. n + EndWidth(x, m) <= n
    BY <1>5, <2>1, <2>2, Zenon
  <2>4. EndWidth(x, m) \in Nat \ {0}
    <3>1. m = "dollar" => Len(readDollarTag(x)) \in 2..Len(x)
      BY <1>2, Zenon DEF BeginsBy
    <3>2. EndWidth(x, m) \in {1, 2} \/ EndWidth(x, m) \in 2..Len(x)
      BY <3>1, Zenon DEF EndWidth
    <3>3. QED  BY <1>1, <3>2
  <2>5. QED  BY <1>4, <2>3, <2>4
<1>10. script[t].kind # "semicolon"
  BY <1>2, Zenon DEF DelimitedBy
<1>11. UNCHANGED <<script, sql, out, pc>>
  OBVIOUS
<1>12. QED  BY <1>1, <1>4, <1>8, <1>9, <1>10, <1>11, Zenon DEF Moves

(* Any other character is one of a token read character by character.      *)
LEMMA OtherMoves ==
  ASSUME Inv, NEW t, NEW p, NEW x, NEW o, Here(t, p, x, o), Other
  PROVE  Moves(t, p, 1)
<1>1. /\ mode = "sql" /\ ch \notin {"'", "\"", ";"} /\ tagHere = << >>
      /\ ~Next2("-", "-") /\ ~Next2("/", "*") /\ Write(1) /\ mode' = "sql"
      /\ segmentHasContent' = (segmentHasContent \/ ch \notin Space)
      /\ UNCHANGED <<script, sql, out, pc>>
  BY DEF Other, In, Content, Kept
<1>2. /\ x \in Seq(Characters) /\ Len(x) \in Nat \ {0} /\ p \in 0..(Len(x) - 1)
      /\ x = script[t].text /\ script[t] \in Token /\ IsToken(script[t])
      /\ Inside(script[t], p, mode, dollarTag)
  BY Zenon DEF Here
<1>3. Loose(script[t])
  <2>1. SUFFICES ASSUME ~Loose(script[t])  PROVE FALSE
    OBVIOUS
  <2>2. p = 0
    BY <1>1, <1>2, <2>1, Zenon DEF Inside, Modes
  <2>3. script[t].kind # "semicolon"
    BY <1>1, SemicolonSeen, Zenon
  <2>4. PICK m \in Modes : Begins(x, m)
    BY <1>2, <2>1, <2>3, Forms, Zenon
  <2>5. Here(t, 0, x, o) /\ Place
    BY <2>2, Zenon DEF Inv
  <2>6. /\ ch = Mark(m)
        /\ m = "line comment" => Next2("-", "-")
        /\ m = "block comment" => Next2("/", "*")
        /\ m = "dollar" => tagHere # << >>
    BY <2>4, <2>5, BeginSeen, Zenon
  <2>7. m \in {"single", "double"}
    BY <1>1, <2>4, <2>6, Zenon DEF Modes
  <2>8. Mark(m) \in {"'", "\""}
    BY <2>7, Zenon DEF Mark
  <2>9. QED  BY <1>1, <2>6, <2>8, Zenon
<1>4. /\ script[t].kind = "content" <=> ch \notin Space
      /\ script[t].kind \in {"space", "content"} /\ ~Unclosed(script[t])
  BY <1>3, LooseSees, Zenon
<1>5. 1 \in Nat \ {0} /\ p + 1 <= Len(x)
  BY <1>2
<1>6. Inside(script[t], p + 1, mode', dollarTag')
  BY <1>1, <1>3, Zenon DEF Inside
<1>7. script[t].kind # "semicolon"
  BY <1>4, Zenon
<1>8. segmentHasContent' <=> segmentHasContent \/ script[t].kind = "content"
  BY <1>1, <1>4, Zenon
<1>9. QED  BY <1>1, <1>2, <1>4, <1>5, <1>6, <1>7, <1>8, Zenon DEF Moves

(* The mark of a comment or a string begins a token.                       *)
LEMMA MarkBegins ==
  ASSUME Place, NEW t, NEW p, NEW x, NEW o, Here(t, p, x, o), mode = "sql",
         NEW m \in Modes, ch = Mark(m), ~Loose(script[t])
  PROVE  p = 0 /\ Begins(x, m) /\ DelimitedBy(script[t], m)
<1>1. /\ x = script[t].text /\ script[t] \in Token /\ IsToken(script[t])
      /\ Inside(script[t], p, mode, dollarTag)
  BY Zenon DEF Here
<1>2. p = 0
  BY <1>1, Zenon DEF Inside, Modes
<1>3. ch # ";"
  BY MarksDiffer, Zenon
<1>4. script[t].kind # "semicolon"
  BY <1>3, SemicolonSeen, Zenon
<1>5. PICK n \in Modes : Begins(x, n)
  BY <1>1, <1>4, Forms, Zenon
<1>6. Here(t, 0, x, o)
  BY <1>2, Zenon
<1>7. ch = Mark(n)
  BY <1>5, <1>6, BeginSeen, Zenon
<1>8. n = m
  BY <1>7, MarksDiffer, Zenon
<1>9. DelimitedBy(script[t], m)
  BY <1>1, <1>5, <1>8, Delimited, Zenon
<1>10. QED  BY <1>2, <1>5, <1>8, <1>9, Zenon

(* Where a comment begins, a token does.                                   *)
LEMMA OpenCommentMoves ==
  ASSUME Inv, NEW t, NEW p, NEW x, NEW o, Here(t, p, x, o), OpenComment
  PROVE  \E n : Moves(t, p, n)
<1>1. /\ mode = "sql" /\ Write(2) /\ segmentHasContent' = segmentHasContent
      /\ UNCHANGED <<script, sql, out, pc>> /\ Place
  BY DEF OpenComment, In, Kept, Inv
<1>2. \/ Next2("-", "-") /\ mode' = "line comment"
      \/ Next2("/", "*") /\ mode' = "block comment"
  BY Zenon DEF OpenComment
<1>3. ~Loose(script[t])
  BY <1>2, LooseSees, Zenon
<1>4. PICK m \in {"line comment", "block comment"} : mode' = m /\ ch = Mark(m)
  BY <1>2, Zenon DEF Next2, ch, Mark
<1>5. m \in Modes /\ m # "dollar"
  BY <1>4, Zenon DEF Modes
<1>6. p = 0 /\ Begins(x, m) /\ DelimitedBy(script[t], m)
  BY <1>1, <1>3, <1>4, <1>5, MarkBegins, Zenon
<1>7. script[t].kind # "content"
  BY <1>4, <1>6, Zenon DEF DelimitedBy
<1>8. segmentHasContent' <=> segmentHasContent \/ script[t].kind = "content"
  BY <1>1, <1>7, Zenon
<1>9. 2 = Width(x, m)
  BY <1>4, Zenon DEF Width
<1>10. Here(t, 0, x, o)
  BY <1>6, Zenon
<1>11. Moves(t, 0, 2)
  BY <1>1, <1>4, <1>5, <1>6, <1>8, <1>9, <1>10, Opens, Zenon
<1>12. QED  BY <1>6, <1>11, Zenon

(* Where a string or a name does, too.                                     *)
LEMMA OpenQuoteMoves ==
  ASSUME Inv, NEW t, NEW p, NEW x, NEW o, Here(t, p, x, o), OpenQuote
  PROVE  \E n : Moves(t, p, n)
<1>1. /\ mode = "sql" /\ i <= Len(sql)
      /\ segmentHasContent' = (segmentHasContent \/ TRUE)
      /\ UNCHANGED <<script, sql, out, pc>> /\ Place
  BY DEF OpenQuote, In, Content, Kept, Inv
<1>2. \/ ch = "'" /\ mode' = "single" /\ Write(1)
      \/ ch = "\"" /\ mode' = "double" /\ Write(1)
      \/ /\ tagHere # << >> /\ mode' = "dollar"
         /\ dollarTag' = tagHere /\ Write(Len(tagHere))
  BY Zenon DEF OpenQuote
<1>3. tagHere # << >> => ch = "$"
  BY <1>1, NoTagHere, Zenon
<1>4. ~Loose(script[t])
  BY <1>2, <1>3, LooseSees, Zenon
<1>5. PICK m \in {"single", "double", "dollar"} : mode' = m /\ ch = Mark(m)
  BY <1>2, <1>3, Zenon DEF Mark
<1>6. m \in Modes
  BY <1>5, Zenon DEF Modes
<1>7. p = 0 /\ Begins(x, m) /\ DelimitedBy(script[t], m)
  BY <1>1, <1>4, <1>5, <1>6, MarkBegins, Zenon
<1>8. script[t].kind = "open" \/ script[t].kind = "content"
  BY <1>5, <1>7, Zenon DEF DelimitedBy
<1>9. \/ script[t].kind = "open"
      \/ segmentHasContent' <=> segmentHasContent \/ script[t].kind = "content"
  BY <1>1, <1>8, Zenon
<1>10. Here(t, 0, x, o)
  BY <1>7, Zenon
<1>11. m = "dollar" => tagHere = readDollarTag(x)
  BY <1>1, <1>6, <1>7, <1>10, BeginSeen, Zenon
<1>12. m = "dollar" => dollarTag' = readDollarTag(x)
  BY <1>2, <1>5, <1>11, Zenon
<1>13. Write(Width(x, m))
  <2>1. CASE m = "dollar"
    <3>1. Width(x, m) = Len(tagHere)
      BY <1>11, <2>1, Zenon DEF Width
    <3>2. Write(Len(tagHere))
      BY <1>2, <1>5, <2>1, Zenon
    <3>3. QED  BY <3>1, <3>2, Zenon
  <2>2. CASE m # "dollar"
    <3>1. Width(x, m) = 1
      BY <1>5, <2>2, Zenon DEF Width
    <3>2. Write(1)
      BY <1>2, <1>5, <2>2, Zenon
    <3>3. QED  BY <3>1, <3>2, Zenon
  <2>3. QED  BY <2>1, <2>2
<1>14. PICK n : n = Width(x, m)
  OBVIOUS
<1>15. Write(n) /\ mode' = m
  BY <1>5, <1>13, <1>14, Zenon
<1>16. Moves(t, 0, n)
  BY <1>1, <1>6, <1>7, <1>9, <1>10, <1>12, <1>14, <1>15, Opens, Zenon
<1>17. QED  BY <1>7, <1>16, Zenon

(* So a step that is neither a separator nor the end moves on in a token.  *)
LEMMA TokenMoves ==
  ASSUME Inv, NEW t, NEW p, NEW x, NEW o, Here(t, p, x, o),
         \/ LineComment \/ BlockComment \/ DollarQuoted \/ SingleQuoted \/ DoubleQuoted
         \/ OpenComment \/ OpenQuote \/ Other
  PROVE  \E n : Moves(t, p, n)
<1>1. ASSUME SingleQuoted \/ DoubleQuoted  PROVE \E n : Moves(t, p, n)
  <2>1. PICK m \in {"single", "double"} : Quoted(m, Mark(m))
    BY <1>1, Zenon DEF SingleQuoted, DoubleQuoted, Mark
  <2>2. PICK q : q = Mark(m)
    OBVIOUS
  <2>3. Quoted(m, q)
    BY <2>1, <2>2, Zenon
  <2>4. QED  BY <2>1, <2>2, <2>3, QuotedMoves, Zenon
<1>2. QED
  BY <1>1, LineCommentMoves, BlockCommentMoves, DollarQuotedMoves, OpenCommentMoves,
     OpenQuoteMoves, OtherMoves, Zenon

-----------------------------------------------------------------------------
(***************************************************************************)
(* Moving on in a token keeps what the scan knows.                         *)
(***************************************************************************)
(* The scan is further in the token, or at the start of the next one.      *)
GoesTo(token, t, p, n, t2, p2) ==
  \/ t2 = t /\ p2 = p + n
  \/ t2 = t + 1 /\ p2 = 0 /\ ~Unclosed(token)

(* The scan is where it should be after n characters of a token.           *)
LEMMA ReadsOn ==
  ASSUME NEW tokens \in Seq(Token), \A k \in 1..Len(tokens) : IsToken(tokens[k]),
         NEW pos, NEW m, NEW tag, NEW t \in 1..Len(tokens), NEW p,
         ReadsIn(tokens, pos, m, tag, t, p),
         NEW n \in Nat \ {0}, NEW m2, NEW tag2,
         p + n <= Len(tokens[t].text),
         \/ p + n = Len(tokens[t].text) /\ ~Unclosed(tokens[t]) /\ m2 = "sql"
         \/ /\ p + n = Len(tokens[t].text) => Unclosed(tokens[t])
            /\ Inside(tokens[t], p + n, m2, tag2)
  PROVE  \E t2, p2 : /\ ReadsIn(tokens, pos + n, m2, tag2, t2, p2)
                     /\ GoesTo(tokens[t], t, p, n, t2, p2)
<1>1. /\ p \in Nat /\ pos = Offset(tokens, t - 1) + p + 1
      /\ \A k \in 1..(t - 1) : ~Unclosed(tokens[k])
  BY Zenon DEF ReadsIn
<1>2. Len(tokens) \in Nat /\ \A k \in 1..Len(tokens) : tokens[k] \in Token
  BY TokenTexts, Zenon
<1>3. PICK s : s = TextOf(tokens)
  OBVIOUS
<1>4. Stands(s, tokens, t)
  BY <1>3, Offsets
<1>5. PICK l \in Nat : l = Len(tokens[t].text)
  BY <1>4, Zenon DEF Stands
<1>6. PICK o \in Nat : o = Offset(tokens, t - 1)
  BY <1>4, Zenon DEF Stands
<1>7. Offset(tokens, t) = o + l
  BY <1>4, <1>5, <1>6, Zenon DEF Stands
<1>8. pos + n = o + (p + n) + 1 /\ p + n \in Nat
  BY <1>1, <1>6
<1>9. CASE p + n = l /\ ~Unclosed(tokens[t]) /\ m2 = "sql"
  <2>1. t + 1 \in 1..(Len(tokens) + 1) /\ (t + 1) - 1 = t
    BY <1>2
  <2>2. pos + n = Offset(tokens, (t + 1) - 1) + 0 + 1
    BY <1>7, <1>8, <1>9, <2>1
  <2>3. \A k \in 1..((t + 1) - 1) : ~Unclosed(tokens[k])
    <3> TAKE k \in 1..((t + 1) - 1)
    <3>1. k = t \/ k \in 1..(t - 1)
      BY <2>1
    <3>2. QED  BY <1>1, <1>9, <3>1
  <2>4. ASSUME t + 1 <= Len(tokens)
        PROVE  /\ 0 <= Len(tokens[t + 1].text) /\ 0 # Len(tokens[t + 1].text)
               /\ Inside(tokens[t + 1], 0, m2, tag2)
    <3>1. t + 1 \in 1..Len(tokens)
      BY <2>1, <2>4
    <3>2. Len(tokens[t + 1].text) \in Nat \ {0}
      BY <1>2, <3>1, Forms, Zenon
    <3>3. Inside(tokens[t + 1], 0, m2, tag2)
      BY <1>9, Zenon DEF Inside
    <3>4. QED  BY <3>2, <3>3
  <2>5. 0 \in Nat
    OBVIOUS
  <2>6. ReadsIn(tokens, pos + n, m2, tag2, t + 1, 0)
    BY <1>9, <2>1, <2>2, <2>3, <2>4, <2>5, Zenon DEF ReadsIn
  <2>7. QED  BY <1>9, <2>6, Zenon DEF GoesTo
<1>10. CASE (p + n = l => Unclosed(tokens[t])) /\ Inside(tokens[t], p + n, m2, tag2)
  <2>1. t \in 1..(Len(tokens) + 1) /\ t # Len(tokens) + 1
    BY <1>2
  <2>2. ReadsIn(tokens, pos + n, m2, tag2, t, p + n)
    BY <1>1, <1>5, <1>6, <1>8, <1>10, <2>1, Zenon DEF ReadsIn
  <2>3. QED  BY <2>2, Zenon DEF GoesTo
<1>11. QED  BY <1>5, <1>9, <1>10, Zenon

(* What the characters add to the current segment is the token's.          *)
LEMMA GathersOn ==
  ASSUME NEW tokens \in Seq(Token), NEW pos \in Nat, NEW len, NEW has, NEW has2,
         NEW t \in 1..Len(tokens), NEW p \in Nat, NEW c,
         GathersIn(tokens, pos, len, has, t, p, c),
         tokens[t].kind # "semicolon",
         \/ tokens[t].kind = "open"
         \/ p > 0 /\ (has2 <=> has)
         \/ has2 <=> has \/ tokens[t].kind = "content",
         NEW n \in Nat \ {0}, NEW t2, NEW p2, GoesTo(tokens[t], t, p, n, t2, p2)
  PROVE  GathersIn(tokens, pos + n, len + n, has2, t2, p2, c)
<1>1. /\ c \in Cuts(tokens) /\ c < t
      /\ \A k \in (c + 1)..(t - 1) : tokens[k].kind # "semicolon"
      /\ len = pos - 1 - Offset(tokens, c)
      /\ \/ tokens[t].kind = "open" /\ p > 0
         \/ has <=> ContentIn(tokens, c + 1, t - 1) \/ (tokens[t].kind = "content" /\ p > 0)
  <2>1. t <= Len(tokens)
    BY LenProperties
  <2>2. QED  BY <2>1, Zenon DEF GathersIn
<1>2. Len(tokens) \in Nat /\ DOMAIN tokens = 1..Len(tokens)
  BY LenProperties
<1>3. c \in 0..(t - 1) /\ c \in 0..Len(tokens)
  <2>1. c = 0 \/ c = Len(tokens) + 1 \/ c \in 1..Len(tokens)
    BY <1>1, <1>2, Zenon DEF Cuts
  <2>2. QED  BY <1>1, <1>2, <2>1
<1>4. len + n = (pos + n) - 1 - Offset(tokens, c)
  <2>1. PICK s : s = TextOf(tokens)
    OBVIOUS
  <2>2. Offset(tokens, c) \in Nat
    BY <1>3, <2>1, Offsets
  <2>3. QED  BY <1>1, <2>2
<1>5. c < t2 /\ \A k \in (c + 1)..(t2 - 1) : tokens[k].kind # "semicolon"
  <2>1. CASE t2 = t
    BY <1>1, <2>1
  <2>2. CASE t2 = t + 1
    <3>1. c < t2 /\ t2 - 1 = t
      BY <1>3, <2>2
    <3>2. ASSUME NEW k \in (c + 1)..t  PROVE tokens[k].kind # "semicolon"
      <4>1. k = t \/ k \in (c + 1)..(t - 1)
        BY <1>3
      <4>2. QED  BY <1>1, <4>1, Zenon
    <3>3. QED  BY <3>1, <3>2, Zenon
  <2>3. QED  BY <2>1, <2>2, Zenon DEF GoesTo
<1>6. p + n > 0
  OBVIOUS
<1>7. CASE tokens[t].kind = "open"
  <2>1. t2 = t /\ p2 = p + n
    BY <1>7, Zenon DEF GoesTo, Unclosed
  <2>2. t2 <= Len(tokens)
    BY <1>2, <2>1
  <2>3. QED  BY <1>1, <1>4, <1>5, <1>6, <1>7, <2>1, <2>2, Zenon DEF GathersIn
<1>8. CASE tokens[t].kind # "open"
  <2>1. has2 <=> ContentIn(tokens, c + 1, t - 1) \/ tokens[t].kind = "content"
    BY <1>1, <1>8, Zenon
  <2>2. CASE t2 = t /\ p2 = p + n
    <3>1. t <= Len(tokens)
      BY <1>2
    <3>2. has2 <=> \/ ContentIn(tokens, c + 1, t2 - 1)
                   \/ t2 <= Len(tokens) /\ tokens[t2].kind = "content" /\ p2 > 0
      BY <1>6, <2>1, <2>2, <3>1, Zenon
    <3>3. QED  BY <1>1, <1>4, <1>5, <3>2, Zenon DEF GathersIn
  <2>3. CASE t2 = t + 1 /\ p2 = 0
    <3>1. t2 - 1 = t /\ ~(p2 > 0) /\ t \in (c + 1)..t
      BY <1>3, <2>3
    <3>2. \A k : k \in (c + 1)..t <=> k = t \/ k \in (c + 1)..(t - 1)
      BY <1>3
    <3>3. ContentIn(tokens, c + 1, t) <=>
            ContentIn(tokens, c + 1, t - 1) \/ tokens[t].kind = "content"
      BY <3>1, <3>2, Zenon DEF ContentIn
    <3>4. has2 <=> \/ ContentIn(tokens, c + 1, t2 - 1)
                   \/ t2 <= Len(tokens) /\ tokens[t2].kind = "content" /\ p2 > 0
      BY <2>1, <3>1, <3>3, Zenon
    <3>5. QED  BY <1>1, <1>4, <1>5, <3>4, Zenon DEF GathersIn
  <2>4. QED  BY <2>2, <2>3, Zenon DEF GoesTo
<1>9. QED  BY <1>7, <1>8

(* So whoever moves on in a token keeps what is known of the script.       *)
LEMMA MovesKeep ==
  ASSUME Inv, WellFormed(script), NEW t, NEW p, NEW c, Reads(t, p), Gathers(t, p, c),
         NEW x, NEW o, Here(t, p, x, o), NEW n, Moves(t, p, n)
  PROVE  \E t2, p2 : Reads(t2, p2)' /\ Gathers(t2, p2, c)'
<1>1. /\ script \in Seq(Token)
      /\ Place
  BY Zenon DEF Inv, Rest
<1>2. \A k \in 1..Len(script) : IsToken(script[k])
  BY <1>1, TokenTexts, Zenon DEF WellFormed
<1>3. /\ x = script[t].text /\ x \in Seq(Characters) /\ Len(x) \in Nat \ {0}
      /\ p \in 0..(Len(x) - 1) /\ t \in 1..Len(script)
      /\ sql \in Seq(Characters) /\ Len(sql) \in Nat /\ o \in Nat /\ o + Len(x) <= Len(sql)
      /\ i = o + p + 1
  BY Zenon DEF Here
<1>4. /\ n \in Nat \ {0} /\ p + n <= Len(script[t].text) /\ Write(n)
      /\ \/ p + n = Len(script[t].text) /\ ~Unclosed(script[t]) /\ mode' = "sql"
         \/ /\ p + n = Len(script[t].text) => Unclosed(script[t])
            /\ Inside(script[t], p + n, mode', dollarTag')
      /\ script[t].kind # "semicolon"
      /\ \/ script[t].kind = "open"
         \/ p > 0 /\ segmentHasContent' = segmentHasContent
         \/ segmentHasContent' <=> segmentHasContent \/ script[t].kind = "content"
      /\ script' = script /\ out' = out
  BY Zenon DEF Moves
<1>5. p \in Nat /\ i \in Nat
  BY <1>3
<1>6. ReadsIn(script, i, mode, dollarTag, t, p)
  BY Zenon DEF Reads
<1>7. PICK t2, p2 : /\ ReadsIn(script, i + n, mode', dollarTag', t2, p2)
                    /\ GoesTo(script[t], t, p, n, t2, p2)
  BY <1>1, <1>2, <1>3, <1>4, <1>6, ReadsOn
<1>8. GathersIn(script, i, Len(current), segmentHasContent, t, p, c)
  BY Zenon DEF Gathers
<1>9. GathersIn(script, i + n, Len(current) + n, segmentHasContent', t2, p2, c)
  <2>1. \/ script[t].kind = "open"
        \/ p > 0 /\ (segmentHasContent' <=> segmentHasContent)
        \/ segmentHasContent' <=> segmentHasContent \/ script[t].kind = "content"
    BY <1>4, Zenon
  <2>2. QED  BY <1>1, <1>3, <1>4, <1>5, <1>7, <1>8, <2>1, GathersOn
<1>10. i' = i + n /\ Len(current') = Len(current) + n
  <2>1. PICK w : w = SubSeq(sql, i, i + n - 1)
    OBVIOUS
  <2>2. PICK e \in Nat : e = i + n - 1
    BY <1>4, <1>5
  <2>0. /\ p + n <= Len(x) /\ p \in Nat /\ n \in Nat \ {0} /\ o \in Nat
        /\ Len(x) \in Nat \ {0} /\ Len(sql) \in Nat /\ o + Len(x) <= Len(sql)
        /\ i = o + p + 1
    BY <1>3, <1>4, <1>5, Zenon
  <2>3. i >= 1 /\ e <= Len(sql) /\ i <= e /\ e - i + 1 = n
    BY <2>0, <2>2
  <2>4. /\ SubSeq(sql, i, e) \in Seq(Characters)
        /\ Len(SubSeq(sql, i, e)) = IF i <= e THEN e - i + 1 ELSE 0
    BY <1>3, <1>5, <2>3, PartOfText
  <2>5. w \in Seq(Characters) /\ Len(w) = n
    BY <2>1, <2>2, <2>3, <2>4
  <2>6. current' = current \o w /\ i' = i + n
    BY <1>4, <2>1, Zenon DEF Write
  <2>7. current \in Seq(Characters)
    BY <1>1, PlaceTypes, Zenon
  <2>8. Len(current \o w) = Len(current) + Len(w)
    BY <2>5, <2>7, ConcatProperties
  <2>9. QED  BY <2>5, <2>6, <2>8, Zenon
<1>11. AreStatements(out, script, c)
  BY Zenon DEF Gathers
<1>12. /\ ReadsIn(script', i', mode', dollarTag', t2, p2)
       /\ GathersIn(script', i', Len(current'), segmentHasContent', t2, p2, c)
       /\ AreStatements(out', script', c)
  BY <1>4, <1>7, <1>9, <1>10, <1>11, Zenon
<1>13. Reads(t2, p2)' /\ Gathers(t2, p2, c)'
  BY <1>12, Zenon DEF Reads, Gathers
<1>14. QED  BY <1>13, Zenon

-----------------------------------------------------------------------------
(***************************************************************************)
(* Where a piece of a script ends, a segment is made of it.                *)
(***************************************************************************)
(* A piece of a script, between two cuts with none between them.           *)
IsPiece(tokens, c, e) ==
  /\ c \in Cuts(tokens) /\ e \in Cuts(tokens) /\ c < e
  /\ \A k \in (c + 1)..(e - 1) : tokens[k].kind # "semicolon"

(* It begins behind the one cut and ends before the next.                  *)
LEMMA PieceIs ==
  ASSUME NEW tokens \in Seq(Token), NEW c, NEW e, IsPiece(tokens, c, e)
  PROVE  /\ Len(tokens) \in Nat /\ c \in 0..Len(tokens) /\ e \in 1..(Len(tokens) + 1)
         /\ c <= e - 1 /\ e - 1 \in 0..Len(tokens) /\ c \in 0..(e - 1)
         /\ Cuts(tokens) \in SUBSET Nat
         /\ \A h \in Cuts(tokens) : h < e <=> h < c \/ h = c
         /\ Piece(tokens, c) = SubSeq(tokens, c + 1, e - 1)
         /\ HasContent(tokens, c) <=> ContentIn(tokens, c + 1, e - 1)
<1>1. Len(tokens) \in Nat /\ DOMAIN tokens = 1..Len(tokens)
  BY LenProperties
<1>2. \A k : k \in Cuts(tokens) <=>
         \/ k = 0 \/ k = Len(tokens) + 1
         \/ k \in 1..Len(tokens) /\ tokens[k].kind = "semicolon"
  BY <1>1, Zenon DEF Cuts
<1>3. \A k \in Cuts(tokens) : k \in 0..(Len(tokens) + 1)
  <2> TAKE k \in Cuts(tokens)
  <2>1. k = 0 \/ k = Len(tokens) + 1 \/ k \in 1..Len(tokens)
    BY <1>2, Zenon
  <2>2. QED  BY <1>1, <2>1
<1>4. /\ c \in Cuts(tokens) /\ e \in Cuts(tokens) /\ c < e
      /\ \A k \in (c + 1)..(e - 1) : tokens[k].kind # "semicolon"
  BY Zenon DEF IsPiece
<1>5. /\ c \in 0..Len(tokens) /\ e \in 1..(Len(tokens) + 1)
      /\ c <= e - 1 /\ e - 1 \in 0..Len(tokens) /\ c \in 0..(e - 1)
  <2>1. c \in 0..(Len(tokens) + 1) /\ e \in 0..(Len(tokens) + 1)
    BY <1>3, <1>4, Zenon
  <2>2. QED  BY <1>1, <1>4, <2>1
<1>6. \A h \in Cuts(tokens) : h \in Nat
  BY <1>1, <1>3
<1>7. \A h \in Cuts(tokens) : h < e => h < c \/ h = c
  <2> TAKE h \in Cuts(tokens)
  <2>1. SUFFICES ASSUME h < e, ~(h < c \/ h = c)  PROVE FALSE
    OBVIOUS
  <2>2. h \in (c + 1)..(e - 1) /\ h # 0 /\ h # Len(tokens) + 1
    <3>1. h \in 0..(Len(tokens) + 1)
      BY <1>3, Zenon
    <3>2. QED  BY <1>1, <1>5, <2>1, <3>1
  <2>3. QED  BY <1>2, <1>4, <2>2, Zenon
<1>8. \A h \in Cuts(tokens) : h < e <=> h < c \/ h = c
  <2> TAKE h \in Cuts(tokens)
  <2>1. h < c \/ h = c => h < e
    <3>1. h \in Nat /\ c \in Nat /\ e \in Nat /\ c < e
      BY <1>4, <1>6, Zenon
    <3>2. QED  BY <3>1
  <2>2. QED  BY <1>7, <2>1, Zenon
<1>9. Min({h \in Cuts(tokens) : h > c}) = e
  <2> DEFINE later == {h \in Cuts(tokens) : h > c}
  <2>1. e \in later
    BY <1>4, <1>5
  <2>2. later \in SUBSET Nat
    BY <1>6
  <2> HIDE DEF later
  <2>3. Min(later) \in later /\ \A h \in later : Min(later) <= h
    BY <2>1, <2>2, MinIsLeast
  <2>4. PICK m : m = Min(later)
    OBVIOUS
  <2>5. m <= e /\ m \in Cuts(tokens) /\ m > c /\ m \in Nat
    BY <2>1, <2>2, <2>3, <2>4 DEF later
  <2>6. ~(m < e)
    <3>1. m < e <=> m < c \/ m = c
      BY <1>8, <2>5, Zenon
    <3>2. QED  BY <1>5, <2>5, <3>1
  <2>7. m = e
    BY <1>5, <2>5, <2>6
  <2>8. QED  BY <2>4, <2>7 DEF later
<1>10. PICK r : r = SubSeq(tokens, c + 1, e - 1)
  OBVIOUS
<1>11. Piece(tokens, c) = r
  BY <1>9, <1>10, Zenon DEF Piece
<1>12. PICK n \in Nat : n = (e - 1) - c
  BY <1>5
<1>13. r \in Seq(Token) /\ Len(r) = n /\ \A h \in 1..n : r[h] = tokens[(c + 1) + h - 1]
  <2>1. /\ c + 1 \in Nat /\ e - 1 \in Nat /\ c + 1 >= 1 /\ e - 1 <= Len(tokens)
        /\ (e - 1) - (c + 1) + 1 = n /\ (~(c + 1 <= e - 1) => n = 0)
    BY <1>1, <1>5, <1>12
  <2>2. /\ SubSeq(tokens, c + 1, e - 1) \in Seq(Token)
        /\ Len(SubSeq(tokens, c + 1, e - 1)) =
             IF c + 1 <= e - 1 THEN (e - 1) - (c + 1) + 1 ELSE 0
        /\ \A h \in 1..((e - 1) - (c + 1) + 1) :
             SubSeq(tokens, c + 1, e - 1)[h] = tokens[(c + 1) + h - 1]
    BY <2>1, PartOfSeq
  <2>3. QED  BY <1>10, <2>1, <2>2
<1>14. DOMAIN r = 1..n
  BY <1>13, LenProperties
<1>15. HasContent(tokens, c) <=> \E h \in 1..n : r[h].kind = "content"
  BY <1>11, <1>14, Zenon DEF HasContent
<1>16. ContentIn(tokens, c + 1, e - 1) <=> \E k \in (c + 1)..(e - 1) : tokens[k].kind = "content"
  BY Zenon DEF ContentIn
<1>17. ASSUME NEW h \in 1..n, r[h].kind = "content"
       PROVE  \E k \in (c + 1)..(e - 1) : tokens[k].kind = "content"
  <2>1. (c + 1) + h - 1 \in (c + 1)..(e - 1)
    BY <1>5, <1>12
  <2>2. tokens[(c + 1) + h - 1].kind = "content"
    BY <1>13, <1>17, Zenon
  <2>3. QED  BY <2>1, <2>2, Zenon
<1>18. ASSUME NEW k \in (c + 1)..(e - 1), tokens[k].kind = "content"
       PROVE  \E h \in 1..n : r[h].kind = "content"
  <2>1. k - c \in 1..n /\ (c + 1) + (k - c) - 1 = k
    BY <1>5, <1>12
  <2>2. r[k - c] = tokens[(c + 1) + (k - c) - 1]
    BY <1>13, <2>1, Zenon
  <2>3. r[k - c].kind = "content"
    BY <1>18, <2>1, <2>2, Zenon
  <2>4. QED  BY <2>1, <2>3, Zenon
<1>19. HasContent(tokens, c) <=> ContentIn(tokens, c + 1, e - 1)
  BY <1>15, <1>16, <1>17, <1>18, Zenon
<1>20. Cuts(tokens) \in SUBSET Nat
  BY <1>6
<1>21. QED  BY <1>1, <1>5, <1>8, <1>10, <1>11, <1>19, <1>20, Zenon

(* The segment of a piece that has content comes behind those before it.   *)
LEMMA OneMoreStatement ==
  ASSUME NEW tokens \in Seq(Token), NEW c, NEW e, IsPiece(tokens, c, e),
         NEW s \in Seq(Segment), AreStatements(s, tokens, c), NEW s2,
         \/ ContentIn(tokens, c + 1, e - 1) /\ s2 = Append(s, Expected(tokens, c))
         \/ ~ContentIn(tokens, c + 1, e - 1) /\ s2 = s
  PROVE  AreStatements(s2, tokens, e)
<1> DEFINE W == Wanted(tokens, c)
           V == Wanted(tokens, e)
           Upto(S, k) == {h \in S : h <= k}
<1>1. /\ Len(tokens) \in Nat /\ c \in 0..Len(tokens) /\ Cuts(tokens) \in SUBSET Nat
      /\ \A h \in Cuts(tokens) : h < e <=> h < c \/ h = c
      /\ HasContent(tokens, c) <=> ContentIn(tokens, c + 1, e - 1)
  BY PieceIs
<1>2. c \in Cuts(tokens)
  BY Zenon DEF IsPiece
<1>3. \A k : k \in W <=> k \in Cuts(tokens) /\ k < c /\ HasContent(tokens, k)
  BY Zenon DEF Wanted
<1>4. \A k : k \in V <=> k \in Cuts(tokens) /\ k < e /\ HasContent(tokens, k)
  BY Zenon DEF Wanted
<1>5. /\ Len(s) = Cardinality(W) /\ Len(s) \in Nat
      /\ \A k \in W : s[Cardinality(Upto(W, k))] = Expected(tokens, k)
  <2>1. /\ Len(s) = Cardinality(W)
        /\ \A k \in W : s[Cardinality(Upto(W, k))] = Expected(tokens, k)
    BY Zenon DEF AreStatements
  <2>2. QED  BY <2>1, LenProperties
<1>6. \A k \in W : k \in Nat /\ k < c
  BY <1>1, <1>3
<1>7. W \subseteq 0..Len(tokens)
  BY <1>1, <1>6
<1>8. IsFiniteSet(W)
  <2>1. IsFiniteSet(0..Len(tokens))
    BY <1>1, FS_Interval
  <2>2. QED  BY <1>7, <2>1, FS_Subset
<1>9. CASE ContentIn(tokens, c + 1, e - 1) /\ s2 = Append(s, Expected(tokens, c))
  <2>1. V = W \cup {c}
    BY <1>1, <1>2, <1>3, <1>4, <1>9
  <2>2. c \notin W
    BY <1>1, <1>6
  <2> HIDE DEF V, W, Upto
  <2>3. Cardinality(V) = Cardinality(W) + 1
    BY <1>8, <2>1, <2>2, FS_AddElement
  <2>4. PICK d : d = Expected(tokens, c)
    OBVIOUS
  <2>5. PICK l \in Nat : l = Len(s)
    BY <1>5
  <2>6. Len(s2) = l + 1 /\ s2[l + 1] = d /\ \A h \in 1..l : s2[h] = s[h]
    BY <1>9, <2>4, <2>5, AppendProperties
  <2>7. ASSUME NEW k \in W  PROVE s2[Cardinality(Upto(V, k))] = Expected(tokens, k)
    <3>1. Upto(V, k) = Upto(W, k)
      BY <1>1, <1>6, <2>1 DEF Upto
    <3>2. Upto(W, k) \subseteq W /\ k \in Upto(W, k)
      BY <1>6 DEF Upto
    <3>3. /\ IsFiniteSet(Upto(W, k)) /\ Cardinality(Upto(W, k)) <= Cardinality(W)
          /\ Cardinality(Upto(W, k)) \in Nat
      BY <1>8, <3>2, FS_Subset, FS_CardinalityType
    <3>4. Cardinality(Upto(W, k)) # 0
      BY <3>2, <3>3, FS_EmptySet
    <3>5. Cardinality(Upto(W, k)) \in 1..l
      BY <1>5, <2>5, <3>3, <3>4
    <3>6. s2[Cardinality(Upto(W, k))] = s[Cardinality(Upto(W, k))]
      BY <2>6, <3>5, Zenon
    <3>7. s[Cardinality(Upto(W, k))] = Expected(tokens, k)
      BY <1>5, Zenon
    <3>8. QED  BY <3>1, <3>6, <3>7, Zenon
  <2>8. s2[Cardinality(Upto(V, c))] = Expected(tokens, c)
    <3>1. Upto(V, c) = V
      BY <1>1, <1>6, <2>1 DEF Upto
    <3>2. Cardinality(V) = l + 1
      BY <1>5, <2>3, <2>5
    <3>3. QED  BY <2>4, <2>6, <3>1, <3>2, Zenon
  <2>9. \A k \in V : s2[Cardinality(Upto(V, k))] = Expected(tokens, k)
    BY <2>1, <2>7, <2>8
  <2>10. Len(s2) = Cardinality(V)
    BY <1>5, <2>3, <2>5, <2>6
  <2>11. QED  BY <2>9, <2>10, Zenon DEF AreStatements, V, Upto
<1>10. CASE ~ContentIn(tokens, c + 1, e - 1) /\ s2 = s
  <2>1. V = W
    BY <1>1, <1>2, <1>3, <1>4, <1>10
  <2> HIDE DEF V, W
  <2>2. Len(s2) = Cardinality(V) /\ \A k \in V : s2[Cardinality(Upto(V, k))] = Expected(tokens, k)
    BY <1>5, <1>10, <2>1, Zenon
  <2>3. QED  BY <2>2, Zenon DEF AreStatements, V
<1>11. QED  BY <1>9, <1>10

(* What a segment has become when the piece behind the cut c ends before   *)
(* the token e: its text, and the line it carries.                         *)
LEMMA SegmentIsExpected ==
  ASSUME NEW tokens \in Seq(Token), \A k \in 1..Len(tokens) : IsToken(tokens[k]),
         NEW c, NEW e, IsPiece(tokens, c, e), ContentIn(tokens, c + 1, e - 1),
         NEW s, s = TextOf(tokens), NEW pos, pos = Offset(tokens, e - 1) + 1,
         NEW cur, NEW l, NEW sl, NEW st, Placed(s, pos, cur, l, sl, st),
         Len(cur) = pos - 1 - Offset(tokens, c)
  PROVE  /\ st /\ TrimSpace(cur) # << >>
         /\ [sql |-> TrimSpace(cur), line |-> sl] = Expected(tokens, c)
<1>1. /\ Len(tokens) \in Nat /\ c \in 0..Len(tokens) /\ e - 1 \in 0..Len(tokens)
      /\ c \in 0..(e - 1) /\ Piece(tokens, c) = SubSeq(tokens, c + 1, e - 1)
      /\ e \in 1..(Len(tokens) + 1)
  BY PieceIs
<1>2. /\ s \in Seq(Characters) /\ Len(s) \in Nat /\ Offset(tokens, 0) = 0
      /\ \A k \in 0..Len(tokens) : Offset(tokens, k) \in Nat
      /\ \A k \in 1..Len(tokens) : Stands(s, tokens, k)
  BY Offsets
<1>3. \A k \in 1..Len(tokens) : tokens[k] \in Token /\ IsToken(tokens[k])
  BY TokenTexts, Zenon
<1>4. PICK a \in Nat : a = Offset(tokens, c)
  BY <1>1, <1>2
<1>5. PICK b \in Nat : b = Offset(tokens, e - 1)
  BY <1>1, <1>2
<1>6. pos - 1 = b /\ pos - Len(cur) = a + 1 /\ Len(cur) = b - a
  BY <1>4, <1>5
<1>7. /\ cur \in Seq(Characters) /\ cur = SubSeq(s, pos - Len(cur), pos - 1)
      /\ st \in BOOLEAN /\ (st <=> Solid(cur) # {})
      /\ st => sl = Lines(SubSeq(s, 1, pos - 1 - Len(cur) + Min(Solid(cur))))
      /\ pos \in 1..(Len(s) + 1) /\ Len(cur) <= pos - 1
  BY Zenon DEF Placed
<1>8. cur = SubSeq(s, a + 1, b)
  BY <1>6, <1>7, Zenon
<1>9. cur = TextOf(Piece(tokens, c))
  <2>1. TextOf(SubSeq(tokens, c + 1, e - 1)) =
          SubSeq(TextOf(tokens), Offset(tokens, c) + 1, Offset(tokens, e - 1))
    BY <1>1, TextOfPart
  <2>2. QED  BY <1>1, <1>4, <1>5, <1>8, <2>1, Zenon
<1>10. PICK n \in Nat : n = b - a
  <2>1. Len(cur) \in Nat
    BY <1>7, LenProperties
  <2>2. QED  BY <1>6, <2>1
<1>11. /\ DOMAIN cur = 1..n /\ b <= Len(s)
       /\ \A h \in 1..n : cur[h] = s[a + h]
  <2>1. DOMAIN cur = 1..n
    BY <1>6, <1>7, <1>10, LenProperties
  <2>2. a + 1 \in Nat /\ a + 1 >= 1 /\ b <= Len(s) /\ b - (a + 1) + 1 = n
    BY <1>2, <1>6, <1>7, <1>10
  <2>3. a <= b
    BY <1>6, <1>10
  <2>4. \A h \in 1..n : cur[h] = s[a + h]
    <3>1. s \in Seq(Characters) /\ a \in Nat /\ b \in Nat /\ a <= b /\ b <= Len(s)
      BY <1>2, <1>6, <2>2, <2>3
    <3>2. \A h \in 1..(b - a) : cur[h] = s[a + h]
      BY <1>8, <3>1, PartBehind, Zenon
    <3>3. QED  BY <1>10, <3>2, Zenon
  <2>5. QED  BY <2>1, <2>2, <2>4
(* The first token that is not a space.                                    *)
<1> DEFINE Others == {h \in (c + 1)..Len(tokens) : tokens[h].kind # "space"}
<1>12. PICK q \in (c + 1)..(e - 1) : tokens[q].kind = "content"
  BY Zenon DEF ContentIn
<1>13. q \in Others /\ Others \in SUBSET Nat
  <2>1. q \in (c + 1)..Len(tokens)
    BY <1>1
  <2>2. tokens[q].kind # "space"
    BY <1>12
  <2>3. Others \in SUBSET Nat
    BY <1>1
  <2>4. QED  BY <2>1, <2>2, <2>3
<1> HIDE DEF Others
<1>14. Min(Others) \in Others /\ \A h \in Others : Min(Others) <= h
  BY <1>13, MinIsLeast
<1>15. PICK f : f = Min(Others)
  OBVIOUS
<1>16. /\ f \in (c + 1)..Len(tokens) /\ tokens[f].kind # "space" /\ f <= q
       /\ \A h \in (c + 1)..Len(tokens) : tokens[h].kind # "space" => f <= h
  BY <1>13, <1>14, <1>15, Zenon DEF Others
<1>17. /\ f \in 1..Len(tokens) /\ f - 1 \in 0..Len(tokens) /\ c \in 0..(f - 1) /\ f <= e - 1
       /\ \A h \in (c + 1)..(f - 1) : h \in 1..Len(tokens) /\ tokens[h].kind = "space"
  <2>1. /\ f \in 1..Len(tokens) /\ f - 1 \in 0..Len(tokens) /\ c \in 0..(f - 1) /\ f <= e - 1
    BY <1>1, <1>16
  <2>2. ASSUME NEW h \in (c + 1)..(f - 1)
        PROVE  h \in 1..Len(tokens) /\ tokens[h].kind = "space"
    <3>1. h \in 1..Len(tokens) /\ h \in (c + 1)..Len(tokens) /\ ~(f <= h)
      BY <1>1, <2>1
    <3>2. QED  BY <1>16, <3>1, Zenon
  <2>3. QED  BY <2>1, <2>2
<1>18. PICK g \in Nat : g = Offset(tokens, f - 1)
  BY <1>2, <1>17
<1>19. /\ a <= g /\ g + 1 <= b /\ s[g + 1] \notin Space
  <2>1. Offset(tokens, c) <= Offset(tokens, f - 1)
    BY <1>17, OffsetGrows
  <2>2. f \in 0..(e - 1)
    BY <1>1, <1>17
  <2>3. Offset(tokens, f) <= Offset(tokens, e - 1)
    BY <1>1, <2>2, OffsetGrows
  <2>4. Stands(s, tokens, f)
    BY <1>2, <1>17
  <2>5. /\ Offset(tokens, f) = Offset(tokens, f - 1) + Len(tokens[f].text)
        /\ \A h \in 1..Len(tokens[f].text) : s[Offset(tokens, f - 1) + h] = tokens[f].text[h]
    BY <2>4, Zenon DEF Stands
  <2>6. Len(tokens[f].text) \in Nat \ {0} /\ tokens[f].text[1] \notin Space
    BY <1>3, <1>16, <1>17, Forms, Zenon
  <2>7. PICK w \in Nat \ {0} : w = Len(tokens[f].text)
    BY <2>6
  <2>8. Offset(tokens, f) = g + w /\ 1 \in 1..w
    BY <1>18, <2>5, <2>7
  <2>9. s[g + 1] = tokens[f].text[1]
    BY <1>18, <2>5, <2>7, <2>8, Zenon
  <2>10. a <= g /\ g + 1 <= b
    BY <1>4, <1>5, <1>18, <2>1, <2>3, <2>8
  <2>11. QED  BY <2>6, <2>9, <2>10, Zenon
<1>20. ASSUME NEW z \in (a + 1)..g  PROVE s[z] \in Space
  <2>1. z \in (Offset(tokens, c) + 1)..Offset(tokens, f - 1)
    BY <1>4, <1>18, Zenon
  <2>2. PICK k \in (c + 1)..(f - 1) :
          \E h \in 1..Len(tokens[k].text) : z = Offset(tokens, k - 1) + h
    BY <1>17, <2>1, TokenAt
  <2>3. PICK h \in 1..Len(tokens[k].text) : z = Offset(tokens, k - 1) + h
    BY <2>2
  <2>4. k \in 1..Len(tokens) /\ tokens[k].kind = "space"
    BY <1>17, Zenon
  <2>5. tokens[k].text[h] \in Space
    BY <1>3, <2>4, Forms, Zenon
  <2>6. s[Offset(tokens, k - 1) + h] = tokens[k].text[h]
    BY <1>2, <2>4, Zenon DEF Stands
  <2>7. QED  BY <2>3, <2>5, <2>6, Zenon
(* It has the segment's first character that is not a space.               *)
<1>21. PICK m : m = g + 1 - a
  OBVIOUS
<1>22. m \in 1..n /\ a + m = g + 1
  BY <1>10, <1>19, <1>21
<1>23. Solid(cur) = {h \in 1..n : s[a + h] \notin Space} /\ Solid(cur) \in SUBSET Nat
  BY <1>11 DEF Solid
<1>24. m \in Solid(cur)
  BY <1>19, <1>22, <1>23
<1>25. \A h \in Solid(cur) : m <= h
  <2> TAKE h \in Solid(cur)
  <2>1. SUFFICES ASSUME ~(m <= h)  PROVE FALSE
    OBVIOUS
  <2>2. h \in 1..n /\ s[a + h] \notin Space
    BY <1>23
  <2>3. a + h \in (a + 1)..g
    BY <1>21, <1>22, <2>1, <2>2
  <2>4. QED  BY <1>20, <2>2, <2>3, Zenon
<1>26. Min(Solid(cur)) = m
  <2>1. Min(Solid(cur)) \in Solid(cur) /\ \A h \in Solid(cur) : Min(Solid(cur)) <= h
    BY <1>23, <1>24, MinIsLeast
  <2>2. PICK k \in Nat : k = Min(Solid(cur))
    BY <1>23, <2>1
  <2>3. k <= m /\ m <= k /\ m \in Nat
    BY <1>22, <1>24, <1>25, <2>1, <2>2
  <2>4. QED  BY <2>2, <2>3
<1>27. st
  BY <1>7, <1>24, Zenon
<1>28. sl = Lines(SubSeq(s, 1, g))
  <2>1. pos - 1 - Len(cur) + m = g + 1
    <3>1. pos - 1 - Len(cur) = a
      BY <1>6
    <3>2. a + m = g + 1
      BY <1>22
    <3>3. QED  BY <3>1, <3>2, Zenon
  <2>2. sl = Lines(SubSeq(s, 1, g + 1))
    BY <1>7, <1>26, <1>27, <2>1, Zenon
  <2>3. g + 1 \in 1..Len(s) /\ (g + 1) - 1 = g
    BY <1>2, <1>11, <1>19
  <2>4. PICK k \in 1..Len(s) : k = g + 1
    BY <2>3
  <2>5. /\ Lines(SubSeq(s, 1, k - 1)) \in Nat \ {0}
        /\ Lines(SubSeq(s, 1, k)) = Lines(SubSeq(s, 1, k - 1)) + (IF s[k] = "\n" THEN 1 ELSE 0)
    BY <1>2, LinesStep, Zenon
  <2>6. s[k] # "\n"
    BY <1>19, <2>4 DEF Space
  <2>7. Lines(SubSeq(s, 1, k)) = Lines(SubSeq(s, 1, k - 1))
    BY <2>5, <2>6
  <2>8. QED  BY <2>2, <2>3, <2>4, <2>7, Zenon
<1>29. Lines(TextOf(SubSeq(tokens, 1, f - 1))) = sl
  <2>1. 0 \in 0..(f - 1) /\ 0 + 1 = 1
    BY <1>17
  <2>2. TextOf(SubSeq(tokens, 0 + 1, f - 1)) =
          SubSeq(TextOf(tokens), Offset(tokens, 0) + 1, Offset(tokens, f - 1))
    BY <1>17, <2>1, TextOfPart
  <2>3. QED  BY <1>2, <1>18, <1>28, <2>1, <2>2, Zenon
<1>30. Expected(tokens, c) = [sql |-> TrimSpace(cur), line |-> sl]
  <2>1. PICK y : y = TrimSpace(TextOf(Piece(tokens, c)))
    OBVIOUS
  <2>2. PICK z : z = Lines(TextOf(SubSeq(tokens, 1, f - 1)))
    OBVIOUS
  <2>3. Expected(tokens, c) = [sql |-> y, line |-> z]
    BY <1>15, <2>1, <2>2, Zenon DEF Expected, Others
  <2>4. y = TrimSpace(cur) /\ z = sl
    BY <1>9, <1>29, <2>1, <2>2, Zenon
  <2>5. QED  BY <2>3, <2>4
<1>31. TrimSpace(cur) # << >>
  <2> DEFINE solid == {k \in DOMAIN cur : cur[k] \notin Space}
  <2>1. solid = Solid(cur)
    BY Zenon DEF Solid
  <2>2. TrimSpace(cur) = SubSeq(cur, Min(solid), Max(solid))
    BY <1>24, <2>1, Zenon DEF TrimSpace
  <2> HIDE DEF solid
  <2>3. Solid(cur) \in SUBSET (1..n)
    BY <1>23
  <2>4. Max(Solid(cur)) \in Solid(cur) /\ \A h \in Solid(cur) : h <= Max(Solid(cur))
    BY <1>24, <2>3, MaxIsGreatest
  <2>5. PICK z \in 1..n : z = Max(Solid(cur))
    BY <2>3, <2>4
  <2>6. m <= z
    BY <1>24, <2>4, <2>5
  <2>7. TrimSpace(cur) = SubSeq(cur, m, z)
    BY <1>26, <2>1, <2>2, <2>5, Zenon
  <2>8. m \in Nat /\ z \in Nat /\ m >= 1 /\ z <= Len(cur)
    BY <1>6, <1>10, <1>22
  <2>9. Len(SubSeq(cur, m, z)) = z - m + 1
    BY <1>7, <2>6, <2>8, PartOfText
  <2>10. z - m + 1 # 0
    BY <2>6, <2>8
  <2>11. Len(<< >>) = 0
    BY EmptySeq
  <2>12. QED  BY <2>7, <2>9, <2>10, <2>11, Zenon
<1>32. QED  BY <1>27, <1>30, <1>31, Zenon

(* So the segments are the statements up to the next cut, whoever makes    *)
(* the segment of what has been read.                                      *)
LEMMA EmittedAreStatements ==
  ASSUME Inv, sql = TextOf(script), WellFormed(script),
         NEW c, NEW e, IsPiece(script, c, e), i = Offset(script, e - 1) + 1,
         Len(current) = i - 1 - Offset(script, c),
         segmentHasContent <=> ContentIn(script, c + 1, e - 1),
         AreStatements(out, script, c),
         NEW first, segmentStarted => first = segmentLine
  PROVE  AreStatements(Emitted(first), script, e)
<1>1. script \in Seq(Token) /\ out \in Seq(Segment)
  BY Zenon DEF Inv, Rest
<1>2. \A k \in 1..Len(script) : IsToken(script[k])
  BY <1>1, TokenTexts, Zenon DEF WellFormed
<1>3. PICK s2 : s2 = Emitted(first)
  OBVIOUS
<1>4. CASE ContentIn(script, c + 1, e - 1)
  <2>1. Placed(sql, i, current, line, segmentLine, segmentStarted)
    BY Zenon DEF Inv, Place
  <2>2. /\ segmentStarted /\ TrimSpace(current) # << >>
        /\ [sql |-> TrimSpace(current), line |-> segmentLine] = Expected(script, c)
    BY <1>1, <1>2, <1>4, <2>1, SegmentIsExpected
  <2>3. Emitted(first) = Append(out, [sql |-> TrimSpace(current), line |-> segmentLine])
    BY <1>4, <2>2, Zenon DEF Emitted
  <2>4. s2 = Append(out, Expected(script, c))
    BY <1>3, <2>2, <2>3, Zenon
  <2>5. AreStatements(s2, script, e)
    BY <1>1, <1>4, <2>4, OneMoreStatement
  <2>6. QED  BY <1>3, <2>5, Zenon
<1>5. CASE ~ContentIn(script, c + 1, e - 1)
  <2>1. s2 = out
    BY <1>3, <1>5, Zenon DEF Emitted
  <2>2. AreStatements(s2, script, e)
    BY <1>1, <1>5, <2>1, OneMoreStatement
  <2>3. QED  BY <1>3, <2>2, Zenon
<1>6. QED  BY <1>4, <1>5

(* A semicolon outside of comments and strings is a token of its own, and  *)
(* what follows begins a new piece.                                        *)
LEMMA SemicolonKnown ==
  ASSUME Inv, sql = TextOf(script), WellFormed(script), NEW t, NEW p, NEW c,
         Reads(t, p), Gathers(t, p, c), NEW x, NEW o, Here(t, p, x, o), Semicolon
  PROVE  Reads(t + 1, 0)' /\ Gathers(t + 1, 0, t)'
<1>1. script \in Seq(Token) /\ Place
  BY Zenon DEF Inv, Rest
<1>2. /\ \A k \in 1..Len(script) : IsToken(script[k])
      /\ Len(script) \in Nat /\ DOMAIN script = 1..Len(script)
  BY <1>1, TokenTexts, Zenon DEF WellFormed
<1>3. /\ mode = "sql" /\ ch = ";" /\ out' = Emitted(segmentLine')
      /\ segmentLine' = (IF Starting THEN line ELSE segmentLine)
      /\ i' = i + 1 /\ current' = << >> /\ segmentHasContent' = FALSE
      /\ script' = script /\ mode' = "sql" /\ dollarTag' = dollarTag
  BY DEF Semicolon, In
<1>4. /\ x = script[t].text /\ x \in Seq(Characters) /\ Len(x) \in Nat \ {0}
      /\ script[t] \in Token /\ IsToken(script[t]) /\ t \in 1..Len(script)
      /\ Inside(script[t], p, mode, dollarTag)
  BY Zenon DEF Here
<1>5. script[t].kind = "semicolon"
  <2>1. SUFFICES ASSUME script[t].kind # "semicolon"  PROVE FALSE
    OBVIOUS
  <2>2. ~Loose(script[t])
    BY <1>3, LooseSees, Zenon
  <2>3. p = 0
    BY <1>3, <1>4, <2>2, Zenon DEF Inside, Modes
  <2>4. PICK m \in Modes : Begins(x, m)
    BY <1>4, <2>1, <2>2, Forms, Zenon
  <2>5. Here(t, 0, x, o)
    BY <2>3, Zenon
  <2>6. ch = Mark(m)
    BY <1>1, <2>4, <2>5, BeginSeen, Zenon
  <2>7. QED  BY <1>3, <2>4, <2>6, MarksDiffer, Zenon
<1>6. p = 0 /\ Len(x) = 1
  <2>1. ch = ";" /\ p = 0 /\ Len(x) = 1
    BY <1>5, SemicolonSeen
  <2>2. QED  BY <2>1, Zenon
<1>7. ~Unclosed(script[t])
  BY <1>5, Zenon DEF Unclosed
<1>8. ReadsIn(script, i, mode, dollarTag, t, p)
  BY Zenon DEF Reads
<1>9. /\ 1 \in Nat \ {0} /\ p + 1 = 1 /\ p \in Nat
  BY <1>6
<1>10. ReadsIn(script, i + 1, mode', dollarTag', t + 1, 0)
  <2>1. p + 1 <= Len(script[t].text) /\ p + 1 = Len(script[t].text)
    <3>1. Len(script[t].text) = 1
      BY <1>4, <1>6, Zenon
    <3>2. QED  BY <1>9, <3>1
  <2>2. PICK t2, p2 : /\ ReadsIn(script, i + 1, mode', dollarTag', t2, p2)
                      /\ GoesTo(script[t], t, p, 1, t2, p2)
    BY <1>1, <1>2, <1>3, <1>4, <1>7, <1>8, <1>9, <2>1, ReadsOn
  <2>3. ~(t2 = t /\ p2 = p + 1)
    <3>1. SUFFICES ASSUME t2 = t, p2 = p + 1  PROVE FALSE
      OBVIOUS
    <3>2. t <= Len(script)
      BY <1>2, <1>4
    <3>3. Unclosed(script[t])
      BY <2>1, <2>2, <3>1, <3>2, Zenon DEF ReadsIn
    <3>4. QED  BY <1>7, <3>3
  <2>4. t2 = t + 1 /\ p2 = 0
    BY <2>2, <2>3, Zenon DEF GoesTo
  <2>5. QED  BY <2>2, <2>4, Zenon
(* The segment ends here.                                                  *)
<1>11. /\ GathersIn(script, i, Len(current), segmentHasContent, t, p, c)
       /\ AreStatements(out, script, c)
  BY Zenon DEF Gathers
<1>12. t \in Cuts(script)
  BY <1>2, <1>4, <1>5, Zenon DEF Cuts
<1>13. IsPiece(script, c, t)
  BY <1>11, <1>12, Zenon DEF GathersIn, IsPiece
<1>14. i = Offset(script, t - 1) + 1
  <2>1. i = Offset(script, t - 1) + p + 1
    BY <1>8, Zenon DEF ReadsIn
  <2>2. PICK s : s = TextOf(script)
    OBVIOUS
  <2>3. Stands(s, script, t)
    BY <1>1, <1>4, <2>2, Offsets
  <2>4. Offset(script, t - 1) \in Nat
    BY <2>3, Zenon DEF Stands
  <2>5. QED  BY <1>6, <2>1, <2>4
<1>15. /\ Len(current) = i - 1 - Offset(script, c)
       /\ segmentHasContent <=> ContentIn(script, c + 1, t - 1)
  <2>1. script[t].kind # "open" /\ script[t].kind # "content"
    BY <1>5
  <2>2. QED  BY <1>11, <2>1, Zenon DEF GathersIn
<1>16. segmentStarted => segmentLine' = segmentLine
  BY <1>3, Zenon DEF Starting
<1>17. AreStatements(out', script, t)
  <2>1. PICK first : first = segmentLine'
    OBVIOUS
  <2>2. segmentStarted => first = segmentLine
    BY <1>16, <2>1, Zenon
  <2>3. AreStatements(Emitted(first), script, t)
    BY <1>11, <1>13, <1>14, <1>15, <2>2, EmittedAreStatements, Zenon
  <2>4. QED  BY <1>3, <2>1, <2>3, Zenon
(* Nothing of the next one has been read.                                  *)
<1>18. GathersIn(script, i + 1, 0, FALSE, t + 1, 0, t)
  <2>1. t < t + 1 /\ ~(0 > 0) /\ (t + 1) - 1 = t
    BY <1>4
  <2>2. \A k \in (t + 1)..t : FALSE
    BY <1>4
  <2>3. 0 = (i + 1) - 1 - Offset(script, t)
    <3>1. PICK s : s = TextOf(script)
      OBVIOUS
    <3>2. Stands(s, script, t)
      BY <1>1, <1>4, <3>1, Offsets
    <3>3. /\ Offset(script, t - 1) \in Nat
          /\ Offset(script, t) = Offset(script, t - 1) + Len(script[t].text)
      BY <3>2, Zenon DEF Stands
    <3>4. Len(script[t].text) = 1
      BY <1>4, <1>6, Zenon
    <3>5. QED  BY <1>14, <3>3, <3>4
  <2>4. ~ContentIn(script, t + 1, (t + 1) - 1)
    BY <2>1, <2>2, Zenon DEF ContentIn
  <2>5. QED  BY <1>12, <2>1, <2>2, <2>3, <2>4, Zenon DEF GathersIn
<1>19. Len(current') = 0
  BY <1>3, EmptySeq
<1>20. /\ ReadsIn(script', i', mode', dollarTag', t + 1, 0)
       /\ GathersIn(script', i', Len(current'), segmentHasContent', t + 1, 0, t)
       /\ AreStatements(out', script', t)
  BY <1>3, <1>10, <1>17, <1>18, <1>19, Zenon
<1>21. QED  BY <1>20, Zenon DEF Reads, Gathers

(* At the end of a script its statements are there, or it ends inside a    *)
(* string or a block comment.                                              *)
LEMMA EndKnown ==
  ASSUME Inv, sql = TextOf(script), WellFormed(script), NEW t, NEW p, NEW c,
         Reads(t, p), Gathers(t, p, c), End
  PROVE  SplitsIntoStatements'
<1>1. script \in Seq(Token) /\ Place
  BY Zenon DEF Inv, Rest
<1>2. /\ \A k \in 1..Len(script) : /\ script[k] \in Token /\ IsToken(script[k])
                                   /\ Unclosed(script[k]) => k = Len(script)
      /\ Len(script) \in Nat /\ DOMAIN script = 1..Len(script)
  BY <1>1, TokenTexts, Zenon DEF WellFormed
<1>3. /\ \/ mode \in {"sql", "line comment"} /\ pc' = "done" /\ out' = Emitted(segmentLine)
         \/ mode \notin {"sql", "line comment"} /\ pc' = "error"
      /\ script' = script
  BY DEF End
<1>4. /\ sql \in Seq(Characters) /\ Len(sql) \in Nat
      /\ Offset(script, Len(script)) = Len(sql)
      /\ \A k \in 0..Len(script) : Offset(script, k) \in Nat
      /\ \A k \in 1..Len(script) : Stands(sql, script, k)
  BY <1>1, Offsets, Zenon
<1>5. i = Len(sql) + 1
  <2>1. i > Len(sql)
    BY DEF End
  <2>2. i \in 1..(Len(sql) + 1)
    BY <1>1, PlaceTypes, Zenon
  <2>3. QED  BY <1>4, <2>1, <2>2
<1>6. /\ t \in 1..(Len(script) + 1) /\ p \in Nat
      /\ i = Offset(script, t - 1) + p + 1
      /\ t = Len(script) + 1 => p = 0 /\ mode = "sql"
      /\ t <= Len(script) => /\ p <= Len(script[t].text)
                             /\ p = Len(script[t].text) => Unclosed(script[t])
                             /\ Inside(script[t], p, mode, dollarTag)
      /\ \A k \in 1..(t - 1) : ~Unclosed(script[k])
  BY Zenon DEF Reads, ReadsIn
<1>7. /\ GathersIn(script, i, Len(current), segmentHasContent, t, p, c)
      /\ AreStatements(out, script, c)
  BY Zenon DEF Gathers
<1>8. PICK e : e = Len(script) + 1
  OBVIOUS
<1>9. e \in Cuts(script) /\ e - 1 = Len(script)
  <2>1. e \in Cuts(script)
    BY <1>8, Zenon DEF Cuts
  <2>2. Len(script) \in Nat
    BY <1>2, Zenon
  <2>3. QED  BY <1>8, <2>1, <2>2
<1>10. ASSUME IsPiece(script, c, e), segmentHasContent <=> ContentIn(script, c + 1, e - 1)
       PROVE  AreStatements(Emitted(segmentLine), script, e)
  <2>1. i = Offset(script, e - 1) + 1
    BY <1>4, <1>5, <1>9, Zenon
  <2>2. Len(current) = i - 1 - Offset(script, c)
    BY <1>7, Zenon DEF GathersIn
  <2>3. QED  BY <1>7, <1>10, <2>1, <2>2, EmittedAreStatements, Zenon
<1>11. CASE t = e
  <2>1. pc' = "done" /\ out' = Emitted(segmentLine) /\ pc' # "error"
    BY <1>3, <1>6, <1>8, <1>11
  <2>2. IsPiece(script, c, e)
    BY <1>7, <1>9, <1>11, Zenon DEF GathersIn, IsPiece
  <2>3. ~(t <= Len(script))
    <3>1. Len(script) \in Nat
      BY <1>2, Zenon
    <3>2. QED  BY <1>8, <1>11, <3>1
  <2>4. segmentHasContent <=> ContentIn(script, c + 1, e - 1)
    BY <1>7, <1>11, <2>3, Zenon DEF GathersIn
  <2>5. AreStatements(out', script', Len(script') + 1)
    BY <1>3, <1>8, <1>10, <2>1, <2>2, <2>4, Zenon
  <2>6. \A k \in DOMAIN script' : script'[k].kind # "open"
    BY <1>2, <1>3, <1>6, <1>9, <1>11, Zenon DEF Unclosed
  <2>7. QED  BY <2>1, <2>5, <2>6, Zenon DEF SplitsIntoStatements
<1>12. CASE t # e
  <2>1. t \in 1..Len(script) /\ t <= Len(script)
    <3>1. Len(script) \in Nat /\ t \in 1..(Len(script) + 1)
      BY <1>2, <1>6, Zenon
    <3>2. QED  BY <1>8, <1>12, <3>1
  <2>2. PICK x : x = script[t].text
    OBVIOUS
  <2>3. x \in Seq(Characters) /\ Len(x) \in Nat \ {0}
    BY <1>2, <2>1, <2>2, Forms, Zenon
  <2>4. p = Len(x) /\ Unclosed(script[t])
    <3>1. /\ Offset(script, t) = Offset(script, t - 1) + Len(x)
          /\ Offset(script, t) <= Len(sql) /\ Offset(script, t - 1) \in Nat
      BY <1>4, <2>1, <2>2, Zenon DEF Stands
    <3>2. p <= Len(x) /\ p \in Nat
      BY <1>6, <2>1, <2>2, Zenon
    <3>3. p = Len(x)
      BY <1>4, <1>5, <1>6, <2>3, <3>1, <3>2
    <3>4. QED  BY <1>6, <2>1, <2>2, <3>3, Zenon
  <2>5. t = Len(script) /\ t = e - 1 /\ e = t + 1
    BY <1>2, <1>8, <1>9, <2>1, <2>4
  <2>6. ~Loose(script[t]) /\ p > 0 /\ p # 0
    <3>1. script[t].kind \in {"open", "comment"}
      BY <2>4, Zenon DEF Unclosed
    <3>2. ~Loose(script[t])
      BY <3>1, Zenon DEF Loose
    <3>3. p > 0 /\ p # 0
      BY <2>3, <2>4
    <3>4. QED  BY <3>2, <3>3
  <2>7. mode \in Modes /\ Begins(x, mode)
    BY <1>6, <2>1, <2>2, <2>6, Zenon DEF Inside
  <2>8. DelimitedBy(script[t], mode)
    BY <1>2, <2>1, <2>2, <2>7, Delimited, Zenon
  <2>9. CASE mode = "line comment"
    <3>1. script[t].kind = "comment"
      BY <2>8, <2>9, Zenon DEF DelimitedBy
    <3>2. pc' = "done" /\ out' = Emitted(segmentLine) /\ pc' # "error"
      BY <1>3, <2>9
    <3>3. script[t].kind # "semicolon" /\ script[t].kind # "content" /\ script[t].kind # "open"
      BY <3>1
    <3>4. /\ c \in Cuts(script) /\ c < t
          /\ \A k \in (c + 1)..(t - 1) : script[k].kind # "semicolon"
          /\ segmentHasContent <=> ContentIn(script, c + 1, t - 1)
      BY <1>7, <3>3, Zenon DEF GathersIn
    <3>5. c \in Nat
      <4>1. c = 0 \/ c = Len(script) + 1 \/ c \in 1..Len(script)
        BY <1>2, <3>4, Zenon DEF Cuts
      <4>2. Len(script) \in Nat
        BY <1>2, Zenon
      <4>3. QED  BY <4>1, <4>2
    <3>6. /\ c < e
          /\ \A k : k \in (c + 1)..(e - 1) <=> k = t \/ k \in (c + 1)..(t - 1)
      BY <2>1, <2>5, <3>4, <3>5
    <3>7. IsPiece(script, c, e)
      BY <1>9, <3>3, <3>4, <3>6, Zenon DEF IsPiece
    <3>8. ContentIn(script, c + 1, e - 1) <=> ContentIn(script, c + 1, t - 1)
      BY <3>3, <3>6, Zenon DEF ContentIn
    <3>9. AreStatements(out', script', Len(script') + 1)
      BY <1>3, <1>8, <1>10, <3>2, <3>4, <3>7, <3>8, Zenon
    <3>10. ASSUME NEW k \in 1..Len(script)  PROVE script[k].kind # "open"
      <4>1. k = t \/ k \in 1..(t - 1)
        BY <1>2, <2>5
      <4>2. QED  BY <1>6, <3>3, <4>1, Zenon DEF Unclosed
    <3>11. \A k \in DOMAIN script' : script'[k].kind # "open"
      BY <1>2, <1>3, <3>10, Zenon
    <3>12. QED  BY <3>2, <3>9, <3>11, Zenon DEF SplitsIntoStatements
  <2>10. CASE mode # "line comment"
    <3>1. script[t].kind = "open"
      BY <2>4, <2>8, <2>10, Zenon DEF DelimitedBy
    <3>2. pc' = "error" /\ pc' # "done"
      BY <1>3, <2>7, <2>10 DEF Modes
    <3>3. \E k \in DOMAIN script' : script'[k].kind = "open"
      BY <1>2, <1>3, <2>1, <3>1, Zenon
    <3>4. QED  BY <3>2, <3>3, Zenon DEF SplitsIntoStatements
  <2>11. QED  BY <2>9, <2>10
<1>13. QED  BY <1>11, <1>12

-----------------------------------------------------------------------------
(***************************************************************************)
(* The scan knows where it is in the tokens, and what it has made of them. *)
(***************************************************************************)
(* At the start it is in front of the first token.                         *)
LEMMA InitKnown == Init => Known
<1> SUFFICES ASSUME Init  PROVE Known
  OBVIOUS
<1>1. /\ script \in Seq(Token) /\ sql = TextOf(script) /\ i = 1 /\ mode = "sql"
      /\ segmentHasContent = FALSE /\ current = << >> /\ out = << >> /\ pc = "scan"
  BY ScriptsAssumption DEF Init
<1>2. SUFFICES ASSUME WellFormed(script)
               PROVE  Reads(1, 0) /\ Gathers(1, 0, 0) /\ SplitsIntoStatements
  BY <1>1, Zenon DEF Known
<1>3. /\ Len(script) \in Nat /\ DOMAIN script = 1..Len(script)
      /\ \A k \in 1..Len(script) : script[k] \in Token /\ IsToken(script[k])
  BY <1>1, <1>2, TokenTexts, Zenon DEF WellFormed
<1>4. Offset(script, 0) = 0 /\ 1 - 1 = 0 /\ 0 + 1 = 1
  BY <1>1, Offsets
<1>5. Reads(1, 0)
  <2>1. /\ 1 \in 1..(Len(script) + 1) /\ 0 \in Nat /\ 1 = Offset(script, 1 - 1) + 0 + 1
        /\ \A k \in 1..(1 - 1) : FALSE
    <3>1. Len(script) \in Nat
      BY <1>3, Zenon
    <3>2. QED  BY <1>4, <3>1
  <2>2. ASSUME 1 <= Len(script)
        PROVE  0 <= Len(script[1].text) /\ 0 # Len(script[1].text)
    <3>1. 1 \in 1..Len(script)
      <4>1. Len(script) \in Nat
        BY <1>3, Zenon
      <4>2. QED  BY <2>2, <4>1
    <3>2. Len(script[1].text) \in Nat \ {0}
      BY <1>3, <3>1, Forms, Zenon
    <3>3. QED  BY <3>2
  <2>3. Inside(script[1], 0, "sql", dollarTag)
    BY Zenon DEF Inside
  <2>4. ReadsIn(script, 1, "sql", dollarTag, 1, 0)
    BY <2>1, <2>2, <2>3, Zenon DEF ReadsIn
  <2>5. QED  BY <1>1, <2>4, Zenon DEF Reads
<1>6. Gathers(1, 0, 0)
  <2>1. /\ 0 \in Cuts(script) /\ 0 < 1 /\ ~(0 > 0)
        /\ \A k \in (0 + 1)..(1 - 1) : FALSE
        /\ 0 = 1 - 1 - Offset(script, 0)
    <3>1. 0 \in Cuts(script)
      BY Zenon DEF Cuts
    <3>2. QED  BY <1>4, <3>1
  <2>2. ~ContentIn(script, 0 + 1, 1 - 1)
    BY <2>1, Zenon DEF ContentIn
  <2>3. GathersIn(script, 1, 0, FALSE, 1, 0, 0)
    BY <2>1, <2>2, Zenon DEF GathersIn
  <2>4. Len(current) = 0
    BY <1>1, EmptySeq
  <2>5. AreStatements(<< >>, script, 0)
    <3>1. \A k \in Cuts(script) : ~(k < 0)
      <4> TAKE k \in Cuts(script)
      <4>1. k = 0 \/ k = Len(script) + 1 \/ k \in 1..Len(script)
        BY <1>3, Zenon DEF Cuts
      <4>2. Len(script) \in Nat
        BY <1>3, Zenon
      <4>3. QED  BY <4>1, <4>2
    <3>2. Wanted(script, 0) = {}
      BY <3>1, Zenon DEF Wanted
    <3>3. Len(<< >>) = 0 /\ Cardinality({}) = 0
      BY EmptySeq, FS_EmptySet
    <3>4. QED  BY <3>2, <3>3, Zenon DEF AreStatements
  <2>6. GathersIn(script, i, Len(current), segmentHasContent, 1, 0, 0)
    BY <1>1, <2>3, <2>4, Zenon
  <2>7. AreStatements(out, script, 0)
    BY <1>1, <2>5, Zenon
  <2>8. QED  BY <2>6, <2>7, Zenon DEF Gathers
<1>7. SplitsIntoStatements
  BY <1>1, Zenon DEF SplitsIntoStatements
<1>8. QED  BY <1>5, <1>6, <1>7, Zenon

(* Every step keeps it.                                                    *)
LEMMA NextKnown == Inv /\ Known /\ [Next]_vars => Known'
<1> SUFFICES ASSUME Inv, Known, [Next]_vars  PROVE Known'
  OBVIOUS
<1>1. CASE UNCHANGED vars
  <2>1. /\ script' = script /\ sql' = sql /\ i' = i /\ mode' = mode
        /\ dollarTag' = dollarTag /\ current' = current /\ out' = out /\ pc' = pc
        /\ segmentHasContent' = segmentHasContent
    BY <1>1 DEF vars
  <2>2. ASSUME NEW t, NEW p, NEW c, Reads(t, p), Gathers(t, p, c)
        PROVE  Reads(t, p)' /\ Gathers(t, p, c)'
    BY <2>1, <2>2, Zenon DEF Reads, Gathers
  <2>3. SplitsIntoStatements => SplitsIntoStatements'
    BY <2>1, Zenon DEF SplitsIntoStatements
  <2>4. sql' = TextOf(script') /\ (WellFormed(script') <=> WellFormed(script))
    BY <2>1, Zenon DEF Known
  <2>5. QED  BY <2>1, <2>2, <2>3, <2>4, Zenon DEF Known
<1>2. CASE Next /\ ~UNCHANGED vars
  <2>1. /\ script' = script /\ sql' = sql /\ pc = "scan"
        /\ \/ pc' = pc /\ i <= Len(sql) /\ ~End
           \/ End
    BY <1>2 DEF Next, LineComment, BlockComment, DollarQuoted, SingleQuoted, DoubleQuoted,
                Quoted, OpenComment, OpenQuote, Semicolon, Other, End, Done, In, Kept
  <2>2. SUFFICES ASSUME WellFormed(script)
                 PROVE  /\ pc' = "scan" => \E t, p, c : Reads(t, p)' /\ Gathers(t, p, c)'
                        /\ SplitsIntoStatements'
    BY <2>1, Zenon DEF Known
  <2>3. sql = TextOf(script)
    BY Zenon DEF Known
  <2>4. PICK t, p, c : Reads(t, p) /\ Gathers(t, p, c)
    BY <2>1, <2>2, Zenon DEF Known
  <2>5. CASE End
    <3>1. SplitsIntoStatements'
      BY <2>2, <2>3, <2>4, <2>5, EndKnown, Zenon
    <3>2. pc' # "scan"
      BY <2>5 DEF End
    <3>3. QED  BY <3>1, <3>2
  <2>6. CASE pc' = pc /\ i <= Len(sql) /\ ~End
    <3>1. PICK o : Here(t, p, script[t].text, o)
      BY <2>2, <2>3, <2>4, <2>6, ScanIsHere, Zenon
    <3>2. PICK x : x = script[t].text
      OBVIOUS
    <3>3. Here(t, p, x, o)
      BY <3>1, <3>2, Zenon
    <3>4. \E t2, p2, d : Reads(t2, p2)' /\ Gathers(t2, p2, d)'
      <4>1. CASE Semicolon
        BY <2>2, <2>3, <2>4, <3>3, <4>1, SemicolonKnown, Zenon
      <4>2. CASE \/ LineComment \/ BlockComment \/ DollarQuoted \/ SingleQuoted
                 \/ DoubleQuoted \/ OpenComment \/ OpenQuote \/ Other
        <5>1. PICK n : Moves(t, p, n)
          BY <3>3, <4>2, TokenMoves, Zenon
        <5>2. QED  BY <2>2, <2>4, <3>3, <5>1, MovesKeep, Zenon
      <4>3. ~Done
        BY <1>2 DEF Done
      <4>4. QED  BY <1>2, <2>6, <4>1, <4>2, <4>3, Zenon DEF Next
    <3>5. SplitsIntoStatements'
      BY <2>1, <2>6, Zenon DEF SplitsIntoStatements
    <3>6. QED  BY <3>4, <3>5, Zenon
  <2>7. QED  BY <2>1, <2>5, <2>6
<1>3. QED  BY <1>1, <1>2

-----------------------------------------------------------------------------
(***************************************************************************)
(* The second reader: where it finds tokens, spaces and comments.          *)
(***************************************************************************)
Places(s) == 0..(Len(s) + 1)

(* The function that lexemes recurses by.                                  *)
Follows(s, f) ==
  f = [p \in Places(s) |-> IF p \in DOMAIN s THEN {p} \cup f[lexeme(s, p)] ELSE {}]

(* No reading goes on from a position in C to one that is not in it.       *)
ClosedIn(s, C) == \A x \in C : x \in DOMAIN s => lexeme(s, x) \in C

(* Every lexeme goes forward, or has no end.                               *)
Forward(s) ==
  \A p \in DOMAIN s : lexeme(s, p) = 0 \/ lexeme(s, p) \in (p + 1)..(Len(s) + 1)

(* There is such a function: the positions reached from p are those in     *)
(* every closed set that p is in.                                          *)
LEMMA FollowsExists ==
  ASSUME NEW s \in Seq(Characters), Forward(s)
  PROVE  \E f : Follows(s, f)
<1>1. DOMAIN s = 1..Len(s) /\ Len(s) \in Nat /\ DOMAIN s \subseteq Places(s)
  BY LenProperties DEF Places
<1> DEFINE Around(p) == {C \in SUBSET Places(s) : p \in C /\ ClosedIn(s, C)}
           F == [p \in Places(s) |-> {q \in DOMAIN s : \A C \in Around(p) : q \in C}]
<1>2. ASSUME NEW p \in DOMAIN s  PROVE F[p] = {p} \cup F[lexeme(s, p)]
  <2>1. PICK n : n = lexeme(s, p)
    OBVIOUS
  <2>2. p \in Places(s) /\ n \in Places(s)
    BY <1>1, <2>1 DEF Forward, Places
  <2>3. \A C \in Around(p) : n \in C /\ C \in Around(n)
    BY <2>1 DEF ClosedIn
  <2>4. \A C \in Around(n) : C \cup {p} \in Around(p)
    BY <2>1, <2>2 DEF ClosedIn
  <2>5. \A q \in DOMAIN s : q # p =>
          ((\A C \in Around(p) : q \in C) <=> (\A C \in Around(n) : q \in C))
    <3> TAKE q \in DOMAIN s
    <3>1. ASSUME q # p, \A C \in Around(p) : q \in C, NEW C \in Around(n)  PROVE q \in C
      <4>1. q \in C \cup {p}
        BY <2>4, <3>1
      <4> QED  BY <3>1, <4>1
    <3> HIDE DEF Around
    <3> QED  BY <2>3, <3>1
  <2>6. \A C \in Around(p) : p \in C
    OBVIOUS
  <2> HIDE DEF Around
  <2>7. \A q : q \in F[p] <=> q = p \/ q \in F[n]
    BY <2>2, <2>5, <2>6
  <2> QED  BY <2>1, <2>7
<1>3. ASSUME NEW p \in Places(s), p \notin DOMAIN s  PROVE F[p] = {}
  <2>1. {p} \in Around(p)
    BY <1>3 DEF ClosedIn
  <2> HIDE DEF Around
  <2>2. \A q \in F[p] : q = p /\ q \in DOMAIN s
    BY <2>1
  <2> QED  BY <1>3, <2>2
<1>4. F = [p \in Places(s) |-> F[p]]
  OBVIOUS
<1> HIDE DEF F
<1>5. F = [p \in Places(s) |-> IF p \in DOMAIN s THEN {p} \cup F[lexeme(s, p)] ELSE {}]
  BY <1>2, <1>3, <1>4
<1> QED  BY <1>5 DEF Follows

(* What the reading reaches from p: p itself, what is read after what it   *)
(* reaches, and nothing outside of a closed set with p in it.              *)
Reaches(s, p, R) ==
  /\ R \subseteq DOMAIN s /\ (p \in DOMAIN s => p \in R)
  /\ \A q \in R : lexeme(s, q) \in DOMAIN s => lexeme(s, q) \in R
  /\ \A C : p \in C /\ ClosedIn(s, C) => R \subseteq C

(* Its value at each position is what is reached from it.                  *)
LEMMA FollowsReaches ==
  ASSUME NEW s \in Seq(Characters), Forward(s), NEW f, Follows(s, f)
  PROVE  \A p \in Places(s) : Reaches(s, p, f[p])
<1>1. DOMAIN s = 1..Len(s) /\ Len(s) \in Nat /\ DOMAIN s \subseteq Places(s)
  BY LenProperties DEF Places
<1> DEFINE G == {d \in Nat : \A p \in Places(s) : Len(s) + 1 - p <= d => Reaches(s, p, f[p])}
<1>2. ASSUME NEW p \in Places(s), p \notin DOMAIN s  PROVE Reaches(s, p, f[p])
  <2>1. f[p] = {}
    BY <1>2 DEF Follows
  <2> QED  BY <1>2, <2>1 DEF Reaches
<1>3. ASSUME NEW p \in DOMAIN s, Reaches(s, lexeme(s, p), f[lexeme(s, p)])
      PROVE  Reaches(s, p, f[p])
  <2>1. f[p] = {p} \cup f[lexeme(s, p)]
    BY <1>1 DEF Follows
  <2>2. \A C : p \in C /\ ClosedIn(s, C) => f[p] \subseteq C
    BY <1>3, <2>1 DEF Reaches, ClosedIn
  <2>3. \A q \in f[p] : lexeme(s, q) \in DOMAIN s => lexeme(s, q) \in f[p]
    BY <1>3, <2>1 DEF Reaches
  <2>4. f[p] \subseteq DOMAIN s /\ p \in f[p]
    BY <1>3, <2>1 DEF Reaches
  <2> QED  BY <2>2, <2>3, <2>4 DEF Reaches
<1>4. 0 \in G
  <2>1. \A p \in Places(s) : Len(s) + 1 - p <= 0 => p \notin DOMAIN s
    BY <1>1 DEF Places
  <2> QED  BY <1>2, <2>1
<1>5. ASSUME NEW n \in Nat, NEW d \in 1..n, d - 1 \in G  PROVE d \in G
  <2>1. ASSUME NEW p \in DOMAIN s, Len(s) + 1 - p <= d  PROVE Reaches(s, p, f[p])
    <3>1. PICK m : m = lexeme(s, p)
      OBVIOUS
    <3>2. m = 0 \/ (m \in Places(s) /\ Len(s) + 1 - m <= d - 1)
      BY <1>1, <2>1, <3>1 DEF Forward, Places
    <3>3. 0 \in Places(s) /\ 0 \notin DOMAIN s
      BY <1>1 DEF Places
    <3>4. Reaches(s, m, f[m])
      BY <1>2, <1>5, <3>2, <3>3
    <3> QED  BY <1>3, <3>1, <3>4
  <2>2. d \in Nat
    OBVIOUS
  <2> QED  BY <1>2, <2>1, <2>2
<1>6. ASSUME NEW p \in Places(s)  PROVE Reaches(s, p, f[p])
  <2>1. Len(s) + 1 \in Nat /\ Len(s) + 1 \in 0..(Len(s) + 1) /\ Len(s) + 1 - p <= Len(s) + 1
    BY <1>1 DEF Places
  <2> HIDE DEF G
  <2>2. Len(s) + 1 \in G
    BY <1>4, <1>5, <2>1, UpToNat
  <2> QED  BY <2>1, <2>2 DEF G
<1> QED  BY <1>6

(* So it is with the lexemes, from the first position on.                  *)
LEMMA LexemesReached ==
  ASSUME NEW s \in Seq(Characters), Forward(s)
  PROVE  Reaches(s, 1, lexemes(s))
<1>1. PICK f : Follows(s, f)
  BY FollowsExists
<1>2. lexemes(s) = (CHOOSE g : Follows(s, g))[1]
  BY Zenon DEF lexemes, Follows, Places
<1>3. Follows(s, CHOOSE g : Follows(s, g))
  BY <1>1, Zenon
<1>4. 1 \in Places(s)
  BY LenProperties DEF Places
<1> QED  BY <1>2, <1>3, <1>4, FollowsReaches, Zenon

(* They stay in a set, if each that is in it is followed by one.           *)
LEMMA LexemesStay ==
  ASSUME NEW s \in Seq(Characters), Forward(s), NEW C, 1 \in C,
         \A p \in C \cap lexemes(s) : lexeme(s, p) \in C
  PROVE  lexemes(s) \subseteq C
<1> DEFINE D == {x \in C : x \in DOMAIN s => x \in lexemes(s)}
<1>1. Reaches(s, 1, lexemes(s))
  BY LexemesReached
<1>2. 1 \in D /\ ClosedIn(s, D)
  BY <1>1 DEF Reaches, ClosedIn
<1>3. lexemes(s) \subseteq D
  BY <1>1, <1>2 DEF Reaches
<1> QED  BY <1>3

-----------------------------------------------------------------------------
(***************************************************************************)
(* What the second reader sees at a position, and where it goes from it.   *)
(***************************************************************************)
HasAt(s, p, mark) ==
  /\ p + Len(mark) - 1 <= Len(s)
  /\ \A h \in 1..Len(mark) : s[p + h - 1] = mark[h]

(* StartsAt compares characters.                                           *)
LEMMA StartsAtIs ==
  ASSUME NEW s \in Seq(Characters), NEW p \in 1..(Len(s) + 1), NEW mark \in Seq(Characters)
  PROVE  StartsAt(s, p, mark) <=> HasAt(s, p, mark)
<1>1. PICK n \in Nat : n = Len(s)
  BY LenProperties
<1>2. PICK l \in Nat : l = Len(mark)
  BY LenProperties
<1>3. PICK z : z = SubSeq(s, p, n)
  OBVIOUS
<1>4. p \in Nat /\ p >= 1 /\ p <= n + 1
  BY <1>1
<1>5. z \in Seq(Characters) /\ Len(z) = n - p + 1 /\ \A k \in 1..(n - p + 1) : z[k] = s[p + k - 1]
  <2>1. /\ z \in Seq(Characters) /\ Len(z) = IF p <= n THEN n - p + 1 ELSE 0
        /\ \A k \in 1..(n - p + 1) : z[k] = s[p + k - 1]
    BY <1>1, <1>3, <1>4, PartOfText
  <2> QED  BY <1>4, <2>1
<1>6. StartsAt(s, p, mark) <=> l <= Len(z) /\ SubSeq(mark, 1, l) = SubSeq(z, 1, l)
  BY <1>1, <1>2, <1>3, Zenon DEF StartsAt, IsPrefix
<1>7. SubSeq(mark, 1, l) = mark
  BY <1>2, SubSeqFull
<1>8. HasAt(s, p, mark) <=> p + l - 1 <= n /\ \A h \in 1..l : s[p + h - 1] = mark[h]
  BY <1>1, <1>2, Zenon DEF HasAt
<1>9. l <= Len(z) <=> p + l - 1 <= n
  BY <1>4, <1>5
<1>10. ASSUME l <= Len(z)
       PROVE  mark = SubSeq(z, 1, l) <=> \A h \in 1..l : s[p + h - 1] = mark[h]
  <2>1. 0 \in Nat /\ 0 + Len(mark) <= Len(z) /\ 0 + 1 = 1 /\ 0 + Len(mark) = l
    BY <1>2, <1>10
  <2>2. SubSeq(z, 0 + 1, 0 + Len(mark)) = mark <=> \A h \in 1..Len(mark) : z[0 + h] = mark[h]
    BY <1>5, <2>1, TagAt
  <2>3. SubSeq(z, 1, l) = mark <=> \A h \in 1..l : z[0 + h] = mark[h]
    BY <1>2, <2>1, <2>2
  <2>4. \A h \in 1..l : z[0 + h] = s[p + h - 1]
    <3> TAKE h \in 1..l
    <3>1. h \in 1..(n - p + 1) /\ 0 + h = h
      BY <1>5, <1>10
    <3> QED  BY <1>5, <3>1
  <2> QED  BY <2>3, <2>4
<1> QED  BY <1>6, <1>7, <1>8, <1>9, <1>10

(* Two characters, one behind the other.                                   *)
At2(s, p, a, b) == p < Len(s) /\ s[p] = a /\ s[p + 1] = b

(* Two characters stand at a position.                                     *)
LEMMA StartsAt2 ==
  ASSUME NEW s \in Seq(Characters), NEW p \in 1..(Len(s) + 1),
         NEW a \in Characters, NEW b \in Characters
  PROVE  StartsAt(s, p, <<a, b>>) <=> At2(s, p, a, b)
<1>1. PICK mark : mark = <<a, b>>
  OBVIOUS
<1>2. mark \in Seq(Characters) /\ Len(mark) = 2 /\ mark[1] = a /\ mark[2] = b
  BY <1>1
<1>3. Len(s) \in Nat
  BY LenProperties
<1>4. HasAt(s, p, mark) <=> p + 2 - 1 <= Len(s) /\ \A h \in 1..2 : s[p + h - 1] = mark[h]
  BY <1>2, Zenon DEF HasAt
<1>5. (\A h \in 1..2 : s[p + h - 1] = mark[h]) <=> s[p] = mark[1] /\ s[p + 1] = mark[2]
  <2>1. p + 1 - 1 = p /\ p + 2 - 1 = p + 1 /\ \A h \in 1..2 : h = 1 \/ h = 2
    OBVIOUS
  <2>2. 1 \in 1..2 /\ 2 \in 1..2
    OBVIOUS
  <2> QED  BY <2>1, <2>2
<1>6. StartsAt(s, p, mark) <=> HasAt(s, p, mark)
  BY <1>2, StartsAtIs
<1>7. p + 2 - 1 <= Len(s) <=> p < Len(s)
  BY <1>3
<1> QED  BY <1>1, <1>2, <1>4, <1>5, <1>6, <1>7, Zenon DEF At2

(* A single character.                                                     *)
LEMMA StartsAt1 ==
  ASSUME NEW s \in Seq(Characters), NEW p \in 1..Len(s), NEW a \in Characters
  PROVE  StartsAt(s, p, <<a>>) <=> s[p] = a
<1>1. PICK mark : mark = <<a>>
  OBVIOUS
<1>2. mark \in Seq(Characters) /\ Len(mark) = 1 /\ mark[1] = a
  BY <1>1
<1>3. Len(s) \in Nat
  BY LenProperties
<1>4. HasAt(s, p, mark) <=> p + 1 - 1 <= Len(s) /\ \A h \in 1..1 : s[p + h - 1] = mark[h]
  BY <1>2, Zenon DEF HasAt
<1>5. (\A h \in 1..1 : s[p + h - 1] = mark[h]) <=> s[p] = mark[1]
  <2>1. p + 1 - 1 = p /\ \A h \in 1..1 : h = 1
    OBVIOUS
  <2> QED  BY <2>1
<1>6. StartsAt(s, p, mark) <=> HasAt(s, p, mark)
  BY <1>2, <1>3, StartsAtIs
<1> QED  BY <1>1, <1>2, <1>3, <1>4, <1>5, <1>6

(* The position after the first place of a mark.                           *)
LEMMA AfterIs ==
  ASSUME NEW s \in Seq(Characters), NEW p \in Nat \ {0}, NEW mark \in Seq(Characters)
  PROVE  /\ After(s, p, mark) = 0
            \/ After(s, p, mark) \in (p + Len(mark))..(Len(s) + 1)
         /\ \A k \in p..Len(s) :
              StartsAt(s, k, mark) /\ (\A h \in p..(k - 1) : ~StartsAt(s, h, mark)) =>
                After(s, p, mark) = k + Len(mark)
<1>1. PICK n \in Nat : n = Len(s)
  BY LenProperties
<1>2. PICK l \in Nat : l = Len(mark)
  BY LenProperties
<1> DEFINE Found == {h \in p..n : StartsAt(s, h, mark)}
           Stops == {k + l : k \in Found}
<1>3. After(s, p, mark) = IF Stops = {} THEN 0 ELSE Min(Stops)
  BY <1>1, <1>2, Zenon DEF After, First
<1>4. \A h \in Found : h \in p..n /\ h + l - 1 <= n
  <2> TAKE h \in Found
  <2>1. h \in p..n /\ h \in 1..(n + 1)
    BY <1>1
  <2>2. HasAt(s, h, mark)
    BY <1>1, <2>1, StartsAtIs
  <2> QED  BY <1>1, <1>2, <2>1, <2>2 DEF HasAt
<1>5. Stops \in SUBSET Nat /\ \A e \in Stops : e \in (p + l)..(n + 1)
  <2> HIDE DEF Found
  <2> QED  BY <1>1, <1>2, <1>4
<1>6. Stops # {} => Min(Stops) \in Stops /\ \A k \in Stops : Min(Stops) <= k
  BY <1>5, MinIsLeast, Zenon
<1>7. After(s, p, mark) = 0 \/ After(s, p, mark) \in (p + l)..(n + 1)
  <2> HIDE DEF Stops
  <2> QED  BY <1>3, <1>5, <1>6
<1>8. ASSUME NEW k \in p..n, StartsAt(s, k, mark),
             \A h \in p..(k - 1) : ~StartsAt(s, h, mark)
      PROVE  After(s, p, mark) = k + l
  <2>1. k \in Found /\ k + l \in Stops
    BY <1>8
  <2>2. \A e \in Stops : k + l <= e
    <3>1. \A h \in Found : k <= h
      <4> TAKE h \in Found
      <4>1. ~(h \in p..(k - 1))
        BY <1>8
      <4> QED  BY <4>1
    <3> HIDE DEF Found
    <3>2. \A h \in Found : h \in Nat
      BY <1>4
    <3> QED  BY <1>2, <3>1, <3>2
  <2>3. PICK m : m = Min(Stops)
    OBVIOUS
  <2>4. m \in Stops /\ m <= k + l
    BY <1>6, <2>1, <2>3
  <2> HIDE DEF Stops
  <2>5. m = k + l
    BY <1>5, <2>1, <2>2, <2>4
  <2> QED  BY <1>3, <2>1, <2>3, <2>5
<1> QED  BY <1>1, <1>2, <1>7, <1>8

(* The position of the first character that is not in a set.               *)
LEMMA PastIs ==
  ASSUME NEW s \in Seq(Characters), NEW p \in 1..(Len(s) + 1), NEW chars
  PROVE  /\ Past(s, p, chars) \in p..(Len(s) + 1)
         /\ p <= Len(s) /\ s[p] \in chars => Past(s, p, chars) # p
         /\ \A k \in p..(Past(s, p, chars) - 1) : s[k] \in chars
         /\ Past(s, p, chars) <= Len(s) => s[Past(s, p, chars)] \notin chars
         /\ \A e \in p..(Len(s) + 1) :
              (\A k \in p..(e - 1) : s[k] \in chars) /\ (e <= Len(s) => s[e] \notin chars) =>
                Past(s, p, chars) = e
<1>1. PICK n \in Nat : n = Len(s)
  BY LenProperties
<1> DEFINE Stops == {n + 1} \cup {k \in p..n : s[k] \notin chars}
<1>2. PICK m : m = Past(s, p, chars)
  OBVIOUS
<1>3. m = Min(Stops)
  BY <1>1, <1>2, Zenon DEF Past
<1>4. Stops \in SUBSET Nat /\ Stops # {}
  BY <1>1
<1>5. m \in Stops /\ \A k \in Stops : m <= k
  BY <1>3, <1>4, MinIsLeast, Zenon
<1>6. m \in p..(n + 1) /\ (m <= n => s[m] \notin chars)
  BY <1>1, <1>5
<1>7. \A k \in p..(m - 1) : s[k] \in chars
  <2> TAKE k \in p..(m - 1)
  <2>1. k \in p..n /\ ~(m <= k)
    BY <1>1, <1>6
  <2>2. k \notin Stops
    BY <1>5, <2>1
  <2> QED  BY <2>1, <2>2
<1>8. ASSUME NEW e \in p..(n + 1), \A k \in p..(e - 1) : s[k] \in chars,
             e <= n => s[e] \notin chars
      PROVE  m = e
  <2>1. e \in Stops
    BY <1>1, <1>8
  <2>2. m <= e
    BY <1>5, <2>1
  <2>3. ~(m \in p..(e - 1))
    <3>1. ASSUME m \in p..(e - 1)  PROVE FALSE
      <4>1. m <= n
        BY <1>1, <3>1
      <4> QED  BY <1>6, <1>8, <3>1, <4>1
    <3> QED  BY <3>1
  <2> QED  BY <1>6, <2>2, <2>3
<1>9. p <= n /\ s[p] \in chars => m # p
  BY <1>6
<1> QED  BY <1>1, <1>2, <1>6, <1>7, <1>8, <1>9

(* How many quotes like the one at p there are behind it, up to k.         *)
Count(s, p, k) == Cardinality({h \in (p + 1)..k : s[h] = s[p]})

(* It counts each of them once.                                            *)
LEMMA CountStep ==
  ASSUME NEW s, NEW p \in Nat, NEW k \in Nat, p <= k
  PROVE  /\ Count(s, p, p) = 0 /\ Count(s, p, k) \in Nat
         /\ Count(s, p, k + 1) = Count(s, p, k) + (IF s[k + 1] = s[p] THEN 1 ELSE 0)
<1> DEFINE Q(j) == {h \in (p + 1)..j : s[h] = s[p]}
<1>1. \A j : Count(s, p, j) = Cardinality(Q(j))
  BY Zenon DEF Count
<1>2. IsFiniteSet(Q(k)) /\ Cardinality(Q(k)) \in Nat
  <2>1. IsFiniteSet((p + 1)..k)
    BY FS_Interval
  <2> QED  BY <2>1, FS_Subset, FS_CardinalityType
<1>3. Q(p) = {}
  OBVIOUS
<1>4. s[k + 1] = s[p] => Q(k + 1) = Q(k) \cup {k + 1} /\ k + 1 \notin Q(k)
  OBVIOUS
<1>5. s[k + 1] # s[p] => Q(k + 1) = Q(k)
  OBVIOUS
<1> HIDE DEF Q
<1>6. CASE s[k + 1] = s[p]
  <2>1. Cardinality(Q(k + 1)) = Cardinality(Q(k)) + 1
    BY <1>2, <1>4, <1>6, FS_AddElement
  <2> QED  BY <1>1, <1>2, <1>3, <1>6, <2>1, FS_EmptySet
<1>7. CASE s[k + 1] # s[p]
  BY <1>1, <1>2, <1>3, <1>5, <1>7, FS_EmptySet
<1> QED  BY <1>6, <1>7

(* Where a quoted text ends.                                               *)
Closes(s, p, h) ==
  s[h] = s[p] /\ Count(s, p, h) % 2 = 1 /\ (h < Len(s) => s[h + 1] # s[p])

(* The position after the first quote that closes, if there is one.        *)
LEMMA AfterQuotedIs ==
  ASSUME NEW s \in Seq(Characters), NEW p \in 1..Len(s)
  PROVE  /\ AfterQuoted(s, p) = 0 \/ AfterQuoted(s, p) \in (p + 2)..(Len(s) + 1)
         /\ \A k \in (p + 1)..Len(s) :
              Closes(s, p, k) /\ (\A h \in (p + 1)..(k - 1) : ~Closes(s, p, h)) =>
                AfterQuoted(s, p) = k + 1
<1>1. PICK n \in Nat : n = Len(s)
  BY LenProperties
<1> DEFINE Found == {h \in (p + 1)..n : Closes(s, p, h)}
           Stops == {k + 1 : k \in Found}
<1>2. AfterQuoted(s, p) = IF Stops = {} THEN 0 ELSE Min(Stops)
  BY <1>1, Zenon DEF AfterQuoted, First, Closes, Count
<1>3. Stops \in SUBSET Nat /\ \A e \in Stops : e \in (p + 2)..(n + 1)
  BY <1>1
<1>4. Stops # {} => Min(Stops) \in Stops /\ \A k \in Stops : Min(Stops) <= k
  BY <1>3, MinIsLeast, Zenon
<1>5. AfterQuoted(s, p) = 0 \/ AfterQuoted(s, p) \in (p + 2)..(n + 1)
  <2> HIDE DEF Stops
  <2> QED  BY <1>2, <1>3, <1>4
<1>6. ASSUME NEW k \in (p + 1)..n, Closes(s, p, k), \A h \in (p + 1)..(k - 1) : ~Closes(s, p, h)
      PROVE  AfterQuoted(s, p) = k + 1
  <2>1. k \in Found /\ k + 1 \in Stops
    BY <1>6
  <2>2. \A e \in Stops : k + 1 <= e
    <3>1. \A h \in Found : k <= h /\ h \in Nat
      <4> TAKE h \in Found
      <4>1. ~(h \in (p + 1)..(k - 1))
        BY <1>6
      <4> QED  BY <4>1
    <3> HIDE DEF Found
    <3> QED  BY <3>1
  <2>3. PICK m : m = Min(Stops)
    OBVIOUS
  <2>4. m \in Stops /\ m <= k + 1
    BY <1>4, <2>1, <2>3
  <2> HIDE DEF Stops
  <2>5. m = k + 1
    BY <1>3, <2>1, <2>2, <2>4
  <2> QED  BY <1>2, <2>1, <2>3, <2>5
<1> QED  BY <1>1, <1>5, <1>6

(* A dollar tag of n characters stands at p.                               *)
TagIs(s, p, n) ==
  /\ n \in 2..(Len(s) - p + 1)
  /\ s[p] = "$" /\ s[p + n - 1] = "$"
  /\ \A h \in (p + 1)..(p + n - 2) : s[h] \in TagChars

(* It is what readDollarTag reads there.                                   *)
LEMMA TagThere ==
  ASSUME NEW s \in Seq(Characters), NEW p \in 1..Len(s),
         NEW r, r = readDollarTag(SubSeq(s, p, Len(s)))
  PROVE  /\ r = << >> => \A n : ~TagIs(s, p, n)
         /\ r # << >> => /\ TagIs(s, p, Len(r)) /\ r \in Seq(Characters)
                         /\ Len(r) \in 2..(Len(s) - p + 1)
                         /\ \A h \in 1..Len(r) : r[h] = s[p + h - 1]
<1>1. PICK n \in Nat : n = Len(s)
  BY LenProperties
<1>2. PICK z : z = SubSeq(s, p, n)
  OBVIOUS
<1>3. /\ z \in Seq(Characters) /\ Len(z) = n - p + 1
      /\ \A k \in 1..(n - p + 1) : z[k] = s[p + k - 1]
  <2>1. /\ z \in Seq(Characters) /\ Len(z) = IF p <= n THEN n - p + 1 ELSE 0
        /\ \A k \in 1..(n - p + 1) : z[k] = s[p + k - 1]
    BY <1>1, <1>2, PartOfText
  <2> QED  BY <1>1, <2>1
<1> DEFINE Stops == {k \in 2..Len(z) : z[1] = "$" /\ z[k] = "$"
                                        /\ \A h \in 2..(k - 1) : z[h] \in TagChars}
<1>4. r = IF Stops = {} THEN << >> ELSE SubSeq(z, 1, Min(Stops))
  BY <1>1, <1>2, Zenon DEF readDollarTag
<1>5. ASSUME NEW k  PROVE k \in Stops <=> TagIs(s, p, k)
  <2>1. k \in Stops => TagIs(s, p, k)
    <3> SUFFICES ASSUME k \in Stops  PROVE TagIs(s, p, k)
      OBVIOUS
    <3>1. k \in 2..(n - p + 1) /\ 1 \in 1..(n - p + 1) /\ k \in 1..(n - p + 1)
      BY <1>1, <1>3
    <3>2. z[1] = s[p + 1 - 1] /\ z[k] = s[p + k - 1] /\ p + 1 - 1 = p
      BY <1>3, <3>1
    <3>3. ASSUME NEW h \in (p + 1)..(p + k - 2)  PROVE s[h] \in TagChars
      <4>1. PICK j \in 2..(k - 1) : j = h - p + 1
        BY <3>1
      <4>2. j \in 1..(n - p + 1) /\ p + j - 1 = h
        BY <1>1, <3>1, <4>1
      <4>3. z[j] = s[h]
        BY <1>3, <4>2
      <4> QED  BY <4>1, <4>3
    <3> QED  BY <1>1, <3>1, <3>2, <3>3 DEF TagIs
  <2>2. TagIs(s, p, k) => k \in Stops
    <3> SUFFICES ASSUME TagIs(s, p, k)  PROVE k \in Stops
      OBVIOUS
    <3>1. k \in 2..(n - p + 1) /\ 1 \in 1..(n - p + 1) /\ k \in 1..(n - p + 1)
      BY <1>1 DEF TagIs
    <3>2. z[1] = s[p + 1 - 1] /\ z[k] = s[p + k - 1] /\ p + 1 - 1 = p
      BY <1>3, <3>1
    <3>3. ASSUME NEW j \in 2..(k - 1)  PROVE z[j] \in TagChars
      <4>1. PICK h : h = p + j - 1
        OBVIOUS
      <4>2. j \in 1..(n - p + 1) /\ h \in (p + 1)..(p + k - 2)
        BY <1>1, <3>1, <4>1
      <4>3. z[j] = s[h]
        BY <1>3, <4>1, <4>2
      <4> QED  BY <4>2, <4>3 DEF TagIs
    <3> QED  BY <1>3, <3>1, <3>2, <3>3 DEF TagIs
  <2> QED  BY <2>1, <2>2
<1>6. Stops \in SUBSET Nat
  OBVIOUS
<1>7. PICK m : m = Min(Stops)
  OBVIOUS
<1>8. Stops # {} => m \in Stops
  BY <1>6, <1>7, MinIsLeast, Zenon
<1>9. Stops = {} => r = << >>
  BY <1>4
<1>10. ASSUME Stops # {}
       PROVE  /\ TagIs(s, p, Len(r)) /\ r \in Seq(Characters) /\ r # << >>
              /\ Len(r) \in 2..(n - p + 1)
              /\ \A h \in 1..Len(r) : r[h] = s[p + h - 1]
  <2>1. m \in 2..Len(z) /\ m \in 2..(n - p + 1)
    BY <1>3, <1>8, <1>10
  <2>2. r = SubSeq(z, 1, m)
    BY <1>4, <1>7, <1>10, Zenon
  <2>3. r \in Seq(Characters) /\ Len(r) = m /\ \A h \in 1..m : r[h] = z[h]
    <3>1. m \in Nat /\ 1 <= m /\ m <= Len(z) /\ m - 1 + 1 = m
      BY <1>3, <2>1
    <3>2. /\ r \in Seq(Characters) /\ Len(r) = IF 1 <= m THEN m - 1 + 1 ELSE 0
          /\ \A h \in 1..(m - 1 + 1) : r[h] = z[1 + h - 1]
      BY <1>3, <2>2, <3>1, PartOfText
    <3> QED  BY <3>1, <3>2
  <2>4. TagIs(s, p, m)
    BY <1>5, <1>8, <1>10
  <2>5. \A h \in 1..m : r[h] = s[p + h - 1]
    <3>1. \A h \in 1..m : h \in 1..(n - p + 1)
      BY <2>1
    <3> QED  BY <1>3, <2>3, <3>1
  <2> QED  BY <2>1, <2>3, <2>4, <2>5
<1> HIDE DEF Stops
<1>11. Stops = {} => \A k : ~TagIs(s, p, k)
  BY <1>5
<1> QED  BY <1>1, <1>9, <1>10, <1>11

(* No two tags begin at the same place.                                    *)
LEMMA OneTag ==
  ASSUME NEW s \in Seq(Characters), NEW p \in Nat, NEW m, NEW n, TagIs(s, p, m), TagIs(s, p, n)
  PROVE  m = n
<1>1. \A a, b : TagIs(s, p, a) /\ TagIs(s, p, b) => ~(a < b)
  <2> SUFFICES ASSUME NEW a, NEW b, TagIs(s, p, a), TagIs(s, p, b), a < b  PROVE FALSE
    OBVIOUS
  <2>1. Len(s) \in Nat
    BY LenProperties
  <2>2. a \in Nat /\ b \in Nat /\ a >= 2
    BY <2>1 DEF TagIs
  <2>3. p + a - 1 \in (p + 1)..(p + b - 2)
    BY <2>2
  <2>4. s[p + a - 1] = "$" /\ s[p + a - 1] \in TagChars
    BY <2>3 DEF TagIs
  <2> QED  BY <2>4 DEF TagChars
<1>2. Len(s) \in Nat
  BY LenProperties
<1>3. m \in Nat /\ n \in Nat
  BY <1>2 DEF TagIs
<1>4. ~(m < n) /\ ~(n < m)
  BY <1>1
<1> QED  BY <1>3, <1>4

(* What lexeme distinguishes, in characters.                               *)
CommentAt(s, p) == At2(s, p, "-", "-") \/ At2(s, p, "/", "*")

(* It is what the second reader takes for one.                             *)
LEMMA CommentAtIs ==
  ASSUME NEW s \in Seq(Characters), NEW p \in 1..Len(s)
  PROVE  /\ StartsAt(s, p, <<"-", "-">>) <=> At2(s, p, "-", "-")
         /\ IsComment(s, p) <=> CommentAt(s, p)
<1>1. p \in 1..(Len(s) + 1)
  BY LenProperties
<1>2. "-" \in Characters /\ "/" \in Characters /\ "*" \in Characters
  BY DEF Characters
<1>3. /\ StartsAt(s, p, <<"-", "-">>) <=> At2(s, p, "-", "-")
      /\ StartsAt(s, p, <<"/", "*">>) <=> At2(s, p, "/", "*")
  BY <1>1, <1>2, StartsAt2
<1> QED  BY <1>3 DEF IsComment, CommentAt

(* The second reader always goes forward, or finds that a text is cut.     *)
LEMMA LexemesForward == ASSUME NEW s \in Seq(Characters)  PROVE Forward(s)
<1>1. PICK n \in Nat : n = Len(s)
  BY LenProperties
<1>2. SUFFICES ASSUME NEW p \in 1..n
               PROVE  lexeme(s, p) = 0 \/ lexeme(s, p) \in (p + 1)..(n + 1)
  BY <1>1, LenProperties DEF Forward
<1> DEFINE Fine(e) == e = 0 \/ e \in (p + 1)..(n + 1)
<1>3. p \in 1..Len(s) /\ p \in 1..(Len(s) + 1) /\ s[p] \in Characters
  BY <1>1, ElementOfSeq
<1>4. ASSUME NEW chars, s[p] \in chars  PROVE Fine(Past(s, p, chars))
  <2>1. Past(s, p, chars) \in p..(n + 1) /\ Past(s, p, chars) # p
    BY <1>1, <1>3, <1>4, PastIs
  <2> QED  BY <2>1
<1>5. ASSUME NEW q \in Nat, q >= p, NEW mark \in Seq(Characters), mark # << >>
      PROVE  Fine(After(s, q, mark))
  <2>1. Len(mark) \in Nat /\ Len(mark) >= 1
    BY <1>5, EmptySeq
  <2>2. q \in Nat \ {0}
    BY <1>5
  <2>3. After(s, q, mark) = 0 \/ After(s, q, mark) \in (q + Len(mark))..(n + 1)
    BY <1>1, <1>5, <2>2, AfterIs
  <2> QED  BY <1>5, <2>1, <2>3
<1>6. Fine(p + 1)
  BY <1>1
<1>7. IsComment(s, p) => Fine(AfterComment(s, p))
  <2>1. s[p] = "-" => Fine(Past(s, p, Characters \ {"\n"}))
    BY <1>3, <1>4
  <2>2. p + 2 \in Nat /\ p + 2 >= p
    OBVIOUS
  <2>3. "*" \in Characters /\ "/" \in Characters
    BY DEF Characters
  <2>4. PICK end : end = <<"*", "/">>
    OBVIOUS
  <2>5. end \in Seq(Characters) /\ end # << >>
    BY <2>3, <2>4
  <2> HIDE DEF Fine
  <2>6. Fine(After(s, p + 2, end))
    BY <1>5, <2>2, <2>5
  <2>7. Fine(After(s, p + 2, <<"*", "/">>))
    BY <2>4, <2>6
  <2>8. StartsAt(s, p, <<"-", "-">>) => s[p] = "-"
    BY <1>3, CommentAtIs DEF At2
  <2> QED  BY <2>1, <2>7, <2>8, Zenon DEF AfterComment
<1>8. Fine(AfterQuoted(s, p))
  <2>1. AfterQuoted(s, p) = 0 \/ AfterQuoted(s, p) \in (p + 2)..(n + 1)
    BY <1>1, <1>3, AfterQuotedIs
  <2> QED  BY <1>1, <2>1
<1>9. IsDollarQuoted(s, p) => Fine(AfterDollarQuoted(s, p))
  <2>1. PICK r : r = readDollarTag(SubSeq(s, p, Len(s)))
    OBVIOUS
  <2>2. ASSUME r # << >>  PROVE Fine(After(s, p + Len(r), r))
    <3>1. r \in Seq(Characters) /\ Len(r) \in Nat
      BY <1>3, <2>1, <2>2, TagThere
    <3>2. p + Len(r) \in Nat /\ p + Len(r) >= p
      BY <3>1
    <3> QED  BY <1>5, <2>2, <3>1, <3>2
  <2> HIDE DEF Fine
  <2> QED  BY <2>1, <2>2, Zenon DEF IsDollarQuoted, AfterDollarQuoted
<1>10. s[p] \in Letters => Fine(Past(s, p, Word))
  BY <1>4 DEF Word
<1>11. s[p] \in Digits => Fine(Past(s, p, Digits \cup {"."}))
  BY <1>4
<1> HIDE DEF Fine
<1>12. Fine(lexeme(s, p))
  BY <1>6, <1>7, <1>8, <1>9, <1>10, <1>11 DEF lexeme
<1> QED  BY <1>12 DEF Fine

(***************************************************************************)
(* What the first reader takes in one piece: a comment up to the end of    *)
(* its line, another one, a string or quoted name, a dollar-quoted string, *)
(* or a single character.  The piece at p is followed by what is at e.     *)
(***************************************************************************)
SameAt(s, p, k, n) == k + n - 1 <= Len(s) /\ \A h \in 0..(n - 1) : s[k + h] = s[p + h]

LineUnit(s, p, e) ==
  /\ At2(s, p, "-", "-") /\ p + 2 <= e
  /\ \A k \in (p + 2)..(e - 1) : s[k] # "\n"
  /\ e <= Len(s) => s[e] = "\n"

BlockUnit(s, p, e) ==
  /\ At2(s, p, "/", "*") /\ p + 4 <= e
  /\ At2(s, e - 2, "*", "/") /\ \A k \in (p + 2)..(e - 3) : ~At2(s, k, "*", "/")

QuoteUnit(s, p, e) ==
  /\ s[p] \in {"'", "\""} /\ p + 2 <= e
  /\ Closes(s, p, e - 1) /\ \A k \in (p + 1)..(e - 2) : ~Closes(s, p, k)

TagUnit(s, p, e, n) ==
  /\ TagIs(s, p, n) /\ p + 2 * n <= e
  /\ SameAt(s, p, e - n, n) /\ \A k \in (p + n)..(e - n - 1) : ~SameAt(s, p, k, n)

DollarUnit(s, p, e) == \E n : TagUnit(s, p, e, n)

PlainUnit(s, p, e) ==
  /\ e = p + 1 /\ s[p] \notin {"'", "\"", ";"}
  /\ ~CommentAt(s, p) /\ \A n : ~TagIs(s, p, n)

Unit(s, p, e) ==
  /\ p \in 1..Len(s) /\ e \in (p + 1)..(Len(s) + 1)
  /\ LineUnit(s, p, e) \/ BlockUnit(s, p, e) \/ QuoteUnit(s, p, e)
       \/ DollarUnit(s, p, e) \/ PlainUnit(s, p, e)

(* The cases of lexeme exclude each other.                                 *)
LexemeBy(s, p) ==
  /\ s[p] \in Space => lexeme(s, p) = p + 1
  /\ CommentAt(s, p) => lexeme(s, p) = AfterComment(s, p)
  /\ s[p] \in {"'", "\""} => lexeme(s, p) = AfterQuoted(s, p)
  /\ IsDollarQuoted(s, p) => lexeme(s, p) = AfterDollarQuoted(s, p)
  /\ s[p] \in Letters => lexeme(s, p) = Past(s, p, Word)
  /\ s[p] \in Digits => lexeme(s, p) = Past(s, p, Digits \cup {"."})
  /\ s[p] \notin Space \cup {"'", "\""} \cup Letters \cup Digits
       /\ ~CommentAt(s, p) /\ ~IsDollarQuoted(s, p) => lexeme(s, p) = p + 1

(* The second reader goes by them, and knows the same tags.                *)
LEMMA LexemeCases ==
  ASSUME NEW s \in Seq(Characters), NEW p \in 1..Len(s)
  PROVE  /\ LexemeBy(s, p)
         /\ IsDollarQuoted(s, p) <=> \E n : TagIs(s, p, n)
<1>1. PICK r : r = readDollarTag(SubSeq(s, p, Len(s)))
  OBVIOUS
<1>2. IsDollarQuoted(s, p) <=> \E n : TagIs(s, p, n)
  <2>1. r = << >> => \A n : ~TagIs(s, p, n)
    BY <1>1, TagThere
  <2>2. r # << >> => TagIs(s, p, Len(r))
    BY <1>1, TagThere
  <2> QED  BY <1>1, <2>1, <2>2, Zenon DEF IsDollarQuoted
<1>3. IsDollarQuoted(s, p) => s[p] = "$"
  BY <1>2 DEF TagIs
<1>4. CommentAt(s, p) => s[p] \in {"-", "/"}
  BY DEF CommentAt, At2
<1>5. IsComment(s, p) <=> CommentAt(s, p)
  BY CommentAtIs
<1>6. s[p] \in Space => lexeme(s, p) = p + 1
  BY <1>3, <1>4, <1>5 DEF Space, lexeme, Letters, Digits
<1>7. CommentAt(s, p) => lexeme(s, p) = AfterComment(s, p)
  BY <1>3, <1>4, <1>5 DEF Space, lexeme, Letters, Digits
<1>8. s[p] \in {"'", "\""} => lexeme(s, p) = AfterQuoted(s, p)
  BY <1>3, <1>4, <1>5 DEF Space, lexeme, Letters, Digits
<1>9. IsDollarQuoted(s, p) => lexeme(s, p) = AfterDollarQuoted(s, p)
  BY <1>3, <1>4, <1>5 DEF Space, lexeme, Letters, Digits
<1>10. s[p] \in Letters => lexeme(s, p) = Past(s, p, Word)
  BY <1>3, <1>4, <1>5 DEF Space, lexeme, Letters, Digits
<1>11. s[p] \in Digits => lexeme(s, p) = Past(s, p, Digits \cup {"."})
  BY <1>3, <1>4, <1>5 DEF Space, lexeme, Letters, Digits
<1>12. s[p] \notin Space \cup {"'", "\""} \cup Letters \cup Digits
       /\ ~CommentAt(s, p) /\ ~IsDollarQuoted(s, p) => lexeme(s, p) = p + 1
  BY <1>3, <1>4, <1>5 DEF Space, lexeme, Letters, Digits
<1> QED  BY <1>2, <1>6, <1>7, <1>8, <1>9, <1>10, <1>11, <1>12 DEF LexemeBy

(* The second reader, too, goes past each piece at once, words apart.      *)
LEMMA LineRead ==
  ASSUME NEW s \in Seq(Characters), NEW p \in 1..Len(s), NEW e \in (p + 1)..(Len(s) + 1),
         LineUnit(s, p, e)
  PROVE  lexeme(s, p) = e
<1>1. PICK n \in Nat : n = Len(s)
  BY LenProperties
<1>2. At2(s, p, "-", "-") /\ CommentAt(s, p)
  BY DEF LineUnit, CommentAt
<1>3. lexeme(s, p) = AfterComment(s, p)
  BY <1>2, LexemeCases DEF LexemeBy
<1>4. AfterComment(s, p) = Past(s, p, Characters \ {"\n"})
  BY <1>2, CommentAtIs, Zenon DEF AfterComment
<1>5. PICK chars : chars = Characters \ {"\n"}
  OBVIOUS
<1>6. \A k \in p..(e - 1) : s[k] \in chars
  <2> TAKE k \in p..(e - 1)
  <2>1. k \in 1..Len(s)
    BY <1>1
  <2>2. s[k] \in Characters
    BY <2>1, ElementOfSeq
  <2>3. k = p \/ k = p + 1 \/ k \in (p + 2)..(e - 1)
    OBVIOUS
  <2>4. s[k] # "\n"
    BY <1>2, <2>3 DEF LineUnit, At2
  <2> QED  BY <1>5, <2>2, <2>4
<1>7. e <= Len(s) => s[e] \notin chars
  BY <1>5 DEF LineUnit
<1>8. p \in 1..(Len(s) + 1) /\ e \in p..(Len(s) + 1)
  BY <1>1
<1>9. Past(s, p, chars) = e
  BY <1>6, <1>7, <1>8, PastIs
<1> QED  BY <1>3, <1>4, <1>5, <1>9

(* So it is with the other comments.                                       *)
LEMMA BlockRead ==
  ASSUME NEW s \in Seq(Characters), NEW p \in 1..Len(s), NEW e \in (p + 1)..(Len(s) + 1),
         BlockUnit(s, p, e)
  PROVE  lexeme(s, p) = e
<1>1. PICK n \in Nat : n = Len(s)
  BY LenProperties
<1>2. At2(s, p, "/", "*") /\ CommentAt(s, p) /\ ~At2(s, p, "-", "-")
  BY DEF BlockUnit, CommentAt, At2
<1>3. lexeme(s, p) = AfterComment(s, p)
  BY <1>2, LexemeCases DEF LexemeBy
<1>4. AfterComment(s, p) = After(s, p + 2, <<"*", "/">>)
  BY <1>2, CommentAtIs, Zenon DEF AfterComment
<1>5. PICK end : end = <<"*", "/">>
  OBVIOUS
<1>6. "*" \in Characters /\ "/" \in Characters
  BY DEF Characters
<1>7. end \in Seq(Characters) /\ Len(end) = 2
  BY <1>5, <1>6
<1>8. \A k \in 1..(n + 1) : StartsAt(s, k, end) <=> At2(s, k, "*", "/")
  BY <1>1, <1>5, <1>6, StartsAt2
<1>9. PICK q \in Nat : q = e - 2
  BY DEF BlockUnit
<1>10. p + 2 \in Nat \ {0} /\ q \in (p + 2)..n /\ q \in 1..(n + 1) /\ q + 2 = e /\ q - 1 = e - 3
  BY <1>1, <1>9 DEF BlockUnit
<1>11. StartsAt(s, q, end)
  BY <1>8, <1>9, <1>10 DEF BlockUnit
<1>12. \A k \in (p + 2)..(q - 1) : ~StartsAt(s, k, end)
  <2> TAKE k \in (p + 2)..(q - 1)
  <2>1. k \in 1..(n + 1) /\ k \in (p + 2)..(e - 3)
    BY <1>10
  <2> QED  BY <1>8, <2>1 DEF BlockUnit
<1>13. PICK b \in Nat \ {0} : b = p + 2
  BY <1>10
<1>14. q \in b..Len(s) /\ \A k \in b..(q - 1) : ~StartsAt(s, k, end)
  BY <1>1, <1>10, <1>12, <1>13
<1>15. After(s, b, end) = q + Len(end)
  BY <1>7, <1>11, <1>14, AfterIs
<1>16. After(s, p + 2, end) = q + Len(end)
  BY <1>13, <1>15
<1> QED  BY <1>3, <1>4, <1>5, <1>7, <1>10, <1>16

(* Strings and quoted names.                                               *)
LEMMA QuoteRead ==
  ASSUME NEW s \in Seq(Characters), NEW p \in 1..Len(s), NEW e \in (p + 1)..(Len(s) + 1),
         QuoteUnit(s, p, e)
  PROVE  lexeme(s, p) = e
<1>1. PICK n \in Nat : n = Len(s)
  BY LenProperties
<1>2. lexeme(s, p) = AfterQuoted(s, p)
  BY LexemeCases DEF LexemeBy, QuoteUnit
<1>3. PICK q \in Nat : q = e - 1
  OBVIOUS
<1>4. p + 2 <= e
  BY Zenon DEF QuoteUnit
<1>5. q \in (p + 1)..Len(s) /\ q + 1 = e /\ q - 1 = e - 2
  BY <1>1, <1>3, <1>4
<1>6. Closes(s, p, q) /\ \A h \in (p + 1)..(q - 1) : ~Closes(s, p, h)
  BY <1>3, <1>5 DEF QuoteUnit
<1>7. AfterQuoted(s, p) = q + 1
  BY <1>5, <1>6, AfterQuotedIs
<1> QED  BY <1>2, <1>5, <1>7

(* Dollar-quoted strings.                                                  *)
LEMMA DollarRead ==
  ASSUME NEW s \in Seq(Characters), NEW p \in 1..Len(s), NEW e \in (p + 1)..(Len(s) + 1),
         DollarUnit(s, p, e)
  PROVE  lexeme(s, p) = e
<1>1. PICK l \in Nat : l = Len(s)
  BY LenProperties
<1>2. PICK n : TagUnit(s, p, e, n)
  BY DEF DollarUnit
<1>3. PICK r : r = readDollarTag(SubSeq(s, p, Len(s)))
  OBVIOUS
<1>4. r # << >>
  BY <1>2, <1>3, TagThere DEF TagUnit
<1>5. /\ TagIs(s, p, Len(r)) /\ r \in Seq(Characters)
      /\ \A h \in 1..Len(r) : r[h] = s[p + h - 1]
  BY <1>3, <1>4, TagThere
<1>6. Len(r) = n
  BY <1>2, <1>5, OneTag DEF TagUnit
<1>7. n \in 2..(l - p + 1) /\ p + 2 * n <= e
  BY <1>1, <1>2 DEF TagUnit, TagIs
<1>8. lexeme(s, p) = AfterDollarQuoted(s, p)
  BY <1>3, <1>4, LexemeCases DEF LexemeBy, IsDollarQuoted
<1>9. AfterDollarQuoted(s, p) = After(s, p + n, r)
  BY <1>3, <1>6, Zenon DEF AfterDollarQuoted
<1>10. ASSUME NEW k \in 1..(l + 1)  PROVE StartsAt(s, k, r) <=> SameAt(s, p, k, n)
  <2>1. StartsAt(s, k, r) <=> k + n - 1 <= l /\ \A h \in 1..n : s[k + h - 1] = r[h]
    BY <1>1, <1>5, <1>6, StartsAtIs DEF HasAt
  <2>2. ASSUME \A h \in 1..n : s[k + h - 1] = r[h], NEW h \in 0..(n - 1)
        PROVE  s[k + h] = s[p + h]
    <3>1. h + 1 \in 1..n /\ k + (h + 1) - 1 = k + h /\ p + (h + 1) - 1 = p + h
      BY <1>7
    <3>2. s[k + (h + 1) - 1] = r[h + 1] /\ r[h + 1] = s[p + (h + 1) - 1]
      BY <1>5, <1>6, <2>2, <3>1
    <3> QED  BY <3>1, <3>2
  <2>3. ASSUME \A h \in 0..(n - 1) : s[k + h] = s[p + h], NEW h \in 1..n
        PROVE  s[k + h - 1] = r[h]
    <3>1. h - 1 \in 0..(n - 1) /\ k + (h - 1) = k + h - 1 /\ p + (h - 1) = p + h - 1
      BY <1>7
    <3>2. s[k + (h - 1)] = s[p + (h - 1)]
      BY <2>3, <3>1
    <3> QED  BY <1>5, <1>6, <3>1, <3>2
  <2> QED  BY <1>1, <2>1, <2>2, <2>3 DEF SameAt
<1>11. PICK q \in Nat : q = e - n
  BY <1>7
<1>12. p + n \in Nat \ {0} /\ q \in (p + n)..l /\ q \in 1..(l + 1) /\ q + n = e /\ q - 1 = e - n - 1
  BY <1>1, <1>7, <1>11
<1>13. StartsAt(s, q, r)
  BY <1>2, <1>10, <1>11, <1>12 DEF TagUnit
<1>14. \A k \in (p + n)..(q - 1) : ~StartsAt(s, k, r)
  <2> TAKE k \in (p + n)..(q - 1)
  <2>1. k \in 1..(l + 1) /\ k \in (p + n)..(e - n - 1)
    BY <1>12
  <2> QED  BY <1>2, <1>10, <2>1 DEF TagUnit
<1>15. After(s, p + n, r) = q + Len(r)
  BY <1>1, <1>5, <1>12, <1>13, <1>14, AfterIs
<1> QED  BY <1>6, <1>8, <1>9, <1>12, <1>15

(* Single characters, unless a name or a number begins with them.          *)
LEMMA PlainRead ==
  ASSUME NEW s \in Seq(Characters), NEW p \in 1..Len(s), NEW e \in (p + 1)..(Len(s) + 1),
         PlainUnit(s, p, e), s[p] \notin Letters \cup Digits
  PROVE  lexeme(s, p) = e
<1>1. ~IsDollarQuoted(s, p) /\ ~CommentAt(s, p) /\ s[p] \notin {"'", "\""}
  BY LexemeCases DEF PlainUnit
<1>2. CASE s[p] \in Space
  BY <1>2, LexemeCases DEF LexemeBy, PlainUnit
<1>3. CASE s[p] \notin Space
  BY <1>1, <1>3, LexemeCases DEF LexemeBy, PlainUnit
<1> QED  BY <1>2, <1>3

(* All of them.                                                            *)
LEMMA UnitRead ==
  ASSUME NEW s \in Seq(Characters), NEW p, NEW e, Unit(s, p, e), s[p] \notin Letters \cup Digits
  PROVE  lexeme(s, p) = e
BY LineRead, BlockRead, QuoteRead, DollarRead, PlainRead DEF Unit

(***************************************************************************)
(* How the first reader has come from position a to p: through a set of    *)
(* positions, from each by one piece to the next.                          *)
(***************************************************************************)
Chain(s, a, p, B) ==
  /\ a \in B /\ p \in B /\ B \subseteq a..p
  /\ a \in Nat \ {0} /\ p \in Nat /\ p <= Len(s) + 1
  /\ \A b \in B : b < p => \E e \in B : Unit(s, b, e) /\ \A x \in B : x <= b \/ e <= x

(* One piece more.                                                         *)
LEMMA ChainOn ==
  ASSUME NEW s \in Seq(Characters), NEW a, NEW p, NEW B, Chain(s, a, p, B),
         NEW e, Unit(s, p, e)
  PROVE  Chain(s, a, e, B \cup {e})
<1>1. Len(s) \in Nat
  BY LenProperties
<1>2. p \in Nat /\ e \in Nat /\ p < e /\ e <= Len(s) + 1
  BY <1>1 DEF Unit
<1>3. \A b \in B : b \in Nat /\ a <= b /\ b <= p
  BY DEF Chain
<1> DEFINE B2 == B \cup {e}
<1>4. ASSUME NEW b \in B2, b < e
      PROVE  \E d \in B2 : Unit(s, b, d) /\ \A x \in B2 : x <= b \/ d <= x
  <2>1. b \in B
    BY <1>2, <1>4
  <2>2. CASE b = p
    <3>1. \A x \in B2 : x <= b \/ e <= x
      BY <1>2, <1>3, <2>2
    <3> QED  BY <2>2, <3>1
  <2>3. CASE b # p
    <3>1. b < p
      BY <1>2, <1>3, <2>1, <2>3
    <3>2. PICK d \in B : Unit(s, b, d) /\ \A x \in B : x <= b \/ d <= x
      BY <2>1, <3>1 DEF Chain
    <3>3. d <= e
      BY <1>2, <1>3
    <3> QED  BY <3>2, <3>3
  <2> QED  BY <2>2, <2>3
<1>5. B2 \subseteq a..e /\ a \in B2 /\ e \in B2
  <2>1. a \in Nat /\ a \in B
    BY DEF Chain
  <2> QED  BY <1>2, <1>3, <2>1
<1> HIDE DEF B2
<1>6. Chain(s, a, e, B2)
  BY <1>2, <1>4, <1>5 DEF Chain
<1> QED  BY <1>6 DEF B2

(* What has been read, from p to before q, of a piece that has no end yet. *)
OpenLine(s, p, q) ==
  At2(s, p, "-", "-") /\ p + 2 <= q /\ \A k \in (p + 2)..(q - 1) : s[k] # "\n"

OpenBlock(s, p, q) ==
  At2(s, p, "/", "*") /\ p + 2 <= q /\ \A k \in (p + 2)..(q - 1) : ~At2(s, k, "*", "/")

OpenString(s, p, q) ==
  /\ s[p] \in {"'", "\""} /\ p + 1 <= q
  /\ Count(s, p, q - 1) % 2 = 0 /\ \A k \in (p + 1)..(q - 1) : ~Closes(s, p, k)

OpenTag(s, p, q, tag, n) ==
  /\ TagIs(s, p, n) /\ n = Len(tag) /\ \A h \in 1..n : tag[h] = s[p + h - 1]
  /\ p + n <= q /\ \A k \in (p + n)..(q - 1) : ~SameAt(s, p, k, n)

Open(s, p, q, m, tag) ==
  \/ m = "sql" /\ p = q
  \/ m = "line comment" /\ OpenLine(s, p, q)
  \/ m = "block comment" /\ OpenBlock(s, p, q)
  \/ m \in {"single", "double"} /\ s[p] = Mark(m) /\ OpenString(s, p, q)
  \/ m = "dollar" /\ OpenTag(s, p, q, tag, Len(tag))

(* Neither a space nor a comment begins there.                             *)
Telling(s, c) == s[c] \notin Space /\ ~CommentAt(s, c)

(* The current segment is in pieces, of which the last may be open, and    *)
(* has content only if one of them is neither a space nor a comment.       *)
Pieces(s, q, len, m, tag, has, B, p) ==
  /\ Chain(s, q - len, p, B) /\ p <= q
  /\ Open(s, p, q, m, tag)
  /\ has => \E c \in B : c < q /\ Telling(s, c)

InPieces == \E B, p : Pieces(sql, i, Len(current), mode, dollarTag, segmentHasContent, B, p)

(* The last piece goes on, or has its end.                                 *)
LEMMA PieceGoesOn ==
  ASSUME NEW s \in Seq(Characters), NEW q \in Nat, NEW len \in Nat, NEW m, NEW tag, NEW has,
         NEW B, NEW p, Pieces(s, q, len, m, tag, has, B, p),
         NEW n \in Nat \ {0}, NEW m2, NEW tag2, NEW has2, Open(s, p, q + n, m2, tag2),
         has2 => has \/ Telling(s, p)
  PROVE  Pieces(s, q + n, len + n, m2, tag2, has2, B, p)
<1>1. (q + n) - (len + n) = q - len
  OBVIOUS
<1>2. p \in B /\ p \in Nat /\ p <= q
  BY DEF Pieces, Chain
<1>3. has2 => \E c \in B : c < q + n /\ Telling(s, c)
  <2>1. ASSUME has  PROVE \E c \in B : c < q + n /\ Telling(s, c)
    <3>1. PICK c \in B : c < q /\ Telling(s, c)
      BY <2>1 DEF Pieces
    <3>2. c \in Nat
      BY DEF Pieces, Chain
    <3> QED  BY <3>1, <3>2
  <2>2. p < q + n
    BY <1>2
  <2> QED  BY <1>2, <2>1, <2>2
<1>4. p <= q + n
  BY <1>2
<1> QED  BY <1>1, <1>3, <1>4 DEF Pieces

(* The last piece has its end, and the next begins behind it.              *)
LEMMA PieceEnds ==
  ASSUME NEW s \in Seq(Characters), NEW q \in Nat, NEW len \in Nat, NEW m, NEW tag, NEW has,
         NEW B, NEW p, Pieces(s, q, len, m, tag, has, B, p),
         NEW n \in Nat \ {0}, Unit(s, p, q + n), NEW tag2, NEW has2,
         has2 => has \/ Telling(s, p)
  PROVE  \E B2 : Pieces(s, q + n, len + n, "sql", tag2, has2, B2, q + n)
<1>1. (q + n) - (len + n) = q - len
  OBVIOUS
<1>2. p \in B /\ p \in Nat /\ p <= q
  BY DEF Pieces, Chain
<1>3. Chain(s, q - len, q + n, B \cup {q + n})
  BY ChainOn DEF Pieces
<1>4. has2 => \E c \in B \cup {q + n} : c < q + n /\ Telling(s, c)
  <2>1. ASSUME has  PROVE \E c \in B : c < q + n /\ Telling(s, c)
    <3>1. PICK c \in B : c < q /\ Telling(s, c)
      BY <2>1 DEF Pieces
    <3>2. c \in Nat
      BY DEF Pieces, Chain
    <3> QED  BY <3>1, <3>2
  <2>2. p < q + n
    BY <1>2
  <2> QED  BY <1>2, <2>1, <2>2
<1>5. Open(s, q + n, q + n, "sql", tag2)
  BY DEF Open
<1> QED  BY <1>1, <1>3, <1>4, <1>5 DEF Pieces

(***************************************************************************)
(* The steps of the first reader.                                          *)
(***************************************************************************)
LEMMA WriteLonger ==
  ASSUME Place, NEW n \in Nat \ {0}, i + n - 1 <= Len(sql), Write(n)
  PROVE  Len(current') = Len(current) + n /\ i' = i + n
<1>1. /\ sql \in Seq(Characters) /\ Len(sql) \in Nat /\ i \in Nat \ {0}
      /\ current \in Seq(Characters) /\ Len(current) \in Nat
  BY PlaceTypes
<1>2. PICK z : z = SubSeq(sql, i, i + n - 1)
  OBVIOUS
<1>3. PICK e \in Nat : e = i + n - 1
  BY <1>1
<1>4. z \in Seq(Characters) /\ Len(z) = IF i <= e THEN e - i + 1 ELSE 0
  BY <1>1, <1>2, <1>3, PartOfText
<1>5. Len(z) = n
  BY <1>1, <1>3, <1>4
<1>6. current' = current \o z /\ i' = i + n
  BY <1>2 DEF Write
<1>7. Len(current \o z) = Len(current) + Len(z)
  BY <1>1, <1>4, ConcatProperties
<1> QED  BY <1>5, <1>6, <1>7

(* What is known of the state in the middle of a segment.                  *)
Midst(B, p) ==
  /\ Inv /\ pc = "scan" /\ i <= Len(sql)
  /\ Pieces(sql, i, Len(current), mode, dollarTag, segmentHasContent, B, p)

(* The types of what it is about.                                          *)
LEMMA MidstTypes ==
  ASSUME NEW B, NEW p, Midst(B, p)
  PROVE  /\ sql \in Seq(Characters) /\ Len(sql) \in Nat /\ i \in 1..Len(sql) /\ i \in Nat
         /\ Len(current) \in Nat /\ p \in 1..i /\ p \in Nat /\ p \in 1..Len(sql)
         /\ Place /\ Open(sql, p, i, mode, dollarTag)
<1>1. /\ sql \in Seq(Characters) /\ Len(sql) \in Nat /\ i \in 1..(Len(sql) + 1)
      /\ Len(current) \in Nat /\ Place
  BY PlaceTypes DEF Midst, Inv
<1>2. i \in 1..Len(sql)
  BY <1>1 DEF Midst
<1>3. p \in Nat /\ p \in (i - Len(current))..p /\ i - Len(current) \in Nat \ {0} /\ p <= i
  BY DEF Midst, Pieces, Chain
<1>4. p \in 1..i
  BY <1>3
<1> QED  BY <1>1, <1>2, <1>4 DEF Midst, Pieces

(* A step writes n characters of a piece that stays open, or that ends.    *)
LEMMA StepGoesOn ==
  ASSUME NEW B, NEW p, Midst(B, p), NEW n \in Nat \ {0}, i + n - 1 <= Len(sql), Write(n),
         UNCHANGED sql, Open(sql, p, i + n, mode', dollarTag'),
         segmentHasContent' => segmentHasContent \/ Telling(sql, p)
  PROVE  InPieces'
<1>1. sql \in Seq(Characters) /\ i \in Nat /\ Len(current) \in Nat /\ Place
  BY MidstTypes
<1>2. Len(current') = Len(current) + n /\ i' = i + n /\ sql' = sql
  BY <1>1, WriteLonger
<1>3. Pieces(sql, i + n, Len(current) + n, mode', dollarTag', segmentHasContent', B, p)
  BY <1>1, PieceGoesOn DEF Midst
<1> QED  BY <1>2, <1>3 DEF InPieces

(* A step that reads the rest of the last piece.                           *)
LEMMA StepEnds ==
  ASSUME NEW B, NEW p, Midst(B, p), NEW n \in Nat \ {0}, i + n - 1 <= Len(sql), Write(n),
         UNCHANGED sql, Unit(sql, p, i + n), mode' = "sql",
         segmentHasContent' => segmentHasContent \/ Telling(sql, p)
  PROVE  InPieces'
<1>1. sql \in Seq(Characters) /\ i \in Nat /\ Len(current) \in Nat /\ Place
  BY MidstTypes
<1>2. Len(current') = Len(current) + n /\ i' = i + n /\ sql' = sql
  BY <1>1, WriteLonger
<1>3. \E B2 : Pieces(sql, i + n, Len(current) + n, "sql", dollarTag', segmentHasContent', B2, i + n)
  BY <1>1, PieceEnds DEF Midst
<1> QED  BY <1>2, <1>3 DEF InPieces

(* A comment goes on, or its line ends: the newline is a piece by itself.  *)
LEMMA LinePieces == ASSUME NEW B, NEW p, Midst(B, p), LineComment  PROVE InPieces'
<1>1. /\ sql \in Seq(Characters) /\ Len(sql) \in Nat /\ i \in Nat /\ i \in 1..Len(sql)
      /\ Len(current) \in Nat /\ p \in Nat /\ p \in 1..Len(sql) /\ p <= i /\ Place
  BY MidstTypes
<1>2. /\ mode = "line comment" /\ Write(1) /\ sql' = sql
      /\ mode' = (IF sql[i] = "\n" THEN "sql" ELSE mode)
      /\ segmentHasContent' = segmentHasContent
  BY DEF LineComment, In, Kept, ch
<1>3. OpenLine(sql, p, i)
  BY <1>2, MidstTypes DEF Open
<1>4. 1 \in Nat \ {0} /\ i + 1 - 1 <= Len(sql)
  BY <1>1
<1>5. CASE sql[i] = "\n"
  <2>1. LineUnit(sql, p, i)
    BY <1>3, <1>5 DEF OpenLine, LineUnit
  <2>2. Unit(sql, p, i)
    <3>1. p + 2 <= i
      BY <1>3 DEF OpenLine
    <3>2. i \in (p + 1)..(Len(sql) + 1)
      BY <1>1, <3>1
    <3> QED  BY <1>1, <2>1, <3>2 DEF Unit
  <2>3. PlainUnit(sql, i, i + 1)
    <3>1. ~CommentAt(sql, i) /\ \A n : ~TagIs(sql, i, n)
      BY <1>5 DEF CommentAt, At2, TagIs
    <3> QED  BY <1>5, <3>1 DEF PlainUnit
  <2>4. Unit(sql, i, i + 1)
    <3>1. i + 1 \in (i + 1)..(Len(sql) + 1)
      BY <1>1
    <3> QED  BY <1>1, <2>3, <3>1 DEF Unit
  <2>5. PICK a : a = i - Len(current)
    OBVIOUS
  <2>6. Chain(sql, a, p, B)
    BY <2>5 DEF Midst, Pieces
  <2>7. Chain(sql, a, i, B \cup {i})
    BY <1>1, <2>2, <2>6, ChainOn
  <2> DEFINE B2 == (B \cup {i}) \cup {i + 1}
  <2>8. Chain(sql, a, i + 1, B2)
    BY <1>1, <2>4, <2>7, ChainOn
  <2>9. Len(current') = Len(current) + 1 /\ i' = i + 1
    BY <1>1, <1>2, <1>4, WriteLonger
  <2>10. i' - Len(current') = a
    BY <1>1, <2>5, <2>9
  <2>11. segmentHasContent' => \E c \in B2 : c < i' /\ Telling(sql, c)
    <3>1. ASSUME segmentHasContent  PROVE \E c \in B2 : c < i' /\ Telling(sql, c)
      <4>1. PICK c \in B : c < i /\ Telling(sql, c)
        BY <3>1 DEF Midst, Pieces
      <4>2. c \in Nat /\ c \in B2
        BY <2>6 DEF Chain
      <4>3. c < i'
        BY <1>1, <2>9, <4>1, <4>2
      <4> QED  BY <4>1, <4>2, <4>3
    <3> QED  BY <1>2, <3>1
  <2> HIDE DEF B2
  <2>12. Pieces(sql, i', Len(current'), mode', dollarTag', segmentHasContent', B2, i + 1)
    <3>1. i + 1 = i' /\ i + 1 <= i'
      BY <1>1, <2>9
    <3>2. mode' = "sql"
      BY <1>2, <1>5, Zenon
    <3>3. Open(sql, i + 1, i', mode', dollarTag')
      BY <3>1, <3>2, Zenon DEF Open
    <3> QED  BY <2>8, <2>10, <2>11, <3>1, <3>3, Zenon DEF Pieces
  <2> QED  BY <1>2, <2>12 DEF InPieces
<1>6. CASE sql[i] # "\n"
  <2>1. OpenLine(sql, p, i + 1)
    <3>1. PICK j \in Nat : j = i + 1
      BY <1>1
    <3>2. \A k \in (p + 2)..(j - 1) : k = i \/ k \in (p + 2)..(i - 1)
      BY <1>1, <3>1
    <3>3. p + 2 <= j
      BY <1>1, <1>3, <3>1 DEF OpenLine
    <3>4. \A k \in (p + 2)..(j - 1) : sql[k] # "\n"
      BY <1>3, <1>6, <3>2, Zenon DEF OpenLine
    <3>5. OpenLine(sql, p, j)
      BY <1>3, <3>3, <3>4, Zenon DEF OpenLine
    <3> QED  BY <3>1, <3>5
  <2>2. Open(sql, p, i + 1, mode', dollarTag')
    BY <1>2, <1>6, <2>1 DEF Open
  <2> QED  BY <1>2, <1>4, <2>2, StepGoesOn
<1> QED  BY <1>5, <1>6

(* Next2 looks at two characters.                                          *)
LEMMA Next2Is == ASSUME NEW a, NEW b  PROVE Next2(a, b) <=> At2(sql, i, a, b)
BY Zenon DEF Next2, At2

(* Another comment goes on, or ends.                                       *)
LEMMA BlockPieces == ASSUME NEW B, NEW p, Midst(B, p), BlockComment  PROVE InPieces'
<1>1. /\ sql \in Seq(Characters) /\ Len(sql) \in Nat /\ i \in Nat /\ i \in 1..Len(sql)
      /\ p \in Nat /\ p \in 1..Len(sql) /\ p <= i
  BY MidstTypes
<1>2. /\ mode = "block comment" /\ sql' = sql /\ segmentHasContent' = segmentHasContent
      /\ \/ At2(sql, i, "*", "/") /\ Write(2) /\ mode' = "sql"
         \/ ~At2(sql, i, "*", "/") /\ Write(1) /\ mode' = mode
  BY Next2Is DEF BlockComment, In, Kept
<1>3. OpenBlock(sql, p, i)
  BY <1>2, MidstTypes DEF Open
<1>4. p + 2 <= i
  BY <1>3 DEF OpenBlock
<1>5. CASE At2(sql, i, "*", "/") /\ Write(2) /\ mode' = "sql"
  <2>1. i + 1 <= Len(sql)
    BY <1>1, <1>5 DEF At2
  <2>2. PICK e \in Nat : e = i + 2
    BY <1>1
  <2>3. BlockUnit(sql, p, e)
    <3>1. e - 2 = i /\ e - 3 = i - 1 /\ p + 4 <= e
      BY <1>1, <1>4, <2>2
    <3>2. At2(sql, e - 2, "*", "/")
      BY <1>5, <3>1
    <3>3. \A k \in (p + 2)..(e - 3) : ~At2(sql, k, "*", "/")
      BY <1>3, <3>1 DEF OpenBlock
    <3> QED  BY <1>3, <3>1, <3>2, <3>3 DEF BlockUnit, OpenBlock
  <2>4. Unit(sql, p, e)
    <3>1. e \in (p + 1)..(Len(sql) + 1)
      BY <1>1, <2>1, <2>2
    <3> QED  BY <1>1, <2>3, <3>1 DEF Unit
  <2>5. 2 \in Nat \ {0} /\ i + 2 - 1 <= Len(sql)
    BY <1>1, <2>1
  <2> QED  BY <1>2, <1>5, <2>2, <2>4, <2>5, StepEnds
<1>6. CASE ~At2(sql, i, "*", "/") /\ Write(1) /\ mode' = mode
  <2>1. OpenBlock(sql, p, i + 1)
    <3>1. PICK j \in Nat : j = i + 1
      BY <1>1
    <3>2. \A k \in (p + 2)..(j - 1) : k = i \/ k \in (p + 2)..(i - 1)
      BY <1>1, <3>1
    <3>3. p + 2 <= j
      BY <1>1, <1>4, <3>1
    <3>4. \A k \in (p + 2)..(j - 1) : ~At2(sql, k, "*", "/")
      BY <1>3, <1>6, <3>2, Zenon DEF OpenBlock
    <3>5. OpenBlock(sql, p, j)
      BY <1>3, <3>3, <3>4, Zenon DEF OpenBlock
    <3> QED  BY <3>1, <3>5
  <2>2. Open(sql, p, i + 1, mode', dollarTag')
    BY <1>2, <1>6, <2>1 DEF Open
  <2>3. 1 \in Nat \ {0} /\ i + 1 - 1 <= Len(sql)
    BY <1>1
  <2> QED  BY <1>2, <1>6, <2>2, <2>3, StepGoesOn
<1> QED  BY <1>2, <1>5, <1>6

(* A string goes on, past two quotes or past what is no quote, or ends.    *)
LEMMA QuotedPieces ==
  ASSUME NEW B, NEW p, Midst(B, p), NEW m \in {"single", "double"}, NEW q, q = Mark(m),
         Quoted(m, q)
  PROVE  InPieces'
<1>1. /\ sql \in Seq(Characters) /\ Len(sql) \in Nat /\ i \in Nat /\ i \in 1..Len(sql)
      /\ p \in Nat /\ p \in 1..Len(sql) /\ p <= i
  BY MidstTypes
<1>2. /\ mode = m /\ sql' = sql /\ segmentHasContent' = segmentHasContent
      /\ \/ At2(sql, i, q, q) /\ Write(2) /\ mode' = mode
         \/ sql[i] = q /\ ~At2(sql, i, q, q) /\ Write(1) /\ mode' = "sql"
         \/ sql[i] # q /\ Write(1) /\ mode' = mode
  BY Next2Is DEF Quoted, In, Kept, ch
<1>3. OpenString(sql, p, i) /\ sql[p] = q
  BY <1>2, MidstTypes DEF Open
<1>4. p + 1 <= i
  BY <1>3, Zenon DEF OpenString
<1>5. p + 1 <= i /\ p <= i - 1 /\ i - 1 \in Nat /\ (i - 1) + 1 = i
  BY <1>1, <1>4
<1>6. PICK c \in Nat : c = Count(sql, p, i - 1)
  BY <1>1, <1>5, CountStep
<1>7. c % 2 = 0
  BY <1>3, <1>6 DEF OpenString
<1>8. Count(sql, p, i) = c + (IF sql[i] = q THEN 1 ELSE 0)
  <2>1. PICK j \in Nat : j = i - 1
    BY <1>5
  <2>2. Count(sql, p, j + 1) = Count(sql, p, j) + (IF sql[j + 1] = sql[p] THEN 1 ELSE 0)
    BY <1>1, <1>5, <2>1, CountStep
  <2>3. j + 1 = i
    BY <1>5, <2>1
  <2> QED  BY <1>3, <1>6, <2>1, <2>2, <2>3
<1>9. CASE At2(sql, i, q, q) /\ Write(2) /\ mode' = mode
  <2>1. i < Len(sql) /\ sql[i] = q /\ sql[i + 1] = q
    BY <1>9 DEF At2
  <2>2. Count(sql, p, i + 1) = c + 2
    <3>1. Count(sql, p, i + 1) = Count(sql, p, i) + (IF sql[i + 1] = sql[p] THEN 1 ELSE 0)
      BY <1>1, CountStep
    <3> QED  BY <1>3, <1>8, <2>1, <3>1
  <2>3. (c + 2) % 2 = 0 /\ (c + 2) % 2 # 1
    BY <1>7
  <2>4. ~Closes(sql, p, i) /\ ~Closes(sql, p, i + 1)
    BY <1>3, <2>1, <2>2, <2>3 DEF Closes
  <2>5. OpenString(sql, p, i + 2)
    <3>1. PICK j \in Nat : j = i + 2
      BY <1>1
    <3>2. \A k \in (p + 1)..(j - 1) : k = i \/ k = i + 1 \/ k \in (p + 1)..(i - 1)
      BY <1>1, <3>1
    <3>3. p + 1 <= j /\ j - 1 = i + 1
      BY <1>1, <1>4, <3>1
    <3>4. Count(sql, p, j - 1) % 2 = 0
      BY <2>2, <2>3, <3>3
    <3>5. \A k \in (p + 1)..(j - 1) : ~Closes(sql, p, k)
      BY <1>3, <2>4, <3>2 DEF OpenString
    <3>6. OpenString(sql, p, j)
      BY <1>3, <3>3, <3>4, <3>5, Zenon DEF OpenString
    <3> QED  BY <3>1, <3>6
  <2>6. Open(sql, p, i + 2, mode', dollarTag')
    BY <1>2, <1>3, <1>9, <2>5 DEF Open
  <2>7. 2 \in Nat \ {0} /\ i + 2 - 1 <= Len(sql)
    BY <1>1, <2>1
  <2> QED  BY <1>2, <1>9, <2>6, <2>7, StepGoesOn
<1>10. CASE sql[i] = q /\ ~At2(sql, i, q, q) /\ Write(1) /\ mode' = "sql"
  <2>1. Count(sql, p, i) % 2 = 1
    BY <1>7, <1>8, <1>10
  <2>2. i < Len(sql) => sql[i + 1] # q
    BY <1>10 DEF At2
  <2>3. Closes(sql, p, i)
    BY <1>3, <1>10, <2>1, <2>2 DEF Closes
  <2>4. PICK e \in Nat : e = i + 1
    BY <1>1
  <2>5. QuoteUnit(sql, p, e)
    <3>1. e - 1 = i /\ e - 2 = i - 1 /\ p + 2 <= e
      BY <1>1, <1>5, <2>4
    <3>2. Closes(sql, p, e - 1)
      BY <2>3, <3>1
    <3>3. \A k \in (p + 1)..(e - 2) : ~Closes(sql, p, k)
      BY <1>3, <3>1 DEF OpenString
    <3> QED  BY <1>3, <3>1, <3>2, <3>3 DEF QuoteUnit, OpenString
  <2>6. Unit(sql, p, e)
    <3>1. e \in (p + 1)..(Len(sql) + 1)
      BY <1>1, <2>4
    <3> QED  BY <1>1, <2>5, <3>1 DEF Unit
  <2>7. 1 \in Nat \ {0} /\ i + 1 - 1 <= Len(sql)
    BY <1>1
  <2> QED  BY <1>2, <1>10, <2>4, <2>6, <2>7, StepEnds
<1>11. CASE sql[i] # q /\ Write(1) /\ mode' = mode
  <2>1. Count(sql, p, i) % 2 = 0 /\ ~Closes(sql, p, i)
    BY <1>3, <1>7, <1>8, <1>11 DEF Closes
  <2>2. OpenString(sql, p, i + 1)
    <3>1. PICK j \in Nat : j = i + 1
      BY <1>1
    <3>2. \A k \in (p + 1)..(j - 1) : k = i \/ k \in (p + 1)..(i - 1)
      BY <1>1, <3>1
    <3>3. p + 1 <= j /\ j - 1 = i
      BY <1>1, <1>4, <3>1
    <3>4. Count(sql, p, j - 1) % 2 = 0
      BY <2>1, <3>3
    <3>5. \A k \in (p + 1)..(j - 1) : ~Closes(sql, p, k)
      BY <1>3, <2>1, <3>2 DEF OpenString
    <3>6. OpenString(sql, p, j)
      BY <1>3, <3>3, <3>4, <3>5, Zenon DEF OpenString
    <3> QED  BY <3>1, <3>6
  <2>3. Open(sql, p, i + 1, mode', dollarTag')
    BY <1>2, <1>3, <1>11, <2>2 DEF Open
  <2>4. 1 \in Nat \ {0} /\ i + 1 - 1 <= Len(sql)
    BY <1>1
  <2> QED  BY <1>2, <1>11, <2>3, <2>4, StepGoesOn
<1> QED  BY <1>2, <1>9, <1>10, <1>11

(* A dollar-quoted string goes on, or ends with its tag.                   *)
LEMMA DollarPieces == ASSUME NEW B, NEW p, Midst(B, p), DollarQuoted  PROVE InPieces'
<1>1. /\ sql \in Seq(Characters) /\ Len(sql) \in Nat /\ i \in Nat /\ i \in 1..Len(sql)
      /\ p \in Nat /\ p \in 1..Len(sql) /\ p <= i
  BY MidstTypes
<1>2. /\ mode = "dollar" /\ sql' = sql /\ segmentHasContent' = segmentHasContent
      /\ \/ StartsAt(sql, i, dollarTag) /\ Write(Len(dollarTag)) /\ mode' = "sql"
         \/ /\ ~StartsAt(sql, i, dollarTag) /\ Write(1)
            /\ mode' = mode /\ dollarTag' = dollarTag
  BY DEF DollarQuoted, In, Kept, StartsAt
<1>3. PICK n : n = Len(dollarTag)
  OBVIOUS
<1>4. OpenTag(sql, p, i, dollarTag, n)
  BY <1>2, <1>3, MidstTypes DEF Open
<1>5. /\ n \in Nat /\ n >= 2 /\ p + n <= i /\ dollarTag \in Seq(Characters)
      /\ \A h \in 1..n : dollarTag[h] = sql[p + h - 1]
  <2>1. dollarTag \in Seq(Characters)
    BY DEF Midst, Inv, Rest
  <2> QED  BY <1>1, <1>4, <2>1 DEF OpenTag, TagIs
<1>6. StartsAt(sql, i, dollarTag) <=> SameAt(sql, p, i, n)
  <2>1. StartsAt(sql, i, dollarTag) <=>
          i + n - 1 <= Len(sql) /\ \A h \in 1..n : sql[i + h - 1] = dollarTag[h]
    <3>1. i \in 1..(Len(sql) + 1)
      BY <1>1
    <3> QED  BY <1>1, <1>3, <1>5, <3>1, StartsAtIs DEF HasAt
  <2>2. ASSUME \A h \in 1..n : sql[i + h - 1] = dollarTag[h], NEW h \in 0..(n - 1)
        PROVE  sql[i + h] = sql[p + h]
    <3>1. h + 1 \in 1..n /\ i + (h + 1) - 1 = i + h /\ p + (h + 1) - 1 = p + h
      BY <1>1, <1>5
    <3>2. sql[i + (h + 1) - 1] = dollarTag[h + 1] /\ dollarTag[h + 1] = sql[p + (h + 1) - 1]
      BY <1>5, <2>2, <3>1
    <3> QED  BY <3>1, <3>2
  <2>3. ASSUME \A h \in 0..(n - 1) : sql[i + h] = sql[p + h], NEW h \in 1..n
        PROVE  sql[i + h - 1] = dollarTag[h]
    <3>1. h - 1 \in 0..(n - 1) /\ i + (h - 1) = i + h - 1 /\ p + (h - 1) = p + h - 1
      BY <1>1, <1>5
    <3>2. sql[i + (h - 1)] = sql[p + (h - 1)]
      BY <2>3, <3>1
    <3> QED  BY <1>5, <3>1, <3>2
  <2> QED  BY <2>1, <2>2, <2>3 DEF SameAt
<1>7. CASE StartsAt(sql, i, dollarTag) /\ Write(Len(dollarTag)) /\ mode' = "sql"
  <2>1. SameAt(sql, p, i, n) /\ i + n - 1 <= Len(sql)
    BY <1>6, <1>7 DEF SameAt
  <2>2. PICK e \in Nat : e = i + n
    BY <1>1, <1>5
  <2>3. TagUnit(sql, p, e, n)
    <3>1. e - n = i /\ e - n - 1 = i - 1 /\ p + 2 * n <= e
      BY <1>1, <1>5, <2>2
    <3>2. SameAt(sql, p, e - n, n)
      BY <2>1, <3>1
    <3>3. \A k \in (p + n)..(e - n - 1) : ~SameAt(sql, p, k, n)
      BY <1>4, <3>1 DEF OpenTag
    <3> QED  BY <1>4, <3>1, <3>2, <3>3 DEF TagUnit, OpenTag
  <2>4. Unit(sql, p, e)
    <3>1. e \in (p + 1)..(Len(sql) + 1)
      BY <1>1, <1>5, <2>1, <2>2
    <3> QED  BY <1>1, <2>3, <3>1 DEF Unit, DollarUnit
  <2>5. n \in Nat \ {0}
    BY <1>5
  <2> QED  BY <1>2, <1>3, <1>7, <2>1, <2>2, <2>4, <2>5, StepEnds
<1>8. CASE /\ ~StartsAt(sql, i, dollarTag) /\ Write(1)
           /\ mode' = mode /\ dollarTag' = dollarTag
  <2>1. OpenTag(sql, p, i + 1, dollarTag, n)
    <3>1. PICK j \in Nat : j = i + 1
      BY <1>1
    <3>2. \A k \in (p + n)..(j - 1) : k = i \/ k \in (p + n)..(i - 1)
      BY <1>1, <1>5, <3>1
    <3>3. p + n <= j /\ ~SameAt(sql, p, i, n)
      BY <1>1, <1>5, <1>6, <1>8, <3>1
    <3>4. \A k \in (p + n)..(j - 1) : ~SameAt(sql, p, k, n)
      BY <1>4, <3>2, <3>3, Zenon DEF OpenTag
    <3>5. OpenTag(sql, p, j, dollarTag, n)
      BY <1>4, <3>3, <3>4, Zenon DEF OpenTag
    <3> QED  BY <3>1, <3>5
  <2>2. Open(sql, p, i + 1, mode', dollarTag')
    BY <1>2, <1>3, <1>8, <2>1 DEF Open
  <2>3. 1 \in Nat \ {0} /\ i + 1 - 1 <= Len(sql)
    BY <1>1
  <2> QED  BY <1>2, <1>8, <2>2, <2>3, StepGoesOn
<1> QED  BY <1>2, <1>7, <1>8

(* Outside of strings and comments, no piece is open.                      *)
LEMMA AtPiece ==
  ASSUME NEW B, NEW p, Midst(B, p), mode = "sql"
  PROVE  p = i
BY MidstTypes DEF Open

(* A comment begins.                                                       *)
LEMMA OpenCommentPieces == ASSUME NEW B, NEW p, Midst(B, p), OpenComment  PROVE InPieces'
<1>1. /\ sql \in Seq(Characters) /\ Len(sql) \in Nat /\ i \in Nat /\ i \in 1..Len(sql)
  BY MidstTypes
<1>2. /\ Write(2) /\ sql' = sql /\ segmentHasContent' = segmentHasContent
      /\ \/ At2(sql, i, "-", "-") /\ mode' = "line comment"
         \/ At2(sql, i, "/", "*") /\ mode' = "block comment"
  BY Next2Is DEF OpenComment, Kept
<1>3. p = i
  BY AtPiece DEF OpenComment, In
<1>4. i < Len(sql)
  BY <1>2 DEF At2
<1>5. PICK j \in Nat : j = i + 2
  BY <1>1
<1>6. i + 2 <= j /\ (i + 2)..(j - 1) = {}
  BY <1>1, <1>5
<1>7. Open(sql, i, j, mode', dollarTag')
  <2>1. CASE At2(sql, i, "-", "-") /\ mode' = "line comment"
    <3>1. OpenLine(sql, i, j)
      BY <1>6, <2>1 DEF OpenLine
    <3> QED  BY <2>1, <3>1 DEF Open
  <2>2. CASE At2(sql, i, "/", "*") /\ mode' = "block comment"
    <3>1. OpenBlock(sql, i, j)
      BY <1>6, <2>2 DEF OpenBlock
    <3> QED  BY <2>2, <3>1 DEF Open
  <2> QED  BY <1>2, <2>1, <2>2
<1>8. 2 \in Nat \ {0} /\ i + 2 - 1 <= Len(sql)
  BY <1>1, <1>4
<1> QED  BY <1>2, <1>3, <1>5, <1>7, <1>8, StepGoesOn

(* A string begins, of any kind.                                           *)
LEMMA OpenQuotePieces == ASSUME NEW B, NEW p, Midst(B, p), OpenQuote  PROVE InPieces'
<1>1. /\ sql \in Seq(Characters) /\ Len(sql) \in Nat /\ i \in Nat /\ i \in 1..Len(sql)
  BY MidstTypes
<1>2. p = i
  BY AtPiece DEF OpenQuote, In
<1>3. sql' = sql /\ 1 \in Nat \ {0} /\ i + 1 - 1 <= Len(sql)
  <2>1. sql' = sql
    BY DEF OpenQuote, Kept
  <2> QED  BY <1>1, <2>1
<1>4. ASSUME NEW m \in {"single", "double"}, sql[i] = Mark(m), mode' = m, Write(1)
      PROVE  InPieces'
  <2>1. PICK j \in Nat : j = i + 1
    BY <1>1
  <2>2. i + 1 <= j /\ j - 1 = i /\ (i + 1)..(j - 1) = {}
    BY <1>1, <2>1
  <2>3. Count(sql, i, j - 1) % 2 = 0
    <3>1. Count(sql, i, i) = 0
      BY <1>1, CountStep
    <3> QED  BY <2>2, <3>1
  <2>4. sql[i] \in {"'", "\""}
    BY <1>4 DEF Mark
  <2>5. OpenString(sql, i, j)
    BY <2>2, <2>3, <2>4 DEF OpenString
  <2>6. Open(sql, i, j, mode', dollarTag')
    BY <1>4, <2>5 DEF Open
  <2>7. Telling(sql, i)
    BY <2>4 DEF Telling, CommentAt, At2, Space
  <2> QED  BY <1>2, <1>3, <1>4, <2>1, <2>6, <2>7, StepGoesOn
<1>5. ASSUME tagHere # << >>, mode' = "dollar", dollarTag' = tagHere, Write(Len(tagHere))
      PROVE  InPieces'
  <2>1. PICK r : r = readDollarTag(SubSeq(sql, i, Len(sql)))
    OBVIOUS
  <2>2. r = tagHere
    BY <2>1 DEF tagHere
  <2>3. /\ TagIs(sql, i, Len(r)) /\ Len(r) \in 2..(Len(sql) - i + 1)
        /\ \A h \in 1..Len(r) : r[h] = sql[i + h - 1]
    <3>1. r # << >> /\ i \in 1..Len(sql)
      BY <1>1, <1>5, <2>2
    <3> QED  BY <1>1, <2>1, <3>1, TagThere
  <2>4. PICK n \in Nat : n = Len(r)
    BY <1>1, <2>3
  <2>5. PICK j \in Nat : j = i + n
    BY <1>1
  <2>6. i + n <= j /\ (i + n)..(j - 1) = {} /\ n \in Nat \ {0} /\ i + n - 1 <= Len(sql)
    BY <1>1, <2>3, <2>4, <2>5
  <2>7. OpenTag(sql, i, j, r, n)
    BY <2>3, <2>4, <2>6 DEF OpenTag
  <2>8. Open(sql, i, j, mode', dollarTag')
    BY <1>5, <2>2, <2>4, <2>7 DEF Open
  <2>9. Telling(sql, i)
    BY <2>3 DEF Telling, CommentAt, At2, Space, TagIs
  <2> QED  BY <1>2, <1>3, <1>5, <2>2, <2>4, <2>5, <2>6, <2>8, <2>9, StepGoesOn
<1>6. \/ ch = "'" /\ mode' = "single" /\ Write(1)
      \/ ch = "\"" /\ mode' = "double" /\ Write(1)
      \/ tagHere # << >> /\ mode' = "dollar" /\ dollarTag' = tagHere /\ Write(Len(tagHere))
  BY Zenon DEF OpenQuote
<1>7. "'" = Mark("single") /\ "\"" = Mark("double")
  BY DEF Mark
<1> QED  BY <1>4, <1>5, <1>6, <1>7 DEF ch

(* A character by itself.                                                  *)
LEMMA OtherPieces == ASSUME NEW B, NEW p, Midst(B, p), Other  PROVE InPieces'
<1>1. /\ sql \in Seq(Characters) /\ Len(sql) \in Nat /\ i \in Nat /\ i \in 1..Len(sql)
  BY MidstTypes
<1>2. p = i
  BY AtPiece DEF Other, In
<1>3. /\ sql[i] \notin {"'", "\"", ";"} /\ tagHere = << >> /\ sql' = sql /\ Write(1)
      /\ mode' = "sql" /\ (segmentHasContent' <=> segmentHasContent \/ sql[i] \notin Space)
  BY DEF Other, Kept, Content, In, ch
<1>4. ~CommentAt(sql, i)
  BY Next2Is DEF Other, CommentAt
<1>5. \A n : ~TagIs(sql, i, n)
  <2>1. PICK r : r = readDollarTag(SubSeq(sql, i, Len(sql)))
    OBVIOUS
  <2>2. r = << >>
    BY <1>3, <2>1 DEF tagHere
  <2> QED  BY <1>1, <2>1, <2>2, TagThere
<1>6. Unit(sql, i, i + 1)
  <2>1. i + 1 \in (i + 1)..(Len(sql) + 1)
    BY <1>1
  <2>2. PlainUnit(sql, i, i + 1)
    BY <1>3, <1>4, <1>5 DEF PlainUnit
  <2> QED  BY <1>1, <2>1, <2>2 DEF Unit
<1>7. segmentHasContent' => segmentHasContent \/ Telling(sql, i)
  BY <1>3, <1>4 DEF Telling
<1>8. 1 \in Nat \ {0} /\ i + 1 - 1 <= Len(sql)
  BY <1>1
<1> QED  BY <1>2, <1>3, <1>6, <1>7, <1>8, StepEnds

(***************************************************************************)
(* Pieces of a text that is a part of another, from position d + 1 on.     *)
(***************************************************************************)
Within(x, s, d) ==
  /\ x \in Seq(Characters) /\ s \in Seq(Characters) /\ d \in Nat
  /\ Len(x) \in Nat /\ Len(s) \in Nat /\ Len(x) + d <= Len(s)
  /\ \A k \in 1..Len(x) : x[k] = s[k + d]

(* Two characters that are in the part are in the whole.                   *)
LEMMA PairWithin ==
  ASSUME NEW x, NEW s, NEW d, Within(x, s, d), NEW k \in 1..Len(x), NEW a, NEW b
  PROVE  At2(x, k, a, b) <=> k < Len(x) /\ At2(s, k + d, a, b)
<1>1. k + d \in Nat /\ k + 1 + d = k + d + 1 /\ (k < Len(x) => k + d < Len(s))
  BY DEF Within
<1>2. x[k] = s[k + d]
  BY DEF Within
<1>3. k < Len(x) => x[k + 1] = s[k + d + 1]
  <2>1. k < Len(x) => k + 1 \in 1..Len(x)
    BY DEF Within
  <2>2. \A h \in 1..Len(x) : x[h] = s[h + d]
    BY DEF Within
  <2> QED  BY <1>1, <2>1, <2>2
<1> QED  BY <1>1, <1>2, <1>3 DEF At2

(* The start of a comment.                                                 *)
LEMMA CommentWithin ==
  ASSUME NEW x, NEW s, NEW d, Within(x, s, d), NEW k \in 1..Len(x), CommentAt(x, k)
  PROVE  CommentAt(s, k + d)
BY PairWithin DEF CommentAt

(* Dollar tags, if the part has the whole of them.                         *)
LEMMA TagWithin ==
  ASSUME NEW x, NEW s, NEW d, Within(x, s, d), NEW k \in 1..Len(x), NEW n
  PROVE  TagIs(x, k, n) <=> TagIs(s, k + d, n) /\ k + n - 1 <= Len(x)
<1>1. /\ Len(x) \in Nat /\ Len(s) \in Nat /\ d \in Nat /\ Len(x) + d <= Len(s)
      /\ \A h \in 1..Len(x) : x[h] = s[h + d]
  BY DEF Within
<1>2. SUFFICES ASSUME n \in Nat, n >= 2, k + n - 1 <= Len(x)
               PROVE  TagIs(x, k, n) <=> TagIs(s, k + d, n)
  BY <1>1 DEF TagIs
<1>3. /\ n \in 2..(Len(x) - k + 1) /\ n \in 2..(Len(s) - (k + d) + 1)
      /\ k + n - 1 \in 1..Len(x) /\ (k + n - 1) + d = (k + d) + n - 1
  BY <1>1, <1>2
<1>4. x[k] = s[k + d] /\ x[k + n - 1] = s[(k + d) + n - 1]
  BY <1>1, <1>3
<1>5. ASSUME \A h \in (k + 1)..(k + n - 2) : x[h] \in TagChars,
             NEW h \in (k + d + 1)..(k + d + n - 2)
      PROVE  s[h] \in TagChars
  <2>1. PICK j \in Nat : j = h - d
    BY <1>1, <1>2
  <2>2. j \in (k + 1)..(k + n - 2) /\ j \in 1..Len(x) /\ j + d = h
    BY <1>1, <1>2, <2>1
  <2> QED  BY <1>1, <1>5, <2>2
<1>6. ASSUME \A h \in (k + d + 1)..(k + d + n - 2) : s[h] \in TagChars,
             NEW h \in (k + 1)..(k + n - 2)
      PROVE  x[h] \in TagChars
  <2>1. h + d \in (k + d + 1)..(k + d + n - 2) /\ h \in 1..Len(x)
    BY <1>1, <1>2
  <2> QED  BY <1>1, <1>6, <2>1
<1> QED  BY <1>3, <1>4, <1>5, <1>6 DEF TagIs

(* What is the same at two positions.                                      *)
LEMMA SameWithin ==
  ASSUME NEW x, NEW s, NEW d, Within(x, s, d), NEW p \in 1..Len(x), NEW k \in 1..Len(x),
         NEW n \in Nat, p + n - 1 <= Len(x), k + n - 1 <= Len(x)
  PROVE  SameAt(x, p, k, n) <=> SameAt(s, p + d, k + d, n)
<1>1. /\ Len(x) \in Nat /\ Len(s) \in Nat /\ d \in Nat /\ Len(x) + d <= Len(s)
      /\ \A h \in 1..Len(x) : x[h] = s[h + d]
  BY DEF Within
<1>2. ASSUME NEW h \in 0..(n - 1)
      PROVE  x[k + h] = s[(k + d) + h] /\ x[p + h] = s[(p + d) + h]
  <2>1. /\ k + h \in 1..Len(x) /\ (k + h) + d = (k + d) + h
        /\ p + h \in 1..Len(x) /\ (p + h) + d = (p + d) + h
    BY <1>1
  <2>2. x[k + h] = s[(k + h) + d] /\ x[p + h] = s[(p + h) + d]
    BY <1>1, <2>1
  <2> QED  BY <2>1, <2>2
<1>3. (k + d) + n - 1 <= Len(s)
  BY <1>1
<1> QED  BY <1>2, <1>3 DEF SameAt

(* The quotes counted.                                                     *)
LEMMA CountWithin ==
  ASSUME NEW x, NEW s, NEW d, Within(x, s, d), NEW p \in 1..Len(x), NEW k \in p..Len(x)
  PROVE  Count(x, p, k) = Count(s, p + d, k + d)
<1>1. /\ Len(x) \in Nat /\ Len(s) \in Nat /\ d \in Nat
      /\ \A h \in 1..Len(x) : x[h] = s[h + d]
  BY Zenon DEF Within
<1>2. /\ Len(x) \in Nat /\ Len(s) \in Nat /\ d \in Nat /\ p \in Nat /\ k \in Nat
  BY <1>1
<1> DEFINE G == {j \in Nat : Count(x, p, p + j) = Count(s, p + d, (p + d) + j)}
<1>3. 0 \in G
  <2>1. Count(x, p, p) = 0 /\ Count(s, p + d, p + d) = 0
    BY <1>2, CountStep
  <2>2. p + 0 = p /\ (p + d) + 0 = p + d
    BY <1>2
  <2> QED  BY <2>1, <2>2
<1>4. ASSUME NEW j \in 1..(k - p), j - 1 \in G  PROVE j \in G
  <2>1. PICK a \in Nat : a = p + (j - 1)
    BY <1>2
  <2>2. PICK b \in Nat : b = (p + d) + (j - 1)
    BY <1>2
  <2>3. Count(x, p, a) = Count(s, p + d, b)
    BY <1>4, <2>1, <2>2
  <2>4. a + 1 = p + j /\ b + 1 = (p + d) + j /\ a + 1 \in 1..Len(x) /\ a + 1 + d = b + 1
    BY <1>2, <2>1, <2>2
  <2>5. x[a + 1] = s[b + 1] /\ x[p] = s[p + d]
    <3>1. x[a + 1] = s[a + 1 + d] /\ x[p] = s[p + d]
      BY <1>1, <2>4, Zenon
    <3> QED  BY <2>4, <3>1
  <2>6. Count(x, p, a + 1) = Count(x, p, a) + (IF x[a + 1] = x[p] THEN 1 ELSE 0)
    <3>1. p <= a
      BY <1>2, <2>1
    <3> QED  BY <1>2, <3>1, CountStep
  <2>7. Count(s, p + d, b + 1) = Count(s, p + d, b) + (IF s[b + 1] = s[p + d] THEN 1 ELSE 0)
    <3>1. p + d <= b /\ p + d \in Nat
      BY <1>2, <2>2
    <3> QED  BY <3>1, CountStep
  <2>8. Count(x, p, a + 1) = Count(s, p + d, b + 1)
    BY <2>3, <2>5, <2>6, <2>7
  <2>9. j \in Nat
    OBVIOUS
  <2> QED  BY <2>4, <2>8, <2>9
<1>5. k - p \in Nat /\ k - p \in 0..(k - p)
  BY <1>2
<1> HIDE DEF G
<1>6. k - p \in G
  BY <1>3, <1>4, <1>5, UpToNat
<1>7. p + (k - p) = k /\ (p + d) + (k - p) = k + d
  BY <1>2
<1> QED  BY <1>6, <1>7 DEF G

(* Quotes that close: the last character of the part may be one that is    *)
(* doubled in the whole.                                                   *)
LEMMA ClosesWithin ==
  ASSUME NEW x, NEW s, NEW d, Within(x, s, d), NEW p \in 1..Len(x), NEW k \in (p + 1)..Len(x)
  PROVE  /\ Closes(s, p + d, k + d) => Closes(x, p, k)
         /\ Closes(x, p, k) /\ k < Len(x) => Closes(s, p + d, k + d)
<1>1. /\ Len(x) \in Nat /\ Len(s) \in Nat /\ d \in Nat /\ Len(x) + d <= Len(s)
      /\ \A h \in 1..Len(x) : x[h] = s[h + d]
  BY DEF Within
<1>2. k \in 1..Len(x) /\ k \in p..Len(x)
  BY <1>1
<1>3. x[k] = s[k + d] /\ x[p] = s[p + d]
  BY <1>1, <1>2
<1>4. Count(x, p, k) = Count(s, p + d, k + d)
  BY <1>2, CountWithin
<1>5. k < Len(x) => k + d < Len(s) /\ x[k + 1] = s[(k + d) + 1]
  <2>1. k < Len(x) => k + 1 \in 1..Len(x) /\ (k + 1) + d = (k + d) + 1 /\ k + d < Len(s)
    BY <1>1, <1>2
  <2> QED  BY <1>1, <2>1
<1> QED  BY <1>3, <1>4, <1>5 DEF Closes

(* The types that Within gives, and its characters.                        *)
LEMMA WithinTypes ==
  ASSUME NEW x, NEW s, NEW d, Within(x, s, d)
  PROVE  /\ x \in Seq(Characters) /\ s \in Seq(Characters) /\ Len(x) \in Nat /\ Len(s) \in Nat
         /\ d \in Nat /\ Len(x) + d <= Len(s)
         /\ \A k \in 1..Len(x) : x[k] = s[k + d]
BY Zenon DEF Within

(* A comment up to the end of its line may be cut short.                   *)
LEMMA LineWithin ==
  ASSUME NEW x, NEW s, NEW d, Within(x, s, d), NEW p \in 1..Len(x),
         NEW e \in (p + 2)..(Len(x) + 1), NEW f, LineUnit(s, p + d, f),
         f = e + d \/ (e = Len(x) + 1 /\ f \in Nat /\ e + d <= f)
  PROVE  LineUnit(x, p, e)
<1>1. /\ Len(x) \in Nat /\ Len(s) \in Nat /\ d \in Nat /\ Len(x) + d <= Len(s)
      /\ \A k \in 1..Len(x) : x[k] = s[k + d]
  BY WithinTypes
<1>2. p < Len(x) /\ p \in Nat /\ e \in Nat
  BY <1>1
<1>3. At2(x, p, "-", "-")
  BY <1>2, PairWithin DEF LineUnit
<1>4. ASSUME NEW k \in (p + 2)..(e - 1)  PROVE x[k] # "\n"
  <2>1. k \in 1..Len(x) /\ k + d \in (p + d + 2)..(f - 1)
    BY <1>1
  <2> QED  BY <1>1, <2>1 DEF LineUnit
<1>5. e <= Len(x) => x[e] = "\n"
  <2>1. e <= Len(x) => e \in 1..Len(x) /\ f = e + d /\ f <= Len(s)
    BY <1>1
  <2> QED  BY <1>1, <2>1 DEF LineUnit
<1> QED  BY <1>2, <1>3, <1>4, <1>5 DEF LineUnit

(* The other pieces are in it as a whole.                                  *)
LEMMA BlockWithin ==
  ASSUME NEW x, NEW s, NEW d, Within(x, s, d), NEW p \in 1..Len(x),
         NEW e \in (p + 1)..(Len(x) + 1),
         NEW u \in Nat, u = p + d, NEW f \in Nat, f = e + d, BlockUnit(s, u, f)
  PROVE  BlockUnit(x, p, e)
<1>1. Len(x) \in Nat /\ d \in Nat /\ p \in Nat /\ e \in Nat
  BY WithinTypes
<1>2. /\ At2(s, u, "/", "*") /\ u + 4 <= f /\ At2(s, f - 2, "*", "/")
      /\ \A k \in (u + 2)..(f - 3) : ~At2(s, k, "*", "/")
  BY Zenon DEF BlockUnit
<1>3. p + 4 <= e /\ p < Len(x)
  BY <1>1, <1>2
<1>4. At2(x, p, "/", "*")
  BY <1>2, <1>3, PairWithin
<1>5. At2(x, e - 2, "*", "/")
  <2>1. PICK h \in Nat : h = e - 2
    BY <1>1, <1>3
  <2>2. h \in 1..Len(x) /\ h < Len(x) /\ h + d = f - 2
    BY <1>1, <1>3, <2>1
  <2>3. At2(s, h + d, "*", "/")
    BY <1>2, <2>2
  <2> QED  BY <2>1, <2>2, <2>3, PairWithin
<1>6. ASSUME NEW k \in (p + 2)..(e - 3)  PROVE ~At2(x, k, "*", "/")
  <2>1. k \in 1..Len(x) /\ k + d \in (u + 2)..(f - 3)
    BY <1>1
  <2>2. ~At2(s, k + d, "*", "/")
    BY <1>2, <2>1
  <2> QED  BY <2>1, <2>2, PairWithin
<1> QED  BY <1>3, <1>4, <1>5, <1>6 DEF BlockUnit

(* Strings.                                                                *)
LEMMA QuoteWithin ==
  ASSUME NEW x, NEW s, NEW d, Within(x, s, d), NEW p \in 1..Len(x),
         NEW e \in (p + 1)..(Len(x) + 1),
         NEW u \in Nat, u = p + d, NEW f \in Nat, f = e + d, QuoteUnit(s, u, f)
  PROVE  QuoteUnit(x, p, e)
<1>1. Len(x) \in Nat /\ d \in Nat /\ p \in Nat /\ e \in Nat
  BY WithinTypes
<1>2. x[p] = s[u]
  BY WithinTypes
<1>3. /\ s[u] \in {"'", "\""} /\ u + 2 <= f
      /\ Closes(s, u, f - 1)
      /\ \A k \in (u + 1)..(f - 2) : ~Closes(s, u, k)
  BY Zenon DEF QuoteUnit
<1>4. PICK h \in Nat : h = e - 1
  BY <1>1
<1>5. u + 2 <= f
  BY <1>3
<1>6. p + 2 <= e /\ h \in (p + 1)..Len(x) /\ h + d = f - 1
  BY <1>1, <1>4, <1>5
<1>7. Closes(x, p, h)
  BY <1>3, <1>6, ClosesWithin
<1>8. ASSUME NEW k \in (p + 1)..(e - 2)  PROVE ~Closes(x, p, k)
  <2>1. k \in (p + 1)..Len(x) /\ k < Len(x) /\ k + d \in (u + 1)..(f - 2)
    BY <1>1
  <2> QED  BY <1>3, <2>1, ClosesWithin
<1> QED  BY <1>2, <1>1, <1>3, <1>4, <1>6, <1>7, <1>8 DEF QuoteUnit

(* Dollar-quoted strings.                                                  *)
LEMMA DollarWithin ==
  ASSUME NEW x, NEW s, NEW d, Within(x, s, d), NEW p \in 1..Len(x),
         NEW e \in (p + 1)..(Len(x) + 1),
         NEW u \in Nat, u = p + d, NEW f \in Nat, f = e + d, DollarUnit(s, u, f)
  PROVE  DollarUnit(x, p, e)
<1>1. Len(x) \in Nat /\ Len(s) \in Nat /\ d \in Nat /\ p \in Nat /\ e \in Nat
  BY WithinTypes
<1>2. PICK n : TagUnit(s, u, f, n)
  BY DEF DollarUnit
<1>3. /\ TagIs(s, u, n) /\ u + 2 * n <= f
      /\ SameAt(s, u, f - n, n)
      /\ \A k \in (u + n)..(f - n - 1) : ~SameAt(s, u, k, n)
  BY <1>2, Zenon DEF TagUnit
<1>4. n \in Nat /\ n >= 2
  <2>1. n \in 2..(Len(s) - u + 1)
    BY <1>3 DEF TagIs
  <2> QED  BY <1>1, <2>1
<1>5. PICK h \in Nat : h = e - n
  BY <1>1, <1>3, <1>4
<1>6. p + 2 * n <= e /\ p + n - 1 <= Len(x) /\ h \in 1..Len(x)
        /\ h + n - 1 <= Len(x) /\ h + d = f - n
  BY <1>1, <1>3, <1>4, <1>5
<1>7. TagIs(x, p, n)
  BY <1>3, <1>6, TagWithin
<1>8. SameAt(x, p, h, n)
  <2>1. SameAt(s, p + d, h + d, n)
    BY <1>3, <1>6
  <2> QED  BY <1>4, <1>6, <2>1, SameWithin
<1>9. ASSUME NEW k \in (p + n)..(e - n - 1)  PROVE ~SameAt(x, p, k, n)
  <2>1. k \in 1..Len(x) /\ k + n - 1 <= Len(x) /\ k + d \in (u + n)..(f - n - 1)
    BY <1>1, <1>4
  <2>2. ~SameAt(s, p + d, k + d, n)
    BY <1>3, <2>1
  <2> QED  BY <1>4, <1>6, <2>1, <2>2, SameWithin
<1>10. TagUnit(x, p, e, n)
  BY <1>5, <1>6, <1>7, <1>8, <1>9 DEF TagUnit
<1> QED  BY <1>10 DEF DollarUnit

(* Single characters.                                                      *)
LEMMA PlainWithin ==
  ASSUME NEW x, NEW s, NEW d, Within(x, s, d), NEW p \in 1..Len(x),
         NEW e \in (p + 1)..(Len(x) + 1),
         NEW u \in Nat, u = p + d, NEW f \in Nat, f = e + d, PlainUnit(s, u, f)
  PROVE  PlainUnit(x, p, e)
<1>1. Len(x) \in Nat /\ d \in Nat /\ p \in Nat /\ e \in Nat
  BY WithinTypes
<1>2. x[p] = s[u]
  BY WithinTypes
<1>3. /\ f = u + 1 /\ s[u] \notin {"'", "\"", ";"}
      /\ ~CommentAt(s, u) /\ \A n : ~TagIs(s, u, n)
  BY Zenon DEF PlainUnit
<1>4. f = u + 1
  BY <1>3
<1>5. e = p + 1
  BY <1>1, <1>4
<1>6. \A n : ~TagIs(x, p, n)
  BY <1>3, TagWithin
<1>7. ~CommentAt(x, p)
  BY <1>3, CommentWithin
<1> QED  BY <1>2, <1>1, <1>3, <1>5, <1>6, <1>7 DEF PlainUnit

(* Any of them.                                                            *)
LEMMA UnitWithin ==
  ASSUME NEW x, NEW s, NEW d, Within(x, s, d), NEW p \in 1..Len(x),
         NEW e \in (p + 1)..(Len(x) + 1),
         NEW u \in Nat, u = p + d, NEW f \in Nat, f = e + d, Unit(s, u, f)
  PROVE  Unit(x, p, e)
<1>1. Len(x) \in Nat /\ d \in Nat /\ p \in Nat /\ e \in Nat
  BY WithinTypes
<1>2. CASE LineUnit(s, u, f)
  <2>1. u + 2 <= f
    BY <1>2 DEF LineUnit
  <2>2. e \in (p + 2)..(Len(x) + 1)
    BY <1>1, <2>1
  <2> QED  BY <1>2, <2>2, LineWithin DEF Unit
<1>3. CASE BlockUnit(s, u, f)
  BY <1>3, BlockWithin DEF Unit
<1>4. CASE QuoteUnit(s, u, f)
  BY <1>4, QuoteWithin DEF Unit
<1>5. CASE DollarUnit(s, u, f)
  BY <1>5, DollarWithin DEF Unit
<1>6. CASE PlainUnit(s, u, f)
  BY <1>6, PlainWithin DEF Unit
<1> QED  BY <1>2, <1>3, <1>4, <1>5, <1>6 DEF Unit

(* What it ends with is not a space, unless it is such a comment.          *)
LEMMA UnitEnd ==
  ASSUME NEW s \in Seq(Characters), NEW p, NEW e, Unit(s, p, e),
         s[e - 1] \in Space, s[p] \notin Space
  PROVE  LineUnit(s, p, e)
<1>1. p \in Nat /\ e \in Nat /\ p < e /\ Len(s) \in Nat
  BY LenProperties DEF Unit
<1>2. ~BlockUnit(s, p, e)
  <2>1. SUFFICES ASSUME BlockUnit(s, p, e)  PROVE FALSE
    OBVIOUS
  <2>2. s[(e - 2) + 1] = "/" /\ (e - 2) + 1 = e - 1
    BY <1>1, <2>1 DEF BlockUnit, At2
  <2> QED  BY <2>2 DEF Space
<1>3. ~QuoteUnit(s, p, e)
  BY DEF QuoteUnit, Closes, Space
<1>4. ~DollarUnit(s, p, e)
  <2>1. SUFFICES ASSUME NEW n, TagUnit(s, p, e, n)  PROVE FALSE
    BY DEF DollarUnit
  <2>2. TagIs(s, p, n) /\ SameAt(s, p, e - n, n)
    BY <2>1 DEF TagUnit
  <2>3. n \in Nat /\ n >= 2 /\ s[p + n - 1] = "$"
    BY <1>1, <2>2 DEF TagIs
  <2>4. \A h \in 0..(n - 1) : s[(e - n) + h] = s[p + h]
    BY <2>2, Zenon DEF SameAt
  <2>5. n - 1 \in 0..(n - 1) /\ (e - n) + (n - 1) = e - 1 /\ p + (n - 1) = p + n - 1
    BY <1>1, <2>3
  <2>6. s[e - 1] = "$"
    BY <2>3, <2>4, <2>5
  <2> QED  BY <2>6 DEF Space
<1>5. ~PlainUnit(s, p, e)
  <2>1. SUFFICES ASSUME PlainUnit(s, p, e)  PROVE FALSE
    OBVIOUS
  <2>2. e = p + 1
    BY <2>1 DEF PlainUnit
  <2>3. e - 1 = p
    BY <1>1, <2>2
  <2> QED  BY <2>3
<1> QED  BY <1>2, <1>3, <1>4, <1>5 DEF Unit

(* A space is a piece of its own.                                          *)
LEMMA SpaceUnit ==
  ASSUME NEW s \in Seq(Characters), NEW p, NEW e, Unit(s, p, e), s[p] \in Space
  PROVE  e = p + 1
<1>1. s[p] \notin {"'", "\"", "-", "/", "$"}
  BY DEF Space
<1>2. ~LineUnit(s, p, e) /\ ~BlockUnit(s, p, e)
  BY <1>1 DEF LineUnit, BlockUnit, At2
<1>3. ~QuoteUnit(s, p, e)
  BY <1>1 DEF QuoteUnit
<1>4. ~DollarUnit(s, p, e)
  BY <1>1 DEF DollarUnit, TagUnit, TagIs
<1> QED  BY <1>2, <1>3, <1>4 DEF Unit, PlainUnit

(* The text of a segment without the spaces around it, in the script.      *)
TrimmedAt(x, s, a, q, d) ==
  /\ Within(x, s, d) /\ Len(x) >= 1 /\ a <= d + 1 /\ d + Len(x) < q
  /\ \A k \in a..d : s[k] \in Space
  /\ \A k \in (d + Len(x) + 1)..(q - 1) : s[k] \in Space

(* It has a place, in the part of the script that the segment is.          *)
LEMMA TrimmedIn ==
  ASSUME NEW s \in Seq(Characters), NEW a \in Nat \ {0}, NEW q \in Nat, a <= q, q <= Len(s) + 1,
         NEW c, c = SubSeq(s, a, q - 1), NEW x, x = TrimSpace(c), x # << >>
  PROVE  \E d \in Nat : TrimmedAt(x, s, a, q, d)
<1>1. PICK n \in Nat : n = Len(s)
  BY LenProperties
<1>2. PICK b \in Nat : b = q - 1
  OBVIOUS
<1>3. c = SubSeq(s, a, b)
  BY <1>2
<1>4. c \in Seq(Characters) /\ Len(c) = (IF a <= b THEN b - a + 1 ELSE 0)
        /\ \A k \in 1..(b - a + 1) : c[k] = s[a + k - 1]
  BY <1>1, <1>2, <1>3, PartOfText
<1> DEFINE solid == {k \in DOMAIN c : c[k] \notin Space}
<1>5. DOMAIN c = 1..Len(c) /\ Len(c) \in Nat
  BY <1>4, LenProperties
<1>6. solid # {}
  <2>1. solid = {} => x = << >>
    BY Zenon DEF TrimSpace
  <2> QED  BY <2>1
<1>7. x = SubSeq(c, Min(solid), Max(solid))
  BY <1>6, Zenon DEF TrimSpace
<1>8. solid \in SUBSET (1..Len(c)) /\ solid \in SUBSET Nat
  BY <1>5
<1>9. \A k \in 1..Len(c) : k \notin solid => c[k] \in Space
  BY <1>5
<1> HIDE DEF solid
<1>10. /\ Min(solid) \in solid /\ Max(solid) \in solid
       /\ \A k \in solid : Min(solid) <= k /\ k <= Max(solid)
  BY <1>5, <1>6, <1>8, MinIsLeast, MaxIsGreatest
<1>11. PICK l \in Nat, h \in Nat : l = Min(solid) /\ h = Max(solid)
  BY <1>8, <1>10
<1>12. a <= b /\ 1 <= l /\ l <= h /\ h <= b - a + 1 /\ Len(c) = b - a + 1
  <2>1. l \in 1..Len(c) /\ h \in 1..Len(c) /\ l <= h
    BY <1>8, <1>10, <1>11
  <2>2. a <= b
    BY <1>4, <2>1
  <2> QED  BY <1>4, <1>5, <2>1, <2>2
<1>13. x = SubSeq(c, l, h) /\ \A k \in solid : l <= k /\ k <= h
  BY <1>7, <1>10, <1>11
<1>14. c \in Seq(Characters) /\ h <= Len(c) /\ l >= 1 /\ l <= h
  BY <1>4, <1>12
<1>15. a <= b /\ 1 <= l /\ l <= h /\ h <= b - a + 1
  BY <1>12
<1>16. x \in Seq(Characters) /\ Len(x) = h - l + 1
         /\ \A k \in 1..(h - l + 1) : x[k] = c[l + k - 1]
  <2>1. x = SubSeq(c, l, h)
    BY <1>13
  <2>2. /\ SubSeq(c, l, h) \in Seq(Characters)
        /\ Len(SubSeq(c, l, h)) = IF l <= h THEN h - l + 1 ELSE 0
        /\ \A k \in 1..(h - l + 1) : SubSeq(c, l, h)[k] = c[l + k - 1]
    BY <1>14, PartOfText
  <2> QED  BY <1>15, <2>1, <2>2
<1>17. PICK m \in Nat : m = Len(x)
  BY <1>12, <1>16
<1>18. m = h - l + 1
  BY <1>16, <1>17
<1>19. PICK d \in Nat : d = a + l - 2
  BY <1>12
<1>20. d + m = a + h - 1 /\ d + m < q /\ d + m <= n /\ a <= d + 1 /\ m >= 1
  <2>1. q <= n + 1
    BY <1>1
  <2> QED  BY <1>2, <1>19, <1>18, <1>15, <2>1
<1>21. ASSUME NEW k \in 1..m  PROVE x[k] = s[k + d]
  <2>1. PICK j \in Nat : j = l + k - 1
    BY <1>12
  <2>2. j \in 1..(b - a + 1) /\ k \in 1..(h - l + 1)
    BY <1>12, <1>18, <2>1
  <2>3. x[k] = c[j]
    BY <1>16, <2>1, <2>2
  <2>4. c[j] = s[a + j - 1]
    BY <1>4, <2>2
  <2>5. a + j - 1 = k + d
    BY <1>12, <1>19, <2>1
  <2> QED  BY <2>3, <2>4, <2>5
<1>22. ASSUME NEW k \in a..(q - 1), k <= d \/ d + m < k  PROVE s[k] \in Space
  <2>1. PICK j \in Nat : j = k - a + 1
    OBVIOUS
  <2>2. j \in 1..Len(c) /\ j \in 1..(b - a + 1) /\ a + j - 1 = k
    BY <1>2, <1>12, <2>1
  <2>3. k <= d \/ d + m < k
    BY <1>22, Zenon
  <2>4. j < l \/ h < j
    BY <1>19, <1>20, <1>15, <2>1, <2>3
  <2>5. j \notin solid
    BY <1>13, <2>4
  <2> QED  BY <1>4, <1>9, <2>2, <2>5
<1>23. Within(x, s, d)
  <2>1. x \in Seq(Characters) /\ Len(s) \in Nat /\ Len(x) \in Nat /\ Len(x) + d <= Len(s)
    BY <1>1, <1>16, <1>20, <1>17
  <2>2. \A k \in 1..Len(x) : x[k] = s[k + d]
    BY <1>21, <1>17, Zenon
  <2> QED  BY <2>1, <2>2, Zenon DEF Within
<1>24. \A k \in a..d : k \in a..(q - 1) /\ k <= d
  BY <1>20
<1>25. \A k \in (d + m + 1)..(q - 1) : k \in a..(q - 1) /\ d + m < k
  BY <1>20
<1>26. TrimmedAt(x, s, a, q, d)
  <2>1. \A k \in a..d : s[k] \in Space
    BY <1>22, <1>24, Zenon
  <2>2. \A k \in (d + m + 1)..(q - 1) : s[k] \in Space
    BY <1>22, <1>25, Zenon
  <2> QED  BY <1>20, <1>23, <1>17, <2>1, <2>2, Zenon DEF TrimmedAt
<1> QED  BY <1>26

(* The pieces of the script that are in it are those of the segment.       *)
Inner(x, d, B) == {k \in 1..Len(x) : k + d \in B} \cup {Len(x) + 1}

(* A piece begins where it begins: the spaces before it are pieces.        *)
LEMMA FirstPiece ==
  ASSUME NEW s \in Seq(Characters), NEW a, NEW q, NEW B, Chain(s, a, q, B),
         NEW d \in Nat, NEW x, TrimmedAt(x, s, a, q, d)
  PROVE  d + 1 \in B
<1>1. a \in Nat \ {0} /\ q \in Nat /\ a \in B /\ B \subseteq a..q
  BY DEF Chain
<1>2. Len(x) \in Nat /\ Len(x) >= 1 /\ a <= d + 1 /\ d + Len(x) < q
  BY WithinTypes DEF TrimmedAt
<1> DEFINE G == {j \in Nat : a + j \in B}
<1>3. 0 \in G
  BY <1>1
<1>4. ASSUME NEW j \in 1..(d + 1 - a), j - 1 \in G  PROVE j \in G
  <2>1. PICK b \in Nat : b = a + (j - 1)
    BY <1>1
  <2>2. b \in B /\ b < q /\ b \in a..d /\ a + j = b + 1
    BY <1>1, <1>2, <1>4, <2>1
  <2>3. PICK e \in B : Unit(s, b, e)
    BY <2>2 DEF Chain
  <2>4. s[b] \in Space
    BY <2>2 DEF TrimmedAt
  <2>5. e = b + 1
    BY <2>3, <2>4, SpaceUnit
  <2> QED  BY <2>2, <2>3, <2>5
<1>5. d + 1 - a \in Nat /\ d + 1 - a \in 0..(d + 1 - a) /\ a + (d + 1 - a) = d + 1
  BY <1>1, <1>2
<1> HIDE DEF G
<1>6. d + 1 - a \in G
  BY <1>3, <1>4, <1>5, UpToNat
<1> QED  BY <1>5, <1>6 DEF G

(* From each of them one comes to the next: only a comment that goes on to *)
(* the end of its line is cut short.                                       *)
LEMMA InnerPiece ==
  ASSUME NEW s \in Seq(Characters), NEW a, NEW q, NEW B, Chain(s, a, q, B),
         NEW d \in Nat, NEW x, TrimmedAt(x, s, a, q, d),
         NEW b \in Inner(x, d, B), b < Len(x) + 1
  PROVE  \E e \in Inner(x, d, B) :
           Unit(x, b, e) /\ \A k \in Inner(x, d, B) : k <= b \/ e <= k
<1>1. a \in Nat \ {0} /\ q \in Nat /\ B \subseteq a..q
  BY DEF Chain
<1>2. Len(x) \in Nat /\ d + Len(x) < q /\ Within(x, s, d)
  BY WithinTypes DEF TrimmedAt
<1>3. b \in 1..Len(x) /\ b + d \in B
  BY <1>2 DEF Inner
<1>4. PICK l \in Nat : l = Len(x)
  BY <1>2
<1>5. b \in Nat /\ 1 <= b /\ b <= l
  BY <1>3, <1>4
<1>6. PICK u \in Nat : u = b + d
  BY <1>3
<1>7. u \in B /\ u < q
  BY <1>1, <1>2, <1>3, <1>6
<1>8. PICK f \in B : Unit(s, u, f) /\ \A k \in B : k <= u \/ f <= k
  BY <1>7 DEF Chain
<1>9. f \in Nat /\ u < f /\ f <= q
  <2>1. f \in (u + 1)..(Len(s) + 1)
    BY <1>8 DEF Unit
  <2> QED  BY <1>1, <2>1
<1>10. CASE f <= d + Len(x) + 1
  <2>1. PICK e \in Nat : e = f - d
    BY <1>3, <1>6, <1>9
  <2>2. e \in (b + 1)..(Len(x) + 1) /\ f = e + d
    BY <1>2, <1>3, <1>6, <1>9, <1>10, <2>1
  <2>3. Unit(x, b, e)
    BY <1>2, <1>3, <1>6, <1>8, <1>9, <2>2, UnitWithin
  <2>4. e \in Inner(x, d, B)
    <3>1. e \in 1..Len(x) \/ e = Len(x) + 1
      BY <1>2, <1>3, <2>2
    <3>2. e + d \in B
      BY <2>2
    <3> QED  BY <3>1, <3>2 DEF Inner
  <2>5. ASSUME NEW k \in Inner(x, d, B)  PROVE k <= b \/ e <= k
    <3>1. CASE k = Len(x) + 1
      BY <2>2, <3>1
    <3>2. CASE k \in 1..Len(x) /\ k + d \in B
      <4>1. k + d <= u \/ f <= k + d
        BY <1>8, <3>2
      <4>2. k \in Nat
        BY <3>2
      <4> QED  BY <1>6, <1>9, <1>5, <2>1, <4>1, <4>2
    <3> QED  BY <3>1, <3>2 DEF Inner
  <2> QED  BY <2>3, <2>4, <2>5
<1>11. CASE f > d + Len(x) + 1
  <2>1. f - 1 \in (d + Len(x) + 1)..(q - 1) /\ d + Len(x) + 1 \in (d + Len(x) + 1)..(q - 1)
    BY <1>1, <1>2, <1>9, <1>11
  <2>2. s[f - 1] \in Space /\ s[d + Len(x) + 1] \in Space
    BY <2>1 DEF TrimmedAt
  <2>3. s[u] \notin Space
    <3>1. s[u] \in Space => f = u + 1
      BY <1>8, SpaceUnit
    <3>2. f # u + 1
      BY <1>2, <1>3, <1>6, <1>11
    <3> QED  BY <3>1, <3>2
  <2>4. LineUnit(s, u, f)
    BY <1>8, <2>2, <2>3, UnitEnd
  <2>5. b # Len(x)
    <3>1. s[u + 1] = "-"
      BY <2>4 DEF LineUnit, At2
    <3>2. b = Len(x) => u + 1 = d + Len(x) + 1
      BY <1>2, <1>6
    <3> QED  BY <2>2, <3>1, <3>2 DEF Space
  <2>6. PICK e \in Nat : e = Len(x) + 1
    BY <1>2
  <2>7. f > d + l + 1 /\ b # l /\ e = l + 1
    BY <1>11, <1>4, <2>5, <2>6
  <2>8. e \in (b + 2)..(l + 1) /\ e \in (b + 1)..(l + 1) /\ e + d <= f
    BY <1>9, <1>5, <2>7
  <2>9. e \in (b + 2)..(Len(x) + 1) /\ e \in (b + 1)..(Len(x) + 1) /\ e + d <= f
    BY <1>4, <2>8
  <2>10. LineUnit(x, b, e)
    BY <1>2, <1>3, <1>6, <1>9, <2>4, <2>6, <2>9, LineWithin
  <2>11. Unit(x, b, e)
    BY <1>3, <2>9, <2>10 DEF Unit
  <2>12. e \in Inner(x, d, B)
    BY <2>6 DEF Inner
  <2>13. ASSUME NEW k \in Inner(x, d, B)  PROVE k <= b \/ e <= k
    <3>1. CASE k = Len(x) + 1
      BY <2>6, <3>1
    <3>2. CASE k \in 1..Len(x) /\ k + d \in B
      <4>1. k + d <= u \/ f <= k + d
        BY <1>8, <3>2
      <4>2. k \in Nat /\ k <= l /\ f > d + l + 1
        BY <1>2, <1>11, <1>4, <3>2
      <4> QED  BY <1>6, <1>9, <1>5, <4>1, <4>2
    <3> QED  BY <3>1, <3>2 DEF Inner
  <2> QED  BY <2>11, <2>12, <2>13
<1> QED  BY <1>2, <1>9, <1>10, <1>11

(* So the segment is in pieces, and one of them is content.                *)
LEMMA TrimmedChain ==
  ASSUME NEW s \in Seq(Characters), NEW a, NEW q, NEW B, Chain(s, a, q, B),
         NEW c \in B, c < q, Telling(s, c),
         NEW x, x = TrimSpace(SubSeq(s, a, q - 1)), x # << >>
  PROVE  \E C : Chain(x, 1, Len(x) + 1, C) /\ \E k \in C : k <= Len(x) /\ Telling(x, k)
<1>1. /\ a \in Nat \ {0} /\ q \in Nat /\ B \subseteq a..q /\ a <= q /\ q <= Len(s) + 1
  BY DEF Chain
<1>2. PICK d \in Nat : TrimmedAt(x, s, a, q, d)
  BY <1>1, TrimmedIn
<1>3. /\ Len(x) \in Nat /\ Within(x, s, d) /\ Len(x) >= 1 /\ a <= d + 1 /\ d + Len(x) < q
      /\ \A k \in 1..Len(x) : x[k] = s[k + d]
  BY <1>2, WithinTypes DEF TrimmedAt
<1>4. PICK C : C = Inner(x, d, B)
  OBVIOUS
<1>5. C \subseteq 1..(Len(x) + 1) /\ Len(x) + 1 \in C
  BY <1>3, <1>4 DEF Inner
<1>6. 1 \in C
  <2>1. d + 1 \in B
    BY <1>2, FirstPiece
  <2>2. 1 + d \in B /\ 1 \in 1..Len(x)
    BY <1>3, <2>1
  <2> QED  BY <1>4, <2>2 DEF Inner
<1>7. \A b \in C : b < Len(x) + 1 => \E e \in C : Unit(x, b, e) /\ \A k \in C : k <= b \/ e <= k
  BY <1>2, <1>4, InnerPiece
<1>8. Chain(x, 1, Len(x) + 1, C)
  BY <1>3, <1>5, <1>6, <1>7 DEF Chain
<1>9. c \in (d + 1)..(d + Len(x))
  <2>1. c \in a..(q - 1)
    BY <1>1
  <2>2. ~(c \in a..d) /\ ~(c \in (d + Len(x) + 1)..(q - 1))
    BY <1>2 DEF TrimmedAt, Telling
  <2> QED  BY <1>1, <1>3, <2>1, <2>2
<1>10. PICK k \in 1..Len(x) : k + d = c
  <2>1. c - d \in 1..Len(x) /\ (c - d) + d = c
    BY <1>3, <1>9
  <2> QED  BY <2>1
<1>11. k \in C /\ k <= Len(x)
  BY <1>3, <1>4, <1>10 DEF Inner
<1>12. Telling(x, k)
  BY <1>3, <1>10, CommentWithin DEF Telling
<1> QED  BY <1>8, <1>11, <1>12

(* Names and numbers are read by the first reader character by character.  *)
LEMMA CharacterUnit ==
  ASSUME NEW s \in Seq(Characters), NEW p, NEW e, Unit(s, p, e),
         s[p] \in Letters \cup Digits
  PROVE  e = p + 1
<1>1. s[p] \notin {"'", "\"", "-", "/", "$"}
  BY DEF Letters, Digits
<1>2. ~LineUnit(s, p, e) /\ ~BlockUnit(s, p, e)
  BY <1>1 DEF LineUnit, BlockUnit, At2
<1>3. ~QuoteUnit(s, p, e)
  BY <1>1 DEF QuoteUnit
<1>4. ~DollarUnit(s, p, e)
  BY <1>1 DEF DollarUnit, TagUnit, TagIs
<1> QED  BY <1>2, <1>3, <1>4 DEF Unit, PlainUnit

(* A whole text, in pieces.                                                *)
Whole(s, C) == s \in Seq(Characters) /\ Chain(s, 1, Len(s) + 1, C)

(* The types, and the pieces, of a whole text.                             *)
LEMMA WholeTypes ==
  ASSUME NEW s, NEW C, Whole(s, C)
  PROVE  /\ s \in Seq(Characters) /\ Len(s) \in Nat /\ DOMAIN s = 1..Len(s)
         /\ 1 \in C /\ Len(s) + 1 \in C /\ C \subseteq 1..(Len(s) + 1)
         /\ \A b \in C : b < Len(s) + 1 =>
              \E e \in C : Unit(s, b, e) /\ \A x \in C : x <= b \/ e <= x
<1>1. s \in Seq(Characters) /\ Chain(s, 1, Len(s) + 1, C)
  BY DEF Whole
<1>2. Len(s) \in Nat /\ DOMAIN s = 1..Len(s)
  BY <1>1, LenProperties
<1> QED  BY <1>1, <1>2, Zenon DEF Chain

(* No word that the second reader finds has a dollar sign in it.           *)
Plain(s) ==
  \A p \in lexemes(s) :
    s[p] \in Letters => \A k \in p..(lexeme(s, p) - 1) : s[k] # "$"

(* So there are letters and digits in it, and nothing else.                *)
LEMMA WordChars ==
  ASSUME NEW s \in Seq(Characters), NEW p \in 1..Len(s), NEW chars,
         lexeme(s, p) = Past(s, p, chars), s[p] \in chars,
         \A k \in p..(lexeme(s, p) - 1) : s[k] \in chars => s[k] \in Letters \cup Digits
  PROVE  /\ lexeme(s, p) \in (p + 1)..(Len(s) + 1)
         /\ \A k \in p..(lexeme(s, p) - 1) : s[k] \in Letters \cup Digits
<1>1. Len(s) \in Nat /\ p \in 1..(Len(s) + 1) /\ p <= Len(s) /\ p \in Nat
  BY LenProperties
<1>2. /\ lexeme(s, p) \in p..(Len(s) + 1) /\ lexeme(s, p) # p
      /\ \A k \in p..(lexeme(s, p) - 1) : s[k] \in chars
  BY <1>1, PastIs
<1>3. lexeme(s, p) \in (p + 1)..(Len(s) + 1)
  BY <1>1, <1>2
<1> QED  BY <1>2, <1>3

(* So that word, too, ends where a piece does.                             *)
LEMMA WordRead ==
  ASSUME NEW s, NEW C, Whole(s, C), Plain(s), NEW p \in C \cap lexemes(s), p \in 1..Len(s),
         s[p] \in Letters \cup Digits
  PROVE  lexeme(s, p) \in (p + 1)..(Len(s) + 1) /\ lexeme(s, p) \in C
<1>1. PICK q : q = lexeme(s, p)
  OBVIOUS
<1>2. s \in Seq(Characters) /\ Len(s) \in Nat /\ C \subseteq 1..(Len(s) + 1)
  BY WholeTypes
<1>3. /\ q \in (p + 1)..(Len(s) + 1)
      /\ \A k \in p..(q - 1) : s[k] \in Letters \cup Digits
  <2>1. CASE s[p] \in Letters
    <3>1. q = Past(s, p, Word)
      BY <1>1, <1>2, <2>1, LexemeCases DEF LexemeBy
    <3>2. ASSUME NEW k \in p..(q - 1), s[k] \in Word  PROVE s[k] \in Letters \cup Digits
      <4>1. s[k] # "$"
        BY <1>1, <2>1 DEF Plain
      <4> QED  BY <3>2, <4>1 DEF Word
    <3>3. s[p] \in Word
      BY <2>1 DEF Word
    <3> QED  BY <1>1, <1>2, <3>1, <3>2, <3>3, WordChars
  <2>2. CASE s[p] \in Digits
    <3>1. q = Past(s, p, Digits \cup {"."})
      BY <1>1, <1>2, <2>2, LexemeCases DEF LexemeBy
    <3>2. q \in p..(Len(s) + 1)
      <4>1. p \in 1..(Len(s) + 1)
        BY <1>2
      <4> QED  BY <1>2, <3>1, <4>1, PastIs
    <3>3. ASSUME NEW k \in p..(q - 1), s[k] \in Digits \cup {"."}
          PROVE  s[k] \in Letters \cup Digits
      <4>1. k \in 1..Len(s)
        BY <1>2, <3>2
      <4>2. s[k] \in Characters
        BY <1>2, <4>1, ElementOfSeq
      <4> QED  BY <3>3, <4>2 DEF Characters
    <3>4. s[p] \in Digits \cup {"."}
      BY <2>2
    <3> QED  BY <1>1, <1>2, <3>1, <3>3, <3>4, WordChars
  <2> QED  BY <2>1, <2>2
<1>4. p \in Nat /\ q \in Nat /\ p < q /\ q <= Len(s) + 1
  BY <1>2, <1>3
<1> DEFINE G == {j \in Nat : p + j \in C}
<1>5. 0 \in G
  BY <1>4
<1>6. ASSUME NEW j \in 1..(q - p), j - 1 \in G  PROVE j \in G
  <2>1. PICK b \in Nat : b = p + (j - 1)
    BY <1>4
  <2>2. b \in C /\ b < Len(s) + 1 /\ b \in p..(q - 1) /\ p + j = b + 1
    BY <1>2, <1>4, <1>6, <2>1
  <2>3. PICK e \in C : Unit(s, b, e)
    BY <2>2, WholeTypes
  <2>4. e = b + 1
    BY <1>2, <1>3, <2>2, <2>3, CharacterUnit
  <2> QED  BY <2>2, <2>3, <2>4
<1>7. q - p \in Nat /\ q - p \in 0..(q - p) /\ p + (q - p) = q
  BY <1>4
<1> HIDE DEF G
<1>8. q - p \in G
  BY <1>5, <1>6, <1>7, UpToNat
<1>9. q \in C
  BY <1>7, <1>8 DEF G
<1> QED  BY <1>1, <1>3, <1>9

(* What is not a word is a piece to both readers.                          *)
LEMMA PieceRead ==
  ASSUME NEW s, NEW C, Whole(s, C), NEW p \in C, p \in 1..Len(s),
         s[p] \notin Letters \cup Digits
  PROVE  /\ lexeme(s, p) \in (p + 1)..(Len(s) + 1) /\ lexeme(s, p) \in C
         /\ \A x \in C : x <= p \/ lexeme(s, p) <= x
<1>1. s \in Seq(Characters) /\ p < Len(s) + 1
  BY WholeTypes
<1>2. PICK e \in C : Unit(s, p, e) /\ \A x \in C : x <= p \/ e <= x
  BY <1>1, WholeTypes
<1>3. lexeme(s, p) = e
  BY <1>1, <1>2, UnitRead
<1>4. e \in (p + 1)..(Len(s) + 1)
  BY <1>2 DEF Unit
<1> QED  BY <1>2, <1>3, <1>4

(* So the second reader goes from piece to piece, to the end.              *)
LEMMA PiecesRead ==
  ASSUME NEW s, NEW C, Whole(s, C), Plain(s)
  PROVE  /\ lexemes(s) \subseteq C /\ lexemes(s) \subseteq 1..Len(s)
         /\ \A p \in lexemes(s) :
              lexeme(s, p) \in (p + 1)..(Len(s) + 1) /\ lexeme(s, p) \in C
         /\ 1 \in DOMAIN s => 1 \in lexemes(s)
         /\ \A p \in lexemes(s) : lexeme(s, p) <= Len(s) => lexeme(s, p) \in lexemes(s)
<1>1. s \in Seq(Characters) /\ DOMAIN s = 1..Len(s) /\ 1 \in C /\ Len(s) \in Nat
  BY WholeTypes
<1>2. Forward(s)
  BY <1>1, LexemesForward
<1>3. Reaches(s, 1, lexemes(s))
  BY <1>1, <1>2, LexemesReached
<1>4. lexemes(s) \subseteq 1..Len(s)
  BY <1>1, <1>3 DEF Reaches
<1>5. ASSUME NEW p \in C \cap lexemes(s)
      PROVE  lexeme(s, p) \in (p + 1)..(Len(s) + 1) /\ lexeme(s, p) \in C
  <2>1. p \in 1..Len(s)
    BY <1>4
  <2>2. CASE s[p] \in Letters \cup Digits
    BY <2>1, <2>2, WordRead
  <2>3. CASE s[p] \notin Letters \cup Digits
    BY <2>1, <2>3, PieceRead
  <2> QED  BY <2>2, <2>3
<1>6. lexemes(s) \subseteq C
  BY <1>1, <1>2, <1>5, LexemesStay
<1>7. ASSUME NEW p \in lexemes(s), lexeme(s, p) <= Len(s)  PROVE lexeme(s, p) \in lexemes(s)
  <2>1. lexeme(s, p) \in (p + 1)..(Len(s) + 1) /\ p \in 1..Len(s)
    BY <1>4, <1>5, <1>6
  <2>2. lexeme(s, p) \in DOMAIN s
    BY <1>1, <1>7, <2>1
  <2> QED  BY <1>3, <2>2 DEF Reaches
<1>8. 1 \in DOMAIN s => 1 \in lexemes(s)
  BY <1>3 DEF Reaches
<1> QED  BY <1>4, <1>5, <1>6, <1>7, <1>8

(* No piece begins with a semicolon.                                       *)
LEMMA NoSemicolon ==
  ASSUME NEW s, NEW p, NEW e, Unit(s, p, e)
  PROVE  s[p] # ";"
<1>1. LineUnit(s, p, e) => s[p] # ";"
  BY DEF LineUnit, At2
<1>2. BlockUnit(s, p, e) => s[p] # ";"
  BY DEF BlockUnit, At2
<1>3. QuoteUnit(s, p, e) => s[p] # ";"
  BY DEF QuoteUnit
<1>4. DollarUnit(s, p, e) => s[p] # ";"
  BY DEF DollarUnit, TagUnit, TagIs
<1>5. PlainUnit(s, p, e) => s[p] # ";"
  BY DEF PlainUnit
<1> QED  BY <1>1, <1>2, <1>3, <1>4, <1>5 DEF Unit

(* One of its tokens is at, or has, what is neither a space nor a comment. *)
LEMMA TokenThere ==
  ASSUME NEW s, NEW C, Whole(s, C), Plain(s), NEW c \in C, c <= Len(s), Telling(s, c)
  PROVE  places(s) # {}
<1>1. /\ s \in Seq(Characters) /\ DOMAIN s = 1..Len(s) /\ Len(s) \in Nat
      /\ C \subseteq 1..(Len(s) + 1)
  BY WholeTypes
<1>2. /\ lexemes(s) \subseteq C /\ lexemes(s) \subseteq 1..Len(s)
      /\ \A p \in lexemes(s) :
           lexeme(s, p) \in (p + 1)..(Len(s) + 1) /\ lexeme(s, p) \in C
      /\ 1 \in DOMAIN s => 1 \in lexemes(s)
      /\ \A p \in lexemes(s) : lexeme(s, p) <= Len(s) => lexeme(s, p) \in lexemes(s)
  BY PiecesRead
<1>3. PICK P : P = {x \in lexemes(s) : x <= c}
  OBVIOUS
<1>4. c \in Nat /\ 1 <= c
  BY <1>1
<1>5. P \in SUBSET (1..Len(s)) /\ P # {}
  <2>1. 1 \in DOMAIN s
    BY <1>1, <1>4
  <2>2. 1 \in P
    BY <1>2, <1>3, <1>4, <2>1
  <2> QED  BY <1>2, <1>3, <2>2
<1>6. PICK p \in P : \A x \in P : x <= p
  BY <1>1, <1>5, MaxIsGreatest
<1>7. p \in lexemes(s) /\ p <= c /\ p \in C /\ p \in 1..Len(s)
  BY <1>2, <1>3, <1>6
<1>8. c < lexeme(s, p)
  <2>1. lexeme(s, p) \in (p + 1)..(Len(s) + 1)
    BY <1>2, <1>7
  <2>2. SUFFICES ASSUME lexeme(s, p) <= c  PROVE FALSE
    BY <1>1, <1>4, <1>7, <2>1
  <2>3. lexeme(s, p) \in P
    BY <1>1, <1>2, <1>3, <1>4, <1>7, <2>1, <2>2
  <2> QED  BY <1>1, <1>6, <1>7, <2>1, <2>3
<1>9. s[p] \notin Space /\ ~CommentAt(s, p)
  <2>1. CASE s[p] \in Letters \cup Digits
    BY <2>1 DEF Letters, Digits, Space, CommentAt, At2
  <2>2. CASE s[p] \notin Letters \cup Digits
    <3>1. c <= p
      <4>1. c <= p \/ lexeme(s, p) <= c
        BY <1>7, <2>2, PieceRead
      <4>2. lexeme(s, p) \in Nat
        BY <1>1, <1>2, <1>7
      <4> QED  BY <1>4, <1>8, <4>1, <4>2
    <3>2. c = p
      BY <1>1, <1>4, <1>7, <3>1
    <3> QED  BY <3>2 DEF Telling
  <2> QED  BY <2>1, <2>2
<1>10. ~IsComment(s, p)
  BY <1>1, <1>7, <1>9, CommentAtIs
<1>11. p \in places(s)
  BY <1>7, <1>9, <1>10 DEF places
<1> QED  BY <1>11

(* The second reader finds a text in order that the first has in pieces.   *)
Agrees(s) ==
  ~DollarInWord(s) =>
    /\ ~tokenizeSQL(s).error
    /\ places(s) # {} /\ \A p \in places(s) : textAt(s, p) # <<";">>

(* It does so, if one of the pieces is content.                            *)
LEMMA ChainRead ==
  ASSUME NEW s, NEW C, Whole(s, C), NEW c \in C, c <= Len(s), Telling(s, c)
  PROVE  Agrees(s)
<1>1. SUFFICES ASSUME ~DollarInWord(s)
               PROVE  /\ ~tokenizeSQL(s).error
                      /\ places(s) # {} /\ \A p \in places(s) : textAt(s, p) # <<";">>
  BY DEF Agrees
<1>2. Plain(s)
  BY <1>1 DEF DollarInWord, Plain
<1>3. /\ lexemes(s) \subseteq C /\ lexemes(s) \subseteq 1..Len(s)
      /\ \A p \in lexemes(s) : lexeme(s, p) \in (p + 1)..(Len(s) + 1)
  BY <1>2, PiecesRead
<1>4. s \in Seq(Characters) /\ Len(s) \in Nat
  BY WholeTypes
<1>5. ~tokenizeSQL(s).error
  <2>1. ASSUME NEW p \in lexemes(s)  PROVE lexeme(s, p) # 0
    BY <1>3, <1>4
  <2>2. tokenizeSQL(s).error = (\E p \in lexemes(s) : lexeme(s, p) = 0)
    BY Zenon DEF tokenizeSQL
  <2> QED  BY <2>1, <2>2
<1>6. places(s) # {}
  BY <1>2, TokenThere
<1>7. ASSUME NEW p \in places(s)  PROVE textAt(s, p) # <<";">>
  <2>1. p \in lexemes(s)
    BY DEF places
  <2>2. PICK q : q = lexeme(s, p)
    OBVIOUS
  <2>3. p \in 1..Len(s) /\ p \in C /\ q \in (p + 1)..(Len(s) + 1)
    BY <1>3, <2>1, <2>2
  <2>4. PICK b \in Nat : b = q - 1
    BY <1>4, <2>3
  <2>5. p \in Nat /\ p >= 1 /\ p <= b /\ b <= Len(s) /\ 1 \in 1..(b - p + 1) /\ p + 1 - 1 = p
    BY <1>4, <2>3, <2>4
  <2>6. SubSeq(s, p, b)[1] = s[p]
    <3>1. SubSeq(s, p, b)[1] = s[p + 1 - 1]
      BY <1>4, <2>5, PartOfText
    <3> QED  BY <2>5, <3>1
  <2>7. s[p] # ";"
    <3>1. p < Len(s) + 1
      BY <1>4, <2>3
    <3>2. PICK e \in C : Unit(s, p, e)
      BY <2>3, <3>1, WholeTypes
    <3> QED  BY <3>2, NoSemicolon
  <2>8. textAt(s, p) = SubSeq(s, p, b)
    BY <2>2, <2>4, Zenon DEF textAt
  <2>9. <<";">>[1] = ";"
    OBVIOUS
  <2> QED  BY <2>6, <2>7, <2>8, <2>9
<1> QED  BY <1>5, <1>6, <1>7

(***************************************************************************)
(* The invariant: the segment under way is in pieces, and the second       *)
(* reader finds each that is made in order.                                *)
(***************************************************************************)
AllAgree(segments) == \A k \in DOMAIN segments : Agrees(segments[k].sql)

ReadersInv == (pc = "scan" => InPieces) /\ AllAgree(out)

(* What has been read of the segment ends with a piece.                    *)
Ready(B) ==
  /\ Chain(sql, i - Len(current), i, B)
  /\ segmentHasContent => \E c \in B : c < i /\ Telling(sql, c)

(* So the segment that is made of it is in order.                          *)
LEMMA EmittedAgree ==
  ASSUME Inv, AllAgree(out), NEW B, Ready(B), NEW first \in Nat \ {0}
  PROVE  AllAgree(Emitted(first))
<1>1. /\ sql \in Seq(Characters) /\ Len(sql) \in Nat /\ current \in Seq(Characters)
      /\ out \in Seq(Segment)
  BY PlaceTypes DEF Inv, Rest
<1>2. current = SubSeq(sql, i - Len(current), i - 1)
  BY Zenon DEF Inv, Place, Placed
<1>3. PICK x : x = TrimSpace(current)
  OBVIOUS
<1>4. CASE x # << >> /\ segmentHasContent
  <2>1. PICK c \in B : c < i /\ Telling(sql, c)
    BY <1>4 DEF Ready
  <2>2. PICK a : a = i - Len(current)
    OBVIOUS
  <2>3. Chain(sql, a, i, B) /\ x = TrimSpace(SubSeq(sql, a, i - 1))
    BY <1>2, <1>3, <2>2, Zenon DEF Ready
  <2>4. PICK C : Chain(x, 1, Len(x) + 1, C) /\ \E k \in C : k <= Len(x) /\ Telling(x, k)
    BY <1>1, <1>4, <2>1, <2>3, TrimmedChain
  <2>5. x \in Seq(Characters)
    BY <1>1, <1>3, Trimmed
  <2>6. Agrees(x)
    BY <2>4, <2>5, ChainRead DEF Whole
  <2>7. PICK r : r = [sql |-> x, line |-> first]
    OBVIOUS
  <2>8. r \in Segment /\ r.sql = x
    BY <2>5, <2>7 DEF Segment
  <2>9. Emitted(first) = Append(out, r)
    BY <1>3, <1>4, <2>7, Zenon DEF Emitted
  <2>10. ASSUME NEW k \in DOMAIN Append(out, r)  PROVE Agrees(Append(out, r)[k].sql)
    <3>1. /\ DOMAIN out = 1..Len(out) /\ Len(out) \in Nat
          /\ DOMAIN Append(out, r) = 1..(Len(out) + 1)
      BY <1>1, <2>8
    <3>2. CASE k \in 1..Len(out)
      <4>1. Append(out, r)[k] = out[k]
        BY <1>1, <2>8, <3>1, <3>2
      <4> QED  BY <3>1, <3>2, <4>1, Zenon DEF AllAgree
    <3>3. CASE k = Len(out) + 1
      <4>1. Append(out, r)[k] = r
        BY <1>1, <2>8, <3>1, <3>3
      <4> QED  BY <2>6, <2>8, <4>1
    <3> QED  BY <3>1, <3>2, <3>3
  <2> QED  BY <2>9, <2>10 DEF AllAgree
<1>5. CASE ~(x # << >> /\ segmentHasContent)
  BY <1>3, <1>5, Zenon DEF Emitted
<1> QED  BY <1>4, <1>5

(* A semicolon ends the segment, and the next one begins behind it.        *)
LEMMA SemicolonReads == ASSUME NEW B, NEW p, Midst(B, p), AllAgree(out), Semicolon
                        PROVE  ReadersInv'
<1>1. /\ sql \in Seq(Characters) /\ Len(sql) \in Nat /\ i \in Nat /\ i \in 1..Len(sql)
  BY MidstTypes
<1>2. Inv /\ p = i /\ Pieces(sql, i, Len(current), mode, dollarTag, segmentHasContent, B, p)
  BY AtPiece DEF Semicolon, In, Midst
<1>3. Ready(B)
  BY <1>2 DEF Pieces, Ready
<1>4. segmentLine' \in Nat \ {0}
  <2>1. line \in Nat /\ segmentLine \in 1..line
    BY <1>2, PlaceTypes DEF Inv
  <2>2. segmentLine' = line \/ segmentLine' = segmentLine
    BY DEF Semicolon
  <2> QED  BY <2>1, <2>2
<1>5. AllAgree(out')
  <2>1. out' = Emitted(segmentLine')
    BY DEF Semicolon
  <2> QED  BY <1>2, <1>3, <1>4, <2>1, EmittedAgree
<1>6. /\ sql' = sql /\ i' = i + 1 /\ current' = << >> /\ mode' = "sql"
      /\ segmentHasContent' = FALSE
  BY DEF Semicolon, In
<1>7. PICK q \in Nat : q = i + 1
  BY <1>1
<1>8. Chain(sql, q, q, {q})
  BY <1>1, <1>7 DEF Chain
<1>9. Open(sql, q, q, "sql", dollarTag')
  BY DEF Open
<1>10. q - 0 = q /\ q <= q
  OBVIOUS
<1>11. Pieces(sql, q, 0, "sql", dollarTag', FALSE, {q}, q)
  BY <1>8, <1>9, <1>10, Zenon DEF Pieces
<1>12. InPieces'
  <2>1. Len(current') = 0 /\ i' = q
    BY <1>6, <1>7
  <2> QED  BY <1>6, <1>11, <2>1, Zenon DEF InPieces
<1> QED  BY <1>5, <1>12 DEF ReadersInv, AllAgree

(* The end of the script ends it as well, and a comment with it.           *)
LEMMA EndReads == ASSUME Inv, ReadersInv, End  PROVE ReadersInv'
<1>1. /\ sql \in Seq(Characters) /\ Len(sql) \in Nat /\ i \in 1..(Len(sql) + 1)
      /\ line \in Nat /\ segmentLine \in 1..line
  BY PlaceTypes DEF Inv
<1>2. pc = "scan" /\ i > Len(sql) /\ AllAgree(out) /\ InPieces
  BY DEF End, ReadersInv
<1>3. i = Len(sql) + 1 /\ i \in Nat
  BY <1>1, <1>2
<1>4. PICK B, p : Pieces(sql, i, Len(current), mode, dollarTag, segmentHasContent, B, p)
  BY <1>2 DEF InPieces
<1>5. pc' # "scan"
  BY DEF End
<1>6. CASE mode \in {"sql", "line comment"} /\ out' = Emitted(segmentLine)
  <2>1. CASE mode = "sql"
    <3>1. p = i
      BY <1>4, <2>1 DEF Pieces, Open
    <3>2. Ready(B)
      BY <1>4, <3>1 DEF Pieces, Ready
    <3>3. segmentLine \in Nat \ {0}
      BY <1>1
    <3> QED  BY <1>2, <1>5, <1>6, <3>2, <3>3, EmittedAgree DEF ReadersInv, AllAgree
  <2>2. CASE mode = "line comment"
    <3>1. OpenLine(sql, p, i)
      BY <1>4, <2>2 DEF Pieces, Open
    <3>2. p \in Nat /\ p \in 1..Len(sql) /\ p + 2 <= i
      <4>1. /\ i - Len(current) \in Nat \ {0} /\ p \in (i - Len(current))..p
        BY <1>4 DEF Pieces, Chain
      <4>2. p + 2 <= i /\ p \in Nat
        BY <1>4, <3>1 DEF OpenLine, Pieces, Chain
      <4> QED  BY <1>1, <1>3, <4>1, <4>2
    <3>3. LineUnit(sql, p, i)
      BY <1>1, <1>3, <3>1 DEF OpenLine, LineUnit
    <3>4. i \in (p + 1)..(Len(sql) + 1)
      BY <1>1, <1>3, <3>2
    <3>5. Unit(sql, p, i)
      BY <3>2, <3>3, <3>4, Zenon DEF Unit
    <3>6. Chain(sql, i - Len(current), i, B \cup {i})
      BY <1>1, <1>4, <3>5, ChainOn DEF Pieces
    <3>7. Ready(B \cup {i})
      BY <1>4, <3>6 DEF Pieces, Ready
    <3>8. segmentLine \in Nat \ {0}
      BY <1>1
    <3> QED  BY <1>2, <1>5, <1>6, <3>7, <3>8, EmittedAgree DEF ReadersInv, AllAgree
  <2> QED  BY <1>6, <2>1, <2>2
<1>7. CASE out' = << >>
  BY <1>5, <1>7 DEF ReadersInv, AllAgree
<1> QED  BY <1>6, <1>7 DEF End

(* Every other step leaves the segments made as they are.                  *)
LEMMA StepReads ==
  ASSUME NEW B, NEW p, Midst(B, p), AllAgree(out),
         \/ LineComment \/ BlockComment \/ DollarQuoted \/ SingleQuoted \/ DoubleQuoted
         \/ OpenComment \/ OpenQuote \/ Other
  PROVE  ReadersInv'
<1>1. Mark("single") = "'" /\ Mark("double") = "\""
  BY DEF Mark
<1>2. SingleQuoted \/ DoubleQuoted => InPieces'
  BY <1>1, QuotedPieces DEF SingleQuoted, DoubleQuoted
<1>3. InPieces'
  BY <1>2, LinePieces, BlockPieces, DollarPieces, OpenCommentPieces, OpenQuotePieces,
     OtherPieces
<1>4. out' = out
  BY DEF LineComment, BlockComment, DollarQuoted, SingleQuoted, DoubleQuoted, Quoted,
         OpenComment, OpenQuote, Other, Kept
<1> QED  BY <1>3, <1>4 DEF ReadersInv, AllAgree

(* Every step keeps the invariant.                                         *)
LEMMA NextReads == Inv /\ ReadersInv /\ [Next]_vars => ReadersInv'
<1> SUFFICES ASSUME Inv, ReadersInv, [Next]_vars  PROVE ReadersInv'
  OBVIOUS
<1>1. CASE UNCHANGED vars
  BY <1>1 DEF ReadersInv, AllAgree, InPieces, vars
<1>2. CASE Done
  BY <1>1, <1>2 DEF Done
<1>3. CASE End
  BY <1>3, EndReads
<1>4. ASSUME pc = "scan", i <= Len(sql)
      PROVE  \E B, p : Midst(B, p) /\ AllAgree(out)
  BY <1>4 DEF ReadersInv, InPieces, Midst
<1>5. CASE Semicolon
  <2>1. PICK B, p : Midst(B, p) /\ AllAgree(out)
    BY <1>4, <1>5 DEF Semicolon, In
  <2> QED  BY <1>5, <2>1, SemicolonReads
<1>6. CASE \/ LineComment \/ BlockComment \/ DollarQuoted \/ SingleQuoted \/ DoubleQuoted
           \/ OpenComment \/ OpenQuote \/ Other
  <2>1. PICK B, p : Midst(B, p) /\ AllAgree(out)
    BY <1>4, <1>6 DEF LineComment, BlockComment, DollarQuoted, SingleQuoted, DoubleQuoted,
                      Quoted, OpenComment, OpenQuote, Other, In
  <2> QED  BY <1>6, <2>1, StepReads
<1> QED  BY <1>1, <1>2, <1>3, <1>5, <1>6 DEF Next

(* It holds in the beginning.                                              *)
LEMMA InitReads == Init => ReadersInv
<1> SUFFICES ASSUME Init  PROVE ReadersInv
  OBVIOUS
<1>1. Inv
  BY InitInv
<1>2. sql \in Seq(Characters) /\ Len(sql) \in Nat
  BY <1>1, PlaceTypes DEF Inv
<1>3. i = 1 /\ current = << >> /\ mode = "sql" /\ segmentHasContent = FALSE /\ out = << >>
  BY DEF Init
<1>4. Chain(sql, 1, 1, {1})
  BY <1>2 DEF Chain
<1>5. Open(sql, 1, 1, "sql", dollarTag)
  BY DEF Open
<1>6. 1 - 0 = 1 /\ 1 <= 1 /\ Len(<< >>) = 0
  OBVIOUS
<1>7. Pieces(sql, 1, 0, "sql", dollarTag, FALSE, {1}, 1)
  BY <1>4, <1>5, <1>6, Zenon DEF Pieces
<1>8. InPieces
  BY <1>3, <1>6, <1>7, Zenon DEF InPieces
<1> QED  BY <1>3, <1>8 DEF ReadersInv, AllAgree

-----------------------------------------------------------------------------
(***************************************************************************)
(* The theorems.                                                           *)
(***************************************************************************)
(* Every variable of the splitter keeps its type and no step runs past the *)
(* end of the script, for every set of scripts of any length.              *)
THEOREM TypeCorrect == Spec => []TypeOK
<1>1. Inv => TypeOK
  BY PlaceTypes, Zenon DEF Inv, Rest, TypeOK
<1>2. QED  BY <1>1, Invariance, PTL

(* The splitter loses and repeats no character, and its line counter has   *)
(* counted every newline passed, for every set of scripts of any length.   *)
THEOREM StaysInStep == Spec => []InStep
<1>1. Inv => InStep
  BY Zenon DEF Inv, Place, Placed, InStep
<1>2. QED  BY <1>1, Invariance, PTL

(* A segment under way carries the line of its first character that is not *)
(* a space, for every set of scripts of any length.                        *)
THEOREM LinesAreExact == Spec => []SegmentLineExact
<1>1. Inv => SegmentLineExact
  BY Zenon DEF Inv, Place, Placed, SegmentLineExact, Solid
<1>2. QED  BY <1>1, Invariance, PTL

(* A script becomes its statements, in order and with their lines, or is   *)
(* refused when it ends inside a string or a comment                       *)
(* (splitSQLStatementsWithLines), for every well-formed script of any      *)
(* length: no semicolon in a string, a quoted name or a comment ends       *)
(* anything, and no other is overlooked.                                   *)
THEOREM SplitsRight == Spec => []SplitsIntoStatements
<1>1. Init => Inv /\ Known
  BY InitInv, InitKnown
<1>2. Inv /\ Known /\ [Next]_vars => (Inv /\ Known)'
  BY NextInv, NextKnown
<1>3. Inv /\ Known => SplitsIntoStatements
  BY Zenon DEF Known, SplitsIntoStatements
<1>4. QED  BY <1>1, <1>2, <1>3, PTL DEF Spec

(* The two readers of a script agree: the tokenizer finds no segment that  *)
(* the splitter has made open, none without a token, and no semicolon as a *)
(* token in any (tokenizeSQL, splitSQLStatementsWithLines), for scripts of *)
(* any length and any characters, well-formed or not, if no word has a     *)
(* dollar sign in it.                                                      *)
THEOREM ReadersInAgreement == Spec => []ReadersAgree
<1>1. Init => Inv /\ ReadersInv
  BY InitInv, InitReads
<1>2. Inv /\ ReadersInv /\ [Next]_vars => (Inv /\ ReadersInv)'
  BY NextInv, NextReads
<1>3. ReadersInv => ReadersAgree
  BY Zenon DEF ReadersInv, AllAgree, Agrees, ReadersAgree
<1> QED  BY <1>1, <1>2, <1>3, PTL DEF Spec

=============================================================================
