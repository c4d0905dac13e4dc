---------------------------- MODULE Editor_proofs ----------------------------
(***************************************************************************)
(* Proofs about Editor and its layout, for any buffer, any characters, any *)
(* size of the screen and of the table of lines, and any files.            *)
(***************************************************************************)
EXTENDS Editor, Sums

-----------------------------------------------------------------------------
(* Texts.                                                                  *)

LEMMA TextIs == \A t : t \in Texts <=> t \in Seq(Symbols) /\ Len(t) <= Cap
<1> USE EditorAssumption
<1>1. ASSUME NEW t \in Texts PROVE t \in Seq(Symbols) /\ Len(t) <= Cap
  <2>1. PICK n \in 0..Cap : t \in [1..n -> Symbols]
    BY <1>1 DEF Texts
  <2>2. n \in Nat /\ n <= Cap
    BY <2>1
  <2>3. t \in Seq(Symbols)
    BY <2>1, <2>2, SeqDef
  <2>4. Len(t) = n
    BY <2>1, <2>2, <2>3
  <2> QED BY <2>2, <2>3, <2>4
<1>2. ASSUME NEW t \in Seq(Symbols), Len(t) <= Cap PROVE t \in Texts
  <2>1. Len(t) \in 0..Cap /\ t \in [1..Len(t) -> Symbols]
    BY <1>2
  <2> QED BY <2>1 DEF Texts
<1> QED BY <1>1, <1>2

LEMMA PartsAreTexts ==
    ASSUME NEW t \in Seq(Symbols), NEW p \in 0..Len(t)
    PROVE  /\ Prefix(t, p) \in Seq(Symbols) /\ Len(Prefix(t, p)) = p
           /\ Suffix(t, p) \in Seq(Symbols) /\ Len(Suffix(t, p)) = Len(t) - p
BY DEF Prefix, Suffix

LEMMA WithoutIs ==
    ASSUME NEW t \in Texts, NEW p \in 0..Len(t), NEW n \in 0..Len(t), p + n <= Len(t)
    PROVE  Without(t, p, n) \in Texts /\ Len(Without(t, p, n)) = Len(t) - n
<1> USE EditorAssumption
<1>1. t \in Seq(Symbols) /\ Len(t) <= Cap /\ Len(t) \in Nat /\ p + n \in 0..Len(t)
  BY TextIs
<1>2. /\ Prefix(t, p) \in Seq(Symbols) /\ Len(Prefix(t, p)) = p
      /\ Suffix(t, p + n) \in Seq(Symbols) /\ Len(Suffix(t, p + n)) = Len(t) - (p + n)
  BY <1>1, PartsAreTexts
<1>3. Without(t, p, n) \in Seq(Symbols) /\ Len(Without(t, p, n)) = p + (Len(t) - (p + n))
  BY <1>2 DEF Without
<1> QED BY <1>1, <1>3, TextIs

LEMMA WithIs ==
    ASSUME NEW t \in Texts, NEW p \in 0..Len(t), NEW s \in Seq(Symbols), Len(t) + Len(s) <= Cap
    PROVE  With(t, p, s) \in Texts /\ Len(With(t, p, s)) = Len(t) + Len(s)
<1> USE EditorAssumption
<1>1. t \in Seq(Symbols) /\ Len(t) <= Cap /\ Len(t) \in Nat /\ Len(s) \in Nat
  BY TextIs
<1>2. /\ Prefix(t, p) \in Seq(Symbols) /\ Len(Prefix(t, p)) = p
      /\ Suffix(t, p) \in Seq(Symbols) /\ Len(Suffix(t, p)) = Len(t) - p
  BY <1>1, PartsAreTexts
<1>3. Prefix(t, p) \o s \in Seq(Symbols) /\ Len(Prefix(t, p) \o s) = p + Len(s)
  <2>1. p \in Nat
    BY <1>1
  <2> QED BY <1>1, <1>2, <2>1, ConcatProperties
<1>4. With(t, p, s) \in Seq(Symbols) /\ Len(With(t, p, s)) = p + Len(s) + (Len(t) - p)
  BY <1>2, <1>3 DEF With
<1> QED BY <1>1, <1>4, TextIs

LEMMA WholePrefix ==
    ASSUME NEW S, NEW t \in Seq(S) PROVE Prefix(t, Len(t)) = t
BY DEF Prefix

-----------------------------------------------------------------------------
(* The layout, of a text of any length.                                    *)

Separators == {Space, Newline}

\* Lines one after the other, the first from the beginning.
Table(t, ls) ==
    /\ ls \in Seq(0..Len(t)) /\ Len(ls) \in 1..MaxLines /\ ls[1] = 0
    /\ \A k \in 1..Len(ls) - 1 : ls[k] <= ls[k + 1]
Latest(ls) == ls[Len(ls)]

\* A line from b to e shows no more than fits, but for a space; and if it ends in a word, it
\* is full of that word.
Fits(t, b, e) ==
    /\ LET n == IF e - b > 0 /\ t[e] = Newline THEN (e - b) - 1 ELSE e - b
       IN  n <= ECOLS \/ (n = ECOLS + 1 /\ t[e] = Space)
    /\ e \in 1..Len(t) - 1 /\ t[e] \notin Separators /\ t[e + 1] \notin Separators =>
           e - b = ECOLS /\ \A j \in b + 1..e : t[j] \notin Separators

AllFit(t, ls) == Len(ls) < MaxLines => \A k \in 1..Len(ls) - 1 : Fits(t, ls[k], ls[k + 1])

Places(t) == [i : 0..Len(t), col : 0..ECOLS, ls : Seq(0..Len(t))]

\* What every round finds and leaves.
Laid(t, s) ==
    /\ s \in Places(t)
    /\ Table(t, s.ls) /\ Latest(s.ls) <= s.i /\ AllFit(t, s.ls)
    /\ Len(s.ls) < MaxLines => s.col = s.i - Latest(s.ls)
    /\ s.col > 0 => t[s.i] = Space \/ s.i = Len(t) \/ t[s.i + 1] = Newline

\* A word ends at the first place that is no part of one.
LEMMA WordEndIs ==
    ASSUME NEW C, NEW t \in Seq(C), NEW i \in 0..Len(t)
    PROVE  /\ WordEnd(t, i) \in i..Len(t)
           /\ WordEnd(t, i) = Len(t) \/ t[WordEnd(t, i) + 1] \in Separators
           /\ \A j \in i + 1..WordEnd(t, i) : t[j] \notin Separators
<1> DEFINE Ends == {w \in i..Len(t) : w = Len(t) \/ t[w + 1] \in Separators}
<1>1. Len(t) \in Nat /\ Ends \subseteq Nat /\ Len(t) \in Ends
  OBVIOUS
<1>2. PICK w \in Ends : \A v \in Ends : w <= v
  <2> HIDE DEF Ends
  <2> QED BY <1>1, Least
<1>3. ASSUME NEW j \in i + 1..w PROVE t[j] \notin Separators
  <2>1. j - 1 \in i..Len(t) /\ ~(w <= j - 1) /\ (j - 1) + 1 = j
    BY <1>1, <1>2
  <2>2. j - 1 \notin Ends
    <3> HIDE DEF Ends
    <3> QED BY <1>2, <2>1
  <2> QED BY <2>1, <2>2
<1> QED BY <1>2, <1>3 DEF WordEnd, Separators

\* Beginning a line: unless the table is full, it starts at i.
LEMMA StartsKeep ==
    ASSUME NEW C, NEW t \in Seq(C), NEW ls, Table(t, ls), NEW i \in 0..Len(t), Latest(ls) <= i,
           NEW new, new = Starts(ls, i)
    PROVE  /\ Table(t, new) /\ Latest(new) <= i
           /\ Len(new) < MaxLines => Len(ls) < MaxLines /\ Latest(new) = i
           /\ AllFit(t, ls) /\ (Len(new) < MaxLines => Fits(t, Latest(ls), i)) => AllFit(t, new)
<1>1. /\ Len(t) \in Nat /\ MaxLines \in Nat /\ ls \in Seq(0..Len(t)) /\ Len(ls) \in 1..MaxLines
      /\ ls[1] = 0 /\ \A k \in 1..Len(ls) - 1 : ls[k] <= ls[k + 1]
  BY LayoutAssumption DEF Table
<1>2. CASE Len(ls) >= MaxLines
  BY <1>1, <1>2 DEF Starts, Table, Latest, AllFit
<1>3. CASE Len(ls) < MaxLines
  <2>1. /\ new \in Seq(0..Len(t)) /\ Len(new) = Len(ls) + 1 /\ new[Len(ls) + 1] = i
        /\ \A k \in 1..Len(ls) : new[k] = ls[k]
    BY <1>1, <1>3 DEF Starts
  <2>2. ASSUME NEW k \in 1..Len(new) - 1
        PROVE  /\ k \in 1..Len(ls)
               /\ (k = Len(ls) /\ new[k] = Latest(ls) /\ new[k + 1] = i)
                  \/ (k \in 1..Len(ls) - 1 /\ new[k] = ls[k] /\ new[k + 1] = ls[k + 1])
    <3>1. k = Len(ls) \/ k \in 1..Len(ls) - 1
      BY <1>1, <2>1
    <3> QED BY SMTT(30), <1>1, <2>1, <3>1 DEF Latest
  <2>3. Table(t, new) /\ Latest(new) = i
    BY <1>1, <1>3, <2>1, <2>2 DEF Table, Latest
  <2>4. ASSUME AllFit(t, ls), Fits(t, Latest(ls), i) PROVE AllFit(t, new)
    BY <1>3, <2>2, <2>4 DEF AllFit
  <2>5. ~(Len(new) < MaxLines) => AllFit(t, new)
    BY DEF AllFit
  <2> QED BY <1>1, <1>3, <2>3, <2>4, <2>5
<1> QED BY <1>1, <1>2, <1>3

LEMMA RoundKeeps ==
    ASSUME NEW C, NEW t \in Seq(C), NEW s, Laid(t, s)
    PROVE  /\ Laid(t, Round(t, s))
           /\ s.i < Len(t) => Round(t, s).i > s.i
           /\ s.i = Len(t) => Round(t, s) = s
<1>1. /\ Len(t) \in Nat /\ MaxLines \in Nat /\ ECOLS \in Nat \ {0} /\ Space # Newline
      /\ s.i \in 0..Len(t) /\ s.col \in 0..ECOLS /\ s.ls \in Seq(0..Len(t))
      /\ s \in Places(t)
  BY LayoutAssumption DEF Laid, Places
<1>2. CASE s.i = Len(t)
  BY <1>1, <1>2 DEF Round
<1>3. CASE s.i < Len(t) /\ t[s.i + 1] = Newline
  <2> DEFINE i  == s.i + 1
             ls == Starts(s.ls, i)
             r  == [i |-> i, col |-> 0, ls |-> ls]
  <2>1. Round(t, s) = r
    BY <1>1, <1>3 DEF Round
  <2>2. i \in 0..Len(t) /\ Latest(s.ls) <= i /\ Latest(s.ls) \in 0..Len(t)
    BY SMTT(30), <1>1, <1>3 DEF Laid, Latest, Table
  <2>3. Len(s.ls) < MaxLines => Fits(t, Latest(s.ls), i)
    <3>1. ASSUME Len(s.ls) < MaxLines PROVE s.i - Latest(s.ls) = s.col /\ t[i] = Newline
      BY <1>1, <1>3, <2>2, <3>1 DEF Laid
    <3>2. ASSUME Len(s.ls) < MaxLines
          PROVE  i - Latest(s.ls) > 0 /\ (i - Latest(s.ls)) - 1 <= ECOLS
      BY SMTT(30), <1>1, <2>2, <3>1, <3>2
    <3> HIDE DEF i
    <3> QED BY <1>1, <3>1, <3>2 DEF Fits, Separators
  <2>4. /\ Table(t, ls) /\ Latest(ls) <= i /\ AllFit(t, ls)
        /\ Len(ls) < MaxLines => Latest(ls) = i /\ Len(s.ls) < MaxLines
    <3> HIDE DEF i, ls
    <3> QED BY <2>2, <2>3, StartsKeep DEF Laid, ls
  <2>5. r \in Places(t)
    BY <1>1, <2>2, <2>4 DEF Places, Table
  <2>6. Laid(t, r)
    BY <1>1, <2>2, <2>4, <2>5 DEF Laid
  <2>7. r.i = s.i + 1
    OBVIOUS
  <2> HIDE DEF r
  <2> QED BY <1>1, <1>3, <2>1, <2>6, <2>7
<1>4. CASE s.i < Len(t) /\ t[s.i + 1] # Newline
  <2> DEFINE w     == WordEnd(t, s.i)
             n     == w - s.i
             wraps == s.col > 0 /\ TooLong(s.col, n)
             ls    == IF wraps THEN Starts(s.ls, s.i) ELSE s.ls
             col   == (IF wraps THEN 0 ELSE s.col) + n
  <2>1. /\ w \in s.i..Len(t)
        /\ w = Len(t) \/ t[w + 1] \in {Space, Newline}
        /\ \A j \in s.i + 1..w : t[j] \notin {Space, Newline}
    BY <1>1, WordEndIs DEF Separators
  <2>2. n \in 0..Len(t) /\ w = s.i + n /\ w \in 0..Len(t)
    <3>1. w \in s.i..Len(t)
      BY <2>1
    <3> HIDE DEF w
    <3> QED BY <1>1, <3>1
  <2>3. wraps \in BOOLEAN /\ (wraps => s.col > 0 /\ t[s.i] = Space)
    BY <1>1, <1>4 DEF Laid
  <2>4. Latest(s.ls) <= s.i /\ Latest(s.ls) \in 0..Len(t)
    BY <1>1 DEF Laid, Latest, Table
  <2>5. wraps => (Len(s.ls) < MaxLines => Fits(t, Latest(s.ls), s.i))
    <3>1. ASSUME wraps, Len(s.ls) < MaxLines PROVE s.i - Latest(s.ls) = s.col
      BY <1>1, <2>4, <3>1 DEF Laid
    <3> HIDE DEF wraps
    <3> QED BY <1>1, <2>3, <2>4, <3>1 DEF Fits, Separators
  \* The lines, and the column, once a word that does not fit has begun a new line.
  <2>6. /\ Table(t, ls) /\ Latest(ls) <= s.i /\ AllFit(t, ls) /\ ls \in Seq(0..Len(t))
        /\ Latest(ls) \in 0..Len(t)
        /\ Len(ls) < MaxLines => col = w - Latest(ls)
    <3>1. CASE wraps
      <4>1. /\ Table(t, ls) /\ Latest(ls) <= s.i /\ AllFit(t, ls)
            /\ Len(ls) < MaxLines => Latest(ls) = s.i
        <5>1. ls = Starts(s.ls, s.i)
          BY <3>1
        <5> HIDE DEF wraps, ls
        <5> QED BY <1>1, <2>4, <2>5, <3>1, <5>1, StartsKeep DEF Laid
      <4>2. col = n
        <5>1. col = 0 + n
          BY <3>1
        <5> HIDE DEF col
        <5> QED BY <2>2, <5>1
      <4> HIDE DEF ls, col, wraps
      <4>3. ls \in Seq(0..Len(t)) /\ Latest(ls) \in 0..Len(t)
        BY <4>1 DEF Table, Latest
      <4> QED BY <1>1, <2>2, <4>1, <4>2, <4>3
    <3>2. CASE ~wraps
      <4>1. ls = s.ls /\ col = s.col + n
        BY <3>2
      <4> HIDE DEF ls, col, wraps
      <4> QED BY <1>1, <2>2, <2>4, <4>1 DEF Laid
    <3> QED BY <3>1, <3>2
  <2>7. col \in Nat /\ (n <= ECOLS => col <= ECOLS) /\ (n > ECOLS => col = n)
    <3>1. CASE wraps
      <4>1. col = 0 + n
        BY <3>1
      <4> HIDE DEF col
      <4> QED BY <1>1, <2>2, <4>1
    <3>2. CASE ~wraps
      <4>1. col = s.col + n /\ (s.col > 0 => ~(s.col + n > ECOLS))
        BY <3>2 DEF TooLong
      <4> HIDE DEF col
      <4> QED BY <1>1, <2>2, <4>1
    <3> QED BY <3>1, <3>2
  <2> DEFINE r == IF n > ECOLS
                  THEN [i |-> s.i + ECOLS, col |-> 0, ls |-> Starts(ls, s.i + ECOLS)]
                  ELSE IF ~(w < Len(t) /\ t[w + 1] = Space) THEN [i |-> w, col |-> col, ls |-> ls]
                  ELSE IF col + 1 >= ECOLS
                  THEN [i |-> w + 1, col |-> 0, ls |-> Starts(ls, w + 1)]
                  ELSE [i |-> w + 1, col |-> col + 1, ls |-> ls]
  <2>8. Round(t, s) = r
    BY <1>1, <1>4 DEF Round
  <2>9. w = s.i => w < Len(t) /\ t[w + 1] = Space
    BY <1>1, <1>4, <2>1
  \* Where a round begins a line, at e, the text before fits.
  <2>10. ASSUME NEW e \in 0..Len(t), s.i < e, w <= e \/ e = s.i + ECOLS,
                Len(ls) < MaxLines => Fits(t, Latest(ls), e),
                r = [i |-> e, col |-> 0, ls |-> Starts(ls, e)]
         PROVE  Laid(t, r) /\ r.i > s.i
    <3> DEFINE new == Starts(ls, e)
    <3>1. Latest(ls) <= e
      <4> HIDE DEF ls
      <4> QED BY <1>1, <2>6, <2>10
    <3>2. /\ Table(t, new) /\ Latest(new) <= e /\ AllFit(t, new)
          /\ Len(new) < MaxLines => Latest(new) = e
      <4> HIDE DEF ls, new
      <4> QED BY <2>6, <2>10, <3>1, StartsKeep DEF new
    <3>3. r = [i |-> e, col |-> 0, ls |-> new]
      BY <2>10
    <3> HIDE DEF r, new, ls, w
    <3>4. r \in Places(t) /\ r.i = e /\ r.col = 0 /\ r.ls = new
      BY <1>1, <3>2, <3>3 DEF Places, Table
    <3>5. 0 = e - e
      BY <1>1, <2>10
    <3> QED BY <1>1, <2>10, <3>2, <3>4, <3>5 DEF Laid
  <2>11. CASE n > ECOLS
    <3> DEFINE e == s.i + ECOLS
    <3>1. e \in 0..Len(t) /\ s.i < e /\ e < w
      BY <1>1, <2>2, <2>11
    <3>2. Len(ls) < MaxLines => Fits(t, Latest(ls), e)
      <4>1. Len(ls) < MaxLines => Latest(ls) = s.i
        <5> HIDE DEF ls, col, w, n
        <5> QED BY SMTT(30), <1>1, <2>2, <2>6, <2>7, <2>11
      <4>2. e - s.i = ECOLS /\ \A j \in s.i + 1..e : j \in s.i + 1..w
        <5> HIDE DEF w, n
        <5> QED BY <1>1, <2>2, <3>1
      <4>3. t[e] \notin {Space, Newline} /\ \A j \in s.i + 1..e : t[j] \notin {Space, Newline}
        <5>1. e \in s.i + 1..w
          BY <1>1, <2>2, <3>1
        <5> HIDE DEF w, e
        <5> QED BY <2>1, <4>2, <5>1
      <4> HIDE DEF ls, e, w
      <4> QED BY <1>1, <4>1, <4>2, <4>3 DEF Fits, Separators
    <3>3. r = [i |-> e, col |-> 0, ls |-> Starts(ls, e)]
      BY <2>11
    <3> HIDE DEF r, ls, e, w, col
    <3> QED BY <2>8, <2>10, <3>1, <3>2, <3>3, <1>4, <1>1 DEF e
  <2>12. CASE ~(n > ECOLS) /\ ~(w < Len(t) /\ t[w + 1] = Space)
    <3>1. r = [i |-> w, col |-> col, ls |-> ls]
      BY <2>12
    <3>2. w > s.i /\ (w = Len(t) \/ t[w + 1] = Newline) /\ col \in 0..ECOLS
      <4> HIDE DEF col, w
      <4> QED BY <1>1, <2>1, <2>2, <2>7, <2>9, <2>12
    <3> HIDE DEF r, ls, col, w
    <3>3. r \in Places(t) /\ r.i = w /\ r.col = col /\ r.ls = ls
      BY <2>2, <2>6, <3>1, <3>2 DEF Places
    <3>4. Latest(ls) <= w
      BY <1>1, <2>2, <2>6, <3>2
    <3>5. Laid(t, r)
      BY <2>6, <3>2, <3>3, <3>4 DEF Laid
    <3> QED BY <1>1, <1>4, <2>8, <3>2, <3>3, <3>5
  <2>13. CASE ~(n > ECOLS) /\ w < Len(t) /\ t[w + 1] = Space /\ col + 1 >= ECOLS
    <3> DEFINE e == w + 1
    <3>1. e \in 0..Len(t) /\ s.i < e /\ w <= e
      BY SMTT(30), <1>1, <2>2, <2>13
    <3>2. Len(ls) < MaxLines => Fits(t, Latest(ls), e)
      <4>1. Len(ls) < MaxLines => e - Latest(ls) = col + 1 /\ col + 1 <= ECOLS + 1
        <5> HIDE DEF ls, col, w, n, r
        <5>1. w \in Nat /\ n \in Nat /\ ECOLS \in Nat
          BY <1>1, <2>2
        <5>2. col \in Nat /\ col <= ECOLS
          BY <2>7, <2>13, <5>1
        <5>3. Latest(ls) \in Nat /\ (Len(ls) < MaxLines => col = w - Latest(ls))
          BY <1>1, <2>6
        <5>4. Len(ls) < MaxLines => (w + 1) - Latest(ls) = col + 1
          BY <5>1, <5>2, <5>3
        <5> QED BY <5>1, <5>2, <5>4
      <4>2. t[e] = Space
        BY <2>13
      <4> HIDE DEF ls, col, e, w
      <4> QED BY <1>1, <2>7, <4>1, <4>2 DEF Fits, Separators
    <3>3. r = [i |-> e, col |-> 0, ls |-> Starts(ls, e)]
      BY <2>13
    <3> HIDE DEF r, ls, e, w, col
    <3> QED BY <2>8, <2>10, <3>1, <3>2, <3>3, <1>4, <1>1
  <2>14. CASE ~(n > ECOLS) /\ w < Len(t) /\ t[w + 1] = Space /\ ~(col + 1 >= ECOLS)
    <3>1. r = [i |-> w + 1, col |-> col + 1, ls |-> ls]
      BY <2>14
    <3>2. w + 1 \in 0..Len(t) /\ s.i < w + 1 /\ col + 1 \in 0..ECOLS
      <4> HIDE DEF col, w
      <4> QED BY <1>1, <2>2, <2>7, <2>14
    <3> HIDE DEF r, ls, col, w
    <3>3. r \in Places(t) /\ r.i = w + 1 /\ r.col = col + 1 /\ r.ls = ls
      BY <2>6, <3>1, <3>2 DEF Places
    <3>4. Latest(ls) <= w + 1 /\ (Len(ls) < MaxLines => col + 1 = (w + 1) - Latest(ls))
      BY SMTT(30), <1>1, <2>2, <2>6, <2>7, <3>2
    <3>5. Laid(t, r)
      BY <2>6, <2>14, <3>2, <3>3, <3>4 DEF Laid
    <3> QED BY <1>1, <1>4, <2>8, <3>2, <3>3, <3>5
  <2> HIDE DEF w, col
  <2> QED BY <2>11, <2>12, <2>13, <2>14
<1> QED BY <1>1, <1>2, <1>3, <1>4

\* The table after the last round.
LEMMA LayoutIs ==
    ASSUME NEW C, NEW t \in Seq(C)
    PROVE  \E ls : /\ Table(t, ls) /\ AllFit(t, ls)
                   /\ Len(ls) < MaxLines => Len(t) - Latest(ls) <= ECOLS
                   /\ ed_layout(t) = Append(ls, Len(t))
<1> DEFINE first   == [i |-> 0, col |-> 0, ls |-> <<0>>]
           V       == {s \in Places(t) : Laid(t, s)}
           n       == Len(t)
           Body(f) == [k \in 0..n |-> IF k = 0 THEN first ELSE Round(t, f[k - 1])]
           at      == CHOOSE f : f = Body(f)
<1>1. n \in Nat /\ MaxLines \in Nat \ {0} /\ ECOLS \in Nat \ {0}
  BY LayoutAssumption
<1>2. first \in V
  <2>1. <<0>> \in Seq(0..Len(t)) /\ Len(<<0>>) = 1 /\ <<0>>[1] = 0
    BY <1>1
  <2>2. Table(t, <<0>>) /\ AllFit(t, <<0>>) /\ Latest(<<0>>) = 0
    BY <1>1, <2>1 DEF Table, AllFit, Latest
  <2>3. first \in Places(t) /\ first.i = 0 /\ first.col = 0 /\ first.ls = <<0>>
    BY <1>1, <2>1 DEF Places
  <2>4. Laid(t, first)
    <3> HIDE DEF first
    <3> QED BY <1>1, <2>2, <2>3 DEF Laid
  <2> HIDE DEF first
  <2> QED BY <2>3, <2>4
<1>3. \A v \in V : Round(t, v) \in V
  <2> SUFFICES ASSUME NEW v \in V PROVE Round(t, v) \in V
    OBVIOUS
  <2>1. Laid(t, Round(t, v))
    BY RoundKeeps
  <2> QED BY <2>1 DEF Laid
<1>4. at = Body(at)
  <2> DEFINE step == [k \in 1..n |-> [v \in V |-> Round(t, v)]]
  <2> HIDE DEF V, first
  <2>1. step \in [1..n -> [V -> V]] /\ \A k \in 1..n, v \in V : step[k][v] = Round(t, v)
    BY <1>3
  <2>2. PICK f \in [0..n -> V] : f[0] = first /\ \A k \in 1..n : f[k] = step[k][f[k - 1]]
    <3>1. Recurs(n, V, first, step)
      <4> HIDE DEF step, n
      <4> QED BY <1>1, <1>2, <2>1, Recursion, Zenon
    <3> QED BY <3>1 DEF Recurs
  <2>3. \A k \in 0..n : k # 0 => k \in 1..n /\ f[k - 1] \in V
    <3> HIDE DEF n, step
    <3> SUFFICES ASSUME NEW k \in 0..n, k # 0 PROVE k \in 1..n /\ f[k - 1] \in V
      OBVIOUS
    <3>1. k \in 1..n /\ k - 1 \in 0..n
      BY <1>1
    <3> QED BY <3>1
  <2>4. f = Body(f)
    <3> HIDE DEF n, step
    <3> QED BY <2>1, <2>2, <2>3
  <2> HIDE DEF Body
  <2> QED BY <2>4
<1>5. at[0] = first /\ \A k \in 0..n - 1 : at[k + 1] = Round(t, at[k])
  <2> HIDE DEF at, first
  <2> SUFFICES ASSUME NEW k \in 0..n - 1 PROVE at[0] = first /\ at[k + 1] = Round(t, at[k])
    <3>1. CASE n = 0
      BY <1>4, <3>1
    <3>2. CASE n # 0
      <4>1. 0 \in 0..n - 1
        BY <1>1, <3>2
      <4> QED BY <1>4, <1>1
    <3> QED BY <3>1, <3>2
  <2>1. 0 \in 0..n /\ k + 1 \in 0..n /\ k + 1 # 0 /\ (k + 1) - 1 = k
    BY <1>1
  <2> QED BY <1>4, <2>1
\* As many rounds as there are characters end the text.
<1> DEFINE S == {k \in 0..n : at[k] \in V /\ at[k].i >= k}
<1>6. 0..n \subseteq S
  <2> HIDE DEF at, V
  <2>1. 0 \in S
    BY <1>1, <1>2, <1>5
  <2>2. ASSUME NEW k \in 0..n - 1, k \in S PROVE k + 1 \in S
    <3>1. at[k] \in V /\ at[k].i >= k /\ at[k + 1] = Round(t, at[k])
      BY <1>5, <2>2
    <3>2. Laid(t, at[k]) /\ at[k].i \in 0..n /\ Round(t, at[k]) \in V
      BY <1>3, <3>1 DEF V, Places
    <3>3. Round(t, at[k]).i \in 0..n
      BY <3>2 DEF V, Places
    <3>4. /\ at[k].i < n => Round(t, at[k]).i > at[k].i
          /\ at[k].i = n => Round(t, at[k]) = at[k]
      BY <3>2, RoundKeeps
    <3>5. at[k + 1].i >= k + 1
      BY <1>1, <3>1, <3>2, <3>3, <3>4
    <3>6. k + 1 \in 0..n
      BY <1>1
    <3> QED BY <3>1, <3>2, <3>5, <3>6
  <2> HIDE DEF S
  <2> QED BY <1>1, <2>1, <2>2, InductionUpTo
<1>7. Laid(t, at[n]) /\ at[n].i = n
  <2> HIDE DEF at
  <2>1. at[n] \in V /\ at[n].i >= n
    BY <1>1, <1>6
  <2>2. at[n].i \in 0..n
    BY <2>1 DEF Places
  <2> QED BY <1>1, <2>1, <2>2
<1>8. ed_layout(t) = Append(at[n].ls, n)
  BY DEF ed_layout
<1> DEFINE ls == at[n].ls
<1>9. /\ Table(t, ls) /\ AllFit(t, ls)
      /\ Len(ls) < MaxLines => n - Latest(ls) <= ECOLS
      /\ ed_layout(t) = Append(ls, n)
  <2> HIDE DEF at
  <2> QED BY <1>1, <1>7, <1>8 DEF Laid, Places
<1> HIDE DEF ls
<1> QED BY <1>9

\* Where lines start: in the text, one after the other, the table closes with the end of the
\* text, has room for that, and every character is on a line.
LEMMA LinesAre ==
    ASSUME NEW C, NEW t \in Seq(C), NEW ls, ls = ed_layout(t)
    PROVE  /\ ls \in Seq(0..Len(t)) /\ Len(ls) \in 2..MaxLines + 1
           /\ ls[1] = 0 /\ ls[Len(ls)] = Len(t)
           /\ \A k \in 1..Len(ls) - 1 : ls[k] <= ls[k + 1]
           /\ \A c \in 0..Len(t) - 1 : \E k \in 1..Len(ls) - 1 : ls[k] <= c /\ c < ls[k + 1]
<1>0. Len(t) \in Nat /\ MaxLines \in Nat
  BY LayoutAssumption
<1>1. PICK b : Table(t, b) /\ ls = Append(b, Len(t))
  BY LayoutIs
<1>2. /\ b \in Seq(0..Len(t)) /\ Len(b) \in 1..MaxLines /\ b[1] = 0
      /\ \A k \in 1..Len(b) - 1 : b[k] <= b[k + 1]
  BY <1>1 DEF Table
<1>3. /\ ls \in Seq(0..Len(t)) /\ Len(ls) = Len(b) + 1 /\ ls[Len(b) + 1] = Len(t)
      /\ \A k \in 1..Len(b) : ls[k] = b[k]
  BY <1>0, <1>1, <1>2
<1>4. ASSUME NEW k \in 1..Len(ls) - 1 PROVE ls[k] <= ls[k + 1]
  <2>1. CASE k = Len(b)
    BY <1>0, <1>2, <1>3, <2>1
  <2>2. CASE k # Len(b)
    <3>1. k \in 1..Len(b) - 1 /\ k \in 1..Len(b) /\ k + 1 \in 1..Len(b)
      BY <1>0, <1>2, <1>3, <2>2
    <3> QED BY <1>2, <1>3, <3>1
  <2> QED BY <2>1, <2>2
<1>5. ASSUME NEW c \in 0..Len(t) - 1
      PROVE  \E k \in 1..Len(ls) - 1 : ls[k] <= c /\ c < ls[k + 1]
  <2> DEFINE Beyond == {k \in 2..Len(ls) : c < ls[k]}
  <2>1. Beyond \in SUBSET Nat /\ Len(ls) \in Beyond
    BY <1>0, <1>2, <1>3
  <2>2. PICK m \in Beyond : \A y \in Beyond : m <= y
    <3> HIDE DEF Beyond
    <3> QED BY <2>1, Least
  <2>3. m \in 2..Len(ls) /\ c < ls[m] /\ m - 1 \in 1..Len(ls) - 1 /\ (m - 1) + 1 = m
    BY <1>0, <1>2, <1>3
  <2>4. m - 1 \notin Beyond
    <3> HIDE DEF Beyond
    <3> QED BY <2>2, <2>3, <2>1
  <2>5. ls[m - 1] <= c
    <3>1. CASE m = 2
      BY <1>0, <1>2, <1>3, <3>1
    <3>2. CASE m # 2
      <4>1. m - 1 \in 2..Len(ls) /\ m - 1 \in 1..Len(b)
        <5> HIDE DEF Beyond
        <5> QED BY <1>2, <1>3, <2>3, <3>2
      <4>2. ~(c < ls[m - 1]) /\ ls[m - 1] \in 0..Len(t)
        BY SMTT(30), <1>2, <1>3, <2>4, <4>1
      <4> QED BY <1>0, <4>2
    <3> QED BY <3>1, <3>2
  <2> QED BY <2>3, <2>5
<1> QED BY <1>0, <1>2, <1>3, <1>4, <1>5

\* As long as the table has room, every line fits.
LEMMA LayoutFits ==
    ASSUME NEW C, NEW t \in Seq(C), NEW ls, ls = ed_layout(t), Len(ls) <= MaxLines
    PROVE  \A k \in 1..Len(ls) - 1 : Fits(t, ls[k], ls[k + 1])
<1>0. Len(t) \in Nat /\ MaxLines \in Nat /\ ECOLS \in Nat
  BY LayoutAssumption
<1>1. PICK b : /\ Table(t, b) /\ AllFit(t, b) /\ ls = Append(b, Len(t))
               /\ Len(b) < MaxLines => Len(t) - Latest(b) <= ECOLS
  BY LayoutIs
<1>2. /\ b \in Seq(0..Len(t)) /\ Len(b) \in 1..MaxLines
      /\ Len(ls) = Len(b) + 1 /\ ls[Len(b) + 1] = Len(t)
      /\ \A k \in 1..Len(b) : ls[k] = b[k]
  BY <1>0, <1>1 DEF Table
<1>3. Len(b) < MaxLines /\ Latest(b) \in 0..Len(t)
  BY <1>0, <1>2 DEF Latest
<1> SUFFICES ASSUME NEW k \in 1..Len(ls) - 1 PROVE Fits(t, ls[k], ls[k + 1])
  OBVIOUS
<1>4. CASE k = Len(b)
  <2>1. ls[k] = Latest(b) /\ ls[k + 1] = Len(t)
    BY <1>2, <1>4 DEF Latest
  <2> QED BY <1>0, <1>1, <1>3, <2>1 DEF Fits
<1>5. CASE k # Len(b)
  <2>1. k \in 1..Len(b) - 1 /\ ls[k] = b[k] /\ ls[k + 1] = b[k + 1]
    BY <1>0, <1>2, <1>5
  <2> QED BY <1>1, <1>3, <2>1 DEF AllFit
<1> QED BY <1>4, <1>5

\* ed_layout, for every text: the table ed_ls has room for its end, lines start in the text,
\* one after the other, and every character is on a line.
THEOREM LinesCover ==
    \A t \in Texts : LET ls == LineStarts[t] IN
        /\ ls \in Seq(0..Len(t)) /\ Len(ls) \in 2..MaxLines + 1
        /\ ls[1] = 0 /\ ls[Len(ls)] = Len(t)
        /\ \A k \in 1..Len(ls) - 1 : ls[k] <= ls[k + 1]
        /\ \A c \in 0..Len(t) - 1 : \E k \in 1..Len(ls) - 1 : ls[k] <= c /\ c < ls[k + 1]
<1> SUFFICES ASSUME NEW t \in Texts, NEW ls, ls = LineStarts[t]
             PROVE  /\ ls \in Seq(0..Len(t)) /\ Len(ls) \in 2..MaxLines + 1
                    /\ ls[1] = 0 /\ ls[Len(ls)] = Len(t)
                    /\ \A k \in 1..Len(ls) - 1 : ls[k] <= ls[k + 1]
                    /\ \A c \in 0..Len(t) - 1 :
                          \E k \in 1..Len(ls) - 1 : ls[k] <= c /\ c < ls[k + 1]
  OBVIOUS
<1>1. t \in Seq(Symbols) /\ ls = ed_layout(t)
  BY TextIs DEF LineStarts
<1> QED BY <1>1, LinesAre

-----------------------------------------------------------------------------
(* Lines.                                                                  *)

\* The line of a position begins at or before it.
LEMMA CursorLine ==
    ASSUME NEW t \in Texts, NEW c \in 0..Len(t)
    PROVE  /\ ed_cursor_line(t, c) \in 1..Lines(t)
           /\ Start(t, ed_cursor_line(t, c)) \in 0..c
<1> DEFINE ls   == LineStarts[t]
           here == {k \in 1..Lines(t) : Start(t, k) <= c /\ c < Start(t, k + 1)}
<1>1. /\ ls \in Seq(0..Len(t)) /\ Len(ls) \in 2..MaxLines + 1 /\ ls[Len(ls)] = Len(t)
      /\ \A k \in 1..Len(ls) - 1 : ls[k] <= ls[k + 1]
      /\ \A d \in 0..Len(t) - 1 : \E k \in 1..Len(ls) - 1 : ls[k] <= d /\ d < ls[k + 1]
  BY LinesCover
<1>2. Len(t) \in Nat /\ Len(ls) \in Nat /\ Lines(t) = Len(ls) - 1 /\ Lines(t) \in 1..Lines(t)
  BY <1>1, TextIs DEF Lines
<1>3. \A k \in 1..Len(ls) : ls[k] \in 0..Len(t)
  BY <1>1
<1>4. CASE here # {}
  <2>1. ed_cursor_line(t, c) \in here
    BY <1>4 DEF ed_cursor_line
  <2> QED BY <1>2, <1>3, <2>1 DEF Start
<1>5. CASE here = {}
  <2>1. ed_cursor_line(t, c) = Lines(t)
    BY <1>5 DEF ed_cursor_line
  <2>2. c = Len(t)
    <3>1. SUFFICES ASSUME c # Len(t) PROVE FALSE
      OBVIOUS
    <3>2. c \in 0..Len(t) - 1
      BY <1>2, <3>1
    <3>3. PICK k \in 1..Len(ls) - 1 : ls[k] <= c /\ c < ls[k + 1]
      BY <1>1, <3>2
    <3>4. k \in here
      BY <1>2, <3>3 DEF Start
    <3> QED BY <1>5, <3>4
  <2> QED BY <1>2, <1>3, <2>1, <2>2 DEF Start
<1> QED BY <1>4, <1>5

\* A place in a line is a place in the text.
LEMMA InLineIs ==
    ASSUME NEW t \in Texts, NEW k \in 1..Lines(t), NEW col \in Nat
    PROVE  InLine(t, k, col) \in 0..Len(t) /\ Start(t, k) + ed_line_cols(t, k) \in 0..Len(t)
<1> DEFINE ls == LineStarts[t]
<1>1. /\ ls \in Seq(0..Len(t)) /\ Len(ls) \in 2..MaxLines + 1
      /\ \A j \in 1..Len(ls) - 1 : ls[j] <= ls[j + 1]
  BY LinesCover
<1>2. Len(t) \in Nat /\ Len(ls) \in Nat /\ k \in 1..Len(ls) - 1
  BY <1>1, TextIs DEF Lines
<1>3. Start(t, k) \in 0..Len(t) /\ Start(t, k + 1) \in 0..Len(t) /\ Start(t, k) <= Start(t, k + 1)
  BY SMTT(30), <1>1, <1>2 DEF Start
<1>4. ed_line_cols(t, k) \in 0..Start(t, k + 1) - Start(t, k)
  BY <1>3 DEF ed_line_cols
<1> QED BY <1>2, <1>3, <1>4 DEF InLine, Low

LEMMA UpDown ==
    ASSUME NEW t \in Texts, NEW c \in 0..Len(t)
    PROVE  ed_up(t, c) \in 0..Len(t) /\ ed_down(t, c) \in 0..Len(t)
<1> DEFINE k == ed_cursor_line(t, c)
<1>1. Len(t) \in Nat
  BY TextIs
<1>2. k \in 1..Lines(t) /\ Start(t, k) \in 0..c
  BY CursorLine
<1>3. Column(t, c) \in Nat
  BY <1>1, <1>2 DEF Column
<1>4. Lines(t) \in Nat
  BY LinesCover, LayoutAssumption DEF Lines
<1>5. k # 1 => InLine(t, k - 1, Column(t, c)) \in 0..Len(t)
  <2>1. k # 1 => k - 1 \in 1..Lines(t)
    BY <1>2, <1>4
  <2> QED BY <1>3, <2>1, InLineIs
<1>6. k # Lines(t) => InLine(t, k + 1, Column(t, c)) \in 0..Len(t)
  <2>1. k # Lines(t) => k + 1 \in 1..Lines(t)
    BY <1>2, <1>4
  <2> QED BY <1>3, <2>1, InLineIs
<1> QED BY <1>1, <1>5, <1>6 DEF ed_up, ed_down

\* Every key leaves the cursor in the text.
LEMMA GoesInText ==
    ASSUME TypeOK, NEW nav \in Navs, NEW c, Goes(nav, c)
    PROVE  c \in 0..Len(text)
<1>1. text \in Texts /\ cur \in 0..Len(text) /\ Len(text) \in Nat
  BY TextIs DEF TypeOK
<1> DEFINE k == ed_cursor_line(text, cur)
<1>2. k \in 1..Lines(text) /\ Start(text, k) \in 0..cur
  BY <1>1, CursorLine
<1>3. CASE nav \in {"LEFT", "RIGHT"}
  BY <1>1, <1>3 DEF Goes, High, Right, Low
<1>4. CASE nav \in {"UP", "DOWN"}
  BY <1>1, <1>4, UpDown DEF Goes
<1>5. CASE nav \in {"HOME", "END"}
  <2>1. Start(text, k) \in 0..Len(text)
    BY <1>1, <1>2
  <2>2. Start(text, k) + ed_line_cols(text, k) \in 0..Len(text)
    BY <1>1, <1>2, InLineIs
  <2> QED BY <1>5, <2>1, <2>2 DEF Goes
<1>6. CASE nav \in {"PGUP", "PGDN"}
  <2>1. PICK path \in [0..EVIS - 1 -> 0..Len(text)] : path[EVIS - 1] = c
    BY <1>6 DEF Goes
  <2>2. EVIS - 1 \in 0..EVIS - 1
    BY EditorAssumption
  <2> QED BY <2>1, <2>2
<1> QED BY <1>3, <1>4, <1>5, <1>6 DEF Navs
-----------------------------------------------------------------------------
(* Types.                                                                  *)

LEMMA RestIs ==
    ASSUME TypeOK, ~OutOfText
    PROVE  /\ Rest \in Texts /\ RestAt \in 0..Len(Rest)
           /\ sel_active => selPos \in 0..Len(Rest)
<1> USE EditorAssumption
<1>1. text \in Texts /\ Len(text) \in Nat /\ cur \in 0..Len(text)
  BY TextIs DEF TypeOK
<1>2. CASE sel_active
  <2>1. selPos \in 0..Len(text) /\ selLen \in 0..Len(text) /\ selPos + selLen <= Len(text)
    BY <1>1, <1>2 DEF TypeOK, OutOfText, sel_active
  <2>2. Rest \in Texts /\ Len(Rest) = Len(text) - selLen
    BY <1>1, <1>2, <2>1, WithoutIs DEF Rest
  <2>3. RestAt = selPos
    BY <1>2 DEF RestAt
  <2> QED BY <1>1, <2>1, <2>2, <2>3
<1>3. CASE ~sel_active
  BY <1>1, <1>3 DEF Rest, RestAt
<1> QED BY <1>2, <1>3

LEMMA CoveredIs == TypeOK /\ sel_active => Covered \in Texts
<1> SUFFICES ASSUME TypeOK, sel_active PROVE Covered \in Texts
  OBVIOUS
<1> USE EditorAssumption
<1>1. text \in Seq(Symbols) /\ selPos \in 0..Cap /\ selLen \in 0..Cap
  BY TextIs DEF TypeOK, sel_active
<1>2. \A i \in 1..selLen : selPos + i <= Len(text) => text[selPos + i] \in Symbols
  BY <1>1
<1>3. Covered \in [1..selLen -> Symbols]
  BY <1>2 DEF Covered, Symbols
<1> QED BY <1>1, <1>3 DEF Texts

LEMMA LoadedIs ==
    ASSUME NEW t \in Seq(Symbols)
    PROVE  Prefix(t, Low(Len(t), Cap)) \in Texts
<1>1. Low(Len(t), Cap) \in 0..Len(t) /\ Low(Len(t), Cap) <= Cap
  BY EditorAssumption DEF Low
<1> QED BY <1>1, PartsAreTexts, TextIs

LEMMA WritesType ==
    ASSUME TypeOK, NEW n \in Names, NEW t \in Seq(Symbols), Writes(n, t)
    PROVE  files' \in [Names -> Seq(Symbols)]
<1>1. \A k \in 0..Len(t) : Prefix(t, k) \in Seq(Symbols)
  BY PartsAreTexts
<1>2. files \in [Names -> Seq(Symbols)]
  BY DEF TypeOK
<1> QED BY <1>1, <1>2 DEF Writes

\* Only a file that was opened is on the screen.
FileIsOpen == screen \in {"editor", "alert"} => curFile \in Names

TextOK  == text \in Texts /\ cur \in 0..Len(text) /\ clip \in Texts
RangeOK == selPos \in -1..Cap /\ selLen \in 0..Cap /\ selAnchor \in -1..Cap
PlaceOK == /\ screen \in {"list", "editor", "alert", "crashed"}
           /\ curFile \in Names \cup {NoFile}
           /\ card \in {"ok", "full", "gone"} /\ keys \in 0..MaxKeys
FilesOK == files \in [Names -> Seq(Symbols)] /\ touched \in BOOLEAN

LEMMA TypeGroups ==
    /\ TypeOK => TextOK /\ RangeOK /\ PlaceOK /\ FilesOK
    /\ TextOK' /\ RangeOK' /\ PlaceOK' /\ FilesOK' => TypeOK'
<1>1. TypeOK => TextOK /\ RangeOK
  BY DEF TypeOK, TextOK, RangeOK
<1>2. TypeOK => PlaceOK /\ FilesOK
  BY DEF TypeOK, PlaceOK, FilesOK
<1>3. TextOK' /\ RangeOK' /\ PlaceOK' /\ FilesOK' => TypeOK'
  BY DEF TypeOK, TextOK, RangeOK, PlaceOK, FilesOK
<1> QED BY <1>1, <1>2, <1>3

LEMMA Empty == <<>> \in Texts /\ 0 \in 0..Len(<<>>) /\ <<>> \in Seq(Symbols)
<1>1. <<>> \in Seq(Symbols) /\ Len(<<>>) = 0 /\ Len(<<>>) <= Cap
  BY EditorAssumption
<1>2. <<>> \in Texts
  BY <1>1, TextIs
<1> QED BY <1>1, <1>2

LEMMA TypeInit == Init => TypeOK
<1> SUFFICES ASSUME Init PROVE TypeOK
  OBVIOUS
<1> USE EditorAssumption DEF Init
<1>1. TextOK
  BY Empty DEF TextOK
<1>2. RangeOK
  BY DEF RangeOK
<1>3. PlaceOK
  BY DEF PlaceOK
<1>4. FilesOK
  <2>1. Seq(Chars) \subseteq Seq(Symbols)
    BY DEF Symbols
  <2> QED BY <2>1 DEF FilesOK
<1> QED BY <1>1, <1>2, <1>3, <1>4 DEF TypeOK, TextOK, RangeOK, PlaceOK, FilesOK

LEMMA TypeNext ==
    ASSUME TypeOK, FileIsOpen, [Next]_vars
    PROVE  TypeOK'
<1>0. SUFFICES TextOK' /\ RangeOK' /\ PlaceOK' /\ FilesOK'
  BY TypeGroups
<1> TextOK /\ RangeOK /\ PlaceOK /\ FilesOK
  BY TypeGroups
<1> USE EditorAssumption DEF selection
<1>a. text \in Seq(Symbols) /\ Len(text) \in 0..Cap /\ cur \in 0..Len(text)
  BY TextIs DEF TextOK
<1>1. ASSUME NEW c \in Chars, Type(c) PROVE TextOK' /\ RangeOK' /\ PlaceOK' /\ FilesOK'
  <2>1. TextOK'
    <3>1. CASE Len(Rest) >= Cap
      BY <1>1, <3>1 DEF TextOK, Type, Edits
    <3>2. CASE Len(Rest) < Cap
      <4>1. Rest \in Texts /\ RestAt \in 0..Len(Rest) /\ Len(Rest) \in Nat
        BY <1>1, RestIs, TextIs DEF Type
      <4>2. <<c>> \in Seq(Symbols) /\ Len(<<c>>) = 1
        BY DEF Symbols
      <4>3. /\ With(Rest, RestAt, <<c>>) \in Texts
            /\ Len(With(Rest, RestAt, <<c>>)) = Len(Rest) + 1
        <5>1. Len(Rest) + Len(<<c>>) <= Cap
          BY <3>2, <4>1, <4>2
        <5> QED BY <4>1, <4>2, <5>1, WithIs
      <4>4. text' = With(Rest, RestAt, <<c>>) /\ cur' = RestAt + 1 /\ clip' = clip
        BY <1>1, <3>2, <4>1 DEF Type, Edits
      <4> QED BY <4>1, <4>3, <4>4 DEF TextOK
    <3>3. Len(Rest) \in Nat
      BY <1>1, RestIs, TextIs DEF Type
    <3> QED BY <3>1, <3>2, <3>3
  <2>2. RangeOK'
    BY <1>1 DEF RangeOK, Type, Edits, Key, sel_clear
  <2>3. PlaceOK'
    BY <1>1 DEF PlaceOK, Type, Edits, Key, sel_clear
  <2>4. FilesOK'
    BY <1>1 DEF FilesOK, Type, Edits, Key, sel_clear
  <2> QED BY <2>1, <2>2, <2>3, <2>4
<1>2. CASE Backspace
  <2>1. TextOK'
    <3>1. CASE Takes
      BY <1>2, <3>1, RestIs DEF TextOK, Takes, Backspace, Edits
    <3>2. CASE ~sel_active /\ cur > 0 /\ text' = Without(text, cur - 1, 1) /\ cur' = cur - 1
      <4>1. cur - 1 \in 0..Len(text) /\ 1 \in 0..Len(text) /\ (cur - 1) + 1 <= Len(text)
        BY <1>a, <3>2
      <4>2. text' \in Texts /\ Len(text') = Len(text) - 1
        BY <3>2, <4>1, WithoutIs DEF TextOK
      <4> QED BY <1>2, <1>a, <3>2, <4>2 DEF TextOK, Backspace, Edits
    <3> QED BY <1>2, <3>1, <3>2 DEF Backspace
  <2>2. RangeOK'
    BY <1>2 DEF RangeOK, Backspace, Takes, Edits, Key, sel_clear
  <2>3. PlaceOK'
    BY <1>2 DEF PlaceOK, Backspace, Takes, Edits, Key, sel_clear
  <2>4. FilesOK'
    BY <1>2 DEF FilesOK, Backspace, Takes, Edits, Key, sel_clear
  <2> QED BY <2>1, <2>2, <2>3, <2>4
<1>3. CASE Delete
  <2>1. TextOK'
    <3>1. CASE Takes
      BY <1>3, <3>1, RestIs DEF TextOK, Takes, Delete, Edits
    <3>2. CASE cur < Len(text) /\ text' = Without(text, cur, 1) /\ cur' = cur
      <4>1. 1 \in 0..Len(text) /\ cur + 1 <= Len(text)
        BY <1>a, <3>2
      <4>2. text' \in Texts /\ Len(text') = Len(text) - 1
        BY <3>2, <4>1, WithoutIs DEF TextOK
      <4> QED BY <1>3, <1>a, <3>2, <4>2 DEF TextOK, Delete, Edits
    <3> QED BY <1>3, <3>1, <3>2 DEF Delete
  <2>2. RangeOK'
    BY <1>3 DEF RangeOK, Delete, Takes, Edits, Key, sel_clear
  <2>3. PlaceOK'
    BY <1>3 DEF PlaceOK, Delete, Takes, Edits, Key, sel_clear
  <2>4. FilesOK'
    BY <1>3 DEF FilesOK, Delete, Takes, Edits, Key, sel_clear
  <2> QED BY <2>1, <2>2, <2>3, <2>4
<1>4. CASE Copy
  <2>1. TextOK'
    BY <1>4, CoveredIs DEF TextOK, Copy, ed_copy
  <2>2. RangeOK'
    BY <1>4 DEF RangeOK, Copy, Key
  <2>3. PlaceOK'
    BY <1>4 DEF PlaceOK, Copy, Key
  <2>4. FilesOK'
    BY <1>4 DEF FilesOK, Copy, Key
  <2> QED BY <2>1, <2>2, <2>3, <2>4
<1>5. CASE Cut
  <2>1. TextOK'
    <3>1. Rest \in Texts /\ selPos \in 0..Len(Rest)
      BY <1>5, RestIs DEF Cut, Takes
    <3> QED BY <1>5, <3>1, CoveredIs DEF TextOK, Cut, Takes, ed_copy
  <2>2. RangeOK'
    BY <1>5 DEF RangeOK, Cut, Takes, Key, sel_clear
  <2>3. PlaceOK'
    BY <1>5 DEF PlaceOK, Cut, Takes, Key, sel_clear
  <2>4. FilesOK'
    BY <1>5 DEF FilesOK, Cut, Takes, Key, sel_clear
  <2> QED BY <2>1, <2>2, <2>3, <2>4
<1>6. CASE Paste
  <2>1. TextOK'
    <3> DEFINE k  == Low(Len(clip), Cap - Len(Rest))
               pasted == Prefix(clip, k)
    <3>1. Rest \in Texts /\ RestAt \in 0..Len(Rest) /\ Len(Rest) \in 0..Cap
      BY <1>6, RestIs, TextIs DEF Paste
    <3>2. clip \in Seq(Symbols) /\ k \in 0..Len(clip) /\ Len(Rest) + k <= Cap
      BY <3>1, TextIs DEF TextOK, Low
    <3>3. pasted \in Seq(Symbols) /\ Len(pasted) = k
      BY <3>2, PartsAreTexts
    <3>4. With(Rest, RestAt, pasted) \in Texts /\ Len(With(Rest, RestAt, pasted)) = Len(Rest) + k
      BY <3>1, <3>2, <3>3, WithIs
    <3>5. text' = With(Rest, RestAt, pasted) /\ cur' = RestAt + Len(pasted) /\ clip' = clip
      BY <1>6 DEF Paste, Edits
    <3> QED BY <3>1, <3>2, <3>3, <3>4, <3>5 DEF TextOK
  <2>2. RangeOK'
    BY <1>6 DEF RangeOK, Paste, Edits, Key, sel_clear
  <2>3. PlaceOK'
    BY <1>6 DEF PlaceOK, Paste, Edits, Key, sel_clear
  <2>4. FilesOK'
    BY <1>6 DEF FilesOK, Paste, Edits, Key, sel_clear
  <2> QED BY <2>1, <2>2, <2>3, <2>4
<1>7. ASSUME NEW nav \in Navs, NEW shift \in BOOLEAN, Move(nav, shift) PROVE TextOK' /\ RangeOK' /\ PlaceOK' /\ FilesOK'
  <2>1. TextOK'
    BY <1>7, GoesInText DEF TextOK, Move
  <2>2. RangeOK'
    <3>1. cur' \in 0..Cap /\ cur \in 0..Cap
      BY <1>7, <1>a, GoesInText DEF Move
    <3>2. CASE shift
      <4>1. selAnchor' \in 0..Cap
        BY <1>7, <3>1, <3>2 DEF RangeOK, Move
      <4>2. selPos' = Low(selAnchor', cur') /\ selLen' = High(selAnchor', cur') - selPos'
        BY <1>7, <3>2 DEF Move
      <4>3. \A a, b \in 0..Cap : Low(a, b) \in 0..Cap /\ High(a, b) - Low(a, b) \in 0..Cap
        BY DEF Low, High
      <4>4. selPos' \in 0..Cap /\ selLen' \in 0..Cap
        BY <3>1, <4>1, <4>2, <4>3
      <4> QED BY <4>1, <4>4 DEF RangeOK
    <3>3. CASE ~shift
      BY <1>7, <3>3 DEF RangeOK, Move, sel_clear
    <3> QED BY <3>2, <3>3
  <2>3. PlaceOK'
    BY <1>7 DEF PlaceOK, Move, Key
  <2>4. FilesOK'
    BY <1>7 DEF FilesOK, Move, Key
  <2> QED BY <2>1, <2>2, <2>3, <2>4
<1>8. CASE Crashes
  <2>1. TextOK'
    BY <1>8 DEF TextOK, Crashes
  <2>2. RangeOK'
    BY <1>8 DEF RangeOK, Crashes, Key
  <2>3. PlaceOK'
    BY <1>8 DEF PlaceOK, Crashes, Key
  <2>4. FilesOK'
    BY <1>8 DEF FilesOK, Crashes, Key
  <2> QED BY <2>1, <2>2, <2>3, <2>4
<1>9. ASSUME NEW n \in Names, Open(n) PROVE TextOK' /\ RangeOK' /\ PlaceOK' /\ FilesOK'
  <2>1. TextOK'
    <3>1. text' \in Texts
      BY <1>9, LoadedIs, Empty DEF FilesOK, Open, load_current_file
    <3>2. cur' = 0 /\ clip' = clip
      BY <1>9 DEF Open, Opens
    <3> QED BY <3>1, <3>2, TextIs DEF TextOK
  <2>2. RangeOK'
    BY <1>9 DEF RangeOK, Open, Opens
  <2>3. PlaceOK'
    BY <1>9 DEF PlaceOK, Open, Opens
  <2>4. FilesOK'
    BY <1>9 DEF FilesOK, Open, Opens
  <2> QED BY <2>1, <2>2, <2>3, <2>4
<1>10. ASSUME NEW n \in Names, NewFile(n) PROVE TextOK' /\ RangeOK' /\ PlaceOK' /\ FilesOK'
  <2>1. TextOK'
    BY <1>10, Empty DEF TextOK, NewFile, Opens
  <2>2. RangeOK'
    BY <1>10 DEF RangeOK, NewFile, Opens
  <2>3. PlaceOK'
    BY <1>10 DEF PlaceOK, NewFile, Opens
  <2>4. FilesOK'
    BY <1>10, WritesType, Empty DEF FilesOK, NewFile, Opens
  <2> QED BY <2>1, <2>2, <2>3, <2>4
<1>11. CASE SaveClose
  <2>1. TextOK'
    BY <1>11, Empty DEF TextOK, SaveClose
  <2>2. RangeOK'
    BY <1>11 DEF RangeOK, SaveClose, Saves
  <2>3. PlaceOK'
    BY <1>11 DEF PlaceOK, SaveClose, Saves
  <2>4. FilesOK'
    BY <1>11, <1>a, WritesType DEF FilesOK, SaveClose, Saves, FileIsOpen
  <2> QED BY <2>1, <2>2, <2>3, <2>4
<1>12. CASE Dismiss \/ CardChanges
  <2>1. TextOK'
    BY <1>12 DEF TextOK, Dismiss, CardChanges
  <2>2. RangeOK'
    BY <1>12 DEF RangeOK, Dismiss, CardChanges
  <2>3. PlaceOK'
    BY <1>12 DEF PlaceOK, Dismiss, CardChanges
  <2>4. FilesOK'
    BY <1>12 DEF FilesOK, Dismiss, CardChanges
  <2> QED BY <2>1, <2>2, <2>3, <2>4
<1>13. CASE Restart
  <2>1. TextOK'
    BY <1>13, Empty DEF TextOK, Restart
  <2>2. RangeOK'
    BY <1>13 DEF RangeOK, Restart
  <2>3. PlaceOK'
    BY <1>13 DEF PlaceOK, Restart
  <2>4. FilesOK'
    BY <1>13 DEF FilesOK, Restart
  <2> QED BY <2>1, <2>2, <2>3, <2>4
<1>14. CASE UNCHANGED vars
  BY <1>14 DEF vars, TextOK, RangeOK, PlaceOK, FilesOK
<1> QED BY <1>1, <1>2, <1>3, <1>4, <1>5, <1>6, <1>7, <1>8, <1>9, <1>10, <1>11, <1>12, <1>13, <1>14 DEF Next

-----------------------------------------------------------------------------
(* The selection, and what was read.                                       *)

\* As long as a text was read and not edited the buffer holds what was read.
Read == screen # "list" /\ ~touched =>
            /\ curFile \in Names
            /\ text = Prefix(files[curFile], Low(Len(files[curFile]), Cap))

IInv == TypeOK /\ FileIsOpen /\ SelectionIsAnchorToCursor /\ Read

LEMMA SelectionNext ==
    ASSUME TypeOK, SelectionIsAnchorToCursor, [Next]_vars
    PROVE  SelectionIsAnchorToCursor'
<1> USE EditorAssumption DEF SelectionIsAnchorToCursor, sel_active, selection
<1>1. ASSUME NEW nav \in Navs, NEW shift \in BOOLEAN, Move(nav, shift)
      PROVE  SelectionIsAnchorToCursor'
  <2>1. CASE shift
    <3>1. cur' \in Int /\ selAnchor' \in Int
      <4>1. cur' \in 0..Len(text) /\ Len(text) \in Nat /\ cur \in 0..Len(text) /\ selAnchor \in -1..Cap
        BY <1>1, GoesInText, TextIs DEF Move, TypeOK
      <4> QED BY <1>1, <2>1, <4>1 DEF Move
    <3>2. selPos' = Low(selAnchor', cur') /\ selLen' = High(selAnchor', cur') - selPos'
      BY <1>1, <2>1 DEF Move
    <3>3. \A a, b \in Int : {Low(a, b), Low(a, b) + (High(a, b) - Low(a, b))} = {a, b}
      BY DEF Low, High
    <3> QED BY ZenonT(30), <3>1, <3>2, <3>3
  <2>2. CASE ~shift
    BY <1>1, <2>2 DEF Move, sel_clear
  <2> QED BY <2>1, <2>2
<1>2. CASE \E n \in Names : Open(n) \/ NewFile(n)
  BY <1>2 DEF Open, NewFile, Opens
<1>3. ASSUME NEW c \in Chars, Type(c) PROVE SelectionIsAnchorToCursor'
  BY <1>3 DEF Type, sel_clear
<1>4. CASE Backspace \/ Delete \/ Cut \/ Paste
  BY <1>4 DEF Backspace, Delete, Cut, Paste, Takes, sel_clear
<1>5. CASE Copy \/ Crashes \/ Dismiss \/ CardChanges
  BY <1>5 DEF Copy, Crashes, Dismiss, CardChanges
<1>6. CASE SaveClose \/ Restart
  <2>1. selPos' = -1 \/ UNCHANGED <<cur, selPos, selLen, selAnchor>>
    BY <1>6 DEF SaveClose, Restart
  <2> QED BY <2>1
<1>7. CASE UNCHANGED vars
  BY <1>7 DEF vars
<1> QED BY <1>1, <1>2, <1>3, <1>4, <1>5, <1>6, <1>7 DEF Next

LEMMA FileIsOpenNext ==
    ASSUME FileIsOpen, [Next]_vars
    PROVE  FileIsOpen'
<1> USE DEF FileIsOpen
<1>1. CASE \E n \in Names : Open(n) \/ NewFile(n)
  BY <1>1 DEF Open, NewFile, Opens
<1>2. ASSUME NEW nav \in Navs, NEW shift \in BOOLEAN, Move(nav, shift) PROVE FileIsOpen'
  BY <1>2 DEF Move
<1>3. ASSUME NEW c \in Chars, Type(c) PROVE FileIsOpen'
  BY <1>3 DEF Type, Edits
<1>4. CASE Backspace \/ Delete \/ Cut \/ Paste \/ Copy
  BY <1>4 DEF Backspace, Delete, Cut, Paste, Copy, Edits
<1>5. CASE Crashes \/ Dismiss \/ CardChanges \/ Restart
  BY <1>5 DEF Crashes, Dismiss, CardChanges, Restart
<1>6. CASE SaveClose
  BY <1>6 DEF SaveClose, Saves
<1>7. CASE UNCHANGED vars
  BY <1>7 DEF vars
<1> QED BY <1>1, <1>2, <1>3, <1>4, <1>5, <1>6, <1>7 DEF Next

LEMMA ReadNext ==
    ASSUME Read, [Next]_vars
    PROVE  Read'
<1> USE DEF Read
<1>1. ASSUME NEW n \in Names, Open(n) PROVE Read'
  BY <1>1 DEF Open, Opens, load_current_file
<1>2. CASE \E n \in Names : NewFile(n)
  BY <1>2 DEF NewFile
<1>3. CASE \E nav \in Navs, shift \in BOOLEAN : Move(nav, shift)
  BY <1>3 DEF Move
<1>4. CASE (\E c \in Chars : Type(c)) \/ Backspace \/ Delete \/ Cut \/ Paste
  BY <1>4 DEF Type, Backspace, Delete, Cut, Paste, Edits
<1>5. CASE Copy \/ Crashes \/ Dismiss \/ CardChanges
  BY <1>5 DEF Copy, Crashes, Dismiss, CardChanges, Key
<1>6. CASE Restart \/ SaveClose
  BY <1>6 DEF Restart, SaveClose, Saves
<1>7. CASE UNCHANGED vars
  BY <1>7 DEF vars
<1> QED BY <1>1, <1>2, <1>3, <1>4, <1>5, <1>6, <1>7 DEF Next

\* The inductive invariant, of every behaviour.
THEOREM Invariance == Spec => []IInv
<1>1. Init => IInv
  BY TypeInit DEF Init, IInv, FileIsOpen, SelectionIsAnchorToCursor, sel_active, Read
<1>2. IInv /\ [Next]_vars => IInv'
  BY TypeNext, SelectionNext, FileIsOpenNext, ReadNext DEF IInv
<1> QED BY <1>1, <1>2, PTL DEF Spec

\* Types: whatever keys are pressed, the cursor stays in the text and the text, as the
\* clipboard, in its buffer.
THEOREM TypeCorrect == Spec => []TypeOK
<1>1. IInv => TypeOK
  BY DEF IInv
<1> QED BY <1>1, Invariance, PTL

\* app_nav, sel_update_from_anchor, for texts and layouts of any size: a selection in force
\* goes from its anchor to the cursor.
THEOREM SelectionCorrect == Spec => []SelectionIsAnchorToCursor
<1>1. IInv => SelectionIsAnchorToCursor
  BY DEF IInv
<1> QED BY <1>1, Invariance, PTL

-----------------------------------------------------------------------------
(* What happens to texts.                                                  *)

\* Only a save, a new file and nothing else touch the card.
LEMMA WhoWrites ==
    ASSUME [Next]_vars
    PROVE  files' = files \/ SaveClose \/ \E n \in Names : NewFile(n)
<1>1. CASE \E n \in Names : Open(n)
  BY <1>1 DEF Open
<1>2. CASE \E nav \in Navs, shift \in BOOLEAN : Move(nav, shift)
  BY <1>2 DEF Move
<1>3. CASE (\E c \in Chars : Type(c)) \/ Backspace \/ Delete \/ Cut \/ Paste
  BY <1>3 DEF Type, Backspace, Delete, Cut, Paste, Edits
<1>4. CASE Copy \/ Crashes \/ Dismiss \/ CardChanges \/ Restart
  BY <1>4 DEF Copy, Crashes, Dismiss, CardChanges, Restart
<1>5. CASE UNCHANGED vars
  BY <1>5 DEF vars
<1> QED BY <1>1, <1>2, <1>3, <1>4, <1>5 DEF Next

\* oyobyok_app_save_close, for any text and any files: the editor lets go of a text only when
\* the card has it, or is full.
THEOREM TextKept == Spec => KeepsText
<1>1. IInv /\ [Next]_vars =>
        [screen' = "list" /\ screen \in {"editor", "alert"} =>
             card = "full" \/ files'[curFile] = text]_vars
  <2> SUFFICES ASSUME IInv, [Next]_vars, screen \in {"editor", "alert"}, screen' = "list", card # "full"
               PROVE  files'[curFile] = text
    OBVIOUS
  <2>1. SaveClose
    <3>1. CASE \E n \in Names : Open(n) \/ NewFile(n)
      BY <3>1 DEF Open, NewFile, Opens
    <3>2. CASE \E nav \in Navs, shift \in BOOLEAN : Move(nav, shift)
      BY <3>2 DEF Move, Key
    <3>3. CASE (\E c \in Chars : Type(c)) \/ Backspace \/ Delete \/ Cut \/ Paste
      BY <3>3 DEF Type, Backspace, Delete, Cut, Paste, Edits
    <3>4. CASE Copy \/ Crashes \/ Dismiss \/ CardChanges \/ Restart
      BY <3>4 DEF Copy, Crashes, Dismiss, CardChanges, Restart
    <3>5. CASE UNCHANGED vars
      BY <3>5 DEF vars
    <3> QED BY <3>1, <3>2, <3>3, <3>4, <3>5 DEF Next
  <2>2. files' = [files EXCEPT ![curFile] = text]
    BY <2>1 DEF SaveClose, Writes
  <2> QED BY <2>2 DEF IInv, TypeOK, FileIsOpen
<1> QED BY <1>1, Invariance, PTL DEF Spec, KeepsText

\* load_current_file and save_current_file, for any file that fits: what could be read and was
\* only looked at is saved as it was.
THEOREM LooksAreHarmless == Spec => LooksChangeNothing
<1>1. IInv /\ [Next]_vars =>
        [screen # "list" /\ ~touched /\ card # "full" =>
            \A n \in Names : Len(files[n]) <= Cap => files'[n] = files[n]]_vars
  <2> SUFFICES ASSUME IInv, [Next]_vars, screen # "list", ~touched, card # "full",
                      NEW n \in Names, Len(files[n]) <= Cap
               PROVE  files'[n] = files[n]
    OBVIOUS
  <2>1. CASE files' = files
    BY <2>1
  <2>2. CASE \E m \in Names : NewFile(m)
    BY <2>2 DEF NewFile, Opens
  <2>3. CASE SaveClose
    <3>1. curFile \in Names /\ text = Prefix(files[curFile], Low(Len(files[curFile]), Cap))
      BY DEF IInv, Read
    <3>2. files' = files \/ files' = [files EXCEPT ![curFile] = text]
      BY <2>3 DEF SaveClose, Writes
    <3>3. files[n] \in Seq(Symbols) /\ files \in [Names -> Seq(Symbols)]
      BY DEF IInv, TypeOK
    <3>4. CASE n = curFile
      <4>1. Low(Len(files[n]), Cap) = Len(files[n])
        BY <3>3, EditorAssumption DEF Low
      <4>2. text = files[n]
        BY <3>1, <3>3, <3>4, <4>1, WholePrefix
      <4> QED BY <3>2, <3>3, <3>4, <4>2
    <3> QED BY <3>2, <3>3, <3>4
  <2> QED BY <2>1, <2>2, <2>3, WhoWrites
<1> QED BY <1>1, Invariance, PTL DEF Spec, LooksChangeNothing

\* ed_layout, for any text and screen: what is shown of a line fits the screen, and a word is
\* broken only when the line before is full of it.
THEOREM LinesAlwaysFit == Spec => []LinesFit
<1>1. IInv => LinesFit
  <2> DEFINE ls == LineStarts[text]
  <2> SUFFICES ASSUME IInv, Len(ls) <= MaxLines
               PROVE  /\ \A k \in 1..Lines(text) :
                            LET n == ed_line_cols(text, k)
                            IN  n <= ECOLS \/ (n = ECOLS + 1 /\ text[ls[k + 1]] = Space)
                      /\ \A k \in 2..Lines(text) :
                            ls[k] \in 1..Len(text) - 1
                            /\ {text[ls[k]], text[ls[k] + 1]} \cap Separators = {}
                            => /\ ls[k] - ls[k - 1] = ECOLS
                               /\ \A j \in ls[k - 1] + 1..ls[k] : text[j] \notin Separators
    BY DEF LinesFit, Separators
  <2>1. text \in Seq(Symbols) /\ text \in Texts /\ ls = ed_layout(text)
    BY TextIs DEF IInv, TypeOK, LineStarts
  <2>2. Lines(text) = Len(ls) - 1 /\ Len(ls) \in 2..MaxLines + 1 /\ MaxLines \in Nat
    BY <2>1, LinesCover, LayoutAssumption DEF Lines
  <2> HIDE DEF ls
  <2>3. \A k \in 1..Len(ls) - 1 : Fits(text, ls[k], ls[k + 1])
    BY <2>1, LayoutFits
  <2>4. ASSUME NEW k \in 1..Lines(text)
        PROVE  LET n == ed_line_cols(text, k)
               IN  n <= ECOLS \/ (n = ECOLS + 1 /\ text[ls[k + 1]] = Space)
    <3>1. Fits(text, ls[k], ls[k + 1])
      BY <2>2, <2>3
    <3>2. Start(text, k) = ls[k] /\ Start(text, k + 1) = ls[k + 1]
      BY DEF Start, ls
    <3> QED BY <3>1, <3>2 DEF Fits, ed_line_cols
  <2>5. ASSUME NEW k \in 2..Lines(text), ls[k] \in 1..Len(text) - 1,
               {text[ls[k]], text[ls[k] + 1]} \cap Separators = {}
        PROVE  /\ ls[k] - ls[k - 1] = ECOLS
               /\ \A j \in ls[k - 1] + 1..ls[k] : text[j] \notin Separators
    <3>1. k - 1 \in 1..Len(ls) - 1 /\ (k - 1) + 1 = k
      BY <2>2
    <3>2. Fits(text, ls[k - 1], ls[k])
      BY <2>3, <3>1
    <3> QED BY <2>5, <3>2 DEF Fits
  <2> QED BY <2>4, <2>5
<1> QED BY <1>1, Invariance, PTL
=============================================================================
