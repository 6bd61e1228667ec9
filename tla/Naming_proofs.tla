---------------------------------- MODULE Naming_proofs -------------------------------
(***************************************************************************)
(* Proofs about naming: what stripping, collapsing and replacing leave of  *)
(* a text, for texts of any length over any characters; what a destination *)
(* is made of; and that the names of a file stay in its directory and come *)
(* to rest, for any results and however often the file is renamed.         *)
(***************************************************************************)
EXTENDS Naming, Selection_proofs

-----------------------------------------------------------------------------
\* Texts; the provers do not know by themselves that a character is a STRING.
Character == STRING \cup {"_", ".", " ", "[", "]", "(", ")", "D", "R"}
Text == Seq(Character)

\* What is left when the last elements c are taken away.
LEMMA RStripped ==
  ASSUME NEW text \in Text, NEW c
  PROVE  \E n \in 0..Len(text) :
           /\ RStrip(text, c) = SubSeq(text, 1, n)
           /\ n > 0 => text[n] # c
           /\ \A j \in (n + 1)..Len(text) : text[j] = c
<1> DEFINE rest == {i \in 0..Len(text) : \A j \in (i + 1)..Len(text) : text[j] = c}
<1>1. Len(text) \in Nat /\ Len(text) \in rest /\ rest \in SUBSET Nat
  BY DEF Text
<1>2. \E i \in rest : \A j \in rest : i <= j
  BY <1>1, LeastElement
<1> DEFINE n == CHOOSE i \in rest : \A j \in rest : i <= j
<1>3. n \in rest /\ \A j \in rest : n <= j
  BY <1>2
<1>4. RStrip(text, c) = SubSeq(text, 1, n)
  BY DEF RStrip
<1> HIDE DEF n
<1>5. n \in 0..Len(text) /\ \A j \in (n + 1)..Len(text) : text[j] = c
  BY <1>3
<1>6. ASSUME n > 0, text[n] = c PROVE FALSE
  <2>1. \A j \in ((n - 1) + 1)..Len(text) : j = n \/ j \in (n + 1)..Len(text)
    BY <1>1, <1>5
  <2>2. n - 1 \in rest
    BY <1>1, <1>5, <1>6, <2>1
  <2>3. n \in Nat
    BY <1>1, <1>5
  <2> QED
    BY <1>3, <2>2, <2>3
<1> QED
  BY <1>4, <1>5, <1>6

LEMMA ReverseOf ==
  ASSUME NEW text \in Text
  PROVE  /\ Reverse(text) \in Text /\ Len(Reverse(text)) = Len(text)
         /\ \A i \in 1..Len(text) : Reverse(text)[i] = text[Len(text) - i + 1]
BY DEF Text, Reverse

\* ... and when the first ones are.
LEMMA LStripped ==
  ASSUME NEW text \in Text, NEW c
  PROVE  \E n \in 1..Len(text) + 1 :
           /\ LStrip(text, c) = SubSeq(text, n, Len(text))
           /\ n <= Len(text) => text[n] # c
           /\ \A j \in 1..n - 1 : text[j] = c
<1> DEFINE back == Reverse(text)
<1>1. back \in Text /\ Len(back) = Len(text) /\ Len(text) \in Nat
  BY ReverseOf DEF Text
<1>2. PICK n \in 0..Len(back) :
        /\ RStrip(back, c) = SubSeq(back, 1, n)
        /\ n > 0 => back[n] # c
        /\ \A j \in (n + 1)..Len(back) : back[j] = c
  BY <1>1, RStripped
<1> DEFINE kept == SubSeq(back, 1, n)
           m == Len(text) - n + 1
<1>3. kept \in Text /\ Len(kept) = n /\ \A i \in 1..n : kept[i] = back[i]
  <2> HIDE DEF back
  <2> QED
    BY <1>1, <1>2 DEF Text
<1>4. m \in 1..Len(text) + 1
  BY <1>1, <1>2
<1>5. LStrip(text, c) = Reverse(kept)
  BY <1>2 DEF LStrip
<1>6. Len(Reverse(kept)) = n /\ \A i \in 1..n : Reverse(kept)[i] = text[Len(text) - n + i]
  <2>1. ASSUME NEW i \in 1..n PROVE Reverse(kept)[i] = text[Len(text) - n + i]
    <3>1. n - i + 1 \in 1..n /\ n - i + 1 \in 1..Len(text) /\ Len(text) - (n - i + 1) + 1 = Len(text) - n + i
      BY <1>1, <1>2
    <3>2. Reverse(kept)[i] = kept[n - i + 1]
      <4> HIDE DEF kept
      <4> QED
        BY <1>3, ReverseOf
    <3>3. kept[n - i + 1] = back[n - i + 1]
      BY <1>3, <3>1
    <3>4. back[n - i + 1] = text[Len(text) - (n - i + 1) + 1]
      BY <3>1, ReverseOf
    <3> QED
      BY <3>1, <3>2, <3>3, <3>4
  <2>2. Len(Reverse(kept)) = n
    BY <1>3, ReverseOf
  <2> QED
    BY <2>1, <2>2
<1>7. /\ SubSeq(text, m, Len(text)) \in Text /\ Len(SubSeq(text, m, Len(text))) = n
      /\ \A i \in 1..n : SubSeq(text, m, Len(text))[i] = text[m + i - 1]
  BY <1>1, <1>2, <1>4 DEF Text
<1>8. Reverse(kept) = SubSeq(text, m, Len(text))
  <2>1. Reverse(kept) \in Text
    BY <1>3, ReverseOf
  <2>2. \A i \in 1..n : m + i - 1 = Len(text) - n + i
    BY <1>1, <1>2
  <2> DEFINE one == Reverse(kept)
             other == SubSeq(text, m, Len(text))
  <2>3. one \in Text /\ other \in Text /\ Len(one) = Len(other) /\ n \in Nat /\ Len(other) = n
    BY <1>2, <1>6, <1>7, <2>1
  <2>4. \A i \in 1..n : one[i] = other[i]
    BY <1>6, <1>7, <2>2
  <2> HIDE DEF one, other
  <2>5. one = other
    BY <2>3, <2>4 DEF Text
  <2> QED
    BY <2>5 DEF one, other
<1>9. m <= Len(text) => text[m] # c
  <2>1. m <= Len(text) => n > 0 /\ n \in 1..Len(text)
    BY <1>1, <1>2
  <2>2. n \in 1..Len(text) => back[n] = text[m]
    BY ReverseOf
  <2> QED
    BY <1>2, <2>1, <2>2
<1>10. ASSUME NEW j \in 1..m - 1 PROVE text[j] = c
  <2> DEFINE i == Len(text) - j + 1
  <2>1. i \in (n + 1)..Len(back) /\ i \in 1..Len(text) /\ Len(text) - i + 1 = j
    BY <1>1, <1>2
  <2>2. \A k \in 1..Len(text) : back[k] = text[Len(text) - k + 1]
    BY ReverseOf
  <2> HIDE DEF i, back
  <2> QED
    BY <1>2, <2>1, <2>2
<1> QED
  BY <1>4, <1>5, <1>8, <1>9, <1>10

-----------------------------------------------------------------------------
(* What the operators on texts return.                                     *)

Chars(text) == {text[i] : i \in 1..Len(text)}

LEMMA SameText ==
  ASSUME NEW s \in Text, NEW t \in Text, Len(s) = Len(t), \A i \in 1..Len(s) : s[i] = t[i]
  PROVE  s = t
BY DEF Text

LEMMA OneChar ==
  ASSUME NEW c \in Character
  PROVE  <<c>> \in Text /\ Len(<<c>>) = 1 /\ <<c>>[1] = c
BY DEF Text

LEMMA FunctionIsText ==
  ASSUME NEW n \in Nat, NEW f \in [1..n -> Character]
  PROVE  f \in Text /\ Len(f) = n
BY DEF Text

LEMMA EmptyText ==
  /\ Empty \in Text /\ Len(Empty) = 0 /\ Chars(Empty) = {}
  /\ \A text \in Text : Len(text) \in Nat /\ (Len(text) = 0 <=> text = Empty)
BY DEF Text, Empty, Chars

LEMMA RStripOf ==
  ASSUME NEW text \in Text, NEW c
  PROVE  LET r == RStrip(text, c)
         IN  /\ r \in Text /\ Chars(r) \subseteq Chars(text)
             /\ Len(r) <= Len(text) /\ \A i \in 1..Len(r) : r[i] = text[i]
             /\ r # Empty => r[Len(r)] # c
             /\ text # Empty /\ text[Len(text)] # c => r = text
<1>1. PICK n \in 0..Len(text) :
        /\ RStrip(text, c) = SubSeq(text, 1, n)
        /\ n > 0 => text[n] # c
        /\ \A j \in (n + 1)..Len(text) : text[j] = c
  BY RStripped
<1> DEFINE r == SubSeq(text, 1, n)
<1>2. Len(text) \in Nat /\ n \in Nat /\ n <= Len(text)
  BY <1>1 DEF Text
<1>3. r \in Text /\ Len(r) = n /\ \A i \in 1..n : r[i] = text[i]
  BY <1>2 DEF Text
<1> HIDE DEF r
<1>4. Chars(r) \subseteq Chars(text)
  BY <1>2, <1>3 DEF Chars
<1>5. r # Empty => n > 0
  BY <1>2, <1>3 DEF Empty, Text
<1>6. r # Empty => r[Len(r)] # c
  BY <1>1, <1>2, <1>3, <1>5
<1>7. ASSUME text # Empty, text[Len(text)] # c PROVE r = text
  <2>1. Len(text) > 0
    BY <1>7 DEF Text, Empty
  <2>2. n = Len(text)
    <3>1. CASE n < Len(text)
      <4>1. Len(text) \in (n + 1)..Len(text)
        BY <1>2, <3>1
      <4> QED
        BY <1>1, <1>7, <4>1
    <3> QED
      BY <1>2, <3>1
  <2> QED
    BY <1>3, <2>2 DEF Text
<1> QED
  BY <1>1, <1>2, <1>3, <1>4, <1>6, <1>7 DEF r

LEMMA LStripOf ==
  ASSUME NEW text \in Text, NEW c
  PROVE  LET r == LStrip(text, c)
         IN  /\ r \in Text /\ Chars(r) \subseteq Chars(text)
             /\ r # Empty => r[1] # c /\ text # Empty /\ r[Len(r)] = text[Len(text)]
             /\ text # Empty /\ text[1] # c => r = text
             /\ text = Empty => r = Empty
<1>1. PICK n \in 1..Len(text) + 1 :
        /\ LStrip(text, c) = SubSeq(text, n, Len(text))
        /\ n <= Len(text) => text[n] # c
        /\ \A j \in 1..n - 1 : text[j] = c
  BY LStripped
<1> DEFINE r == SubSeq(text, n, Len(text))
<1>2. Len(text) \in Nat /\ n \in Nat /\ n <= Len(text) + 1
  BY <1>1 DEF Text
<1>3. r \in Text /\ Len(r) = Len(text) - n + 1 /\ \A i \in 1..Len(text) - n + 1 : r[i] = text[n + i - 1]
  BY <1>2 DEF Text
<1> HIDE DEF r
<1>4. Chars(r) \subseteq Chars(text)
  <2>1. \A i \in 1..Len(text) - n + 1 : n + i - 1 \in 1..Len(text)
    BY <1>1, <1>2
  <2> QED
    BY <1>2, <1>3, <2>1 DEF Chars
<1>5. ASSUME r # Empty PROVE r[1] # c /\ text # Empty /\ r[Len(r)] = text[Len(text)]
  <2>1. Len(r) # 0
    BY <1>3, <1>5 DEF Empty, Text
  <2>2. n <= Len(text) /\ n + 1 - 1 = n /\ n + (Len(text) - n + 1) - 1 = Len(text)
    BY <1>2, <1>3, <2>1
  <2>3. r[1] = text[n] /\ r[Len(r)] = text[Len(text)]
    BY <1>2, <1>3, <2>1, <2>2
  <2>4. Len(Empty) = 0
    BY DEF Empty
  <2>5. n > 0
    BY <1>1, <1>2
  <2> QED
    BY <1>1, <1>2, <2>2, <2>3, <2>4, <2>5
<1>6. ASSUME text # Empty, text[1] # c PROVE r = text
  <2>1. Len(text) > 0
    BY <1>6 DEF Text, Empty
  <2>2. n = 1
    BY <1>1, <1>2, <1>6
  <2>3. Len(r) = Len(text) /\ \A i \in 1..Len(text) : r[i] = text[i]
    BY <1>2, <1>3, <2>2
  <2> QED
    BY <1>3, <2>3 DEF Text
<1>7. text = Empty => r = Empty
  <2> SUFFICES ASSUME text = Empty PROVE r = Empty
    OBVIOUS
  <2>1. Len(text) = 0
    BY DEF Empty
  <2>2. Len(r) = 0
    BY <1>1, <1>2, <1>3, <2>1
  <2> QED
    BY <1>3, <2>2 DEF Text, Empty
<1> QED
  BY <1>1, <1>3, <1>4, <1>5, <1>6, <1>7 DEF r

\* A text without blanks at its ends is left alone, and stripping leaves none there.
LEMMA StripOf ==
  ASSUME NEW text \in Text
  PROVE  /\ Strip(text) \in Text /\ Chars(Strip(text)) \subseteq Chars(text)
         /\ Strip(Strip(text)) = Strip(text)
<1> DEFINE right == RStrip(text, " ")
           both == LStrip(right, " ")
<1>1. right \in Text /\ Chars(right) \subseteq Chars(text) /\ (right # Empty => right[Len(right)] # " ")
  BY RStripOf
<1>2. Strip(text) = both
  BY DEF Strip
<1> HIDE DEF right
<1>3. /\ both \in Text /\ Chars(both) \subseteq Chars(right)
      /\ both # Empty => both[1] # " " /\ right # Empty /\ both[Len(both)] = right[Len(right)]
  BY <1>1, LStripOf
<1> HIDE DEF both
<1>4. Strip(both) = both
  <2>1. CASE both = Empty
    <3> DEFINE r == RStrip(both, " ")
    <3>1. r \in Text /\ Len(r) <= Len(both) /\ Len(both) = 0
      BY <1>3, <2>1, RStripOf, EmptyText
    <3> HIDE DEF r
    <3>a. Len(r) \in Nat /\ (Len(r) = 0 <=> r = Empty)
      BY <3>1, EmptyText
    <3>b. \A m \in Nat : m <= 0 => m = 0
      OBVIOUS
    <3>2. RStrip(both, " ") = Empty
      <4>1. Len(r) = 0
        BY <3>1, <3>a, <3>b
      <4> QED
        BY <3>a, <4>1 DEF r
    <3> QED
      BY <1>3, <2>1, <3>2, LStripOf DEF Strip
  <2>2. CASE both # Empty
    <3>1. RStrip(both, " ") = both
      BY <1>1, <1>3, <2>2, RStripOf
    <3>2. LStrip(both, " ") = both
      BY <1>3, <2>2, LStripOf
    <3> QED
      BY <3>1, <3>2 DEF Strip
  <2> QED
    BY <2>1, <2>2
<1> QED
  BY <1>1, <1>2, <1>3, <1>4

LEMMA CollapseOf ==
  ASSUME NEW text \in Text
  PROVE  Collapse(text) \in Text /\ Chars(Collapse(text)) \subseteq Chars(text)
<1> DEFINE all == [i \in 1..Len(text) |-> i]
           S == {i \in 1..Len(text) : text[i] # " " \/ i = 1 \/ text[i - 1] # " "}
           kept == Selected(all, S)
<1>1. all \in Seq(1..Len(text)) /\ Len(text) \in Nat
  BY DEF Text
<1>2. kept \in Seq(1..Len(text))
  <2> HIDE DEF all, S
  <2> QED
    BY <1>1, SelectedAt
<1>3. Collapse(text) = [i \in 1..Len(kept) |-> text[kept[i]]]
  BY DEF Collapse
<1> HIDE DEF kept
<1>4. \A i \in 1..Len(kept) : kept[i] \in 1..Len(text)
  BY <1>2
<1>5. Len(kept) \in Nat
  BY <1>2
<1>6. \A i \in 1..Len(text) : text[i] \in Character
  BY DEF Text
<1> DEFINE r == [i \in 1..Len(kept) |-> text[kept[i]]]
<1>7. r \in Text /\ Len(r) = Len(kept) /\ \A i \in 1..Len(kept) : r[i] = text[kept[i]]
  BY <1>4, <1>5, <1>6 DEF Text
<1> HIDE DEF r
<1>8. Chars(r) \subseteq Chars(text)
  BY <1>4, <1>7 DEF Chars
<1> QED
  BY <1>3, <1>7, <1>8 DEF r

LEMMA ReplaceOf ==
  ASSUME NEW text \in Text
  PROVE  Replace(text) \in Text /\ Chars(Replace(text)) \cap Invalid = {}
<1>1. Len(text) \in Nat /\ \A i \in 1..Len(text) : text[i] \in Character
  BY DEF Text
<1> DEFINE r == [i \in 1..Len(text) |-> IF text[i] \in Invalid THEN "_" ELSE text[i]]
<1>2. r \in Text /\ Len(r) = Len(text) /\ \A i \in 1..Len(text) : r[i] \notin Invalid
  <2>a. \A i \in 1..Len(text) : (IF text[i] \in Invalid THEN "_" ELSE text[i]) \in Character
    BY <1>1 DEF Character
  <2>1. r \in [1..Len(text) -> Character]
    BY <2>a
  <2>2. r \in Text /\ Len(r) = Len(text)
    BY <1>1, <2>1, FunctionIsText
  <2>3. "_" \notin Invalid
    BY DEF Invalid
  <2> QED
    BY <2>2, <2>3
<1> HIDE DEF r
<1>3. Chars(r) \cap Invalid = {}
  BY <1>2 DEF Chars
<1> QED
  BY <1>2, <1>3 DEF r, Replace

\* A component has no separator, and does not end with a dot.
LEMMA SanitizeOf ==
  ASSUME NEW value \in Text
  PROVE  /\ Sanitize(value) \in Text /\ Chars(Sanitize(value)) \cap Invalid = {}
         /\ Sanitize(value) # Empty => Sanitize(value)[Len(Sanitize(value))] # "."
<1> DEFINE one == Replace(value)
           two == Collapse(one)
           three == Strip(two)
<1>1. one \in Text /\ Chars(one) \cap Invalid = {}
  BY ReplaceOf
<1>2. two \in Text /\ Chars(two) \subseteq Chars(one)
  BY <1>1, CollapseOf
<1>3. three \in Text /\ Chars(three) \subseteq Chars(two)
  BY <1>2, StripOf
<1>4. Sanitize(value) = RStrip(three, ".")
  BY DEF Sanitize
<1> HIDE DEF one, two, three
<1> QED
  BY <1>1, <1>2, <1>3, <1>4, RStripOf

-----------------------------------------------------------------------------
LEMMA CharsOfBoth ==
  ASSUME NEW s \in Text, NEW t \in Text
  PROVE  /\ s \o t \in Text /\ Len(s \o t) = Len(s) + Len(t)
         /\ Chars(s \o t) \subseteq Chars(s) \cup Chars(t)
         /\ \A i \in 1..Len(s) : (s \o t)[i] = s[i]
         /\ \A i \in 1..Len(t) : (s \o t)[Len(s) + i] = t[i]
<1>1. Len(s) \in Nat /\ Len(t) \in Nat
  BY DEF Text
<1> DEFINE b == s \o t
<1>2. /\ b \in Text /\ Len(b) = Len(s) + Len(t)
      /\ \A i \in 1..Len(s) : b[i] = s[i]
      /\ \A i \in 1..Len(t) : b[Len(s) + i] = t[i]
  BY DEF Text
<1> HIDE DEF b
<1>3. \A i \in 1..Len(s) + Len(t) : i \in 1..Len(s) \/ (i - Len(s) \in 1..Len(t) /\ Len(s) + (i - Len(s)) = i)
  BY <1>1
<1>4. Chars(b) \subseteq Chars(s) \cup Chars(t)
  <2>1. ASSUME NEW i \in 1..Len(b) PROVE b[i] \in Chars(s) \cup Chars(t)
    <3>1. CASE i \in 1..Len(s)
      BY <1>2, <3>1 DEF Chars
    <3>2. CASE i - Len(s) \in 1..Len(t) /\ Len(s) + (i - Len(s)) = i
      <4>1. b[i] = t[i - Len(s)]
        BY <1>2, <3>2
      <4> QED
        BY <3>2, <4>1 DEF Chars
    <3> QED
      BY <1>2, <1>3, <3>1, <3>2
  <2> QED
    BY <2>1 DEF Chars
<1> QED
  BY <1>2, <1>4 DEF b

LEMMA ExtensionOf ==
  ASSUME NEW source \in Text
  PROVE  /\ Extension(source) \in Text /\ Chars(Extension(source)) \subseteq Chars(source)
         /\ "." \notin Chars(Extension(source))
<1> DEFINE last == {i \in Dots(source) : \A j \in Dots(source) : j <= i}
<1>1. Len(source) \in Nat
  BY DEF Text
<1>2. CASE \E i \in last : i > 1 /\ i < Len(source)
  <2> DEFINE d == CHOOSE i \in last : TRUE
  <2>1. d \in last
    BY <1>2
  <2>2. Extension(source) = SubSeq(source, d + 1, Len(source))
    BY <1>2 DEF Extension
  <2> HIDE DEF d
  <2>3. /\ d \in 1..Len(source) /\ \A j \in 1..Len(source) : source[j] = "." => j <= d
    BY <2>1 DEF Dots
  <2> DEFINE r == SubSeq(source, d + 1, Len(source))
  <2>4. /\ r \in Text /\ Len(r) = Len(source) - d
        /\ \A i \in 1..Len(source) - d : r[i] = source[d + i]
    BY <1>1, <2>3 DEF Text
  <2>5. \A i \in 1..Len(source) - d : d + i \in 1..Len(source) /\ ~(d + i <= d)
    BY <1>1, <2>3
  <2> HIDE DEF r
  <2>6. Chars(r) \subseteq Chars(source) /\ "." \notin Chars(r)
    BY <2>3, <2>4, <2>5 DEF Chars
  <2> QED
    BY <2>2, <2>4, <2>6 DEF r
<1>3. CASE ~\E i \in last : i > 1 /\ i < Len(source)
  BY <1>3 DEF Extension, Empty, Chars, Text
<1> QED
  BY <1>2, <1>3

\* What follows the last dot is the extension.
LEMMA ExtensionOfFilename ==
  ASSUME NEW base \in Text, NEW extension \in Text, base # Empty, extension # Empty,
         "." \notin Chars(extension)
  PROVE  Extension(base \o <<".">> \o extension) = extension
<1> DEFINE front == base \o <<".">>
           whole == front \o extension
           d == Len(base) + 1
<1>1. Len(base) \in Nat /\ Len(base) > 0 /\ Len(extension) \in Nat /\ Len(extension) > 0
  BY DEF Text, Empty
<1>2. front \in Text /\ Len(front) = d /\ front[d] = "."
  <2>1. <<".">> \in Text /\ Len(<<".">>) = 1 /\ <<".">>[1] = "."
    BY OneChar DEF Character
  <2> QED
    BY <2>1, CharsOfBoth
<1> HIDE DEF front
<1>3. /\ whole \in Text /\ Len(whole) = d + Len(extension)
      /\ \A i \in 1..d : whole[i] = front[i]
      /\ \A i \in 1..Len(extension) : whole[d + i] = extension[i]
  <2>1. \A i \in 1..Len(front) : whole[i] = front[i]
    BY <1>2, CharsOfBoth
  <2>2. /\ whole \in Text /\ Len(whole) = Len(front) + Len(extension)
        /\ \A i \in 1..Len(extension) : whole[Len(front) + i] = extension[i]
    BY <1>2, CharsOfBoth
  <2> QED
    BY <1>2, <2>1, <2>2
<1> HIDE DEF whole
<1>4. whole[d] = "." /\ d \in 1..Len(whole) /\ d > 1 /\ d < Len(whole) /\ d \in Nat
  BY <1>1, <1>2, <1>3
<1>5. ASSUME NEW j \in 1..Len(whole), whole[j] = "." PROVE j <= d
  <2>1. CASE j > d
    <3>1. j - d \in 1..Len(extension) /\ d + (j - d) = j
      BY <1>1, <1>3, <1>4, <2>1
    <3>2. extension[j - d] = "."
      BY <1>3, <1>5, <3>1
    <3> QED
      BY <3>1, <3>2 DEF Chars
  <2> QED
    BY <1>4, <2>1
<1>6. {i \in Dots(whole) : \A j \in Dots(whole) : j <= i} = {d}
  <2>1. d \in Dots(whole) /\ \A j \in Dots(whole) : j <= d /\ j \in Nat
    BY <1>3, <1>4, <1>5 DEF Dots
  <2>2. \A i \in Nat : i <= d /\ d <= i => i = d
    BY <1>4
  <2> QED
    BY <2>1, <2>2
<1>7. Extension(whole) = SubSeq(whole, d + 1, Len(whole))
  <2> HIDE DEF d
  <2>1. (CHOOSE i \in {d} : TRUE) = d
    OBVIOUS
  <2> QED
    BY <1>4, <1>6, <2>1 DEF Extension
<1>8. SubSeq(whole, d + 1, Len(whole)) = extension
  <2> DEFINE r == SubSeq(whole, d + 1, Len(whole))
  <2>1. /\ r \in Text /\ Len(r) = Len(extension)
        /\ \A i \in 1..Len(extension) : r[i] = whole[d + i]
    BY <1>1, <1>3, <1>4 DEF Text
  <2> HIDE DEF r
  <2>2. r = extension
    BY <1>3, <2>1, SameText
  <2> QED
    BY <2>2 DEF r
<1> QED
  BY <1>7, <1>8 DEF whole, front

-----------------------------------------------------------------------------
(* The parts of a destination.                                             *)

IsName(text) == text \in Text /\ Chars(text) \cap Invalid = {}

LEMMA SeqWider ==
  ASSUME NEW S, NEW T, S \subseteq T, NEW s \in Seq(S) PROVE s \in Seq(T)
OBVIOUS

LEMMA StringsAreTexts ==
  /\ \A text \in Seq(STRING) : text \in Text
  /\ \A r \in Results : /\ r.title \in Text
                        /\ \A value \in {r.identifier, r.region, r.revision} : value \in Text \cup {None}
<1>1. \A text \in Seq(STRING) : text \in Text
  BY SeqWider DEF Text, Character
<1>2. ASSUME NEW r \in Results
      PROVE  /\ r.title \in Text
             /\ \A value \in {r.identifier, r.region, r.revision} : value \in Text \cup {None}
  <2>1. r \in NamingFields
    BY NamingAssumption
  <2>2. /\ r.title \in Seq(STRING) /\ r.identifier \in Seq(STRING) \cup {None}
        /\ r.region \in Seq(STRING) \cup {None} /\ r.revision \in Seq(STRING) \cup {None}
    BY <2>1 DEF NamingFields
  <2> QED
    BY <1>1, <2>2
<1> QED
  BY <1>1, <1>2

LEMMA FieldOf ==
  ASSUME NEW value \in Text \cup {None}
  PROVE  Field(value) \in Text \cup {None}
BY StripOf DEF Field

LEMMA BothAreNames ==
  ASSUME NEW s, NEW t, IsName(s), IsName(t) PROVE IsName(s \o t)
BY CharsOfBoth DEF IsName

\* The literals of a name.
LEMMA LiteralIsName ==
  ASSUME NEW text \in Text, NEW n \in Nat, Len(text) = n, \A i \in 1..n : text[i] \notin Invalid
  PROVE  IsName(text)
BY DEF IsName, Chars

LEMMA Literals ==
  /\ IsName(Empty)
  /\ \A c \in {" ", "[", "]", "(", ")", "D", "R", "."} : IsName(<<c>>)
  /\ IsName(<<"(", "R">>) /\ IsName(<<" ", "(", "D", ")">>)
<1> DEFINE Plain == {" ", "[", "]", "(", ")", "D", "R", "."}
<1>1. Plain \subseteq Character /\ \A c \in Plain : c \notin Invalid
  BY DEF Character, Invalid
<1>2. /\ " " \in Plain /\ "(" \in Plain /\ ")" \in Plain /\ "D" \in Plain /\ "R" \in Plain
  OBVIOUS
<1> HIDE DEF Plain
<1>3. IsName(Empty)
  BY EmptyText DEF IsName
<1>4. ASSUME NEW c \in Plain PROVE IsName(<<c>>)
  <2>1. \A i \in 1..1 : i = 1
    OBVIOUS
  <2>2. <<c>> \in Text /\ Len(<<c>>) = 1 /\ <<c>>[1] = c
    BY <1>1, OneChar
  <2>3. Chars(<<c>>) = {c}
    BY <2>1, <2>2 DEF Chars
  <2> QED
    BY <1>1, <2>2, <2>3 DEF IsName
<1>5. ASSUME NEW a \in Plain, NEW b \in Plain PROVE IsName(<<a, b>>)
  <2>1. <<a, b>> \in Seq(Plain) /\ Len(<<a, b>>) = 2
    OBVIOUS
  <2>2. <<a, b>> \in Text
    BY <1>1, <2>1, SeqWider DEF Text
  <2>3. \A i \in 1..2 : <<a, b>>[i] \notin Invalid
    BY <1>1, <2>1
  <2> QED
    BY <2>1, <2>2, <2>3, LiteralIsName
<1>6. ASSUME NEW a \in Plain, NEW b \in Plain, NEW c \in Plain, NEW d \in Plain
      PROVE  IsName(<<a, b, c, d>>)
  <2>1. <<a, b, c, d>> \in Seq(Plain) /\ Len(<<a, b, c, d>>) = 4
    OBVIOUS
  <2>2. <<a, b, c, d>> \in Text
    BY <1>1, <2>1, SeqWider DEF Text
  <2>3. \A i \in 1..4 : <<a, b, c, d>>[i] \notin Invalid
    BY <1>1, <2>1
  <2> QED
    BY <2>1, <2>2, <2>3, LiteralIsName
<1>7. IsName(<<"(", "R">>)
  BY <1>2, <1>5
<1>8. IsName(<<" ", "(", "D", ")">>)
  BY <1>2, <1>6
<1> QED
  BY <1>3, <1>4, <1>7, <1>8 DEF Plain

LEMMA PartOf ==
  ASSUME NEW open, NEW close, IsName(open), IsName(close), NEW value \in Text \cup {None}
  PROVE  IsName(Part(open, value, close))
<1>1. CASE value = None
  BY <1>1, Literals DEF Part
<1>2. CASE value # None
  <2> DEFINE middle == Sanitize(value)
  <2>1. IsName(middle)
    BY <1>2, SanitizeOf DEF IsName
  <2>2. IsName(<<" ">>)
    BY Literals
  <2> HIDE DEF middle
  <2>3. IsName(<<" ">> \o open)
    BY <2>2, BothAreNames
  <2>4. IsName((<<" ">> \o open) \o middle)
    BY <2>1, <2>3, BothAreNames
  <2>5. IsName(((<<" ">> \o open) \o middle) \o close)
    BY <2>4, BothAreNames
  <2>6. Part(open, value, close) = ((<<" ">> \o open) \o middle) \o close
    BY <1>2 DEF Part, middle
  <2> QED
    BY <2>5, <2>6
<1> QED
  BY <1>1, <1>2

\* The title comes first and does not end with a dot.
LEMMA BaseOf ==
  ASSUME NEW r \in Results, Nameable(r)
  PROVE  /\ IsName(Base(r)) /\ Base(r) # Empty
         /\ \E n \in 1..Len(Base(r)) : Base(r)[n] # "."
<1> DEFINE title == Sanitize(Strip(r.title))
           a == Part(<<"[">>, Identifier(r), <<"]">>)
           b == Part(<<"(">>, Region(r), <<")">>)
           c == IF HasDisc(r) THEN <<" ", "(", "D", ")">> ELSE Empty
           d == Part(<<"(", "R">>, Revision(r), <<")">>)
<1>1. IsName(title) /\ title # Empty /\ title[Len(title)] # "."
  <2>1. Strip(r.title) \in Text
    BY StringsAreTexts, StripOf
  <2> QED
    BY <2>1, SanitizeOf DEF IsName, Nameable
<1>2. IsName(a) /\ IsName(b) /\ IsName(c) /\ IsName(d)
  <2>1. /\ Identifier(r) \in Text \cup {None} /\ Region(r) \in Text \cup {None}
        /\ Revision(r) \in Text \cup {None}
    BY StringsAreTexts, FieldOf DEF Identifier, Region, Revision
  <2>2. IsName(a)
    BY <2>1, PartOf, Literals
  <2>3. IsName(b)
    BY <2>1, PartOf, Literals
  <2>4. IsName(d)
    BY <2>1, PartOf, Literals
  <2>5. IsName(c)
    BY Literals
  <2> QED
    BY <2>2, <2>3, <2>4, <2>5
<1>3. Base(r) = (((title \o a) \o b) \o c) \o d
  BY DEF Base
<1> HIDE DEF title, a, b, c, d
<1> DEFINE Starts(text) == IsName(text) /\ Len(text) >= Len(title) /\ text[Len(title)] = title[Len(title)]
<1>4. Len(title) \in Nat /\ Len(title) > 0
  BY <1>1, EmptyText DEF IsName
<1>5. ASSUME NEW s, Starts(s), NEW t, IsName(t) PROVE Starts(s \o t)
  <2>1. s \in Text /\ t \in Text /\ Len(s) \in Nat /\ Len(t) \in Nat
    BY <1>5, EmptyText DEF IsName
  <2>2. Len(s \o t) = Len(s) + Len(t) /\ \A i \in 1..Len(s) : (s \o t)[i] = s[i]
    BY <2>1, CharsOfBoth
  <2>3. Len(title) \in 1..Len(s)
    BY <1>4, <1>5, <2>1
  <2> QED
    BY <1>4, <1>5, <2>1, <2>2, <2>3, BothAreNames
<1>6. Starts(title)
  BY <1>1, <1>4
<1> HIDE DEF Starts
<1>7. Starts(title \o a)
  BY <1>2, <1>5, <1>6
<1>8. Starts((title \o a) \o b)
  BY <1>2, <1>5, <1>7
<1>9. Starts(((title \o a) \o b) \o c)
  BY <1>2, <1>5, <1>8
<1>10. Starts((((title \o a) \o b) \o c) \o d)
  BY <1>2, <1>5, <1>9
<1>11. IsName(Base(r)) /\ Len(Base(r)) >= Len(title) /\ Base(r)[Len(title)] # "."
  BY <1>1, <1>3, <1>10 DEF Starts
<1>12. Len(Base(r)) \in Nat /\ (Base(r) = Empty => Len(Base(r)) = 0)
  BY <1>11, EmptyText DEF IsName
<1>13. Len(title) \in 1..Len(Base(r))
  BY <1>4, <1>11, <1>12
<1> QED
  BY <1>4, <1>11, <1>12, <1>13

\* The extension of a name loses its blanks, and has no dots to lose.
Suffix(source) == Strip(Extension(source))

LEMMA SuffixOf ==
  ASSUME NEW source, IsName(source)
  PROVE  /\ IsName(Suffix(source)) /\ "." \notin Chars(Suffix(source))
         /\ LStrip(Suffix(source), ".") = Suffix(source)
         /\ Strip(Suffix(source)) = Suffix(source)
<1> DEFINE e == Extension(source)
           s == Strip(e)
<1>1. e \in Text /\ Chars(e) \subseteq Chars(source) /\ "." \notin Chars(e)
  BY ExtensionOf DEF IsName
<1> HIDE DEF e
<1>2. s \in Text /\ Chars(s) \subseteq Chars(e) /\ Strip(s) = s
  BY <1>1, StripOf
<1>3. Suffix(source) = s
  BY DEF Suffix, e
<1> HIDE DEF s
<1>4. LStrip(s, ".") = s
  <2>1. CASE s = Empty
    BY <1>2, <2>1, LStripOf
  <2>2. CASE s # Empty
    <3>1. Len(s) \in Nat /\ Len(s) # 0
      BY <1>2, <2>2, EmptyText
    <3>2. 1 \in 1..Len(s)
      BY <3>1
    <3>3. s[1] \in Chars(s)
      BY <3>2 DEF Chars
    <3>4. s[1] # "."
      BY <1>1, <1>2, <3>3
    <3> QED
      BY <1>2, <2>2, <3>4, LStripOf
  <2> QED
    BY <2>1, <2>2
<1> QED
  BY <1>1, <1>2, <1>3, <1>4 DEF IsName

\* What a rename makes of a name.
LEMMA DestinationOf ==
  ASSUME NEW r \in Results, Nameable(r), NEW source, IsName(source)
  PROVE  LET s == Suffix(source)
             d == Destination(r, source)
         IN  /\ d = IF s = Empty THEN Base(r) ELSE Base(r) \o <<".">> \o s
             /\ IsName(d) /\ \E n \in 1..Len(d) : d[n] # "."
             /\ s # Empty => Extension(d) = s
<1> DEFINE base == Base(r)
           s == Suffix(source)
           d == Destination(r, source)
<1>1. IsName(base) /\ base # Empty /\ \E n \in 1..Len(base) : base[n] # "."
  BY BaseOf
<1>2. IsName(s) /\ "." \notin Chars(s) /\ LStrip(s, ".") = s
  BY SuffixOf
<1>3. d = IF s = Empty THEN base ELSE base \o <<".">> \o s
  BY <1>2 DEF Destination, Filename, Suffix
<1> HIDE DEF base, s, d
<1>4. CASE s = Empty
  BY <1>1, <1>3, <1>4 DEF base, s, d
<1>5. CASE s # Empty
  <2>1. IsName(<<".">>)
    BY Literals
  <2> DEFINE front == base \o <<".">>
  <2>2. IsName(front) /\ Len(front) = Len(base) + Len(<<".">>) /\ \A i \in 1..Len(base) : front[i] = base[i]
    BY <1>1, <2>1, BothAreNames, CharsOfBoth DEF IsName
  <2> HIDE DEF front
  <2>3. /\ IsName(front \o s) /\ Len(front \o s) = Len(front) + Len(s)
        /\ \A i \in 1..Len(front) : (front \o s)[i] = front[i]
    BY <1>2, <2>2, BothAreNames, CharsOfBoth DEF IsName
  <2>4. d = front \o s
    BY <1>3, <1>5 DEF front
  <2>5. Extension(d) = s
    BY <1>1, <1>2, <1>3, <1>5, ExtensionOfFilename DEF IsName
  <2>6. Len(base) \in Nat /\ Len(s) \in Nat /\ Len(<<".">>) \in Nat /\ Len(front) \in Nat
    BY <1>1, <1>2, <2>1, <2>2, EmptyText DEF IsName
  <2>7. PICK n \in 1..Len(base) : base[n] # "."
    BY <1>1
  <2>8. n \in 1..Len(front) /\ n \in 1..Len(d)
    BY <2>2, <2>3, <2>4, <2>6
  <2>9. d[n] # "."
    BY <2>2, <2>3, <2>4, <2>7, <2>8
  <2> QED
    BY <1>3, <1>5, <2>3, <2>4, <2>5, <2>8, <2>9 DEF base, s, d
<1> QED
  BY <1>4, <1>5

\* A destination with an extension is its own destination, and so is the destination of
\* any destination.
LEMMA DestinationSettles ==
  ASSUME NEW r \in Results, Nameable(r), NEW source, IsName(source)
  PROVE  LET d == Destination(r, source)
         IN  /\ Suffix(source) # Empty => Suffix(d) = Suffix(source) /\ Destination(r, d) = d
             /\ Destination(r, Destination(r, d)) = Destination(r, d)
<1>1. ASSUME NEW x, IsName(x), Suffix(x) # Empty
      PROVE  /\ Suffix(Destination(r, x)) = Suffix(x)
             /\ Destination(r, Destination(r, x)) = Destination(r, x)
  <2> DEFINE d == Destination(r, x)
  <2>1. IsName(d) /\ Extension(d) = Suffix(x) /\ d = Base(r) \o <<".">> \o Suffix(x)
    BY <1>1, DestinationOf
  <2>2. Suffix(d) = Suffix(x)
    BY <1>1, <2>1, SuffixOf DEF Suffix
  <2> HIDE DEF d
  <2>3. Destination(r, d) = Base(r) \o <<".">> \o Suffix(d)
    BY <1>1, <2>1, <2>2, DestinationOf
  <2> QED
    BY <2>1, <2>2, <2>3 DEF d
<1> DEFINE d == Destination(r, source)
<1>2. IsName(d)
  BY DestinationOf
<1>3. CASE Suffix(source) # Empty
  BY <1>1, <1>3
<1>4. CASE Suffix(source) = Empty
  <2>1. d = Base(r)
    BY <1>4, DestinationOf
  <2> HIDE DEF d
  <2>2. CASE Suffix(d) # Empty
    BY <1>1, <1>2, <1>4, <2>2 DEF d
  <2>3. CASE Suffix(d) = Empty
    <3>1. Destination(r, d) = d
      BY <1>2, <2>1, <2>3, DestinationOf
    <3> QED
      BY <1>4, <3>1 DEF d
  <2> QED
    BY <2>2, <2>3
<1> QED
  BY <1>3, <1>4

-----------------------------------------------------------------------------
(* The file, renamed again and again.                                      *)

\* A first rename gives the destination of the name the file came with; from the second
\* one on the file has the name that it is to have.
NameInv ==
  /\ result \in Results /\ original \in Names /\ renames \in Nat /\ IsName(name)
  /\ renames = 0 => name = original
  /\ renames > 0 /\ ~rejected => Nameable(result)
  /\ renames = 1 /\ ~rejected => name = Destination(result, original)
  /\ renames > 1 /\ ~rejected =>
       /\ Destination(result, name) = name
       /\ Suffix(original) # Empty => name = Destination(result, original)

LEMMA NamesAreNames == \A n \in Names : IsName(n)
<1> SUFFICES ASSUME NEW n \in Names PROVE IsName(n)
  OBVIOUS
<1>1. n \in Seq(STRING) /\ \A i \in 1..Len(n) : n[i] \notin Invalid
  BY NamingAssumption
<1> QED
  BY <1>1, StringsAreTexts DEF IsName, Chars

LEMMA InitName == Init => NameInv
BY NamesAreNames DEF Init, NameInv

LEMMA RenameName == ASSUME NameInv, Rename PROVE NameInv'
<1>1. UNCHANGED <<result, original>> /\ renames' = renames + 1 /\ ~rejected /\ renames \in Nat
  BY DEF Rename, NameInv
<1>2. CASE ~Nameable(result)
  <2>1. rejected' = TRUE /\ name' = name
    BY <1>2 DEF Rename
  <2>2. IsName(name')
    BY <2>1 DEF NameInv
  <2> QED
    BY <1>1, <2>1, <2>2 DEF NameInv
<1>3. CASE Nameable(result)
  <2>1. name' = Destination(result, name) /\ rejected' = rejected
    BY <1>3 DEF Rename
  <2>2. result \in Results /\ IsName(name) /\ IsName(original)
    BY NamesAreNames DEF NameInv
  <2>3. IsName(name')
    BY <1>3, <2>1, <2>2, DestinationOf
  <2>4. CASE renames = 0
    <3>1. name' = Destination(result, original) /\ renames' = 1
      BY <1>1, <2>1, <2>4 DEF NameInv
    <3> QED
      BY <1>1, <1>3, <2>1, <2>3, <3>1 DEF NameInv
  <2>5. CASE renames = 1
    <3>1. name = Destination(result, original) /\ renames' = 2
      BY <1>1, <2>5 DEF NameInv
    <3>2. Destination(result, name') = name'
      BY <1>3, <2>1, <2>2, <3>1, DestinationSettles
    <3>3. Suffix(original) # Empty => name' = name
      BY <1>3, <2>1, <2>2, <3>1, DestinationSettles
    <3> QED
      BY <1>1, <1>3, <2>1, <2>3, <3>1, <3>2, <3>3 DEF NameInv
  <2>6. CASE renames > 1
    <3>1. Destination(result, name) = name
      BY <1>1, <2>6 DEF NameInv
    <3>2. name' = name
      BY <2>1, <3>1
    <3>3. Suffix(original) # Empty => name' = Destination(result, original)
      BY <1>1, <2>6, <3>2 DEF NameInv
    <3> HIDE DEF NameInv
    <3>4. Destination(result, name') = name'
      BY <3>1, <3>2
    <3>5. renames' > 1 /\ renames' \in Nat
      BY <1>1, <2>6
    <3>6. result' \in Results /\ original' \in Names
      BY <1>1 DEF NameInv
    <3> QED
      BY <1>1, <1>3, <2>1, <2>3, <3>3, <3>4, <3>5, <3>6 DEF NameInv
  <2> QED
    BY <1>1, <2>4, <2>5, <2>6
<1> QED
  BY <1>2, <1>3

LEMMA NextName == NameInv /\ [Next]_vars => NameInv'
<1>1. ASSUME NameInv, UNCHANGED vars PROVE NameInv'
  BY <1>1 DEF vars, NameInv
<1> QED
  BY <1>1, RenameName DEF Next

\* What is known of the names holds however often the file is renamed.
THEOREM NameInvariance == Spec => []NameInv
BY InitName, NextName, PTL DEF Spec

\* A name that was given is the destination of some name.
LEMMA RenamedIsDestination ==
  ASSUME NameInv, Renamed
  PROVE  \E source : IsName(source) /\ name = Destination(result, source) /\ Nameable(result)
                     /\ result \in Results
<1>1. renames = 1 \/ renames > 1
  BY DEF Renamed, NameInv
<1>2. CASE renames = 1
  BY <1>2, NamesAreNames DEF Renamed, NameInv
<1>3. CASE renames > 1
  BY <1>3 DEF Renamed, NameInv
<1> QED
  BY <1>1, <1>2, <1>3

LEMMA StaysFollows == NameInv => StaysInDirectory
<1> SUFFICES ASSUME NameInv, Renamed PROVE StaysInDirectory
  BY DEF StaysInDirectory
<1>1. \E n \in 1..Len(name) : name[n] # "."
  BY RenamedIsDestination, DestinationOf
<1>2. IsName(name)
  BY DEF NameInv
<1>3. \A i \in 1..Len(name) : name[i] \notin Invalid
  BY <1>2 DEF IsName, Chars
<1>4. name # Empty
  BY <1>1 DEF Empty
<1>5. name # <<".">>
  <2> SUFFICES ASSUME name = <<".">> PROVE FALSE
    OBVIOUS
  <2>1. \A i \in 1..Len(<<".">>) : <<".">>[i] = "."
    OBVIOUS
  <2> QED
    BY <1>1, <2>1
<1>6. name # <<".", ".">>
  <2> SUFFICES ASSUME name = <<".", ".">> PROVE FALSE
    OBVIOUS
  <2>1. \A i \in 1..Len(<<".", ".">>) : <<".", ".">>[i] = "."
    OBVIOUS
  <2> QED
    BY <1>1, <2>1
<1> QED
  BY <1>3, <1>4, <1>5, <1>6 DEF StaysInDirectory

\* Renaming never leaves the directory: not with any title, identifier, region, revision
\* or disc, and not with any extension a file may have.
THEOREM NamesStay == Spec => []StaysInDirectory
BY NameInvariance, StaysFollows, PTL

LEMMA SettlesFollows == NameInv => Settles
<1> SUFFICES ASSUME NameInv, Renamed PROVE Settles
  BY DEF Settles, ExtensionKept
<1>1. result \in Results /\ IsName(original) /\ Nameable(result)
  BY NamesAreNames DEF NameInv, Renamed
<1>2. (renames = 1 \/ renames > 1) /\ ~rejected
  BY DEF Renamed, NameInv
<1>3. Suffix(original) # Empty => name = Destination(result, original)
  BY <1>2 DEF NameInv
<1>4. Suffix(original) # Empty => Extension(name) = Suffix(original) /\ Destination(result, name) = name
  BY <1>1, <1>3, DestinationOf, DestinationSettles
<1>5. renames > 1 => Destination(result, name) = name
  BY <1>2 DEF NameInv
<1> QED
  BY <1>4, <1>5 DEF Settles, ExtensionKept, Suffix

\* Renaming comes to rest with the extension the file came with, whatever dots and blanks
\* the title, the extension and the name have, however often the file is renamed.
THEOREM RenamesSettle == Spec => []Settles
BY NameInvariance, SettlesFollows, PTL

\* Nothing but the title of an identification of another platform is looked at.
LEMMA ForeignFollows == NameInv => ForeignMetadataNamesNothing
<1> SUFFICES ASSUME NameInv, renames = 1, ~rejected, ~result.agrees
             PROVE  name = Destination([result EXCEPT !.identifier = None, !.region = None,
                                                      !.disc = None, !.revision = None], original)
  BY DEF ForeignMetadataNamesNothing
<1> DEFINE bare == [result EXCEPT !.identifier = None, !.region = None,
                                  !.disc = None, !.revision = None]
<1>1. result \in NamingFields
  BY NamingAssumption DEF NameInv
<1>2. bare.title = result.title /\ bare.agrees = result.agrees
  BY <1>1 DEF NamingFields
<1> HIDE DEF bare
<1>3. \A r \in {result, bare} :
        ~r.agrees /\ Identifier(r) = None /\ Region(r) = None /\ Revision(r) = None /\ ~HasDisc(r)
  BY <1>2 DEF Identifier, Region, Revision, HasDisc, Qualified
<1>4. Base(bare) = Base(result)
  BY <1>2, <1>3 DEF Base
<1>5. name = Destination(result, original)
  BY DEF NameInv
<1> QED
  BY <1>4, <1>5 DEF Destination, bare

\* Local metadata of another platform alter nothing in the proposed filename.
THEOREM ForeignIsIgnored == Spec => []ForeignMetadataNamesNothing
BY NameInvariance, ForeignFollows, PTL
===============================================================================
