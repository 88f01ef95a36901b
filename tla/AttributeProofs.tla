--------------------------- MODULE AttributeProofs ----------------------------
(***************************************************************************)
(* Proofs about AttributeViews, for any elements, attributes, values,       *)
(* tokens and keys: what is written into a text is read back from it, and   *)
(* so every view shows what the standard says the attributes are.           *)
(***************************************************************************)
EXTENDS AttributeViews, Folding, FunctionTheorems

-----------------------------------------------------------------------------
(* Texts.  A text without a symbol is one over the other symbols.             *)
Text       == Seq(Symbols)
Free(sep)  == Seq(Symbols \ {sep})
Pieces     == Seq(Text) \ {<<>>}

LEMMA MarksIn == Space \in Symbols /\ Semicolon \in Symbols /\ Colon \in Symbols
BY DEF Symbols

LEMMA MarksDiffer == Colon # Semicolon
BY Zenon DEF Colon, Semicolon

LEMMA NoneIn ==
  ASSUME NEW A
  PROVE  <<>> \in Seq(A) /\ Len(<<>>) = 0
OBVIOUS

LEMMA InToSet ==
  ASSUME NEW A, NEW s \in Seq(A), NEW x
  PROVE  x \in ToSet(s) <=> \E i \in 1..Len(s) : s[i] = x
<1>1. DOMAIN s = 1..Len(s)
  OBVIOUS
<1>2. ToSet(s) = {s[i] : i \in 1..Len(s)}
  BY <1>1 DEF ToSet
<1>3. QED
  BY <1>2

SplitStep(pieces, c, sep) ==
  IF c = sep THEN Append(pieces, <<>>)
  ELSE [pieces EXCEPT ![Len(pieces)] = Append(@, c)]

LEMMA SplitStepTyped ==
  ASSUME NEW pieces \in Pieces, NEW c \in Symbols, NEW sep
  PROVE  SplitStep(pieces, c, sep) \in Pieces
<1> DEFINE last == Append(pieces[Len(pieces)], c)
           longer == [pieces EXCEPT ![Len(pieces)] = last]
<1>1. pieces \in Seq(Text) /\ Len(pieces) \in 1..Len(pieces) /\ pieces[Len(pieces)] \in Text
  BY DEF Pieces
<1>2. last \in Text /\ <<>> \in Text
  <2> DEFINE p == pieces[Len(pieces)]
  <2>1. p \in Seq(Symbols)
    BY <1>1 DEF Text
  <2> HIDE DEF p
  <2>2. Append(p, c) \in Seq(Symbols)
    BY <2>1, AppendProperties
  <2>3. QED
    BY <2>2 DEF Text, p
<1>3. Append(pieces, <<>>) \in Pieces
  BY <1>1, <1>2 DEF Pieces
<1>4. longer \in Pieces
  <2> HIDE DEF last
  <2>1. longer \in [1..Len(pieces) -> Text] /\ Len(pieces) \in Nat
    BY <1>1, <1>2
  <2>2. longer \in Seq(Text) /\ Len(longer) = Len(pieces)
    <3> HIDE DEF longer
    <3> QED BY <2>1
  <2>3. QED
    BY <1>1, <2>2 DEF Pieces
<1>5. QED
  BY <1>3, <1>4 DEF SplitStep

SplitTrace(step, text, sep) ==
  /\ step[0] = << <<>> >>
  /\ step[Len(text)] = Split(text, sep)
  /\ step \in [0..Len(text) -> Pieces]
  /\ \A k \in 1..Len(text) : step[k] = SplitStep(step[k - 1], text[k], sep)

LEMMA SplitSteps ==
  ASSUME NEW text \in Text, NEW sep
  PROVE  \E step : SplitTrace(step, text, sep)
<1> DEFINE n == Len(text)
           base == << <<>> >>
           Body(iter, s) == SplitStep(iter[s \ {Max(s)}], text[Max(s)], sep)
           F(iter) == [s \in SUBSET DOMAIN text |-> IF s = {} THEN base ELSE Body(iter, s)]
           each == CHOOSE iter : iter = F(iter)
           step == [k \in 1..n |-> [x \in Pieces |-> SplitStep(x, text[k], sep)]]
<1>1. n \in Nat /\ DOMAIN text = 1..n /\ \A k \in 1..n : text[k] \in Symbols
  BY DEF Text
<1>2. Split(text, sep) = each[1..n]
  BY <1>1 DEF Split, FoldLeft, MapThenFoldSet, SplitStep
<1>3. step \in [1..n -> [Pieces -> Pieces]]
  BY <1>1, SplitStepTyped
<1>4. base \in Pieces
  BY DEF Pieces, Text
<1>5. PICK f \in [SUBSET (1..n) -> Pieces] : Folding(f, base, n, step)
  <2> HIDE DEF step, n, base
  <2> QED BY ONLY <1>1, <1>3, <1>4, FoldExists
<1>6. f = F(f)
  <2>1. ASSUME NEW s \in SUBSET (1..n), s # {}
        PROVE  f[s] = Body(f, s)
    <3>1. Max(s) \in 1..n
      BY <1>1, <2>1, MaxIn
    <3>2. f[s \ {Max(s)}] \in Pieces
      BY <1>5
    <3>3. f[s] = step[Max(s)][f[s \ {Max(s)}]]
      BY <1>5, <2>1 DEF Folding
    <3>4. QED
      BY <3>1, <3>2, <3>3
  <2>2. f[{}] = base
    BY <1>5 DEF Folding
  <2> HIDE DEF Body, step, base
  <2>3. QED
    BY <1>1, <1>5, <2>1, <2>2
<1>7. each = F(each)
  <2> HIDE DEF F
  <2> QED BY <1>6
<1> DEFINE body == [s \in SUBSET (1..n) |-> Body(each, s)]
<1>8. Unfolding(each, base, n, body)
  <2> HIDE DEF each, Body, base
  <2> QED BY <1>1, <1>7 DEF Unfolding
<1> HIDE DEF each
<1>9. UnfoldedBy(each, base, n, body)
  <2> HIDE DEF body, base
  <2> QED BY <1>1, <1>8, FoldSteps
<1>10. \A k \in 1..n : each[1..k] = SplitStep(each[1..(k - 1)], text[k], sep)
  <2>1. TAKE k \in 1..n
  <2>2. 1..k \in SUBSET (1..n)
    OBVIOUS
  <2>3. body[1..k] = SplitStep(each[(1..k) \ {Max(1..k)}], text[Max(1..k)], sep)
    BY <2>2
  <2> HIDE DEF body, base
  <2>4. QED
    BY <1>9, <2>3 DEF UnfoldedBy
<1> DEFINE along == [k \in 0..n |-> each[1..k]]
<1>11. along[0] = base /\ along[n] = Split(text, sep)
  BY <1>1, <1>2, <1>9 DEF UnfoldedBy
<1>12. \A k \in 1..n : along[k] = SplitStep(along[k - 1], text[k], sep)
  BY <1>1, <1>10
<1>13. along \in [0..n -> Pieces]
  <2>1. ASSUME NEW k \in 1..n, along[k - 1] \in Pieces PROVE along[k] \in Pieces
    <3>1. along[k] = SplitStep(along[k - 1], text[k], sep) /\ text[k] \in Symbols
      BY <1>1, <1>12
    <3> HIDE DEF along, n
    <3>2. SplitStep(along[k - 1], text[k], sep) \in Pieces
      BY <2>1, <3>1, SplitStepTyped
    <3>3. QED
      BY <3>1, <3>2
  <2> DEFINE reach == [k \in Nat |-> Pieces]
  <2>2. along[0] \in reach[0] /\ \A k \in 1..n : along[k - 1] \in reach[k - 1] => along[k] \in reach[k]
    <3>1. 0 \in Nat /\ \A k \in 1..n : k \in Nat /\ k - 1 \in Nat
      BY <1>1
    <3> HIDE DEF along, n
    <3> QED BY <1>4, <1>11, <2>1, <3>1
  <2> HIDE DEF along, n
  <2>3. \A k \in 0..n : along[k] \in reach[k]
    <3> HIDE DEF reach
    <3> QED BY ONLY <1>1, <2>2, StepsReach
  <2>4. QED
    BY <1>1, <2>3 DEF along
<1>14. QED
  <2> HIDE DEF along, n
  <2> QED BY <1>11, <1>12, <1>13 DEF n, SplitTrace

LEMMA SplitAppend ==
  ASSUME NEW text \in Text, NEW sep
  PROVE  /\ Split(text, sep) \in Pieces
         /\ Split(<<>>, sep) = << <<>> >>
         /\ \A c \in Symbols : Split(Append(text, c), sep) = SplitStep(Split(text, sep), c, sep)
<1> DEFINE n == Len(text)
<1>1. n \in Nat /\ <<>> \in Text /\ Len(<<>>) = 0
  BY DEF Text
<1>2. PICK f : SplitTrace(f, text, sep)
  BY SplitSteps
<1>20. /\ f[0] = << <<>> >> /\ f[n] = Split(text, sep) /\ f \in [0..n -> Pieces]
       /\ \A k \in 1..n : f[k] = SplitStep(f[k - 1], text[k], sep)
  BY <1>2 DEF SplitTrace
<1>3. Split(text, sep) \in Pieces
  BY <1>1, <1>20
<1>4. Split(<<>>, sep) = << <<>> >>
  BY <1>1, SplitSteps DEF SplitTrace
<1>5. ASSUME NEW c \in Symbols PROVE Split(Append(text, c), sep) = SplitStep(Split(text, sep), c, sep)
  <2> DEFINE longer == Append(text, c)
  <2>1. /\ longer \in Text /\ Len(longer) = n + 1 /\ longer[n + 1] = c
        /\ \A k \in 1..n : longer[k] = text[k]
    BY AppendProperties DEF Text
  <2> HIDE DEF longer, n
  <2>20. PICK g : SplitTrace(g, longer, sep)
    BY <2>1, SplitSteps
  <2>2. /\ g[0] = << <<>> >> /\ g[n + 1] = Split(longer, sep)
        /\ \A k \in 1..n + 1 : g[k] = SplitStep(g[k - 1], longer[k], sep)
    BY <2>1, <2>20 DEF SplitTrace
  <2>3. f[0] = g[0] /\ \A k \in 1..n : f[k - 1] = g[k - 1] => f[k] = g[k]
    <3>1. ASSUME NEW k \in 1..n, f[k - 1] = g[k - 1] PROVE f[k] = g[k]
      <4>1. k \in 1..n + 1
        BY <1>1
      <4>2. f[k] = SplitStep(f[k - 1], text[k], sep) /\ g[k] = SplitStep(g[k - 1], longer[k], sep) /\ longer[k] = text[k]
        BY <1>20, <2>1, <2>2, <4>1
      <4>3. QED
        BY <3>1, <4>2
    <3>2. QED
      BY <1>20, <2>2, <3>1
  <2>4. f[n] = g[n]
    BY ONLY <1>1, <2>3, SameSteps
  <2>5. n + 1 \in 1..n + 1 /\ (n + 1) - 1 = n
    BY <1>1
  <2>6. g[n + 1] = SplitStep(g[n], longer[n + 1], sep)
    BY <2>2, <2>5
  <2>7. QED
    BY <1>20, <2>1, <2>2, <2>4, <2>6 DEF longer
<1>6. QED
  BY <1>3, <1>4, <1>5

(* Pieces do not hold the separator; a text without it goes to the last one.  *)
LEMMA SplitFree ==
  ASSUME NEW sep, NEW text \in Text
  PROVE  Split(text, sep) \in Seq(Free(sep)) \ {<<>>}
<1> DEFINE T == {t \in Text : Split(t, sep) \in Seq(Free(sep)) \ {<<>>}}
<1>1. <<>> \in T
  <2>1. <<>> \in Text /\ Split(<<>>, sep) = << <<>> >>
    BY SplitAppend DEF Text
  <2>2. <<>> \in Free(sep)
    BY DEF Free
  <2>3. << <<>> >> \in Seq(Free(sep)) \ {<<>>}
    BY <2>2
  <2>4. QED
    BY <2>1, <2>3
<1>2. ASSUME NEW t \in Text, NEW c \in Symbols, t \in T PROVE Append(t, c) \in T
  <2> DEFINE p == Split(t, sep)
             n == Len(p)
             last == Append(p[n], c)
             longer == [p EXCEPT ![n] = last]
  <2>1. p \in Seq(Free(sep)) /\ n \in 1..n /\ n \in Nat /\ p[n] \in Free(sep)
    BY <1>2
  <2>2. Append(t, c) \in Text
    BY AppendProperties DEF Text
  <2>3. Split(Append(t, c), sep) = SplitStep(p, c, sep)
    BY SplitAppend
  <2> HIDE DEF p
  <2>4. CASE c = sep
    <3>1. <<>> \in Free(sep)
      BY DEF Free
    <3>2. Append(p, <<>>) \in Seq(Free(sep)) \ {<<>>}
      BY <2>1, <3>1
    <3>3. QED
      BY <2>2, <2>3, <2>4, <3>2 DEF SplitStep
  <2>5. CASE c # sep
    <3>1. last \in Free(sep)
      <4>1. c \in Symbols \ {sep}
        BY <2>5
      <4>2. QED
        BY <2>1, <4>1, AppendProperties DEF Free
    <3> HIDE DEF last, n
    <3>2. longer \in [1..n -> Free(sep)] /\ n \in Nat
      BY <2>1, <3>1 DEF n
    <3>3. longer \in Seq(Free(sep)) /\ Len(longer) = n
      <4> HIDE DEF longer
      <4> QED BY <3>2
    <3>4. longer # <<>>
      BY <2>1, <3>3
    <3>5. SplitStep(p, c, sep) = longer
      BY <2>5 DEF SplitStep, n, last
    <3> HIDE DEF longer
    <3>6. QED
      BY <2>2, <2>3, <3>3, <3>4, <3>5
  <2>6. QED
    BY <2>4, <2>5
<1>3. Seq(Symbols) \subseteq T
  <2> HIDE DEF T
  <2> QED BY <1>1, <1>2, SequenceInduction DEF Text
<1>4. QED
  BY <1>3 DEF Text

LEMMA TextAppend ==
  ASSUME NEW r \in Text, NEW q \in Text, NEW c \in Symbols
  PROVE  Append(r \o q, c) = r \o Append(q, c)
<1>1. r \in Seq(Symbols) /\ q \in Seq(Symbols)
  BY DEF Text
<1>2. QED
  BY <1>1, AppendToWhole

LEMMA SplitPiece ==
  ASSUME NEW sep, NEW text \in Text, NEW p \in Free(sep)
  PROVE  Split(text \o p, sep) = [Split(text, sep) EXCEPT ![Len(Split(text, sep))] = @ \o p]
<1> DEFINE s == Split(text, sep)
           n == Len(s)
           Whole(q) == [s EXCEPT ![n] = s[n] \o q]
           T == {q \in Free(sep) : Split(text \o q, sep) = Whole(q)}
<1>1. s \in Seq(Text) /\ n \in Nat /\ n \in 1..n /\ s[n] \in Text
  BY SplitAppend DEF Pieces
<1>2. <<>> \in T
  <2>1. <<>> \in Free(sep) /\ text \o <<>> = text /\ s[n] \o <<>> = s[n]
    <3> HIDE DEF s, n
    <3> QED BY <1>1 DEF Free, Text
  <2>2. Whole(<<>>) = s
    <3> HIDE DEF s
    <3> QED BY <1>1, <2>1
  <2>3. QED
    BY <2>1, <2>2
<1>3. ASSUME NEW q \in Free(sep), NEW c \in Symbols \ {sep}, q \in T PROVE Append(q, c) \in T
  <2>1. q \in Text /\ c \in Symbols /\ Append(q, c) \in Free(sep)
    <3>1. q \in Seq(Symbols)
      BY SeqMonotonic DEF Free
    <3>2. QED
      BY <3>1, AppendProperties DEF Free, Text
  <2>2. text \o q \in Text /\ text \o Append(q, c) = Append(text \o q, c)
    BY <2>1, AppendToWhole, ConcatProperties DEF Text
  <2>3. Split(Append(text \o q, c), sep) = SplitStep(Whole(q), c, sep)
    BY <1>3, <2>1, <2>2, SplitAppend
  <2> HIDE DEF s
  <2>4. Len(Whole(q)) = n /\ Whole(q)[n] = s[n] \o q
    BY <1>1
  <2>5. SplitStep(Whole(q), c, sep) = [Whole(q) EXCEPT ![n] = Append(s[n] \o q, c)]
    BY <2>4 DEF SplitStep
  <2>6. Append(s[n] \o q, c) = s[n] \o Append(q, c)
    <3> DEFINE r == s[n]
    <3>1. r \in Text /\ q \in Text /\ c \in Symbols
      BY <1>1, <2>1
    <3> HIDE DEF r
    <3>2. Append(r \o q, c) = r \o Append(q, c)
      BY <3>1, TextAppend
    <3>3. QED
      BY <3>2 DEF r
  <2>7. [Whole(q) EXCEPT ![n] = Append(s[n] \o q, c)] = Whole(Append(q, c))
    BY <1>1, <2>6
  <2>8. QED
    BY <2>1, <2>2, <2>3, <2>5, <2>7 DEF s
<1>4. Seq(Symbols \ {sep}) \subseteq T
  <2> HIDE DEF T
  <2> QED BY <1>2, <1>3, SequenceInduction DEF Free
<1>5. QED
  BY <1>4 DEF Free

-----------------------------------------------------------------------------
JoinStep(text, piece, sep) == IF text = <<>> THEN piece ELSE Append(text, sep) \o piece

LEMMA JoinStepTyped ==
  ASSUME NEW text \in Text, NEW piece \in Text, NEW sep \in Symbols
  PROVE  JoinStep(text, piece, sep) \in Text
<1>1. Append(text, sep) \in Text
  BY AppendProperties DEF Text
<1>2. Append(text, sep) \o piece \in Text
  <2> DEFINE longer == Append(text, sep)
  <2> HIDE DEF longer
  <2> QED BY <1>1, ConcatProperties DEF Text, longer
<1>3. QED
  BY <1>2 DEF JoinStep

JoinTrace(step, pieces, sep) ==
  /\ step[0] = <<>>
  /\ step[Len(pieces)] = JoinedBy(pieces, sep)
  /\ step \in [0..Len(pieces) -> Text]
  /\ \A k \in 1..Len(pieces) : step[k] = JoinStep(step[k - 1], pieces[k], sep)

LEMMA JoinSteps ==
  ASSUME NEW pieces \in Seq(Text), NEW sep \in Symbols
  PROVE  \E step : JoinTrace(step, pieces, sep)
<1> DEFINE n == Len(pieces)
           base == <<>>
           Body(iter, s) == JoinStep(iter[s \ {Max(s)}], pieces[Max(s)], sep)
           F(iter) == [s \in SUBSET DOMAIN pieces |-> IF s = {} THEN base ELSE Body(iter, s)]
           each == CHOOSE iter : iter = F(iter)
           step == [k \in 1..n |-> [x \in Text |-> JoinStep(x, pieces[k], sep)]]
<1>1. n \in Nat /\ DOMAIN pieces = 1..n /\ \A k \in 1..n : pieces[k] \in Text
  BY DEF Text
<1>2. JoinedBy(pieces, sep) = each[1..n]
  BY <1>1 DEF JoinedBy, FoldLeft, MapThenFoldSet, JoinStep
<1>3. step \in [1..n -> [Text -> Text]]
  BY <1>1, JoinStepTyped
<1>4. base \in Text
  BY DEF Text
<1>5. PICK f \in [SUBSET (1..n) -> Text] : Folding(f, base, n, step)
  <2> HIDE DEF step, n, base
  <2> QED BY ONLY <1>1, <1>3, <1>4, FoldExists
<1>6. f = F(f)
  <2>1. ASSUME NEW s \in SUBSET (1..n), s # {}
        PROVE  f[s] = Body(f, s)
    <3>1. Max(s) \in 1..n
      BY <1>1, <2>1, MaxIn
    <3>2. f[s \ {Max(s)}] \in Text
      BY <1>5
    <3>3. f[s] = step[Max(s)][f[s \ {Max(s)}]]
      BY <1>5, <2>1 DEF Folding
    <3>4. QED
      BY <3>1, <3>2, <3>3
  <2>2. f[{}] = base
    BY <1>5 DEF Folding
  <2> HIDE DEF Body, step, base
  <2>3. QED
    BY <1>1, <1>5, <2>1, <2>2
<1>7. each = F(each)
  <2> HIDE DEF F
  <2> QED BY <1>6
<1> DEFINE body == [s \in SUBSET (1..n) |-> Body(each, s)]
<1>8. Unfolding(each, base, n, body)
  <2> HIDE DEF each, Body, base
  <2> QED BY <1>1, <1>7 DEF Unfolding
<1> HIDE DEF each
<1>9. UnfoldedBy(each, base, n, body)
  <2> HIDE DEF body, base
  <2> QED BY <1>1, <1>8, FoldSteps
<1>10. \A k \in 1..n : each[1..k] = JoinStep(each[1..(k - 1)], pieces[k], sep)
  <2>1. TAKE k \in 1..n
  <2>2. 1..k \in SUBSET (1..n)
    OBVIOUS
  <2>3. body[1..k] = JoinStep(each[(1..k) \ {Max(1..k)}], pieces[Max(1..k)], sep)
    BY <2>2
  <2> HIDE DEF body, base
  <2>4. QED
    BY <1>9, <2>3 DEF UnfoldedBy
<1> DEFINE along == [k \in 0..n |-> each[1..k]]
<1>11. along[0] = base /\ along[n] = JoinedBy(pieces, sep)
  BY <1>1, <1>2, <1>9 DEF UnfoldedBy
<1>12. \A k \in 1..n : along[k] = JoinStep(along[k - 1], pieces[k], sep)
  BY <1>1, <1>10
<1>13. along \in [0..n -> Text]
  <2>1. ASSUME NEW k \in 1..n, along[k - 1] \in Text PROVE along[k] \in Text
    <3>1. along[k] = JoinStep(along[k - 1], pieces[k], sep) /\ pieces[k] \in Text
      BY <1>1, <1>12
    <3> HIDE DEF along, n
    <3>2. JoinStep(along[k - 1], pieces[k], sep) \in Text
      BY <2>1, <3>1, JoinStepTyped
    <3>3. QED
      BY <3>1, <3>2
  <2> DEFINE reach == [k \in Nat |-> Text]
  <2>2. along[0] \in reach[0] /\ \A k \in 1..n : along[k - 1] \in reach[k - 1] => along[k] \in reach[k]
    <3>1. 0 \in Nat /\ \A k \in 1..n : k \in Nat /\ k - 1 \in Nat
      BY <1>1
    <3> HIDE DEF along, n
    <3> QED BY <1>4, <1>11, <2>1, <3>1
  <2> HIDE DEF along, n
  <2>3. \A k \in 0..n : along[k] \in reach[k]
    <3> HIDE DEF reach
    <3> QED BY ONLY <1>1, <2>2, StepsReach
  <2>4. QED
    BY <1>1, <2>3 DEF along
<1>14. QED
  <2> HIDE DEF along, n
  <2> QED BY <1>11, <1>12, <1>13 DEF n, JoinTrace

LEMMA JoinAppend ==
  ASSUME NEW pieces \in Seq(Text), NEW sep \in Symbols
  PROVE  /\ JoinedBy(pieces, sep) \in Text
         /\ JoinedBy(<<>>, sep) = <<>>
         /\ \A c \in Text : JoinedBy(Append(pieces, c), sep) = JoinStep(JoinedBy(pieces, sep), c, sep)
<1> DEFINE n == Len(pieces)
<1>1. n \in Nat /\ <<>> \in Seq(Text) /\ Len(<<>>) = 0
  BY DEF Text
<1>2. PICK f : JoinTrace(f, pieces, sep)
  BY JoinSteps
<1>20. /\ f[0] = <<>> /\ f[n] = JoinedBy(pieces, sep) /\ f \in [0..n -> Text]
       /\ \A k \in 1..n : f[k] = JoinStep(f[k - 1], pieces[k], sep)
  BY <1>2 DEF JoinTrace
<1>3. JoinedBy(pieces, sep) \in Text
  BY <1>1, <1>20
<1>4. JoinedBy(<<>>, sep) = <<>>
  BY <1>1, JoinSteps DEF JoinTrace
<1>5. ASSUME NEW c \in Text PROVE JoinedBy(Append(pieces, c), sep) = JoinStep(JoinedBy(pieces, sep), c, sep)
  <2> DEFINE longer == Append(pieces, c)
  <2>1. /\ longer \in Seq(Text) /\ Len(longer) = n + 1 /\ longer[n + 1] = c
        /\ \A k \in 1..n : longer[k] = pieces[k]
    BY AppendProperties DEF Text
  <2> HIDE DEF longer, n
  <2>20. PICK g : JoinTrace(g, longer, sep)
    BY <2>1, JoinSteps
  <2>2. /\ g[0] = <<>> /\ g[n + 1] = JoinedBy(longer, sep)
        /\ \A k \in 1..n + 1 : g[k] = JoinStep(g[k - 1], longer[k], sep)
    BY <2>1, <2>20 DEF JoinTrace
  <2>3. f[0] = g[0] /\ \A k \in 1..n : f[k - 1] = g[k - 1] => f[k] = g[k]
    <3>1. ASSUME NEW k \in 1..n, f[k - 1] = g[k - 1] PROVE f[k] = g[k]
      <4>1. k \in 1..n + 1
        BY <1>1
      <4>2. f[k] = JoinStep(f[k - 1], pieces[k], sep) /\ g[k] = JoinStep(g[k - 1], longer[k], sep) /\ longer[k] = pieces[k]
        BY <1>20, <2>1, <2>2, <4>1
      <4>3. QED
        BY <3>1, <4>2
    <3>2. QED
      BY <1>20, <2>2, <3>1
  <2>4. f[n] = g[n]
    BY ONLY <1>1, <2>3, SameSteps
  <2>5. n + 1 \in 1..n + 1 /\ (n + 1) - 1 = n
    BY <1>1
  <2>6. g[n + 1] = JoinStep(g[n], longer[n + 1], sep)
    BY <2>2, <2>5
  <2>7. QED
    BY <1>20, <2>1, <2>2, <2>4, <2>6 DEF longer
<1>6. QED
  BY <1>3, <1>4, <1>5

LEMMA SplitWord ==
  ASSUME NEW sep, NEW w \in Free(sep)
  PROVE  Split(w, sep) = <<w>>
<1> DEFINE one == << <<>> >>
<1>1. <<>> \in Text /\ w \in Seq(Symbols)
  BY SeqMonotonic DEF Text, Free
<1>2. Split(<<>>, sep) = one
  BY <1>1, SplitAppend
<1>3. <<>> \o w = w
  BY <1>1
<1>4. Split(<<>> \o w, sep) = [Split(<<>>, sep) EXCEPT ![Len(Split(<<>>, sep))] = @ \o w]
  BY <1>1, SplitPiece
<1>5. Len(one) = 1 /\ one[1] = <<>> /\ [one EXCEPT ![1] = w] = <<w>>
  OBVIOUS
<1> HIDE DEF one
<1>6. QED
  BY <1>2, <1>3, <1>4, <1>5

(* What was joined is split into the same pieces.                             *)
LEMMA SplitJoined ==
  ASSUME NEW sep \in Symbols, NEW words \in Seq(Free(sep) \ {<<>>})
  PROVE  /\ JoinedBy(words, sep) \in Text /\ JoinedBy(<<>>, sep) = <<>>
         /\ words # <<>> => Split(JoinedBy(words, sep), sep) = words
<1> DEFINE Word == Free(sep) \ {<<>>}
           Kept(ws) == ws # <<>> => Split(JoinedBy(ws, sep), sep) = ws
           T == {ws \in Seq(Word) : Kept(ws)}
<1>1. Word \subseteq Text /\ Seq(Word) \subseteq Seq(Text)
  <2>1. Free(sep) \subseteq Text
    BY SeqMonotonic DEF Free, Text
  <2>2. Word \subseteq Text
    BY <2>1
  <2>3. QED
    BY <2>2, SeqMonotonic
<1>2. JoinedBy(<<>>, sep) = <<>>
  <2>1. <<>> \in Seq(Text)
    OBVIOUS
  <2>2. QED
    BY <2>1, JoinAppend
<1>3. <<>> \in T
  <2>1. Kept(<<>>) /\ <<>> \in Seq(Word)
    OBVIOUS
  <2>2. QED
    BY <2>1
<1>4. ASSUME NEW ws \in Seq(Word), NEW w \in Word, ws \in T PROVE Append(ws, w) \in T
  <2> DEFINE j == JoinedBy(ws, sep)
  <2>1. ws \in Seq(Text) /\ w \in Text /\ w \in Free(sep) /\ w # <<>> /\ Kept(ws)
    BY <1>1, <1>4
  <2>2. j \in Text /\ JoinedBy(Append(ws, w), sep) = JoinStep(j, w, sep)
    BY <2>1, JoinAppend
  <2>3. Append(ws, w) \in Seq(Word)
    BY <1>4
  <2>4. Split(JoinStep(j, w, sep), sep) = Append(ws, w)
    <3>1. CASE ws = <<>>
      <4>1. j = <<>> /\ <<>> \in Text
        BY <1>2, <3>1 DEF Text
      <4>2. JoinStep(j, w, sep) = w
        BY <4>1 DEF JoinStep
      <4>3. Split(w, sep) = <<w>>
        BY <2>1, SplitWord
      <4>4. QED
        BY <3>1, <4>2, <4>3
    <3>2. CASE ws # <<>>
      <4>1. Split(j, sep) = ws
        BY <2>1, <3>2
      <4>2. j # <<>>
        <5>1. SUFFICES ASSUME j = <<>> PROVE FALSE
          OBVIOUS
        <5>2. ws = << <<>> >>
          BY <2>2, <4>1, <5>1, SplitAppend
        <5>3. ws[1] \in Word
          BY <3>2
        <5>4. QED
          BY <5>2, <5>3
      <4> DEFINE t == Append(j, sep)
                 p == Append(ws, <<>>)
      <4> HIDE DEF j
      <4>3. JoinStep(j, w, sep) = t \o w /\ t \in Text
        BY <2>2, <4>2, AppendProperties DEF JoinStep, Text
      <4>4. Split(t, sep) = p
        BY <2>2, <4>1, SplitAppend DEF SplitStep
      <4>5. /\ p \in Seq(Text) /\ Len(p) = Len(ws) + 1 /\ p[Len(p)] = <<>>
        BY <2>1 DEF Text
      <4> HIDE DEF t, p
      <4>6. Split(t \o w, sep) = [p EXCEPT ![Len(p)] = @ \o w]
        <5>1. t \in Text /\ w \in Free(sep)
          BY <2>1, <4>3
        <5>2. Split(t \o w, sep) = [Split(t, sep) EXCEPT ![Len(Split(t, sep))] = @ \o w]
          BY ONLY <5>1, SplitPiece
        <5>3. QED
          BY <4>4, <5>2
      <4>7. <<>> \o w = w
        BY <2>1 DEF Text
      <4>8. [p EXCEPT ![Len(p)] = @ \o w] = Append(ws, w)
        <5> DEFINE p2 == [p EXCEPT ![Len(p)] = @ \o w]
                   aw == Append(ws, w)
        <5>1. /\ aw \in Seq(Text) /\ Len(aw) = Len(ws) + 1 /\ aw[Len(ws) + 1] = w
              /\ \A k \in 1..Len(ws) : aw[k] = ws[k]
          BY <2>1, AppendProperties
        <5>2. p \in Seq(Text) /\ \A k \in 1..Len(ws) : p[k] = ws[k]
          BY <2>1, <4>5 DEF p
        <5>3. Len(p2) = Len(ws) + 1 /\ p2[Len(ws) + 1] = w /\ \A k \in 1..Len(ws) : p2[k] = ws[k]
          BY <2>1, <4>5, <4>7, <5>2
        <5>4. p2 \in [1..(Len(ws) + 1) -> Text] /\ Len(ws) + 1 \in Nat
          BY <2>1, <4>5, <4>7, <5>2
        <5> HIDE DEF p2, aw
        <5>5. p2 \in Seq(Text)
          BY <5>4
        <5>6. \A k \in 1..Len(aw) : p2[k] = aw[k]
          BY <2>1, <5>1, <5>3
        <5>7. p2 = aw
          BY <5>1, <5>3, <5>5, <5>6, SeqEqual
        <5>8. QED
          BY <5>7 DEF p2, aw
      <4>9. QED
        BY <4>3, <4>6, <4>7, <4>8
    <3>3. QED
      BY <3>1, <3>2
  <2> HIDE DEF j
  <2>5. QED
    BY <2>2, <2>3, <2>4
<1>5. Seq(Word) \subseteq T
  <2> HIDE DEF T, Word
  <2> QED BY <1>3, <1>4, SequenceInduction
<1>6. words \in T
  BY <1>5
<1>7. JoinedBy(words, sep) \in Text
  BY <1>1, JoinAppend
<1>8. QED
  BY <1>2, <1>6, <1>7

-----------------------------------------------------------------------------
Added(words) == FoldLeft(Add, <<>>, words)

LEMMA AddTyped ==
  ASSUME NEW tokens \in Seq(Text), NEW token \in Text
  PROVE  Add(tokens, token) \in Seq(Text)
BY AppendProperties DEF Add

AddTrace(step, words) ==
  /\ step[0] = <<>>
  /\ step[Len(words)] = Added(words)
  /\ step \in [0..Len(words) -> Seq(Text)]
  /\ \A k \in 1..Len(words) : step[k] = Add(step[k - 1], words[k])

LEMMA AddSteps ==
  ASSUME NEW words \in Seq(Text)
  PROVE  \E step : AddTrace(step, words)
<1> DEFINE n == Len(words)
           base == <<>>
           Body(iter, s) == Add(iter[s \ {Max(s)}], words[Max(s)])
           F(iter) == [s \in SUBSET DOMAIN words |-> IF s = {} THEN base ELSE Body(iter, s)]
           each == CHOOSE iter : iter = F(iter)
           step == [k \in 1..n |-> [x \in Seq(Text) |-> Add(x, words[k])]]
<1>1. n \in Nat /\ DOMAIN words = 1..n /\ \A k \in 1..n : words[k] \in Text
  BY DEF Text
<1>2. Added(words) = each[1..n]
  BY <1>1 DEF Added, FoldLeft, MapThenFoldSet
<1>3. step \in [1..n -> [Seq(Text) -> Seq(Text)]]
  BY <1>1, AddTyped
<1>4. base \in Seq(Text)
  BY DEF Text
<1>5. PICK f \in [SUBSET (1..n) -> Seq(Text)] : Folding(f, base, n, step)
  <2> HIDE DEF step, n, base
  <2> QED BY ONLY <1>1, <1>3, <1>4, FoldExists
<1>6. f = F(f)
  <2>1. ASSUME NEW s \in SUBSET (1..n), s # {}
        PROVE  f[s] = Body(f, s)
    <3>1. Max(s) \in 1..n
      BY <1>1, <2>1, MaxIn
    <3>2. f[s \ {Max(s)}] \in Seq(Text)
      BY <1>5
    <3>3. f[s] = step[Max(s)][f[s \ {Max(s)}]]
      BY <1>5, <2>1 DEF Folding
    <3>4. QED
      BY <3>1, <3>2, <3>3
  <2>2. f[{}] = base
    BY <1>5 DEF Folding
  <2> HIDE DEF Body, step, base
  <2>3. QED
    BY <1>1, <1>5, <2>1, <2>2
<1>7. each = F(each)
  <2> HIDE DEF F
  <2> QED BY <1>6
<1> DEFINE body == [s \in SUBSET (1..n) |-> Body(each, s)]
<1>8. Unfolding(each, base, n, body)
  <2> HIDE DEF each, Body, base
  <2> QED BY <1>1, <1>7 DEF Unfolding
<1> HIDE DEF each
<1>9. UnfoldedBy(each, base, n, body)
  <2> HIDE DEF body, base
  <2> QED BY <1>1, <1>8, FoldSteps
<1>10. \A k \in 1..n : each[1..k] = Add(each[1..(k - 1)], words[k])
  <2>1. TAKE k \in 1..n
  <2>2. 1..k \in SUBSET (1..n)
    OBVIOUS
  <2>3. body[1..k] = Add(each[(1..k) \ {Max(1..k)}], words[Max(1..k)])
    BY <2>2
  <2> HIDE DEF body, base
  <2>4. QED
    BY <1>9, <2>3 DEF UnfoldedBy
<1> DEFINE along == [k \in 0..n |-> each[1..k]]
<1>11. along[0] = base /\ along[n] = Added(words)
  BY <1>1, <1>2, <1>9 DEF UnfoldedBy
<1>12. \A k \in 1..n : along[k] = Add(along[k - 1], words[k])
  BY <1>1, <1>10
<1>13. along \in [0..n -> Seq(Text)]
  <2>1. ASSUME NEW k \in 1..n, along[k - 1] \in Seq(Text) PROVE along[k] \in Seq(Text)
    <3>1. along[k] = Add(along[k - 1], words[k]) /\ words[k] \in Text
      BY <1>1, <1>12
    <3> HIDE DEF along, n
    <3>2. Add(along[k - 1], words[k]) \in Seq(Text)
      BY <2>1, <3>1, AddTyped
    <3>3. QED
      BY <3>1, <3>2
  <2> DEFINE reach == [k \in Nat |-> Seq(Text)]
  <2>2. along[0] \in reach[0] /\ \A k \in 1..n : along[k - 1] \in reach[k - 1] => along[k] \in reach[k]
    <3>1. 0 \in Nat /\ \A k \in 1..n : k \in Nat /\ k - 1 \in Nat
      BY <1>1
    <3> HIDE DEF along, n
    <3> QED BY <1>4, <1>11, <2>1, <3>1
  <2> HIDE DEF along, n
  <2>3. \A k \in 0..n : along[k] \in reach[k]
    <3> HIDE DEF reach
    <3> QED BY ONLY <1>1, <2>2, StepsReach
  <2>4. QED
    BY <1>1, <2>3 DEF along
<1>14. QED
  <2> HIDE DEF along, n
  <2> QED BY <1>11, <1>12, <1>13 DEF n, AddTrace

LEMMA AddAppend ==
  ASSUME NEW words \in Seq(Text)
  PROVE  /\ Added(words) \in Seq(Text)
         /\ Added(<<>>) = <<>>
         /\ \A c \in Text : Added(Append(words, c)) = Add(Added(words), c)
<1> DEFINE n == Len(words)
<1>1. n \in Nat /\ <<>> \in Seq(Text) /\ Len(<<>>) = 0
  BY DEF Text
<1>2. PICK f : AddTrace(f, words)
  BY AddSteps
<1>20. /\ f[0] = <<>> /\ f[n] = Added(words) /\ f \in [0..n -> Seq(Text)]
       /\ \A k \in 1..n : f[k] = Add(f[k - 1], words[k])
  BY <1>2 DEF AddTrace
<1>3. Added(words) \in Seq(Text)
  BY <1>1, <1>20
<1>4. Added(<<>>) = <<>>
  BY <1>1, AddSteps DEF AddTrace
<1>5. ASSUME NEW c \in Text PROVE Added(Append(words, c)) = Add(Added(words), c)
  <2> DEFINE longer == Append(words, c)
  <2>1. /\ longer \in Seq(Text) /\ Len(longer) = n + 1 /\ longer[n + 1] = c
        /\ \A k \in 1..n : longer[k] = words[k]
    BY AppendProperties DEF Text
  <2> HIDE DEF longer, n
  <2>20. PICK g : AddTrace(g, longer)
    BY <2>1, AddSteps
  <2>2. /\ g[0] = <<>> /\ g[n + 1] = Added(longer)
        /\ \A k \in 1..n + 1 : g[k] = Add(g[k - 1], longer[k])
    BY <2>1, <2>20 DEF AddTrace
  <2>3. f[0] = g[0] /\ \A k \in 1..n : f[k - 1] = g[k - 1] => f[k] = g[k]
    <3>1. ASSUME NEW k \in 1..n, f[k - 1] = g[k - 1] PROVE f[k] = g[k]
      <4>1. k \in 1..n + 1
        BY <1>1
      <4>2. f[k] = Add(f[k - 1], words[k]) /\ g[k] = Add(g[k - 1], longer[k]) /\ longer[k] = words[k]
        BY <1>20, <2>1, <2>2, <4>1
      <4>3. QED
        BY <3>1, <4>2
    <3>2. QED
      BY <1>20, <2>2, <3>1
  <2>4. f[n] = g[n]
    BY ONLY <1>1, <2>3, SameSteps
  <2>5. n + 1 \in 1..n + 1 /\ (n + 1) - 1 = n
    BY <1>1
  <2>6. g[n + 1] = Add(g[n], longer[n + 1])
    BY <2>2, <2>5
  <2>7. QED
    BY <1>20, <2>1, <2>2, <2>4, <2>6 DEF longer
<1>6. QED
  BY <1>3, <1>4, <1>5

-----------------------------------------------------------------------------
(* The tokens of a classList: words, each once.                               *)
Word == Free(Space) \ {<<>>}
Once(s)    == \A i, j \in 1..Len(s) : s[i] = s[j] => i = j
TokenLists == {ts \in Seq(Word) : Once(ts)}

LEMMA WordsAreTexts == Word \subseteq Text /\ Seq(Word) \subseteq Seq(Text) /\ TokenLists \subseteq Seq(Text)
<1>1. Free(Space) \subseteq Text
  BY SeqMonotonic DEF Free, Text
<1>2. Word \subseteq Text
  BY <1>1 DEF Word
<1>3. Seq(Word) \subseteq Seq(Text)
  BY <1>2, SeqMonotonic
<1>4. QED
  BY <1>2, <1>3 DEF TokenLists

LEMMA OnceAppend ==
  ASSUME NEW A, NEW s \in Seq(A), NEW x \in A
  PROVE  Once(Append(s, x)) <=> Once(s) /\ \A i \in 1..Len(s) : s[i] # x
<1> DEFINE n == Len(s)
           t == Append(s, x)
<1>1. n \in Nat /\ Len(t) = n + 1 /\ t[n + 1] = x /\ \A i \in 1..n : t[i] = s[i]
  OBVIOUS
<1> HIDE DEF t
<1>2. QED
  BY <1>1 DEF Once

LEMMA NoTokens == <<>> \in TokenLists
<1>1. <<>> \in Seq(Word) /\ Len(<<>>) = 0
  BY NoneIn
<1>2. Once(<<>>)
  BY <1>1 DEF Once
<1>3. QED
  BY <1>1, <1>2 DEF TokenLists

LEMMA AddKeeps ==
  ASSUME NEW ts \in TokenLists, NEW token \in Free(Space)
  PROVE  Add(ts, token) \in TokenLists
<1>1. CASE token = <<>> \/ token \in ToSet(ts)
  BY <1>1 DEF Add
<1>2. CASE ~(token = <<>> \/ token \in ToSet(ts))
  <2>1. token \in Word /\ ts \in Seq(Word) /\ Once(ts)
    BY <1>2 DEF Word, TokenLists
  <2>2. \A i \in 1..Len(ts) : ts[i] # token
    BY <1>2, <2>1, InToSet
  <2>3. Append(ts, token) \in Seq(Word) /\ Once(Append(ts, token))
    <3>1. Append(ts, token) \in Seq(Word)
      BY <2>1, AppendProperties
    <3>2. Once(Append(ts, token))
      BY <2>1, <2>2, OnceAppend
    <3>3. QED
      BY <3>1, <3>2
  <2>4. QED
    BY <1>2, <2>3 DEF Add, TokenLists
<1>3. QED
  BY <1>1, <1>2

LEMMA DropKeeps ==
  ASSUME NEW ts \in TokenLists, NEW token
  PROVE  Drop(ts, token) \in TokenLists
<1> DEFINE n == Len(ts)
           I == {i \in 1..n : ts[i] = token}
<1>1. ts \in Seq(Word) /\ Once(ts) /\ n \in Nat
  BY DEF TokenLists
<1>2. CASE I = {}
  BY <1>2 DEF Drop, RemoveFirst
<1>3. CASE I # {}
  <2> DEFINE m == Min(I)
             r == [k \in 1..(n - 1) |-> IF k < m THEN ts[k] ELSE ts[k + 1]]
  <2>1. m \in I
    <3>1. I \in SUBSET Nat
      BY <1>1
    <3> HIDE DEF I
    <3>2. QED
      BY <1>3, <3>1, MinIn
  <2>2. m \in 1..n
    BY <2>1
  <2>3. SelectInSeq(ts, LAMBDA v : v = token) = m
    BY <1>3 DEF SelectInSeq
  <2>4. Drop(ts, token) = RemoveAt(ts, m)
    BY <1>3, <2>3 DEF Drop, RemoveFirst
  <2> HIDE DEF m
  <2>5. RemoveAt(ts, m) = r
    BY <1>1, <2>2, RemovedAt
  <2>6. r \in Seq(Word) /\ Len(r) = n - 1
    <3>1. r \in [1..(n - 1) -> Word] /\ n - 1 \in Nat
      BY <1>1, <2>2
    <3> HIDE DEF r
    <3>2. QED
      BY <3>1
  <2>7. Once(r)
    <3>1. \A i \in 1..(n - 1) : i \in 1..n /\ i + 1 \in 1..n
      BY <1>1
    <3>2. ASSUME NEW i \in 1..(n - 1), NEW j \in 1..(n - 1), r[i] = r[j] PROVE i = j
      BY <1>1, <2>2, <3>1, <3>2 DEF Once
    <3> HIDE DEF r
    <3>3. QED
      BY <2>6, <3>2 DEF Once
  <2>8. QED
    BY <2>4, <2>5, <2>6, <2>7 DEF TokenLists
<1>4. QED
  BY <1>2, <1>3

(* What a text is split into are tokens, once each is added; tokens that are  *)
(* joined and split again are the same.                                       *)
LEMMA AddedTokens ==
  ASSUME NEW words \in Seq(Free(Space))
  PROVE  Added(words) \in TokenLists
<1> DEFINE T == {ws \in Seq(Free(Space)) : Added(ws) \in TokenLists}
<1>1. Free(Space) \subseteq Text /\ Seq(Free(Space)) \subseteq Seq(Text)
  <2>1. Free(Space) \subseteq Text
    BY SeqMonotonic DEF Free, Text
  <2>2. QED
    BY <2>1, SeqMonotonic
<1>2. <<>> \in T
  <2>1. Added(<<>>) = <<>>
    BY NoneIn, AddAppend
  <2>2. <<>> \in Seq(Free(Space))
    BY NoneIn
  <2>3. QED
    BY <2>1, <2>2, NoTokens
<1>3. ASSUME NEW ws \in Seq(Free(Space)), NEW w \in Free(Space), ws \in T PROVE Append(ws, w) \in T
  <2>1. Added(Append(ws, w)) = Add(Added(ws), w)
    BY <1>1, AddAppend
  <2>2. Add(Added(ws), w) \in TokenLists
    BY <1>3, AddKeeps
  <2>3. Append(ws, w) \in Seq(Free(Space))
    BY AppendProperties
  <2>4. QED
    BY <2>1, <2>2, <2>3
<1>4. Seq(Free(Space)) \subseteq T
  <2> HIDE DEF T
  <2> QED BY <1>2, <1>3, SequenceInduction
<1>5. QED
  BY <1>4

LEMMA AddedOnce ==
  ASSUME NEW tokens \in TokenLists
  PROVE  Added(tokens) = tokens
<1> DEFINE T == {ts \in Seq(Word) : Once(ts) => Added(ts) = ts}
<1>1. <<>> \in T
  <2>1. Added(<<>>) = <<>> /\ <<>> \in Seq(Word)
    BY NoneIn, AddAppend
  <2>2. QED
    BY <2>1
<1>2. ASSUME NEW ts \in Seq(Word), NEW t \in Word, ts \in T PROVE Append(ts, t) \in T
  <2>1. SUFFICES ASSUME Once(Append(ts, t)) PROVE Added(Append(ts, t)) = Append(ts, t)
    BY AppendProperties
  <2>2. Once(ts) /\ \A i \in 1..Len(ts) : ts[i] # t
    BY <2>1, OnceAppend
  <2>3. Added(ts) = ts
    BY <1>2, <2>2
  <2>4. Added(Append(ts, t)) = Add(ts, t)
    BY <2>3, AddAppend, WordsAreTexts
  <2>5. t # <<>> /\ t \notin ToSet(ts)
    BY <2>2, InToSet DEF Word
  <2>6. QED
    BY <2>4, <2>5 DEF Add
<1>3. Seq(Word) \subseteq T
  <2> HIDE DEF T
  <2> QED BY <1>1, <1>2, SequenceInduction
<1>4. QED
  BY <1>3 DEF TokenLists

LEMMA TokensOfText ==
  ASSUME NEW text \in Text
  PROVE  addTokens(text) \in TokenLists
<1>1. Split(text, Space) \in Seq(Free(Space))
  BY SplitFree
<1>2. QED
  BY <1>1, AddedTokens DEF addTokens, Added

LEMMA TokensOfJoined ==
  ASSUME NEW tokens \in TokenLists
  PROVE  Joined(tokens) \in Text /\ addTokens(Joined(tokens)) = tokens
<1>1. tokens \in Seq(Free(Space) \ {<<>>}) /\ Space \in Symbols
  BY MarksIn DEF TokenLists, Word
<1>2. /\ JoinedBy(tokens, Space) \in Text /\ JoinedBy(<<>>, Space) = <<>>
      /\ tokens # <<>> => Split(JoinedBy(tokens, Space), Space) = tokens
  BY <1>1, SplitJoined
<1>3. CASE tokens # <<>>
  BY <1>2, <1>3, AddedOnce DEF Joined, addTokens, Added
<1>4. CASE tokens = <<>>
  <2>1. Joined(tokens) = <<>> /\ <<>> \in Text
    BY <1>2, <1>4 DEF Joined, Text
  <2>2. addTokens(Joined(tokens)) = Added(<< <<>> >>)
    BY <2>1, SplitAppend DEF addTokens, Added
  <2>3. Append(<<>>, <<>>) = << <<>> >> /\ <<>> \in Seq(Text)
    OBVIOUS
  <2>4. Added(<< <<>> >>) = Add(Added(<<>>), <<>>) /\ Added(<<>>) = <<>>
    BY <2>1, <2>3, AddAppend
  <2>5. QED
    BY <1>2, <1>4, <2>2, <2>4 DEF Add, Joined
<1>5. QED
  BY <1>2, <1>3, <1>4 DEF Joined

-----------------------------------------------------------------------------
LEMMA PartOf ==
  ASSUME NEW A, NEW s \in Seq(A), NEW i \in Nat, NEW j \in Nat, 1 <= i, i <= j, j <= Len(s)
  PROVE  /\ SubSeq(s, i, j) \in Seq(A) /\ Len(SubSeq(s, i, j)) = j - i + 1
         /\ \A k \in 1..(j - i + 1) : SubSeq(s, i, j)[k] = s[i + k - 1]
<1>1. i \in Int /\ j \in Int /\ \A k \in i..j : s[k] \in A
  OBVIOUS
<1>2. /\ SubSeq(s, i, j) \in Seq(A)
      /\ Len(SubSeq(s, i, j)) = (IF i <= j THEN j - i + 1 ELSE 0)
      /\ \A k \in 1..(j - i + 1) : SubSeq(s, i, j)[k] = s[i + k - 1]
  BY <1>1, SubSeqProperties
<1>3. QED
  BY <1>2

LEMMA EmptyPart ==
  ASSUME NEW A, NEW s \in Seq(A), NEW i \in Nat, NEW j \in Nat, i > j
  PROVE  SubSeq(s, i, j) = <<>>
<1>1. i \in Int /\ j \in Int /\ \A k \in i..j : s[k] \in A
  OBVIOUS
<1>2. SubSeq(s, i, j) \in Seq(A) /\ Len(SubSeq(s, i, j)) = (IF i <= j THEN j - i + 1 ELSE 0)
  BY <1>1, SubSeqProperties
<1>3. QED
  BY <1>2, EmptySeq

(* What is left of a text by trim().                                          *)
LEMMA Trimmed ==
  ASSUME NEW s \in Text
  PROVE  /\ Trim(s) \in Text
         /\ Trim(s) # <<>> => IsTrimmed(Trim(s))
         /\ \A i \in 1..Len(Trim(s)) : \E j \in 1..Len(s) : Trim(s)[i] = s[j]
         /\ IsTrimmed(s) => Trim(s) = s
<1> DEFINE n == Len(s)
           kept == {i \in DOMAIN s : s[i] # Space}
           a == Min(kept)
           b == Max(kept)
           t == SubSeq(s, a, b)
<1>1. s \in Seq(Symbols) /\ n \in Nat /\ DOMAIN s = 1..n
  BY DEF Text
<1>2. \A i : i \in kept <=> i \in 1..n /\ s[i] # Space
  BY <1>1
<1>3. kept \in SUBSET (1..n) /\ kept \in SUBSET Nat
  <2> HIDE DEF kept, n
  <2> QED BY <1>1, <1>2
<1>4. Trim(s) = IF kept = {} THEN <<>> ELSE t
  BY DEF Trim
<1>5. IsTrimmed(s) => n # 0 /\ s[1] # Space /\ s[n] # Space
  BY <1>1, EmptySeq DEF IsTrimmed
<1>6. IsTrimmed(s) => 1 \in kept /\ n \in kept
  <2>1. n # 0 => 1 \in 1..n /\ n \in 1..n
    BY <1>1
  <2> HIDE DEF kept, n
  <2>2. QED
    BY <1>2, <1>5, <2>1
<1>7. <<>> \in Text /\ Len(<<>>) = 0
  BY NoneIn DEF Text
<1>8. CASE kept = {}
  <2> HIDE DEF kept
  <2>1. Trim(s) = <<>> /\ ~IsTrimmed(s)
    BY <1>4, <1>6, <1>8
  <2>2. \A i \in 1..Len(Trim(s)) : FALSE
    BY <1>7, <2>1
  <2>3. QED
    BY <1>7, <2>1, <2>2
<1>9. CASE kept # {}
  <2> HIDE DEF kept
  <2>1. a \in kept /\ b \in kept /\ \A k \in kept : a <= k
    BY <1>1, <1>3, <1>9, MinIn, MaxIn
  <2> HIDE DEF a, b
  <2>2. a \in 1..n /\ b \in 1..n /\ a <= b /\ s[a] # Space /\ s[b] # Space
    BY <1>2, <2>1
  <2>3. IsTrimmed(s) => a = 1 /\ b = n
    <3>1. SUFFICES ASSUME IsTrimmed(s) PROVE a = 1 /\ b = n
      OBVIOUS
    <3>2. 1 \in kept /\ n \in kept
      BY <1>6, <3>1
    <3>3. b = n
      BY <1>1, <1>3, <3>2, GreatestOf DEF b
    <3>4. a <= 1
      BY <2>1, <3>2
    <3>5. a = 1
      BY ONLY <1>1, <2>2, <3>4
    <3>6. QED
      BY <3>3, <3>5
  <2>4. a \in Nat /\ b \in Nat /\ 1 <= a /\ a <= b /\ b <= Len(s)
    BY ONLY <1>1, <2>2
  <2>5. t \in Seq(Symbols) /\ Len(t) = b - a + 1 /\ \A i \in 1..(b - a + 1) : t[i] = s[a + i - 1]
    BY <1>1, <2>4, PartOf
  <2>6. IsTrimmed(s) => t = s
    BY <1>1, <2>3, SubSeqFull
  <2> HIDE DEF t, n
  <2>7. Len(t) # 0 /\ Len(t) \in 1..(b - a + 1) /\ 1 \in 1..(b - a + 1) /\ a + 1 - 1 = a /\ a + Len(t) - 1 = b
    BY ONLY <1>1, <2>2, <2>5
  <2>8. t[1] = s[a] /\ t[Len(t)] = s[b] /\ t # <<>>
    BY <1>7, <2>5, <2>7
  <2>9. IsTrimmed(t)
    BY <2>2, <2>5, <2>8 DEF IsTrimmed
  <2>10. ASSUME NEW i \in 1..Len(t) PROVE \E j \in 1..n : t[i] = s[j]
    <3>1. a + i - 1 \in 1..n /\ i \in 1..(b - a + 1)
      BY ONLY <1>1, <2>2, <2>5, i \in 1..Len(t)
    <3>2. QED
      BY <2>5, <3>1
  <2>11. Trim(s) = t
    BY <1>4, <1>9
  <2>12. QED
    BY <2>5, <2>6, <2>9, <2>10, <2>11 DEF n, Text
<1>10. QED
  BY <1>8, <1>9

(* A rule, with its first colon.                                              *)
FirstColon(rule) == SelectInSeq(rule, LAMBDA c : c = Colon)
KeyIn(rule)   == Trim(SubSeq(rule, 1, FirstColon(rule) - 1))
ValueIn(rule) == Trim(SubSeq(rule, FirstColon(rule) + 1, Len(rule)))

LEMMA ColonIn ==
  ASSUME NEW rule \in Text
  PROVE  \/ FirstColon(rule) = 0 /\ \A k \in 1..Len(rule) : rule[k] # Colon
         \/ /\ FirstColon(rule) \in 1..Len(rule) /\ rule[FirstColon(rule)] = Colon
            /\ \A k \in 1..(FirstColon(rule) - 1) : rule[k] # Colon
<1> DEFINE n == Len(rule)
           I == {i \in 1..n : rule[i] = Colon}
<1>1. n \in Nat
  BY DEF Text
<1>2. CASE I = {}
  BY <1>2 DEF FirstColon, SelectInSeq
<1>3. CASE I # {}
  <2>1. FirstColon(rule) = Min(I)
    BY <1>3 DEF FirstColon, SelectInSeq
  <2>2. Min(I) \in I /\ \A k \in I : Min(I) <= k
    <3>1. I \in SUBSET Nat
      BY <1>1
    <3> HIDE DEF I
    <3>2. QED
      BY <1>3, <3>1, MinIn
  <2>3. ASSUME NEW k \in 1..(Min(I) - 1) PROVE rule[k] # Colon
    BY <1>1, <2>2
  <2>4. QED
    BY <2>1, <2>2, <2>3
<1>4. QED
  BY <1>2, <1>3

LEMMA RuleTyped ==
  ASSUME NEW rule \in Text
  PROVE  /\ SubSeq(rule, 1, FirstColon(rule) - 1) \in Text /\ KeyIn(rule) \in Text
         /\ SubSeq(rule, FirstColon(rule) + 1, Len(rule)) \in Text /\ ValueIn(rule) \in Text
<1>1. Len(rule) \in Nat /\ FirstColon(rule) \in 0..Len(rule)
  BY ColonIn DEF Text
<1>2. SubSeq(rule, 1, FirstColon(rule) - 1) \in Text /\ SubSeq(rule, FirstColon(rule) + 1, Len(rule)) \in Text
  BY <1>1, SubSeqProperties DEF Text
<1>3. QED
  BY <1>2, Trimmed DEF KeyIn, ValueIn

LEMMA DeclareIs ==
  ASSUME NEW map, NEW rule
  PROVE  Declare(map, rule) = IF FirstColon(rule) = 0 \/ KeyIn(rule) = <<>> \/ ValueIn(rule) = <<>>
                              THEN map ELSE Put(map, KeyIn(rule), ValueIn(rule))
BY DEF Declare, FirstColon, KeyIn, ValueIn

LEMMA PutTyped ==
  ASSUME NEW K, NEW V, NEW map \in Seq(K \X V), NEW key \in K, NEW value \in V
  PROVE  Put(map, key, value) \in Seq(K \X V)
<1> DEFINE other == [i \in DOMAIN map |-> IF map[i][1] = key THEN <<key, value>> ELSE map[i]]
<1>1. other \in [1..Len(map) -> K \X V] /\ Len(map) \in Nat
  OBVIOUS
<1>2. other \in Seq(K \X V)
  <2> HIDE DEF other
  <2> QED BY <1>1
<1>3. Append(map, <<key, value>>) \in Seq(K \X V)
  BY AppendProperties
<1>4. QED
  BY <1>2, <1>3 DEF Put

Declared(rules) == FoldLeft(Declare, <<>>, rules)

LEMMA DeclareTyped ==
  ASSUME NEW map \in Seq(Text \X Text), NEW rule \in Text
  PROVE  Declare(map, rule) \in Seq(Text \X Text)
BY RuleTyped, PutTyped, DeclareIs

DeclareTrace(step, rules) ==
  /\ step[0] = <<>>
  /\ step[Len(rules)] = Declared(rules)
  /\ step \in [0..Len(rules) -> Seq(Text \X Text)]
  /\ \A k \in 1..Len(rules) : step[k] = Declare(step[k - 1], rules[k])

LEMMA DeclareSteps ==
  ASSUME NEW rules \in Seq(Text)
  PROVE  \E step : DeclareTrace(step, rules)
<1> DEFINE n == Len(rules)
           base == <<>>
           Body(iter, s) == Declare(iter[s \ {Max(s)}], rules[Max(s)])
           F(iter) == [s \in SUBSET DOMAIN rules |-> IF s = {} THEN base ELSE Body(iter, s)]
           each == CHOOSE iter : iter = F(iter)
           step == [k \in 1..n |-> [x \in Seq(Text \X Text) |-> Declare(x, rules[k])]]
<1>1. n \in Nat /\ DOMAIN rules = 1..n /\ \A k \in 1..n : rules[k] \in Text
  BY DEF Text
<1>2. Declared(rules) = each[1..n]
  BY <1>1 DEF Declared, FoldLeft, MapThenFoldSet
<1>3. step \in [1..n -> [Seq(Text \X Text) -> Seq(Text \X Text)]]
  BY <1>1, DeclareTyped
<1>4. base \in Seq(Text \X Text)
  BY DEF Text
<1>5. PICK f \in [SUBSET (1..n) -> Seq(Text \X Text)] : Folding(f, base, n, step)
  <2> HIDE DEF step, n, base
  <2> QED BY ONLY <1>1, <1>3, <1>4, FoldExists
<1>6. f = F(f)
  <2>1. ASSUME NEW s \in SUBSET (1..n), s # {}
        PROVE  f[s] = Body(f, s)
    <3>1. Max(s) \in 1..n
      BY <1>1, <2>1, MaxIn
    <3>2. f[s \ {Max(s)}] \in Seq(Text \X Text)
      BY <1>5
    <3>3. f[s] = step[Max(s)][f[s \ {Max(s)}]]
      BY <1>5, <2>1 DEF Folding
    <3>4. QED
      BY <3>1, <3>2, <3>3
  <2>2. f[{}] = base
    BY <1>5 DEF Folding
  <2> HIDE DEF Body, step, base
  <2>3. QED
    BY <1>1, <1>5, <2>1, <2>2
<1>7. each = F(each)
  <2> HIDE DEF F
  <2> QED BY <1>6
<1> DEFINE body == [s \in SUBSET (1..n) |-> Body(each, s)]
<1>8. Unfolding(each, base, n, body)
  <2> HIDE DEF each, Body, base
  <2> QED BY <1>1, <1>7 DEF Unfolding
<1> HIDE DEF each
<1>9. UnfoldedBy(each, base, n, body)
  <2> HIDE DEF body, base
  <2> QED BY <1>1, <1>8, FoldSteps
<1>10. \A k \in 1..n : each[1..k] = Declare(each[1..(k - 1)], rules[k])
  <2>1. TAKE k \in 1..n
  <2>2. 1..k \in SUBSET (1..n)
    OBVIOUS
  <2>3. body[1..k] = Declare(each[(1..k) \ {Max(1..k)}], rules[Max(1..k)])
    BY <2>2
  <2> HIDE DEF body, base
  <2>4. QED
    BY <1>9, <2>3 DEF UnfoldedBy
<1> DEFINE along == [k \in 0..n |-> each[1..k]]
<1>11. along[0] = base /\ along[n] = Declared(rules)
  BY <1>1, <1>2, <1>9 DEF UnfoldedBy
<1>12. \A k \in 1..n : along[k] = Declare(along[k - 1], rules[k])
  BY <1>1, <1>10
<1>13. along \in [0..n -> Seq(Text \X Text)]
  <2>1. ASSUME NEW k \in 1..n, along[k - 1] \in Seq(Text \X Text) PROVE along[k] \in Seq(Text \X Text)
    <3>1. along[k] = Declare(along[k - 1], rules[k]) /\ rules[k] \in Text
      BY <1>1, <1>12
    <3> HIDE DEF along, n
    <3>2. Declare(along[k - 1], rules[k]) \in Seq(Text \X Text)
      BY <2>1, <3>1, DeclareTyped
    <3>3. QED
      BY <3>1, <3>2
  <2> DEFINE reach == [k \in Nat |-> Seq(Text \X Text)]
  <2>2. along[0] \in reach[0] /\ \A k \in 1..n : along[k - 1] \in reach[k - 1] => along[k] \in reach[k]
    <3>1. 0 \in Nat /\ \A k \in 1..n : k \in Nat /\ k - 1 \in Nat
      BY <1>1
    <3> HIDE DEF along, n
    <3> QED BY <1>4, <1>11, <2>1, <3>1
  <2> HIDE DEF along, n
  <2>3. \A k \in 0..n : along[k] \in reach[k]
    <3> HIDE DEF reach
    <3> QED BY ONLY <1>1, <2>2, StepsReach
  <2>4. QED
    BY <1>1, <2>3 DEF along
<1>14. QED
  <2> HIDE DEF along, n
  <2> QED BY <1>11, <1>12, <1>13 DEF n, DeclareTrace

LEMMA DeclareAppend ==
  ASSUME NEW rules \in Seq(Text)
  PROVE  /\ Declared(rules) \in Seq(Text \X Text)
         /\ Declared(<<>>) = <<>>
         /\ \A c \in Text : Declared(Append(rules, c)) = Declare(Declared(rules), c)
<1> DEFINE n == Len(rules)
<1>1. n \in Nat /\ <<>> \in Seq(Text) /\ Len(<<>>) = 0
  BY DEF Text
<1>2. PICK f : DeclareTrace(f, rules)
  BY DeclareSteps
<1>20. /\ f[0] = <<>> /\ f[n] = Declared(rules) /\ f \in [0..n -> Seq(Text \X Text)]
       /\ \A k \in 1..n : f[k] = Declare(f[k - 1], rules[k])
  BY <1>2 DEF DeclareTrace
<1>3. Declared(rules) \in Seq(Text \X Text)
  BY <1>1, <1>20
<1>4. Declared(<<>>) = <<>>
  BY <1>1, DeclareSteps DEF DeclareTrace
<1>5. ASSUME NEW c \in Text PROVE Declared(Append(rules, c)) = Declare(Declared(rules), c)
  <2> DEFINE longer == Append(rules, c)
  <2>1. /\ longer \in Seq(Text) /\ Len(longer) = n + 1 /\ longer[n + 1] = c
        /\ \A k \in 1..n : longer[k] = rules[k]
    BY AppendProperties DEF Text
  <2> HIDE DEF longer, n
  <2>20. PICK g : DeclareTrace(g, longer)
    BY <2>1, DeclareSteps
  <2>2. /\ g[0] = <<>> /\ g[n + 1] = Declared(longer)
        /\ \A k \in 1..n + 1 : g[k] = Declare(g[k - 1], longer[k])
    BY <2>1, <2>20 DEF DeclareTrace
  <2>3. f[0] = g[0] /\ \A k \in 1..n : f[k - 1] = g[k - 1] => f[k] = g[k]
    <3>1. ASSUME NEW k \in 1..n, f[k - 1] = g[k - 1] PROVE f[k] = g[k]
      <4>1. k \in 1..n + 1
        BY <1>1
      <4>2. f[k] = Declare(f[k - 1], rules[k]) /\ g[k] = Declare(g[k - 1], longer[k]) /\ longer[k] = rules[k]
        BY <1>20, <2>1, <2>2, <4>1
      <4>3. QED
        BY <3>1, <4>2
    <3>2. QED
      BY <1>20, <2>2, <3>1
  <2>4. f[n] = g[n]
    BY ONLY <1>1, <2>3, SameSteps
  <2>5. n + 1 \in 1..n + 1 /\ (n + 1) - 1 = n
    BY <1>1
  <2>6. g[n + 1] = Declare(g[n], longer[n + 1])
    BY <2>2, <2>5
  <2>7. QED
    BY <1>20, <2>1, <2>2, <2>4, <2>6 DEF longer
<1>6. QED
  BY <1>3, <1>4, <1>5

-----------------------------------------------------------------------------
(* Maps of declarations: the keys are distinct, and no key or value has a     *)
(* mark in it that would end it.                                              *)
KeyTexts   == {t \in Text : IsTrimmed(t) /\ Without(t, {Colon, Semicolon})}
ValueTexts == {t \in Text : IsTrimmed(t) /\ Without(t, {Semicolon})}
Entries    == KeyTexts \X ValueTexts
Distinct(m) == \A i, j \in 1..Len(m) : m[i][1] = m[j][1] => i = j
Maps       == {m \in Seq(Entries) : Distinct(m)}
NoKey(m, key) == \A i \in 1..Len(m) : m[i][1] # key

LEMMA EntriesAreTexts == Entries \subseteq Text \X Text /\ Seq(Entries) \subseteq Seq(Text \X Text)
<1>1. Entries \subseteq Text \X Text
  BY DEF Entries, KeyTexts, ValueTexts
<1>2. QED
  BY <1>1, SeqMonotonic

LEMMA DistinctAppend ==
  ASSUME NEW m \in Seq(Entries), NEW entry \in Entries
  PROVE  Distinct(Append(m, entry)) <=> Distinct(m) /\ NoKey(m, entry[1])
<1> DEFINE n == Len(m)
           t == Append(m, entry)
<1>1. n \in Nat /\ Len(t) = n + 1 /\ t[n + 1] = entry /\ \A i \in 1..n : t[i] = m[i]
  OBVIOUS
<1> HIDE DEF t
<1>2. QED
  BY <1>1 DEF Distinct, NoKey

LEMMA PutKeeps ==
  ASSUME NEW m \in Maps, NEW key \in KeyTexts, NEW value \in ValueTexts
  PROVE  Put(m, key, value) \in Maps
<1> DEFINE other == [i \in DOMAIN m |-> IF m[i][1] = key THEN <<key, value>> ELSE m[i]]
<1>1. m \in Seq(Entries) /\ Distinct(m) /\ Len(m) \in Nat /\ DOMAIN m = 1..Len(m)
  BY DEF Maps
<1>2. CASE \E i \in DOMAIN m : m[i][1] = key
  <2>1. Put(m, key, value) \in Seq(Entries)
    BY <1>1, PutTyped DEF Entries
  <2>2. Put(m, key, value) = other
    BY <1>2 DEF Put
  <2>3. Len(other) = Len(m) /\ \A i \in 1..Len(m) : other[i][1] = m[i][1]
    BY <1>1
  <2> HIDE DEF other
  <2>4. Distinct(other)
    BY <1>1, <2>3 DEF Distinct
  <2>5. QED
    BY <2>1, <2>2, <2>4 DEF Maps
<1>3. CASE ~ \E i \in DOMAIN m : m[i][1] = key
  <2> DEFINE entry == <<key, value>>
  <2>1. entry \in Entries /\ entry[1] = key
    BY DEF Entries
  <2>2. NoKey(m, key)
    BY <1>1, <1>3 DEF NoKey
  <2> HIDE DEF entry
  <2>3. Append(m, entry) \in Seq(Entries) /\ Distinct(Append(m, entry))
    BY <1>1, <2>1, <2>2, DistinctAppend
  <2>4. Append(m, entry) \in Maps
    BY <2>3 DEF Maps
  <2>5. Put(m, key, value) = Append(m, entry)
    BY <1>3 DEF Put, entry
  <2>6. QED
    BY <2>4, <2>5
<1>4. QED
  BY <1>2, <1>3

LEMMA DeleteKeeps ==
  ASSUME NEW m \in Maps, NEW key
  PROVE  Delete(m, key) \in Maps
<1>1. m \in Seq(Entries) /\ Distinct(m) /\ Len(m) \in Nat /\ DOMAIN m = 1..Len(m)
  BY DEF Maps
<1>2. CASE \E i \in DOMAIN m : m[i][1] = key
  <2> DEFINE at == CHOOSE i \in DOMAIN m : m[i][1] = key
             rest == [k \in 1..(Len(m) - 1) |-> IF k < at THEN m[k] ELSE m[k + 1]]
  <2>1. at \in 1..Len(m)
    BY <1>1, <1>2
  <2> HIDE DEF at
  <2>2. RemoveAt(m, at) = rest
    BY <1>1, <2>1, RemovedAt
  <2>3. rest \in [1..(Len(m) - 1) -> Entries] /\ Len(m) - 1 \in Nat
    BY <1>1, <2>1
  <2>4. \A k \in 1..(Len(m) - 1) : rest[k] = m[IF k < at THEN k ELSE k + 1]
    BY <1>1, <2>1
  <2> HIDE DEF rest
  <2>5. rest \in Seq(Entries) /\ Len(rest) = Len(m) - 1
    BY <2>3
  <2>6. Distinct(rest)
    BY <1>1, <2>1, <2>4, <2>5 DEF Distinct
  <2>7. QED
    BY <1>2, <2>2, <2>5, <2>6 DEF Delete, Maps, at
<1>3. CASE ~ \E i \in DOMAIN m : m[i][1] = key
  BY <1>3 DEF Delete
<1>4. QED
  BY <1>2, <1>3

LEMMA PartIsText ==
  ASSUME NEW rule \in Free(Semicolon), NEW i \in Nat \ {0}, NEW j \in 0..Len(rule)
  PROVE  /\ rule \in Text /\ SubSeq(rule, i, j) \in Text
         /\ \A k \in 1..Len(SubSeq(rule, i, j)) :
              /\ SubSeq(rule, i, j)[k] # Semicolon
              /\ \E at \in i..j : SubSeq(rule, i, j)[k] = rule[at]
<1>1. rule \in Seq(Symbols \ {Semicolon}) /\ rule \in Text /\ Len(rule) \in Nat
  BY SeqMonotonic DEF Free, Text
<1>2. CASE i > j
  <2>1. SubSeq(rule, i, j) = <<>>
    BY <1>1, <1>2, SubSeqProperties
  <2>2. <<>> \in Text /\ Len(<<>>) = 0
    BY DEF Text
  <2>3. QED
    BY <1>1, <2>1, <2>2
<1>3. CASE i <= j
  <2> DEFINE t == SubSeq(rule, i, j)
  <2>1. t \in Seq(Symbols \ {Semicolon}) /\ Len(t) = j - i + 1 /\ \A k \in 1..(j - i + 1) : t[k] = rule[i + k - 1]
    BY <1>1, <1>3, SubSeqProperties
  <2> HIDE DEF t
  <2>2. t \in Text /\ \A k \in 1..Len(t) : t[k] # Semicolon
    BY <2>1, SeqMonotonic DEF Text
  <2>3. ASSUME NEW k \in 1..Len(t) PROVE \E at \in i..j : t[k] = rule[at]
    <3>1. i + k - 1 \in i..j
      BY <1>1, <1>3, <2>1
    <3>2. QED
      BY <2>1, <3>1
  <2>4. QED
    BY <1>1, <2>2, <2>3 DEF t
<1>4. QED
  BY <1>1, <1>2, <1>3

LEMMA RuleEntry ==
  ASSUME NEW rule \in Free(Semicolon), FirstColon(rule) # 0
  PROVE  /\ KeyIn(rule) # <<>> => KeyIn(rule) \in KeyTexts
         /\ ValueIn(rule) # <<>> => ValueIn(rule) \in ValueTexts
<1> DEFINE c == FirstColon(rule)
           k == SubSeq(rule, 1, c - 1)
           v == SubSeq(rule, c + 1, Len(rule))
<1>1. rule \in Text /\ Len(rule) \in Nat
  BY SeqMonotonic DEF Free, Text
<1>2. c \in 1..Len(rule) /\ \A i \in 1..(c - 1) : rule[i] # Colon
  BY <1>1, ColonIn
<1> HIDE DEF c
<1>3. k \in Text /\ \A i \in 1..Len(k) : k[i] # Semicolon /\ k[i] # Colon
  <2>1. 1 \in Nat \ {0} /\ c - 1 \in 0..Len(rule)
    BY <1>1, <1>2
  <2>2. QED
    BY <1>2, <2>1, PartIsText
<1>4. v \in Text /\ \A i \in 1..Len(v) : v[i] # Semicolon
  <2>1. c + 1 \in Nat \ {0} /\ Len(rule) \in 0..Len(rule)
    BY <1>1, <1>2
  <2>2. QED
    BY <2>1, PartIsText
<1> HIDE DEF k, v
<1>5. Trim(k) # <<>> => Trim(k) \in KeyTexts
  <2>1. SUFFICES ASSUME Trim(k) # <<>> PROVE Trim(k) \in KeyTexts
    OBVIOUS
  <2>2. Trim(k) \in Text /\ IsTrimmed(Trim(k)) /\ DOMAIN Trim(k) = 1..Len(Trim(k))
    BY <1>3, <2>1, Trimmed DEF Text
  <2>3. Without(Trim(k), {Colon, Semicolon})
    BY <1>3, <2>2, Trimmed DEF Without
  <2>4. QED
    BY <2>2, <2>3 DEF KeyTexts
<1>6. Trim(v) # <<>> => Trim(v) \in ValueTexts
  <2>1. SUFFICES ASSUME Trim(v) # <<>> PROVE Trim(v) \in ValueTexts
    OBVIOUS
  <2>2. Trim(v) \in Text /\ IsTrimmed(Trim(v)) /\ DOMAIN Trim(v) = 1..Len(Trim(v))
    BY <1>4, <2>1, Trimmed DEF Text
  <2>3. Without(Trim(v), {Semicolon})
    BY <1>4, <2>2, Trimmed DEF Without
  <2>4. QED
    BY <2>2, <2>3 DEF ValueTexts
<1>7. QED
  BY <1>5, <1>6 DEF KeyIn, ValueIn, k, v, c

LEMMA DeclareKeeps ==
  ASSUME NEW m \in Maps, NEW rule \in Free(Semicolon)
  PROVE  Declare(m, rule) \in Maps
<1>1. Declare(m, rule) = IF FirstColon(rule) = 0 \/ KeyIn(rule) = <<>> \/ ValueIn(rule) = <<>>
                         THEN m ELSE Put(m, KeyIn(rule), ValueIn(rule))
  BY DeclareIs
<1>2. CASE FirstColon(rule) = 0 \/ KeyIn(rule) = <<>> \/ ValueIn(rule) = <<>>
  BY <1>1, <1>2
<1>3. CASE ~(FirstColon(rule) = 0 \/ KeyIn(rule) = <<>> \/ ValueIn(rule) = <<>>)
  <2>1. KeyIn(rule) \in KeyTexts /\ ValueIn(rule) \in ValueTexts
    BY <1>3, RuleEntry
  <2>2. QED
    BY <1>1, <1>3, <2>1, PutKeeps
<1>4. QED
  BY <1>2, <1>3

(* The declarations of a text are a Map.                                      *)
LEMMA DeclarationsOfText ==
  ASSUME NEW text \in Text
  PROVE  Declarations(text) \in Maps
<1> DEFINE T == {rules \in Seq(Free(Semicolon)) : Declared(rules) \in Maps}
<1>1. Free(Semicolon) \subseteq Text /\ Seq(Free(Semicolon)) \subseteq Seq(Text)
  <2>1. Free(Semicolon) \subseteq Text
    BY SeqMonotonic DEF Free, Text
  <2>2. QED
    BY <2>1, SeqMonotonic
<1>2. <<>> \in T
  <2>1. <<>> \in Maps
    BY DEF Maps, Distinct
  <2>2. Declared(<<>>) = <<>>
    BY NoneIn, DeclareAppend
  <2>3. QED
    BY <2>1, <2>2
<1>3. ASSUME NEW rules \in Seq(Free(Semicolon)), NEW rule \in Free(Semicolon), rules \in T
      PROVE  Append(rules, rule) \in T
  <2>1. Declared(Append(rules, rule)) = Declare(Declared(rules), rule)
    BY <1>1, DeclareAppend
  <2>2. Declare(Declared(rules), rule) \in Maps
    BY <1>3, DeclareKeeps
  <2>3. Append(rules, rule) \in Seq(Free(Semicolon))
    BY AppendProperties
  <2>4. QED
    BY <2>1, <2>2, <2>3
<1>4. Seq(Free(Semicolon)) \subseteq T
  <2> HIDE DEF T
  <2> QED BY <1>2, <1>3, SequenceInduction
<1>5. Split(text, Semicolon) \in Seq(Free(Semicolon))
  BY SplitFree
<1>6. QED
  BY <1>4, <1>5 DEF Declarations, Declared

RuleOf(key, value) == key \o <<Colon>> \o value
RulesOf(m) == [i \in DOMAIN m |-> m[i][1] \o <<Colon>> \o m[i][2]]

LEMMA RuleParsed ==
  ASSUME NEW key \in KeyTexts, NEW value \in ValueTexts
  PROVE  /\ RuleOf(key, value) \in Free(Semicolon) \ {<<>>}
         /\ FirstColon(RuleOf(key, value)) # 0
         /\ KeyIn(RuleOf(key, value)) = key /\ ValueIn(RuleOf(key, value)) = value
<1> DEFINE first == key \o <<Colon>>
           rule == first \o value
           n == Len(key)
           m == Len(value)
<1>1. /\ key \in Text /\ n \in Nat /\ n # 0 /\ IsTrimmed(key) /\ DOMAIN key = 1..n
      /\ value \in Text /\ m \in Nat /\ m # 0 /\ IsTrimmed(value) /\ DOMAIN value = 1..m
  BY DEF KeyTexts, ValueTexts, IsTrimmed, Text
<1>2. /\ \A i \in 1..n : key[i] # Colon /\ key[i] # Semicolon
      /\ \A i \in 1..m : value[i] # Semicolon
  BY <1>1 DEF KeyTexts, ValueTexts, Without
<1>3. <<Colon>> \in Text /\ Len(<<Colon>>) = 1 /\ <<Colon>>[1] = Colon
  BY DEF Text, Symbols
<1> HIDE DEF n, m
<1>4. /\ first \in Text /\ Len(first) = n + 1 /\ first[n + 1] = Colon /\ \A i \in 1..n : first[i] = key[i]
  <2> DEFINE colon == <<Colon>>
  <2>1. colon \in Text /\ Len(colon) = 1 /\ colon[1] = Colon
    BY <1>3
  <2> HIDE DEF colon
  <2>2. /\ key \o colon \in Text /\ Len(key \o colon) = n + 1
        /\ \A i \in 1..(n + 1) : (key \o colon)[i] = IF i <= n THEN key[i] ELSE colon[i - n]
    <3>1. key \in Seq(Symbols) /\ colon \in Seq(Symbols)
      BY <1>1, <2>1 DEF Text
    <3>2. /\ key \o colon \in Seq(Symbols) /\ Len(key \o colon) = Len(key) + Len(colon)
          /\ \A i \in 1..(Len(key) + Len(colon)) : (key \o colon)[i] = IF i <= Len(key) THEN key[i] ELSE colon[i - Len(key)]
      BY ONLY <3>1, ConcatProperties
    <3>3. Len(key) = n
      BY DEF n
    <3>4. QED
      BY <2>1, <3>2, <3>3 DEF Text
  <2>3. QED
    BY <1>1, <2>1, <2>2 DEF colon
<1> HIDE DEF first
<1>5. /\ rule \in Text /\ Len(rule) = n + 1 + m
      /\ \A i \in 1..(n + 1) : rule[i] = first[i]
      /\ \A i \in 1..m : rule[n + 1 + i] = value[i]
  <2>1. /\ rule \in Text /\ Len(rule) = (n + 1) + m
        /\ \A i \in 1..(n + 1 + m) : rule[i] = IF i <= n + 1 THEN first[i] ELSE value[i - (n + 1)]
    <3>1. first \in Seq(Symbols) /\ value \in Seq(Symbols)
      BY <1>1, <1>4 DEF Text
    <3>2. /\ rule \in Seq(Symbols) /\ Len(rule) = Len(first) + Len(value)
          /\ \A i \in 1..(Len(first) + Len(value)) : rule[i] = IF i <= Len(first) THEN first[i] ELSE value[i - Len(first)]
      BY ONLY <3>1, ConcatProperties
    <3>3. Len(value) = m
      BY DEF m
    <3> HIDE DEF rule
    <3>4. QED
      BY <1>4, <3>2, <3>3 DEF Text
  <2>2. QED
    BY <1>1, <2>1
<1> HIDE DEF rule
<1>6. /\ rule[n + 1] = Colon /\ \A i \in 1..n : rule[i] = key[i] /\ rule[i] # Colon
  BY <1>1, <1>2, <1>4, <1>5
<1>7. \A i \in 1..(n + 1 + m) : rule[i] # Semicolon
  <2>1. TAKE i \in 1..(n + 1 + m)
  <2>2. i \in 1..n \/ i = n + 1 \/ (i - n - 1 \in 1..m /\ i = n + 1 + (i - n - 1))
    BY <1>1
  <2>3. QED
    <3>1. CASE i \in 1..n
      BY <1>2, <1>6, <3>1
    <3>2. CASE i = n + 1
      BY <1>6, <3>2, MarksDiffer
    <3>3. CASE i - n - 1 \in 1..m /\ i = n + 1 + (i - n - 1)
      <4> DEFINE k == i - n - 1
      <4>1. k \in 1..m /\ i = n + 1 + k
        BY <3>3
      <4> HIDE DEF k
      <4>2. QED
        BY <1>2, <1>5, <4>1
    <3>4. QED
      BY <2>2, <3>1, <3>2, <3>3
<1>8. rule \in Free(Semicolon) \ {<<>>}
  <2>1. rule \in [1..(n + 1 + m) -> Symbols \ {Semicolon}]
    BY <1>1, <1>5, <1>7 DEF Text
  <2>2. n + 1 + m \in Nat /\ n + 1 + m # 0
    BY <1>1
  <2>3. rule # <<>>
    BY <1>5, <2>2
  <2>4. QED
    BY <2>1, <2>2, <2>3 DEF Free
<1>9. FirstColon(rule) = n + 1
  <2>1. n + 1 \in 1..Len(rule)
    BY <1>1, <1>5
  <2>2. FirstColon(rule) # 0
    BY <1>5, <1>6, <2>1, ColonIn
  <2>3. FirstColon(rule) \in 1..Len(rule) /\ rule[FirstColon(rule)] = Colon /\ \A k \in 1..(FirstColon(rule) - 1) : rule[k] # Colon
    BY <1>5, <2>2, ColonIn
  <2>4. ~(FirstColon(rule) < n + 1)
    BY <1>1, <1>6, <2>3
  <2>5. ~(FirstColon(rule) > n + 1)
    BY <1>1, <1>6, <2>3
  <2>6. QED
    BY <1>1, <1>5, <2>3, <2>4, <2>5
<1>10. SubSeq(rule, 1, n) = key
  <2> DEFINE t == SubSeq(rule, 1, n)
  <2>1. t \in Text /\ Len(t) = n /\ \A i \in 1..n : t[i] = rule[i]
    BY <1>1, <1>5, SubSeqProperties DEF Text
  <2> HIDE DEF t
  <2>2. t = key
    BY <1>1, <1>6, <2>1, SeqEqual DEF Text, n
  <2>3. QED
    BY <2>2 DEF t
<1>11. SubSeq(rule, n + 2, n + 1 + m) = value
  <2> DEFINE t == SubSeq(rule, n + 2, n + 1 + m)
  <2>1. t \in Text /\ Len(t) = m /\ \A i \in 1..m : t[i] = rule[n + 1 + i]
    BY <1>1, <1>5, SubSeqProperties DEF Text
  <2> HIDE DEF t
  <2>2. t = value
    BY <1>1, <1>5, <2>1, SeqEqual DEF Text, m
  <2>3. QED
    BY <2>2 DEF t
<1>12. KeyIn(rule) = key
  <2>1. (n + 1) - 1 = n
    BY <1>1
  <2>2. KeyIn(rule) = Trim(key)
    BY <1>9, <1>10, <2>1 DEF KeyIn
  <2>3. QED
    BY <1>1, <2>2, Trimmed
<1>13. ValueIn(rule) = value
  <2>1. (n + 1) + 1 = n + 2
    BY <1>1
  <2>2. ValueIn(rule) = Trim(value)
    BY <1>5, <1>9, <1>11, <2>1 DEF ValueIn
  <2>3. QED
    BY <1>1, <2>2, Trimmed
<1>14. FirstColon(rule) # 0
  BY <1>1, <1>9
<1>15. QED
  BY <1>8, <1>12, <1>13, <1>14 DEF RuleOf, rule, first

LEMMA RulesTyped ==
  ASSUME NEW m \in Seq(Entries)
  PROVE  /\ RulesOf(m) \in Seq(Free(Semicolon) \ {<<>>}) /\ Len(RulesOf(m)) = Len(m)
         /\ RulesOf(<<>>) = <<>>
         /\ \A entry \in Entries : RulesOf(Append(m, entry)) = Append(RulesOf(m), RuleOf(entry[1], entry[2]))
<1> DEFINE R == Free(Semicolon) \ {<<>>}
<1>1. ASSUME NEW w \in Seq(Entries) PROVE RulesOf(w) \in Seq(R) /\ Len(RulesOf(w)) = Len(w)
                                         /\ \A i \in 1..Len(w) : RulesOf(w)[i] = RuleOf(w[i][1], w[i][2])
  <2> DEFINE r == RulesOf(w)
  <2>1. Len(w) \in Nat /\ DOMAIN w = 1..Len(w) /\ \A i \in 1..Len(w) : w[i][1] \in KeyTexts /\ w[i][2] \in ValueTexts
    BY DEF Entries
  <2>2. r = [i \in 1..Len(w) |-> RuleOf(w[i][1], w[i][2])]
    BY <2>1 DEF RulesOf, RuleOf
  <2>3. \A i \in 1..Len(w) : RuleOf(w[i][1], w[i][2]) \in R
    BY <2>1, RuleParsed
  <2> HIDE DEF r, R
  <2>4. r \in [1..Len(w) -> R]
    BY <2>2, <2>3
  <2>5. r \in Seq(R) /\ Len(r) = Len(w)
    BY <2>1, <2>4
  <2>6. QED
    BY <2>2, <2>5 DEF r
<1>2. RulesOf(<<>>) = <<>>
  BY DEF RulesOf
<1>3. ASSUME NEW entry \in Entries
      PROVE  RulesOf(Append(m, entry)) = Append(RulesOf(m), RuleOf(entry[1], entry[2]))
  <2> DEFINE longer == Append(m, entry)
             n == Len(m)
             a == RulesOf(longer)
             last == RuleOf(entry[1], entry[2])
             b == Append(RulesOf(m), last)
  <2>1. longer \in Seq(Entries) /\ n \in Nat /\ Len(longer) = n + 1 /\ longer[n + 1] = entry /\ \A i \in 1..n : longer[i] = m[i]
    BY AppendProperties
  <2>2. last \in R
    BY RuleParsed DEF Entries
  <2>3. RulesOf(m) \in Seq(R) /\ Len(RulesOf(m)) = n /\ \A i \in 1..n : RulesOf(m)[i] = RuleOf(m[i][1], m[i][2])
    BY <1>1
  <2> HIDE DEF R, last, n
  <2>4. b \in Seq(R) /\ Len(b) = n + 1 /\ b[n + 1] = last /\ \A i \in 1..n : b[i] = RulesOf(m)[i]
    BY <2>2, <2>3, AppendProperties
  <2> HIDE DEF longer, b
  <2>5. a \in Seq(R) /\ Len(a) = n + 1 /\ \A i \in 1..(n + 1) : a[i] = RuleOf(longer[i][1], longer[i][2])
    BY <1>1, <2>1
  <2> HIDE DEF a
  <2>6. \A i \in 1..(n + 1) : a[i] = b[i]
    <3>1. TAKE i \in 1..(n + 1)
    <3>2. CASE i = n + 1
      BY <2>1, <2>4, <2>5, <3>2 DEF last
    <3>3. CASE i # n + 1
      <4>1. i \in 1..n
        BY <2>1, <3>3
      <4>2. QED
        BY <2>1, <2>3, <2>4, <2>5, <4>1
    <3>4. QED
      BY <3>2, <3>3
  <2>7. a = b
    BY <2>4, <2>5, <2>6, SeqEqual
  <2>8. QED
    BY <2>7 DEF a, b, longer, last
<1>4. QED
  BY <1>1, <1>2, <1>3

(* A Map that was written as a text is read back from it.                     *)
LEMMA DeclarationsOfMap ==
  ASSUME NEW map \in Maps
  PROVE  cssText(map) \in Text /\ Declarations(cssText(map)) = map
<1> DEFINE T == {m \in Seq(Entries) : Distinct(m) => Declared(RulesOf(m)) = m}
           R == Free(Semicolon) \ {<<>>}
<1>1. R \subseteq Text /\ Seq(R) \subseteq Seq(Text)
  <2>1. Free(Semicolon) \subseteq Text
    BY SeqMonotonic DEF Free, Text
  <2>2. R \subseteq Text
    BY <2>1
  <2>3. QED
    BY <2>2, SeqMonotonic
<1>2. <<>> \in T
  <2>1. <<>> \in Seq(Entries) /\ Declared(<<>>) = <<>>
    BY NoneIn, DeclareAppend
  <2>2. RulesOf(<<>>) = <<>>
    BY <2>1, RulesTyped
  <2>3. QED
    BY <2>1, <2>2
<1>3. ASSUME NEW m \in Seq(Entries), NEW entry \in Entries, m \in T
      PROVE  Append(m, entry) \in T
  <2>1. SUFFICES ASSUME Distinct(Append(m, entry)) PROVE Declared(RulesOf(Append(m, entry))) = Append(m, entry)
    BY AppendProperties
  <2>2. Distinct(m) /\ NoKey(m, entry[1])
    BY <2>1, DistinctAppend
  <2> DEFINE rule == RuleOf(entry[1], entry[2])
  <2>3. entry[1] \in KeyTexts /\ entry[2] \in ValueTexts /\ entry = <<entry[1], entry[2]>>
    BY DEF Entries
  <2>4. /\ rule \in R /\ FirstColon(rule) # 0 /\ KeyIn(rule) = entry[1] /\ ValueIn(rule) = entry[2]
        /\ entry[1] # <<>> /\ entry[2] # <<>>
    BY <2>3, RuleParsed DEF KeyTexts, ValueTexts, IsTrimmed
  <2> HIDE DEF rule, R
  <2>5. RulesOf(m) \in Seq(Text) /\ rule \in Text
    BY <1>1, <2>4, RulesTyped DEF R
  <2>6. RulesOf(Append(m, entry)) = Append(RulesOf(m), rule)
    BY RulesTyped DEF rule
  <2>7. Declared(Append(RulesOf(m), rule)) = Declare(Declared(RulesOf(m)), rule)
    BY <2>5, DeclareAppend
  <2>8. Declared(RulesOf(m)) = m
    BY <1>3, <2>2
  <2>9. Declare(m, rule) = Put(m, entry[1], entry[2])
    BY <2>4, DeclareIs
  <2>10. ~ \E i \in DOMAIN m : m[i][1] = entry[1]
    BY <2>2 DEF NoKey
  <2>11. Put(m, entry[1], entry[2]) = Append(m, entry)
    BY <2>3, <2>10 DEF Put
  <2>12. QED
    BY <2>6, <2>7, <2>8, <2>9, <2>11
<1>4. Seq(Entries) \subseteq T
  <2> HIDE DEF T
  <2> QED BY <1>2, <1>3, SequenceInduction
<1>5. map \in Seq(Entries) /\ Declared(RulesOf(map)) = map
  BY <1>4 DEF Maps
<1>6. RulesOf(map) \in Seq(R) /\ Len(RulesOf(map)) = Len(map) /\ Semicolon \in Symbols
  BY <1>5, RulesTyped DEF Symbols
<1>7. /\ JoinedBy(RulesOf(map), Semicolon) \in Text /\ JoinedBy(<<>>, Semicolon) = <<>>
      /\ RulesOf(map) # <<>> => Split(JoinedBy(RulesOf(map), Semicolon), Semicolon) = RulesOf(map)
  BY <1>6, SplitJoined
<1>8. cssText(map) = JoinedBy(RulesOf(map), Semicolon)
  BY DEF cssText, RulesOf
<1>9. CASE RulesOf(map) # <<>>
  BY <1>5, <1>7, <1>8, <1>9 DEF Declarations, Declared
<1>10. CASE RulesOf(map) = <<>>
  <2>1. map = <<>>
    BY <1>5, <1>6, <1>10
  <2>2. cssText(map) = <<>> /\ <<>> \in Text
    BY <1>7, <1>8, <1>10 DEF Text
  <2>3. Declarations(<<>>) = Declared(<< <<>> >>)
    BY <2>2, SplitAppend DEF Declarations, Declared
  <2>4. Declared(<< <<>> >>) = Declare(<<>>, <<>>)
    <3>1. << <<>> >> = Append(<<>>, <<>>) /\ <<>> \in Seq(Text)
      BY DEF Text
    <3>2. Declared(Append(<<>>, <<>>)) = Declare(Declared(<<>>), <<>>)
      BY <2>2, <3>1, DeclareAppend
    <3>3. QED
      BY <3>1, <3>2, DeclareAppend
  <2>5. FirstColon(<<>>) = 0
    BY <2>2, ColonIn
  <2>6. Declare(<<>>, <<>>) = <<>>
    BY <2>5, DeclareIs
  <2>7. QED
    BY <2>1, <2>2, <2>3, <2>4, <2>6
<1>11. QED
  BY <1>9, <1>10

-----------------------------------------------------------------------------
(* The attributes of elements: a node has an element and a name, an element   *)
(* has one node of a name, and a classList in use is of its element.          *)
Names      == DOMAIN Values
Node       == [name : Names \cup {<<>>}, value : Text, changed : BOOLEAN, owner : Writable \cup {0}]
ListObject == [owner : Writable \cup {0}, tokens : TokenLists]
States     == [attrs : [AttrNodes -> Node], lists : [ListIds -> ListObject],
               current : [Writable -> ListIds \cup {0}]]

Owns(s, e, n, a) == s.attrs[a].owner = e /\ s.attrs[a].name = n

OwnedAreNamed(s) == \A a \in AttrNodes : s.attrs[a].owner # 0 => s.attrs[a].name # <<>>
OneOfAName(s) ==
  \A a, b \in AttrNodes : \A e \in Writable, n \in Names : Owns(s, e, n, a) /\ Owns(s, e, n, b) => a = b
CurrentOwned(s) == \A e \in Writable : s.current[e] # 0 => s.lists[s.current[e]].owner = e
Sound(s) == s \in States /\ OwnedAreNamed(s) /\ OneOfAName(s) /\ CurrentOwned(s)

(* What may differ between two states.                                        *)
OnlyNode(s, t, a) == /\ t \in States /\ t.lists = s.lists /\ t.current = s.current
                     /\ \A c \in AttrNodes \ {a} : t.attrs[c] = s.attrs[c]
OnlyList(s, t, l) == /\ t \in States /\ t.attrs = s.attrs
                     /\ \A k \in ListIds \ {l} : t.lists[k] = s.lists[k]

LEMMA NameFacts ==
  /\ Class \in Names /\ Style \in Names /\ Data \in Names /\ <<>> \notin Names
  /\ Class # Style /\ Class # Data /\ Style # Data
  /\ 0 \notin Writable /\ 0 \notin AttrNodes /\ 0 \notin ListIds
  /\ \A n \in Names : n # <<>> /\ Values[n] \subseteq Text
<1>1. {Class, Style, Data} \subseteq Names /\ <<>> \notin Names /\ \A n \in Names : Values[n] \subseteq Text
  BY ViewsAssumption DEF Names, Text
<1>2. Class # Style /\ Class # Data /\ Style # Data
  BY DEF Class, Style, Data
<1>3. 0 \notin Writable /\ 0 \notin AttrNodes /\ 0 \notin ListIds
  BY ViewsAssumption
<1>4. QED
  BY <1>1, <1>2, <1>3

(* getAttributeNode finds the node of a name, when the element has one.       *)
LEMMA NodeFound ==
  ASSUME NEW s, NEW e, NEW n
  PROVE  LET g == getAttributeNode(s, e, n)
         IN  \/ g = 0 /\ ~Present(s, e, n) /\ \A a \in AttrNodes : ~Owns(s, e, n, a)
             \/ g \in AttrNodes /\ Present(s, e, n) /\ Owns(s, e, n, g)
<1> DEFINE own == {a \in AttrNodes : s.attrs[a].owner = e /\ s.attrs[a].name = n}
           g == getAttributeNode(s, e, n)
<1>1. CASE own = {}
  BY <1>1 DEF getAttributeNode, Present, Owns
<1>2. CASE own # {}
  <2>1. g = CHOOSE a \in own : TRUE
    BY <1>2 DEF getAttributeNode
  <2>2. g \in own
    BY <1>2, <2>1
  <2>3. g # 0
    BY <2>2, NameFacts
  <2>4. QED
    BY <2>2, <2>3 DEF Present, Owns
<1>3. QED
  BY <1>1, <1>2

LEMMA NodeIs ==
  ASSUME NEW s, Sound(s), NEW e \in Writable, NEW n \in Names, NEW a \in AttrNodes, Owns(s, e, n, a)
  PROVE  getAttributeNode(s, e, n) = a /\ Present(s, e, n)
BY NodeFound DEF Sound, OneOfAName

LEMMA FreshIn ==
  ASSUME NEW objects, objects # {}
  PROVE  Fresh(objects) \in objects
BY DEF Fresh

LEMMA SetValueIs ==
  ASSUME NEW s \in States, NEW a \in AttrNodes, NEW v \in Text
  PROVE  /\ OnlyNode(s, SetValue(s, a, v), a)
         /\ SetValue(s, a, v).attrs[a] =
              [name |-> s.attrs[a].name, value |-> v, changed |-> TRUE, owner |-> s.attrs[a].owner]
<1> DEFINE node == [name |-> s.attrs[a].name, value |-> v, changed |-> TRUE, owner |-> s.attrs[a].owner]
           t == [s EXCEPT !.attrs = [s.attrs EXCEPT ![a] = node]]
<1>1. s.attrs[a] \in Node /\ s.attrs \in [AttrNodes -> Node]
  BY DEF States
<1>2. [[s.attrs[a] EXCEPT !.value = v] EXCEPT !.changed = TRUE] = node
  <2> DEFINE x == s.attrs[a]
             x2 == [x EXCEPT !.value = v]
  <2>1. x = [name |-> x.name, value |-> x.value, changed |-> x.changed, owner |-> x.owner]
    BY <1>1 DEF Node
  <2> HIDE DEF x
  <2>2. x2 = [name |-> x.name, value |-> v, changed |-> x.changed, owner |-> x.owner]
    BY <2>1
  <2> HIDE DEF x2
  <2>3. [x2 EXCEPT !.changed = TRUE] = [name |-> x.name, value |-> v, changed |-> TRUE, owner |-> x.owner]
    <3>1. ASSUME NEW yes
          PROVE  [x2 EXCEPT !.changed = yes] = [name |-> x.name, value |-> v, changed |-> yes, owner |-> x.owner]
      BY <2>2
    <3>2. QED
      BY <3>1, Zenon
  <2>4. QED
    BY <2>3 DEF x, x2
<1>3. SetValue(s, a, v) = [s EXCEPT !.attrs = [s.attrs EXCEPT ![a] = [[s.attrs[a] EXCEPT !.value = v] EXCEPT !.changed = TRUE]]]
  <2>1. [s EXCEPT !.attrs[a].value = v].attrs[a] = [s.attrs[a] EXCEPT !.value = v]
    BY <1>1 DEF States
  <2>2. [[s.attrs EXCEPT ![a] = [@ EXCEPT !.value = v]] EXCEPT ![a] = [@ EXCEPT !.changed = TRUE]]
          = [s.attrs EXCEPT ![a] = [[s.attrs[a] EXCEPT !.value = v] EXCEPT !.changed = TRUE]]
    BY <1>1
  <2>3. QED
    BY <2>2 DEF SetValue, States
<1>4. node \in Node
  BY <1>1 DEF Node
<1> HIDE DEF node
<1>5. OnlyNode(s, t, a) /\ t.attrs[a] = node
  BY <1>1, <1>4 DEF OnlyNode, States
<1>6. SetValue(s, a, v) = t
  BY <1>2, <1>3
<1>7. QED
  BY <1>5, <1>6 DEF node

LEMMA NewAttrIs ==
  ASSUME NEW s \in States, NEW a \in AttrNodes, NEW n \in Names, NEW v \in Text
  PROVE  /\ OnlyNode(s, NewAttr(s, a, n, v), a)
         /\ NewAttr(s, a, n, v).attrs[a] = [name |-> n, value |-> v, changed |-> FALSE, owner |-> 0]
BY DEF NewAttr, States, Node, OnlyNode

Owned(s, a, e) == [s EXCEPT !.attrs[a].owner = e]

LEMMA OwnedIs ==
  ASSUME NEW s \in States, NEW a \in AttrNodes, NEW e \in Writable \cup {0}
  PROVE  /\ OnlyNode(s, Owned(s, a, e), a)
         /\ Owned(s, a, e).attrs[a] =
              [name |-> s.attrs[a].name, value |-> s.attrs[a].value, changed |-> s.attrs[a].changed, owner |-> e]
BY DEF Owned, States, Node, OnlyNode

Tokened(s, l, tokens) == [s EXCEPT !.lists[l].tokens = tokens]

LEMMA TokenedIs ==
  ASSUME NEW s \in States, NEW l \in ListIds, NEW tokens \in TokenLists
  PROVE  /\ OnlyList(s, Tokened(s, l, tokens), l) /\ Tokened(s, l, tokens).current = s.current
         /\ Tokened(s, l, tokens).lists[l] = [owner |-> s.lists[l].owner, tokens |-> tokens]
BY DEF Tokened, States, ListObject, OnlyList

Unlisted(s, e) == [s EXCEPT !.current[e] = 0]

LEMMA UnlistedIs ==
  ASSUME NEW s \in States, NEW e \in Writable
  PROVE  /\ Unlisted(s, e) \in States /\ Unlisted(s, e).attrs = s.attrs /\ Unlisted(s, e).lists = s.lists
         /\ Unlisted(s, e).current[e] = 0
         /\ \A x \in Writable \ {e} : Unlisted(s, e).current[x] = s.current[x]
BY DEF Unlisted, States

LEMMA TokensNowTyped ==
  ASSUME NEW s \in States, NEW e \in Writable
  PROVE  TokensNow(s, e) \in TokenLists
<1>1. CASE s.current[e] # 0
  BY <1>1 DEF TokensNow, States, ListObject
<1>2. CASE s.current[e] = 0
  <2>1. <<>> \in TokenLists
    BY DEF TokenLists, Once
  <2>2. CASE Present(s, e, Class)
    <3>1. ValueOf(s, e, Class) \in Text
      BY <2>2, NodeFound DEF ValueOf, States, Node
    <3>2. addTokens(ValueOf(s, e, Class)) \in TokenLists
      BY <3>1, TokensOfText
    <3>3. QED
      BY <1>2, <2>2, <3>2 DEF TokensNow
  <2>3. QED
    BY <1>2, <2>1, <2>2 DEF TokensNow
<1>3. QED
  BY <1>1, <1>2

(* classList: the one the element has, or a new one of what its attribute is. *)
LEMMA classListIs ==
  ASSUME NEW s \in States, CurrentOwned(s), NEW e \in Writable, s.current[e] = 0 => FreeLists(s) # {}
  PROVE  LET c == classList(s, e)
         IN  /\ OnlyList(s, c, c.current[e]) /\ CurrentOwned(c)
             /\ c.current[e] \in ListIds
             /\ c.lists[c.current[e]] = [owner |-> e, tokens |-> TokensNow(s, e)]
             /\ \A x \in Writable \ {e} : c.current[x] = s.current[x]
             /\ s.current[e] # 0 => c = s
<1> DEFINE c == classList(s, e)
<1>1. CASE s.current[e] # 0
  <2>1. c = s
    BY <1>1 DEF classList
  <2>2. s.current[e] \in ListIds /\ s.lists[s.current[e]].owner = e
    BY <1>1 DEF CurrentOwned, States
  <2>3. s.lists[s.current[e]] = [owner |-> e, tokens |-> s.lists[s.current[e]].tokens]
    BY <2>2 DEF States, ListObject
  <2>4. TokensNow(s, e) = s.lists[s.current[e]].tokens
    BY <1>1 DEF TokensNow
  <2> HIDE DEF c
  <2>5. QED
    BY <2>1, <2>2, <2>3, <2>4 DEF OnlyList, c
<1>2. CASE s.current[e] = 0
  <2> DEFINE l == Fresh(FreeLists(s))
             object == [owner |-> e, tokens |-> TokensNow(s, e)]
  <2>1. l \in ListIds /\ s.lists[l].owner = 0
    BY <1>2, FreshIn DEF FreeLists
  <2>2. c = [s EXCEPT !.current[e] = l, !.lists[l] = object]
    BY <1>2 DEF classList
  <2>3. object \in ListObject
    BY TokensNowTyped DEF ListObject
  <2> HIDE DEF l, object, c
  <2>4. c \in States /\ c.attrs = s.attrs /\ c.current[e] = l /\ c.lists[l] = object
    BY <2>1, <2>2, <2>3 DEF States
  <2>5. \A x \in Writable \ {e} : c.current[x] = s.current[x]
    BY <2>1, <2>2, <2>3 DEF States
  <2>6. \A k \in ListIds \ {l} : c.lists[k] = s.lists[k]
    BY <2>1, <2>2, <2>3 DEF States
  <2>7. CurrentOwned(c)
    <3>1. ASSUME NEW x \in Writable, c.current[x] # 0 PROVE c.lists[c.current[x]].owner = x
      <4>1. CASE x = e
        BY <2>4, <4>1 DEF object
      <4>2. CASE x # e
        <5>1. c.current[x] = s.current[x] /\ s.current[x] # 0 /\ s.current[x] \in ListIds
          BY <2>5, <3>1, <4>2 DEF States
        <5>2. s.lists[s.current[x]].owner = x
          BY <5>1 DEF CurrentOwned
        <5>3. s.current[x] # l
          BY <2>1, <5>2, NameFacts
        <5>4. QED
          BY <2>6, <5>1, <5>2, <5>3
      <4>3. QED
        BY <4>1, <4>2
    <3>2. QED
      BY <3>1 DEF CurrentOwned
  <2>8. QED
    BY <1>2, <2>1, <2>4, <2>5, <2>6, <2>7 DEF OnlyList, object, c
<1>3. QED
  BY <1>1, <1>2 DEF States

(* The same, field by field.                                                  *)
LEMMA SetValueFields ==
  ASSUME NEW s \in States, NEW a \in AttrNodes, NEW v \in Text
  PROVE  /\ OnlyNode(s, SetValue(s, a, v), a)
         /\ SetValue(s, a, v).attrs[a].name = s.attrs[a].name /\ SetValue(s, a, v).attrs[a].value = v
         /\ SetValue(s, a, v).attrs[a].changed /\ SetValue(s, a, v).attrs[a].owner = s.attrs[a].owner
<1> DEFINE t == SetValue(s, a, v)
<1>1. /\ OnlyNode(s, t, a)
      /\ t.attrs[a] = [name |-> s.attrs[a].name, value |-> v, changed |-> TRUE, owner |-> s.attrs[a].owner]
  BY SetValueIs
<1> HIDE DEF t
<1>2. /\ t.attrs[a].name = s.attrs[a].name /\ t.attrs[a].value = v
      /\ t.attrs[a].changed /\ t.attrs[a].owner = s.attrs[a].owner
  BY <1>1
<1>3. QED
  BY <1>1, <1>2 DEF t

LEMMA OwnedFields ==
  ASSUME NEW s \in States, NEW a \in AttrNodes, NEW e \in Writable \cup {0}
  PROVE  /\ OnlyNode(s, Owned(s, a, e), a)
         /\ Owned(s, a, e).attrs[a].name = s.attrs[a].name /\ Owned(s, a, e).attrs[a].value = s.attrs[a].value
         /\ Owned(s, a, e).attrs[a].changed = s.attrs[a].changed /\ Owned(s, a, e).attrs[a].owner = e
<1> DEFINE t == Owned(s, a, e)
<1>1. /\ OnlyNode(s, t, a)
      /\ t.attrs[a] = [name |-> s.attrs[a].name, value |-> s.attrs[a].value, changed |-> s.attrs[a].changed, owner |-> e]
  BY OwnedIs
<1> HIDE DEF t
<1>2. /\ t.attrs[a].name = s.attrs[a].name /\ t.attrs[a].value = s.attrs[a].value
      /\ t.attrs[a].changed = s.attrs[a].changed /\ t.attrs[a].owner = e
  BY <1>1
<1>3. QED
  BY <1>1, <1>2 DEF t

LEMMA TokenedFields ==
  ASSUME NEW s \in States, NEW l \in ListIds, NEW tokens \in TokenLists
  PROVE  /\ OnlyList(s, Tokened(s, l, tokens), l) /\ Tokened(s, l, tokens).current = s.current
         /\ Tokened(s, l, tokens).lists[l].owner = s.lists[l].owner
         /\ Tokened(s, l, tokens).lists[l].tokens = tokens
<1> DEFINE t == Tokened(s, l, tokens)
<1>1. /\ OnlyList(s, t, l) /\ t.current = s.current
      /\ t.lists[l] = [owner |-> s.lists[l].owner, tokens |-> tokens]
  BY TokenedIs
<1> HIDE DEF t
<1>2. t.lists[l].owner = s.lists[l].owner /\ t.lists[l].tokens = tokens
  BY <1>1
<1>3. QED
  BY <1>1, <1>2 DEF t

LEMMA NewAttrFields ==
  ASSUME NEW s \in States, NEW a \in AttrNodes, NEW n \in Names, NEW v \in Text
  PROVE  /\ OnlyNode(s, NewAttr(s, a, n, v), a)
         /\ NewAttr(s, a, n, v).attrs[a].name = n /\ NewAttr(s, a, n, v).attrs[a].value = v
         /\ ~NewAttr(s, a, n, v).attrs[a].changed /\ NewAttr(s, a, n, v).attrs[a].owner = 0
<1> DEFINE t == NewAttr(s, a, n, v)
<1>1. OnlyNode(s, t, a) /\ t.attrs[a] = [name |-> n, value |-> v, changed |-> FALSE, owner |-> 0]
  BY NewAttrIs
<1> HIDE DEF t
<1>2. t.attrs[a].name = n /\ t.attrs[a].value = v /\ ~t.attrs[a].changed /\ t.attrs[a].owner = 0
  BY <1>1
<1>3. QED
  BY <1>1, <1>2 DEF t

-----------------------------------------------------------------------------
(* What the standard says: for each element the texts of the attributes it    *)
(* has.                                                                       *)
Texts == UNION {[N -> Text] : N \in SUBSET Names}

LEMMA StdSetIs ==
  ASSUME NEW d \in [Writable -> Texts], NEW e \in Writable, NEW n \in Names, NEW v \in Text
  PROVE  /\ StdSet(d, e, n, v) \in [Writable -> Texts]
         /\ \A x \in Writable \ {e} : StdSet(d, e, n, v)[x] = d[x]
         /\ DOMAIN StdSet(d, e, n, v)[e] = DOMAIN d[e] \cup {n}
         /\ StdSet(d, e, n, v)[e][n] = v
         /\ \A m \in DOMAIN d[e] \ {n} : StdSet(d, e, n, v)[e][m] = d[e][m]
<1> DEFINE f == d[e]
           g == [m \in DOMAIN f \cup {n} |-> IF m = n THEN v ELSE f[m]]
<1>1. StdSet(d, e, n, v) = [d EXCEPT ![e] = g]
  BY DEF StdSet
<1>2. PICK N \in SUBSET Names : f \in [N -> Text]
  BY DEF Texts
<1>3. g \in [N \cup {n} -> Text] /\ DOMAIN f = N
  BY <1>2
<1>4. g \in Texts
  <2> HIDE DEF g, f
  <2> QED BY <1>2, <1>3 DEF Texts
<1>5. DOMAIN g = DOMAIN f \cup {n} /\ g[n] = v /\ \A m \in DOMAIN f \ {n} : g[m] = f[m]
  OBVIOUS
<1> HIDE DEF g
<1>6. QED
  BY <1>1, <1>4, <1>5

LEMMA StdDropIs ==
  ASSUME NEW d \in [Writable -> Texts], NEW e \in Writable, NEW n
  PROVE  /\ StdDrop(d, e, n) \in [Writable -> Texts]
         /\ \A x \in Writable \ {e} : StdDrop(d, e, n)[x] = d[x]
         /\ DOMAIN StdDrop(d, e, n)[e] = DOMAIN d[e] \ {n}
         /\ \A m \in DOMAIN d[e] \ {n} : StdDrop(d, e, n)[e][m] = d[e][m]
<1> DEFINE f == d[e]
           g == [m \in DOMAIN f \ {n} |-> f[m]]
<1>1. StdDrop(d, e, n) = [d EXCEPT ![e] = g]
  BY DEF StdDrop
<1>2. PICK N \in SUBSET Names : f \in [N -> Text]
  BY DEF Texts
<1>3. g \in [N \ {n} -> Text] /\ DOMAIN f = N
  BY <1>2
<1>4. g \in Texts
  <2> HIDE DEF g, f
  <2> QED BY <1>2, <1>3 DEF Texts
<1>5. DOMAIN g = DOMAIN f \ {n} /\ \A m \in DOMAIN f \ {n} : g[m] = f[m]
  OBVIOUS
<1> HIDE DEF g
<1>6. QED
  BY <1>1, <1>4, <1>5

LEMMA StdTyped ==
  ASSUME NEW d \in [Writable -> Texts], NEW e \in Writable
  PROVE  /\ DOMAIN d[e] \subseteq Names
         /\ \A n \in DOMAIN d[e] : d[e][n] \in Text
         /\ TokensIn(d[e]) \in TokenLists
<1>1. PICK N \in SUBSET Names : d[e] \in [N -> Text]
  BY DEF Texts
<1>2. <<>> \in TokenLists
  BY DEF TokenLists, Once
<1>3. QED
  BY <1>1, <1>2, TokensOfText DEF TokensIn

(* An element has the attributes it has by the standard, with their values;   *)
(* excepted are class, and the value of a style written past by its own view. *)
PresentAgree(s, d) ==
  \A e \in Writable, n \in Names :
    n # Class => ((\E a \in AttrNodes : Owns(s, e, n, a)) <=> n \in DOMAIN d[e])
ValuesAgree(s, d, st, by) ==
  \A a \in AttrNodes : \A e \in Writable, n \in Names : Owns(s, e, n, a) /\ n # Class =>
    \/ s.attrs[a].value = d[e][n]
    \/ n = Style /\ st[e].from = a /\ ~s.attrs[a].changed /\ <<e, Style>> \in by
(* PRIVATE is a style; the Map is what it says unless it has been written.    *)
ViewsKept(s, st, by) ==
  \A e \in Writable : st[e].from # 0 =>
    /\ s.attrs[st[e].from].name = Style
    /\ ~s.attrs[st[e].from].changed /\ <<e, Style>> \notin by =>
         st[e].map = Declarations(s.attrs[st[e].from].value)
PlainParts(s, d, st, by) == PresentAgree(s, d) /\ ValuesAgree(s, d, st, by) /\ ViewsKept(s, st, by)

Views == [Writable -> [from : AttrNodes \cup {0}, map : Maps]]

(* An attribute other than class is written: the node that the element has,   *)
(* or one that enters it.                                                     *)
Placed(s, t, e, n, a) ==
  /\ OnlyNode(s, t, a) /\ Owns(t, e, n, a)
  /\ Owns(s, e, n, a) \/ (s.attrs[a].owner = 0 /\ \A c \in AttrNodes : ~Owns(s, e, n, c))
Sets(s, t, e, n, v, a) ==
  /\ Placed(s, t, e, n, a) /\ t.attrs[a].value = v /\ s.attrs[a].name \in {<<>>, n}
  /\ s.attrs[a].name = n =>
       (t.attrs[a].changed \/ (s.attrs[a].value = v /\ s.attrs[a].changed = t.attrs[a].changed))

LEMMA ElementSetIs ==
  ASSUME NEW s, Sound(s), FreeNodes(s) # {}, NEW e \in Writable, NEW n \in Names, n # Class, NEW v \in Text
  PROVE  \E a \in AttrNodes : Sets(s, ElementSetAttribute(s, e, n, v), e, n, v, a)
<1> DEFINE t == ElementSetAttribute(s, e, n, v)
<1>1. CASE Present(s, e, n)
  <2> DEFINE g == getAttributeNode(s, e, n)
  <2>1. g \in AttrNodes /\ Owns(s, e, n, g)
    BY <1>1, NodeFound
  <2>2. t = SetValue(s, g, v)
    BY <1>1 DEF ElementSetAttribute
  <2> HIDE DEF g, t
  <2>3. /\ OnlyNode(s, t, g)
        /\ t.attrs[g] = [name |-> s.attrs[g].name, value |-> v, changed |-> TRUE, owner |-> s.attrs[g].owner]
    BY <2>1, <2>2, SetValueIs DEF Sound
  <2>4. Sets(s, t, e, n, v, g)
    BY <2>1, <2>3 DEF Sets, Placed, Owns
  <2>5. QED
    BY <2>1, <2>4 DEF t
<1>2. CASE ~Present(s, e, n)
  <2> DEFINE a == Fresh(FreeNodes(s))
             r == NewAttr(s, a, n, v)
  <2>1. a \in AttrNodes /\ s.attrs[a].name = <<>> /\ s.attrs[a].owner = 0
    BY FreshIn DEF FreeNodes, Sound, OwnedAreNamed
  <2>2. \A c \in AttrNodes : ~Owns(s, e, n, c)
    BY <1>2, NodeFound
  <2>3. t = setAttribute(r, e, a)
    BY <1>2 DEF ElementSetAttribute
  <2> HIDE DEF a
  <2>4. OnlyNode(s, r, a) /\ r.attrs[a] = [name |-> n, value |-> v, changed |-> FALSE, owner |-> 0]
    BY <2>1, NewAttrIs DEF Sound
  <2> HIDE DEF r, t
  <2>5. t = Owned(r, a, e)
    BY <2>3, <2>4 DEF setAttribute, Owned
  <2>6. OnlyNode(r, t, a) /\ t.attrs[a] = [name |-> n, value |-> v, changed |-> FALSE, owner |-> e]
    <3>1. r \in States /\ e \in Writable \cup {0}
      BY <2>4 DEF OnlyNode
    <3>2. /\ OnlyNode(r, Owned(r, a, e), a)
          /\ Owned(r, a, e).attrs[a] =
               [name |-> r.attrs[a].name, value |-> r.attrs[a].value, changed |-> r.attrs[a].changed, owner |-> e]
      BY <2>1, <3>1, OwnedIs
    <3>3. QED
      BY <2>4, <2>5, <3>2
  <2>7. OnlyNode(s, t, a)
    BY <2>4, <2>6 DEF OnlyNode
  <2>8. t.attrs[a].owner = e /\ t.attrs[a].name = n /\ t.attrs[a].value = v /\ n # <<>>
    BY <2>6, NameFacts
  <2>9. Sets(s, t, e, n, v, a)
    BY <2>1, <2>2, <2>7, <2>8 DEF Sets, Placed, Owns
  <2>10. QED
    BY <2>1, <2>9 DEF t
<1>3. QED
  BY <1>1, <1>2

LEMMA PlacedSound ==
  ASSUME NEW s, Sound(s), NEW t, NEW e \in Writable, NEW n \in Names, NEW a \in AttrNodes, Placed(s, t, e, n, a)
  PROVE  Sound(t)
<1>1. OnlyNode(s, t, a) /\ Owns(t, e, n, a) /\ (Owns(s, e, n, a) \/ \A c \in AttrNodes : ~Owns(s, e, n, c))
  BY DEF Placed
<1>2. OwnedAreNamed(t)
  BY <1>1, NameFacts DEF OwnedAreNamed, OnlyNode, Owns, Sound
<1>3. OneOfAName(t)
  <2>1. ASSUME NEW b \in AttrNodes, NEW x \in Writable, NEW m \in Names, Owns(t, x, m, b), b # a
        PROVE  Owns(s, x, m, b) /\ ~Owns(t, x, m, a)
    <3>1. Owns(s, x, m, b)
      BY <1>1, <2>1 DEF OnlyNode, Owns
    <3>2. ASSUME Owns(t, x, m, a) PROVE FALSE
      <4>1. x = e /\ m = n
        BY <1>1, <3>2 DEF Owns
      <4>2. QED
        BY <1>1, <2>1, <3>1, <4>1 DEF Sound, OneOfAName
    <3>3. QED
      BY <3>1, <3>2
  <2>2. QED
    BY <2>1 DEF OneOfAName, Sound
<1>4. CurrentOwned(t)
  BY <1>1 DEF CurrentOwned, OnlyNode, Sound
<1>5. QED
  BY <1>1, <1>2, <1>3, <1>4 DEF Sound, OnlyNode

LEMMA PlacedOthers ==
  ASSUME NEW s, Sound(s), NEW t, NEW e \in Writable, NEW n \in Names, NEW a \in AttrNodes, Placed(s, t, e, n, a),
         NEW c \in AttrNodes, c # a, NEW x, NEW m
  PROVE  /\ t.attrs[c] = s.attrs[c] /\ (Owns(t, x, m, c) <=> Owns(s, x, m, c))
         /\ Owns(s, x, m, c) => x # e \/ m # n
<1>1. t.attrs[c] = s.attrs[c]
  BY DEF Placed, OnlyNode
<1>2. Owns(s, e, n, c) => FALSE
  BY DEF Placed, Sound, OneOfAName
<1>3. QED
  BY <1>1, <1>2 DEF Owns

LEMMA PlacedPresent ==
  ASSUME NEW s, Sound(s), NEW t, NEW e \in Writable, NEW n \in Names, NEW a \in AttrNodes, Placed(s, t, e, n, a),
         NEW d \in [Writable -> Texts], NEW v \in Text, PresentAgree(s, d)
  PROVE  PresentAgree(t, StdSet(d, e, n, v))
<1> DEFINE d2 == StdSet(d, e, n, v)
<1>1. (\A x \in Writable \ {e} : d2[x] = d[x]) /\ DOMAIN d2[e] = DOMAIN d[e] \cup {n}
  BY StdSetIs
<1> HIDE DEF d2
<1>2. SUFFICES ASSUME NEW x \in Writable, NEW m \in Names, m # Class
               PROVE  (\E c \in AttrNodes : Owns(t, x, m, c)) <=> m \in DOMAIN d2[x]
  BY DEF PresentAgree, d2
<1>3. CASE x = e /\ m = n
  BY <1>1, <1>3 DEF Placed
<1>4. CASE ~(x = e /\ m = n)
  <2>1. ~Owns(t, x, m, a) /\ ~Owns(s, x, m, a)
    BY <1>4, NameFacts DEF Owns, Placed
  <2>2. (\E c \in AttrNodes : Owns(t, x, m, c)) <=> (\E c \in AttrNodes : Owns(s, x, m, c))
    BY <2>1, PlacedOthers
  <2>3. m \in DOMAIN d2[x] <=> m \in DOMAIN d[x]
    BY <1>1, <1>4
  <2>4. QED
    BY <1>2, <2>2, <2>3 DEF PresentAgree
<1>5. QED
  BY <1>3, <1>4

LEMMA SetsAgree ==
  ASSUME NEW s, Sound(s), NEW t, NEW e \in Writable, NEW n \in Names, NEW v \in Text, NEW a \in AttrNodes,
         NEW d \in [Writable -> Texts], NEW st \in Views, NEW by,
         Sets(s, t, e, n, v, a), PlainParts(s, d, st, by)
  PROVE  PlainParts(t, StdSet(d, e, n, v), st, by)
<1> DEFINE d2 == StdSet(d, e, n, v)
<1>1. (\A x \in Writable \ {e} : d2[x] = d[x]) /\ d2[e][n] = v /\ \A m \in DOMAIN d[e] \ {n} : d2[e][m] = d[e][m]
  BY StdSetIs
<1> HIDE DEF d2
<1>2. /\ Placed(s, t, e, n, a) /\ Owns(t, e, n, a) /\ t.attrs[a].value = v
      /\ s.attrs[a].name \in {<<>>, n}
      /\ s.attrs[a].name = n =>
           (t.attrs[a].changed \/ (s.attrs[a].value = v /\ s.attrs[a].changed = t.attrs[a].changed))
  BY DEF Sets, Placed
<1>3. PresentAgree(t, d2)
  BY <1>2, PlacedPresent DEF PlainParts, d2
<1>4. ValuesAgree(t, d2, st, by)
  <2>1. SUFFICES ASSUME NEW c \in AttrNodes, NEW x \in Writable, NEW m \in Names, Owns(t, x, m, c), m # Class
                 PROVE  \/ t.attrs[c].value = d2[x][m]
                        \/ m = Style /\ st[x].from = c /\ ~t.attrs[c].changed /\ <<x, Style>> \in by
    BY DEF ValuesAgree
  <2>2. CASE c = a
    <3>1. x = e /\ m = n
      BY <1>2, <2>1, <2>2 DEF Owns
    <3>2. QED
      BY <1>1, <1>2, <2>2, <3>1
  <2>3. CASE c # a
    <3>1. t.attrs[c] = s.attrs[c] /\ Owns(s, x, m, c) /\ (x # e \/ m # n)
      <4>1. /\ t.attrs[c] = s.attrs[c] /\ (Owns(t, x, m, c) <=> Owns(s, x, m, c))
            /\ Owns(s, x, m, c) => x # e \/ m # n
        BY <1>2, <2>3, PlacedOthers
      <4>2. QED
        BY <2>1, <4>1
    <3>2. m \in DOMAIN d[x]
      BY <2>1, <3>1 DEF PlainParts, PresentAgree
    <3>3. d2[x][m] = d[x][m]
      BY <1>1, <3>1, <3>2
    <3>4. QED
      BY <2>1, <3>1, <3>3 DEF PlainParts, ValuesAgree
  <2>4. QED
    BY <2>2, <2>3
<1>5. ViewsKept(t, st, by)
  <2>1. SUFFICES ASSUME NEW x \in Writable, st[x].from # 0
                 PROVE  /\ t.attrs[st[x].from].name = Style
                        /\ ~t.attrs[st[x].from].changed /\ <<x, Style>> \notin by =>
                             st[x].map = Declarations(t.attrs[st[x].from].value)
    BY DEF ViewsKept
  <2> DEFINE f == st[x].from
  <2>2. /\ f \in AttrNodes /\ s.attrs[f].name = Style
        /\ ~s.attrs[f].changed /\ <<x, Style>> \notin by => st[x].map = Declarations(s.attrs[f].value)
    BY <2>1 DEF Views, PlainParts, ViewsKept
  <2> HIDE DEF f
  <2>3. CASE f # a
    <3>1. t.attrs[f] = s.attrs[f]
      BY <1>2, <2>2, <2>3 DEF Placed, OnlyNode
    <3>2. QED
      BY <2>2, <3>1 DEF f
  <2>4. CASE f = a
    <3>1. s.attrs[a].name = n /\ n = Style
      BY <1>2, <2>2, <2>4, NameFacts
    <3>2. t.attrs[a].name = Style
      BY <1>2, <3>1 DEF Owns
    <3>3. t.attrs[a].changed \/ (t.attrs[a].value = s.attrs[a].value /\ t.attrs[a].changed = s.attrs[a].changed)
      BY <1>2, <3>1
    <3>4. QED
      BY <2>2, <2>4, <3>2, <3>3 DEF f
  <2>5. QED
    BY <2>3, <2>4
<1>6. QED
  BY <1>3, <1>4, <1>5 DEF PlainParts, d2

-----------------------------------------------------------------------------
(* What the views of a class say: its classList, its attribute, or that there *)
(* is none.                                                                   *)
ClassIs(s, e, tokens) ==
  /\ s.current[e] # 0 => s.lists[s.current[e]].tokens = tokens
  /\ \A a \in AttrNodes : Owns(s, e, Class, a) => addTokens(s.attrs[a].value) = tokens
  /\ s.current[e] = 0 /\ (\A a \in AttrNodes : ~Owns(s, e, Class, a)) => tokens = <<>>
ClassAgree(s, d, by) == \A e \in Writable : <<e, Class>> \notin by => ClassIs(s, e, TokensIn(d[e]))

Agree(s, d, st, by) == PlainParts(s, d, st, by) /\ ClassAgree(s, d, by)

(* Only the class of e is another one; only attributes other than class are.  *)
ClassOnly(s, t, e) ==
  /\ t \in States
  /\ \A c \in AttrNodes : s.attrs[c].name \notin {Class, <<>>} \/ t.attrs[c].name # Class => t.attrs[c] = s.attrs[c]
  /\ \A x \in Writable \ {e} :
       /\ t.current[x] = s.current[x]
       /\ t.current[x] # 0 => t.lists[t.current[x]] = s.lists[s.current[x]]
       /\ \A c \in AttrNodes : Owns(s, x, Class, c) \/ Owns(t, x, Class, c) => t.attrs[c] = s.attrs[c]
ClassKept(s, t) ==
  /\ t.current = s.current /\ t.lists = s.lists
  /\ \A c \in AttrNodes : s.attrs[c].name = Class \/ t.attrs[c].name = Class => t.attrs[c] = s.attrs[c]

ClassOnlyIn(d, d2, e) ==
  /\ \A x \in Writable \ {e} : d2[x] = d[x]
  /\ \A n \in Names : n # Class => (n \in DOMAIN d2[e] <=> n \in DOMAIN d[e]) /\ (n \in DOMAIN d[e] => d2[e][n] = d[e][n])
ClassKeptIn(d, d2) == \A e \in Writable : TokensIn(d2[e]) = TokensIn(d[e])
SameStyles(by, by2)  == \A e \in Writable : <<e, Style>> \in by <=> <<e, Style>> \in by2
SameClasses(by, by2) == \A e \in Writable : <<e, Class>> \in by <=> <<e, Class>> \in by2

LEMMA ClassSame ==
  ASSUME NEW s, NEW t, NEW x, NEW tokens, ClassIs(s, x, tokens),
         t.current[x] = s.current[x], t.current[x] # 0 => t.lists[t.current[x]] = s.lists[s.current[x]],
         \A c \in AttrNodes : Owns(s, x, Class, c) \/ Owns(t, x, Class, c) => t.attrs[c] = s.attrs[c]
  PROVE  ClassIs(t, x, tokens)
<1>1. \A c \in AttrNodes : Owns(t, x, Class, c) <=> Owns(s, x, Class, c)
  BY DEF Owns
<1>2. QED
  BY <1>1 DEF ClassIs

(* When only the class of one element is written, everything else agrees as   *)
(* before.                                                                    *)
LEMMA ClassChange ==
  ASSUME NEW s, Sound(s), NEW t, NEW e, NEW d, NEW d2, NEW st \in Views, NEW by, NEW by2,
         Agree(s, d, st, by), ClassOnly(s, t, e), ClassOnlyIn(d, d2, e), SameStyles(by, by2),
         \A x \in Writable \ {e} : <<x, Class>> \in by => <<x, Class>> \in by2,
         e \in Writable /\ <<e, Class>> \notin by2 => ClassIs(t, e, TokensIn(d2[e]))
  PROVE  Agree(t, d2, st, by2)
<1>1. ASSUME NEW c \in AttrNodes, NEW x \in Writable, NEW n \in Names, n # Class
      PROVE  /\ Owns(t, x, n, c) <=> Owns(s, x, n, c)
             /\ Owns(s, x, n, c) => t.attrs[c] = s.attrs[c]
  BY <1>1, NameFacts DEF ClassOnly, Owns
<1>2. ASSUME NEW x \in Writable, NEW n \in Names, n # Class
      PROVE  /\ n \in DOMAIN d2[x] <=> n \in DOMAIN d[x]
             /\ n \in DOMAIN d[x] => d2[x][n] = d[x][n]
  BY <1>2 DEF ClassOnlyIn
<1>3. PresentAgree(t, d2)
  BY <1>1, <1>2 DEF PresentAgree, Agree, PlainParts
<1>4. ValuesAgree(t, d2, st, by2)
  <2>1. SUFFICES ASSUME NEW c \in AttrNodes, NEW x \in Writable, NEW m \in Names, Owns(t, x, m, c), m # Class
                 PROVE  \/ t.attrs[c].value = d2[x][m]
                        \/ m = Style /\ st[x].from = c /\ ~t.attrs[c].changed /\ <<x, Style>> \in by2
    BY DEF ValuesAgree
  <2>2. Owns(s, x, m, c) /\ t.attrs[c] = s.attrs[c]
    BY <1>1, <2>1
  <2>3. m \in DOMAIN d[x]
    BY <2>1, <2>2 DEF Agree, PlainParts, PresentAgree
  <2>4. d2[x][m] = d[x][m]
    BY <1>2, <2>1, <2>3
  <2>5. \/ s.attrs[c].value = d[x][m]
        \/ m = Style /\ st[x].from = c /\ ~s.attrs[c].changed /\ <<x, Style>> \in by
    BY <2>1, <2>2 DEF Agree, PlainParts, ValuesAgree
  <2>6. QED
    BY <2>2, <2>4, <2>5 DEF SameStyles
<1>5. ViewsKept(t, st, by2)
  <2>1. SUFFICES ASSUME NEW x \in Writable, st[x].from # 0
                 PROVE  /\ t.attrs[st[x].from].name = Style
                        /\ ~t.attrs[st[x].from].changed /\ <<x, Style>> \notin by2 =>
                             st[x].map = Declarations(t.attrs[st[x].from].value)
    BY DEF ViewsKept
  <2> DEFINE f == st[x].from
  <2>2. /\ f \in AttrNodes /\ s.attrs[f].name = Style
        /\ ~s.attrs[f].changed /\ <<x, Style>> \notin by => st[x].map = Declarations(s.attrs[f].value)
    BY <2>1 DEF Views, Agree, PlainParts, ViewsKept
  <2> HIDE DEF f
  <2>3. t.attrs[f] = s.attrs[f]
    BY <2>2, NameFacts DEF ClassOnly
  <2>4. QED
    BY <2>2, <2>3 DEF SameStyles, f
<1>6. ClassAgree(t, d2, by2)
  <2>1. SUFFICES ASSUME NEW x \in Writable, <<x, Class>> \notin by2 PROVE ClassIs(t, x, TokensIn(d2[x]))
    BY DEF ClassAgree
  <2>2. CASE x = e
    BY <2>1, <2>2
  <2>3. CASE x # e
    <3>1. <<x, Class>> \notin by /\ d2[x] = d[x]
      BY <2>1, <2>3 DEF ClassOnlyIn
    <3>2. ClassIs(s, x, TokensIn(d[x]))
      BY <3>1 DEF Agree, ClassAgree
    <3>3. /\ t.current[x] = s.current[x] /\ (t.current[x] # 0 => t.lists[t.current[x]] = s.lists[s.current[x]])
          /\ \A c \in AttrNodes : Owns(s, x, Class, c) \/ Owns(t, x, Class, c) => t.attrs[c] = s.attrs[c]
      BY <2>3 DEF ClassOnly
    <3>4. ClassIs(t, x, TokensIn(d[x]))
      BY <3>2, <3>3, ClassSame
    <3>5. QED
      BY <3>1, <3>4
  <2>4. QED
    BY <2>2, <2>3
<1>7. QED
  BY <1>3, <1>4, <1>5, <1>6 DEF Agree, PlainParts

LEMMA ClassStays ==
  ASSUME NEW s, NEW t, NEW d, NEW d2, NEW by, NEW by2,
         ClassAgree(s, d, by), ClassKept(s, t), ClassKeptIn(d, d2), SameClasses(by, by2)
  PROVE  ClassAgree(t, d2, by2)
<1>1. SUFFICES ASSUME NEW x \in Writable, <<x, Class>> \notin by2 PROVE ClassIs(t, x, TokensIn(d2[x]))
  BY DEF ClassAgree
<1>2. ClassIs(s, x, TokensIn(d[x]))
  BY <1>1 DEF SameClasses, ClassAgree
<1>3. \A c \in AttrNodes : Owns(s, x, Class, c) \/ Owns(t, x, Class, c) => t.attrs[c] = s.attrs[c]
  BY DEF ClassKept, Owns
<1>4. ClassIs(t, x, TokensIn(d[x]))
  BY <1>2, <1>3, ClassSame DEF ClassKept
<1>5. QED
  BY <1>4 DEF ClassKeptIn

LEMMA StdSetFrames ==
  ASSUME NEW d \in [Writable -> Texts], NEW e \in Writable, NEW n \in Names, NEW v \in Text
  PROVE  /\ n = Class => ClassOnlyIn(d, StdSet(d, e, n, v), e) /\ TokensIn(StdSet(d, e, n, v)[e]) = addTokens(v)
         /\ n # Class => ClassKeptIn(d, StdSet(d, e, n, v))
<1> DEFINE d2 == StdSet(d, e, n, v)
<1>1. /\ \A x \in Writable \ {e} : d2[x] = d[x]
      /\ DOMAIN d2[e] = DOMAIN d[e] \cup {n} /\ d2[e][n] = v
      /\ \A m \in DOMAIN d[e] \ {n} : d2[e][m] = d[e][m]
  BY StdSetIs
<1> HIDE DEF d2
<1>2. n = Class => ClassOnlyIn(d, d2, e)
  BY <1>1 DEF ClassOnlyIn
<1>3. n = Class => TokensIn(d2[e]) = addTokens(v)
  BY <1>1 DEF TokensIn
<1>4. n # Class => ClassKeptIn(d, d2)
  BY <1>1 DEF ClassKeptIn, TokensIn
<1>5. QED
  BY <1>2, <1>3, <1>4 DEF d2

LEMMA StdDropFrames ==
  ASSUME NEW d \in [Writable -> Texts], NEW e \in Writable, NEW n \in Names
  PROVE  /\ n = Class => ClassOnlyIn(d, StdDrop(d, e, n), e) /\ TokensIn(StdDrop(d, e, n)[e]) = <<>>
         /\ n # Class => ClassKeptIn(d, StdDrop(d, e, n))
<1> DEFINE d2 == StdDrop(d, e, n)
<1>1. /\ \A x \in Writable \ {e} : d2[x] = d[x]
      /\ DOMAIN d2[e] = DOMAIN d[e] \ {n}
      /\ \A m \in DOMAIN d[e] \ {n} : d2[e][m] = d[e][m]
  BY StdDropIs
<1> HIDE DEF d2
<1>2. n = Class => ClassOnlyIn(d, d2, e)
  BY <1>1 DEF ClassOnlyIn
<1>3. n = Class => TokensIn(d2[e]) = <<>>
  BY <1>1 DEF TokensIn
<1>4. n # Class => ClassKeptIn(d, d2)
  BY <1>1 DEF ClassKeptIn, TokensIn
<1>5. QED
  BY <1>2, <1>3, <1>4 DEF d2

(* An attribute other than class is written, and everything agrees.           *)
LEMMA SetsAll ==
  ASSUME NEW s, Sound(s), NEW t, NEW e \in Writable, NEW n \in Names, n # Class, NEW v \in Text, NEW a \in AttrNodes,
         Sets(s, t, e, n, v, a), NEW d \in [Writable -> Texts], NEW st \in Views, NEW by, Agree(s, d, st, by)
  PROVE  Sound(t) /\ Agree(t, StdSet(d, e, n, v), st, by)
<1>1. Sound(t)
  BY PlacedSound DEF Sets
<1>2. s.attrs[a].name # Class /\ t.attrs[a].name # Class
  BY NameFacts DEF Sets, Placed, Owns
<1>3. ClassKept(s, t)
  BY <1>2 DEF Sets, Placed, OnlyNode, ClassKept
<1>4. ClassKeptIn(d, StdSet(d, e, n, v)) /\ SameClasses(by, by)
  BY StdSetFrames DEF SameClasses
<1>5. ClassAgree(t, StdSet(d, e, n, v), by)
  BY <1>3, <1>4, ClassStays DEF Agree
<1>6. PlainParts(t, StdSet(d, e, n, v), st, by)
  BY SetsAgree DEF Agree
<1>7. QED
  BY <1>1, <1>5, <1>6 DEF Agree

-----------------------------------------------------------------------------
(* An attribute is taken from its element, and with a class its classList.    *)
Heal(by, e, n) == IF n = Class THEN by \ {<<e, Class>>} ELSE by

Drops(s, t, e, n) ==
  /\ t \in States
  /\ \A c \in AttrNodes :
       /\ ~Owns(s, e, n, c) => t.attrs[c] = s.attrs[c]
       /\ Owns(s, e, n, c) => /\ t.attrs[c].owner = 0 /\ t.attrs[c].name = s.attrs[c].name
                              /\ t.attrs[c].value = s.attrs[c].value /\ t.attrs[c].changed = s.attrs[c].changed
  /\ n # Class => t.lists = s.lists /\ t.current = s.current
  /\ n = Class => /\ t.current[e] = 0 /\ \A x \in Writable \ {e} : t.current[x] = s.current[x]
                  /\ \A l \in ListIds : /\ t.lists[l].owner = s.lists[l].owner
                                        /\ s.lists[l].owner # e => t.lists[l] = s.lists[l]

LEMMA RemoveIs ==
  ASSUME NEW s, Sound(s), NEW e \in Writable, NEW n \in Names, NEW a \in AttrNodes, Owns(s, e, n, a)
  PROVE  Drops(s, removeAttribute(s, a), e, n)
<1> DEFINE r == Owned(s, a, 0)
           t == removeAttribute(s, a)
<1>1. /\ OnlyNode(s, r, a)
      /\ r.attrs[a] = [name |-> s.attrs[a].name, value |-> s.attrs[a].value, changed |-> s.attrs[a].changed, owner |-> 0]
  BY OwnedIs DEF Sound
<1>2. s.attrs[a].name = n /\ s.attrs[a].owner = e /\ \A c \in AttrNodes : Owns(s, e, n, c) => c = a
  BY DEF Owns, Sound, OneOfAName
<1>3. t = IF n = Class THEN Unlisted(r, e) ELSE r
  BY <1>2 DEF removeAttribute, Owned, Unlisted
<1> HIDE DEF r, t
<1>4. ASSUME n # Class PROVE Drops(s, t, e, n)
  <2>1. /\ t \in States /\ t.lists = s.lists /\ t.current = s.current
        /\ \A c \in AttrNodes \ {a} : t.attrs[c] = s.attrs[c]
    BY <1>1, <1>3, <1>4 DEF OnlyNode
  <2>2. /\ t.attrs[a].owner = 0 /\ t.attrs[a].name = s.attrs[a].name
        /\ t.attrs[a].value = s.attrs[a].value /\ t.attrs[a].changed = s.attrs[a].changed
    BY <1>1, <1>3, <1>4
  <2>3. QED
    BY <1>2, <1>4, <2>1, <2>2 DEF Drops
<1>5. ASSUME n = Class PROVE Drops(s, t, e, n)
  <2>1. t = Unlisted(r, e) /\ r \in States
    BY <1>1, <1>3, <1>5 DEF OnlyNode
  <2>2. /\ t \in States /\ t.attrs = r.attrs /\ t.lists = r.lists /\ t.current[e] = 0
        /\ \A x \in Writable \ {e} : t.current[x] = r.current[x]
    BY <2>1, UnlistedIs
  <2>3. /\ r.lists = s.lists /\ r.current = s.current
        /\ \A c \in AttrNodes \ {a} : r.attrs[c] = s.attrs[c]
    BY <1>1 DEF OnlyNode
  <2>4. /\ t.attrs[a].owner = 0 /\ t.attrs[a].name = s.attrs[a].name
        /\ t.attrs[a].value = s.attrs[a].value /\ t.attrs[a].changed = s.attrs[a].changed
    BY <1>1, <2>2
  <2>5. QED
    BY <1>2, <1>5, <2>2, <2>3, <2>4 DEF Drops
<1>6. QED
  BY <1>4, <1>5 DEF t

LEMMA ElementRemoveIs ==
  ASSUME NEW s, Sound(s), NEW e \in Writable, NEW n \in Names, n = Class => Present(s, e, n)
  PROVE  Drops(s, ElementRemoveAttribute(s, e, n), e, n)
<1> DEFINE l == s.current[e]
           r == IF n = Class /\ l # 0 THEN Tokened(s, l, <<>>) ELSE s
           g == getAttributeNode(r, e, n)
           t == ElementRemoveAttribute(s, e, n)
<1>1. t = IF Present(r, e, n) THEN removeAttribute(r, g) ELSE r
  BY DEF ElementRemoveAttribute, Tokened
<1>2. /\ r \in States /\ r.attrs = s.attrs /\ r.current = s.current
      /\ \A k \in ListIds : r.lists[k].owner = s.lists[k].owner /\ (s.lists[k].owner # e => r.lists[k] = s.lists[k])
      /\ n # Class => r = s
  <2>1. CASE n = Class /\ l # 0
    <3>1. l \in ListIds /\ s.lists[l].owner = e
      BY <2>1 DEF Sound, CurrentOwned, States
    <3>2. /\ OnlyList(s, r, l) /\ r.current = s.current
          /\ r.lists[l] = [owner |-> s.lists[l].owner, tokens |-> <<>>]
      BY <2>1, <3>1, NoTokens, TokenedIs DEF Sound
    <3> HIDE DEF r, l
    <3>3. QED
      BY <2>1, <3>1, <3>2 DEF OnlyList
  <2>2. CASE ~(n = Class /\ l # 0)
    BY <2>2 DEF Sound
  <2>3. QED
    BY <2>1, <2>2
<1> HIDE DEF r, l, t
<1>3. Sound(r)
  BY <1>2 DEF Sound, OwnedAreNamed, OneOfAName, CurrentOwned, Owns, States
<1>4. \A c \in AttrNodes : Owns(r, e, n, c) <=> Owns(s, e, n, c)
  BY <1>2 DEF Owns
<1>5. CASE Present(r, e, n)
  <2>1. g \in AttrNodes /\ Owns(r, e, n, g)
    BY <1>5, NodeFound
  <2>2. Drops(r, t, e, n)
    BY <1>1, <1>3, <1>5, <2>1, RemoveIs
  <2>3. QED
    BY <1>2, <1>4, <2>2 DEF Drops, t
<1>6. CASE ~Present(r, e, n)
  <2>1. \A c \in AttrNodes : ~Owns(r, e, n, c)
    BY <1>6, NodeFound
  <2>2. n # Class
    BY <1>4, <2>1, NodeFound
  <2>3. QED
    BY <1>1, <1>2, <1>4, <1>6, <2>1, <2>2 DEF Drops, t
<1>7. QED
  BY <1>5, <1>6

LEMMA DropsSound ==
  ASSUME NEW s, Sound(s), NEW t, NEW e \in Writable, NEW n \in Names, Drops(s, t, e, n)
  PROVE  /\ Sound(t) /\ \A c \in AttrNodes : ~Owns(t, e, n, c)
         /\ n = Class => t.current[e] = 0
<1>1. \A c \in AttrNodes : t.attrs[c].name = s.attrs[c].name
                           /\ (t.attrs[c].owner = s.attrs[c].owner \/ t.attrs[c].owner = 0)
  BY DEF Drops
<1>2. OwnedAreNamed(t)
  BY <1>1 DEF OwnedAreNamed, Sound
<1>3. \A c \in AttrNodes, x \in Writable, m \in Names : Owns(t, x, m, c) => Owns(s, x, m, c)
  BY <1>1, NameFacts DEF Owns
<1>4. OneOfAName(t)
  BY <1>3 DEF OneOfAName, Sound
<1>5. \A c \in AttrNodes : ~Owns(t, e, n, c)
  BY NameFacts DEF Drops, Owns
<1>6. CurrentOwned(t)
  <2>1. CASE n # Class
    BY <2>1 DEF CurrentOwned, Drops, Sound
  <2>2. CASE n = Class
    <3>1. SUFFICES ASSUME NEW x \in Writable, t.current[x] # 0 PROVE t.lists[t.current[x]].owner = x
      BY DEF CurrentOwned
    <3>2. t.current[x] = s.current[x] /\ t.current[x] \in ListIds
      BY <2>2, <3>1 DEF Drops, States
    <3>3. QED
      BY <2>2, <3>1, <3>2 DEF Drops, Sound, CurrentOwned
  <2>3. QED
    BY <2>1, <2>2
<1>7. QED
  BY <1>2, <1>4, <1>5, <1>6 DEF Sound, Drops

LEMMA HealIs ==
  ASSUME NEW by, NEW e, NEW n
  PROVE  /\ SameStyles(by, Heal(by, e, n))
         /\ \A x \in Writable \ {e} : <<x, Class>> \in by <=> <<x, Class>> \in Heal(by, e, n)
         /\ n # Class => Heal(by, e, n) = by
BY NameFacts DEF Heal, SameStyles

LEMMA DropsClass ==
  ASSUME NEW s, Sound(s), NEW t, NEW e \in Writable, Drops(s, t, e, Class)
  PROVE  ClassOnly(s, t, e) /\ ClassIs(t, e, <<>>)
<1>1. /\ t \in States /\ t.current[e] = 0 /\ \A x \in Writable \ {e} : t.current[x] = s.current[x]
      /\ \A l \in ListIds : s.lists[l].owner # e => t.lists[l] = s.lists[l]
      /\ \A c \in AttrNodes : ~Owns(s, e, Class, c) => t.attrs[c] = s.attrs[c]
      /\ \A c \in AttrNodes : Owns(s, e, Class, c) => t.attrs[c].name = Class /\ t.attrs[c].owner = 0
  BY DEF Drops, Owns
<1>2. ClassIs(t, e, <<>>)
  BY <1>1, DropsSound, NameFacts DEF ClassIs
<1>3. \A c \in AttrNodes : s.attrs[c].name \notin {Class, <<>>} \/ t.attrs[c].name # Class => t.attrs[c] = s.attrs[c]
  BY <1>1 DEF Owns
<1>4. ASSUME NEW x \in Writable \ {e}
      PROVE  /\ t.current[x] = s.current[x]
             /\ t.current[x] # 0 => t.lists[t.current[x]] = s.lists[s.current[x]]
             /\ \A c \in AttrNodes : Owns(s, x, Class, c) \/ Owns(t, x, Class, c) => t.attrs[c] = s.attrs[c]
  <2>1. t.current[x] = s.current[x]
    BY <1>1, <1>4
  <2>2. ASSUME t.current[x] # 0 PROVE t.lists[t.current[x]] = s.lists[s.current[x]]
    <3>1. s.current[x] \in ListIds /\ s.lists[s.current[x]].owner = x
      BY <2>1, <2>2 DEF Sound, CurrentOwned, States
    <3>2. QED
      BY <1>1, <1>4, <2>1, <3>1
  <2>3. \A c \in AttrNodes : Owns(s, x, Class, c) \/ Owns(t, x, Class, c) => t.attrs[c] = s.attrs[c]
    BY <1>1, <1>4, NameFacts DEF Owns
  <2>4. QED
    BY <2>1, <2>2, <2>3
<1>5. QED
  BY <1>1, <1>2, <1>3, <1>4 DEF ClassOnly

LEMMA DropsPlain ==
  ASSUME NEW s, Sound(s), NEW t, NEW e \in Writable, NEW n \in Names, n # Class, Drops(s, t, e, n),
         NEW d \in [Writable -> Texts], NEW st \in Views, NEW by, PlainParts(s, d, st, by)
  PROVE  PlainParts(t, StdDrop(d, e, n), st, by)
<1> DEFINE d2 == StdDrop(d, e, n)
<1>1. /\ \A x \in Writable \ {e} : d2[x] = d[x]
      /\ DOMAIN d2[e] = DOMAIN d[e] \ {n}
      /\ \A m \in DOMAIN d[e] \ {n} : d2[e][m] = d[e][m]
  BY StdDropIs
<1> HIDE DEF d2
<1>2. /\ \A c \in AttrNodes : ~Owns(s, e, n, c) => t.attrs[c] = s.attrs[c]
      /\ \A c \in AttrNodes : /\ t.attrs[c].name = s.attrs[c].name /\ t.attrs[c].value = s.attrs[c].value
                              /\ t.attrs[c].changed = s.attrs[c].changed
      /\ \A c \in AttrNodes : ~Owns(t, e, n, c)
  BY DropsSound DEF Drops
<1>3. ASSUME NEW c \in AttrNodes, NEW x \in Writable, NEW m \in Names
      PROVE  Owns(t, x, m, c) <=> Owns(s, x, m, c) /\ ~(x = e /\ m = n)
  <2>1. CASE Owns(s, e, n, c)
    <3>1. t.attrs[c].owner = 0 /\ s.attrs[c].owner = e /\ s.attrs[c].name = n
      BY <2>1 DEF Drops, Owns
    <3>2. ~Owns(t, x, m, c)
      BY <3>1, NameFacts DEF Owns
    <3>3. QED
      BY <3>1, <3>2 DEF Owns
  <2>2. CASE ~Owns(s, e, n, c)
    BY <1>2, <2>2 DEF Owns
  <2>3. QED
    BY <2>1, <2>2
<1>4. PresentAgree(t, d2)
  <2>1. SUFFICES ASSUME NEW x \in Writable, NEW m \in Names, m # Class
                 PROVE  (\E c \in AttrNodes : Owns(t, x, m, c)) <=> m \in DOMAIN d2[x]
    BY DEF PresentAgree
  <2>2. m \in DOMAIN d2[x] <=> m \in DOMAIN d[x] /\ ~(x = e /\ m = n)
    BY <1>1
  <2>3. (\E c \in AttrNodes : Owns(s, x, m, c)) <=> m \in DOMAIN d[x]
    BY <2>1 DEF PlainParts, PresentAgree
  <2>4. QED
    BY <1>3, <2>2, <2>3
<1>5. ValuesAgree(t, d2, st, by)
  <2>1. SUFFICES ASSUME NEW c \in AttrNodes, NEW x \in Writable, NEW m \in Names, Owns(t, x, m, c), m # Class
                 PROVE  \/ t.attrs[c].value = d2[x][m]
                        \/ m = Style /\ st[x].from = c /\ ~t.attrs[c].changed /\ <<x, Style>> \in by
    BY DEF ValuesAgree
  <2>2. Owns(s, x, m, c) /\ ~(x = e /\ m = n)
    BY <1>3, <2>1
  <2>3. m \in DOMAIN d[x]
    BY <2>1, <2>2 DEF PlainParts, PresentAgree
  <2>4. d2[x][m] = d[x][m]
    BY <1>1, <2>2, <2>3
  <2>5. QED
    BY <1>2, <2>1, <2>2, <2>4 DEF PlainParts, ValuesAgree
<1>6. ViewsKept(t, st, by)
  BY <1>2 DEF ViewsKept, Views, PlainParts
<1>7. QED
  BY <1>4, <1>5, <1>6 DEF PlainParts, d2

LEMMA DropsAgree ==
  ASSUME NEW s, Sound(s), NEW t, NEW e \in Writable, NEW n \in Names, Drops(s, t, e, n),
         NEW d \in [Writable -> Texts], NEW st \in Views, NEW by, Agree(s, d, st, by)
  PROVE  Agree(t, StdDrop(d, e, n), st, Heal(by, e, n))
<1>1. CASE n = Class
  <2>1. ClassOnly(s, t, e) /\ ClassIs(t, e, <<>>)
    BY <1>1, DropsClass
  <2>2. ClassOnlyIn(d, StdDrop(d, e, n), e) /\ TokensIn(StdDrop(d, e, n)[e]) = <<>>
    BY <1>1, StdDropFrames
  <2>3. /\ SameStyles(by, Heal(by, e, n))
        /\ \A x \in Writable \ {e} : <<x, Class>> \in by => <<x, Class>> \in Heal(by, e, n)
    BY HealIs
  <2>4. ClassIs(t, e, TokensIn(StdDrop(d, e, n)[e]))
    BY <2>1, <2>2
  <2>5. QED
    BY <2>1, <2>2, <2>3, <2>4, ClassChange
<1>2. CASE n # Class
  <2>1. PlainParts(t, StdDrop(d, e, n), st, by)
    BY <1>2, DropsPlain DEF Agree
  <2>2. ClassKept(s, t)
    BY <1>2 DEF Drops, ClassKept, Owns
  <2>3. ClassAgree(t, StdDrop(d, e, n), by)
    <3>1. ClassKeptIn(d, StdDrop(d, e, n)) /\ SameClasses(by, by)
      BY <1>2, StdDropFrames DEF SameClasses
    <3>2. QED
      BY <2>2, <3>1, ClassStays DEF Agree
  <2>4. QED
    BY <1>2, <2>1, <2>3, HealIs DEF Agree
<1>3. QED
  BY <1>1, <1>2

-----------------------------------------------------------------------------
(* A node that no element has enters one, which has none of its name.         *)
CanEnter(s, e, n, a) ==
  /\ s.attrs[a].owner = 0 /\ s.attrs[a].name = n
  /\ \A c \in AttrNodes : ~Owns(s, e, n, c)
  /\ n = Class /\ s.current[e] = 0 => FreeLists(s) # {}

Enters(s, t, e, a) ==
  /\ t \in States /\ CurrentOwned(t) /\ t.current[e] \in ListIds
  /\ \A c \in AttrNodes \ {a} : t.attrs[c] = s.attrs[c]
  /\ Owns(t, e, Class, a) /\ addTokens(t.attrs[a].value) = addTokens(s.attrs[a].value)
  /\ \A x \in Writable \ {e} : t.current[x] = s.current[x]
  /\ \A l \in ListIds \ {t.current[e]} : t.lists[l] = s.lists[l]
  /\ t.lists[t.current[e]].tokens = addTokens(s.attrs[a].value)

LEMMA PlainEnters ==
  ASSUME NEW s, Sound(s), NEW e \in Writable, NEW n \in Names, n # Class, NEW a \in AttrNodes, CanEnter(s, e, n, a)
  PROVE  Sets(s, setAttribute(s, e, a), e, n, s.attrs[a].value, a)
<1> DEFINE t == setAttribute(s, e, a)
<1>1. t = Owned(s, a, e)
  BY DEF CanEnter, setAttribute, Owned
<1> HIDE DEF t
<1>2. /\ OnlyNode(s, t, a) /\ t.attrs[a].name = s.attrs[a].name /\ t.attrs[a].value = s.attrs[a].value
      /\ t.attrs[a].changed = s.attrs[a].changed /\ t.attrs[a].owner = e
  <2>1. s \in States /\ e \in Writable \cup {0}
    BY DEF Sound
  <2>2. QED
    BY <1>1, <2>1, OwnedFields
<1>3. Sets(s, t, e, n, s.attrs[a].value, a)
  BY <1>2 DEF Sets, Placed, Owns, CanEnter
<1>4. QED
  BY <1>3 DEF t

LEMMA ClassEnters ==
  ASSUME NEW s, Sound(s), NEW e \in Writable, NEW a \in AttrNodes, CanEnter(s, e, Class, a)
  PROVE  Enters(s, setAttribute(s, e, a), e, a)
<1> DEFINE t == setAttribute(s, e, a)
           r == Owned(s, a, e)
           c == classList(r, e)
           l == c.current[e]
           tokens == addTokens(s.attrs[a].value)
           q == Tokened(c, l, tokens)
<1>1. t = SetValue(q, a, Joined(tokens))
  BY DEF CanEnter, setAttribute, Owned, Tokened
<1>2. tokens \in TokenLists /\ Joined(tokens) \in Text /\ addTokens(Joined(tokens)) = tokens
  <2>1. s.attrs[a].value \in Text
    BY DEF Sound, States, Node
  <2>2. tokens \in TokenLists
    BY <2>1, TokensOfText
  <2> HIDE DEF tokens
  <2>3. QED
    BY <2>2, TokensOfJoined
<1> HIDE DEF tokens
<1>3. OnlyNode(s, r, a) /\ r.attrs[a].name = Class /\ r.attrs[a].owner = e
  <2>1. s \in States /\ e \in Writable \cup {0}
    BY DEF Sound
  <2>2. QED
    BY <2>1, OwnedFields DEF CanEnter
<1> HIDE DEF r
<1>4. r \in States /\ CurrentOwned(r) /\ (r.current[e] = 0 => FreeLists(r) # {})
  BY <1>3 DEF OnlyNode, CurrentOwned, Sound, CanEnter, FreeLists
<1>5. /\ OnlyList(r, c, l) /\ CurrentOwned(c) /\ l \in ListIds
      /\ \A x \in Writable \ {e} : c.current[x] = r.current[x]
  BY <1>4, classListIs
<1> HIDE DEF c
<1>6. c \in States /\ c.current[e] = l
  BY <1>5 DEF OnlyList
<1> HIDE DEF l
<1>7. /\ OnlyList(c, q, l) /\ q.current = c.current
      /\ q.lists[l].owner = c.lists[l].owner /\ q.lists[l].tokens = tokens
  BY <1>2, <1>5, <1>6, TokenedFields
<1> HIDE DEF q
<1>8. /\ OnlyNode(q, t, a) /\ t.attrs[a].name = q.attrs[a].name /\ t.attrs[a].owner = q.attrs[a].owner
      /\ t.attrs[a].value = Joined(tokens)
  <2>1. q \in States
    BY <1>7 DEF OnlyList
  <2>2. QED
    BY <1>1, <1>2, <2>1, SetValueFields
<1> HIDE DEF t
<1>9. CurrentOwned(t)
  <2>1. t.current = c.current /\ \A k \in ListIds : t.lists[k].owner = c.lists[k].owner
    BY <1>7, <1>8 DEF OnlyList, OnlyNode
  <2>2. QED
    BY <1>5, <1>6, <2>1 DEF CurrentOwned, States
<1>10. /\ t \in States /\ t.current[e] = l /\ t.lists[l].tokens = tokens
       /\ \A k \in ListIds \ {l} : t.lists[k] = s.lists[k]
       /\ \A x \in Writable \ {e} : t.current[x] = s.current[x]
       /\ \A k \in AttrNodes \ {a} : t.attrs[k] = s.attrs[k]
  BY <1>3, <1>5, <1>6, <1>7, <1>8 DEF OnlyList, OnlyNode
<1>11. Owns(t, e, Class, a) /\ addTokens(t.attrs[a].value) = tokens
  BY <1>2, <1>3, <1>5, <1>7, <1>8 DEF OnlyList, Owns
<1>12. Enters(s, t, e, a)
  BY <1>5, <1>9, <1>10, <1>11 DEF Enters, tokens
<1>13. QED
  BY <1>12 DEF t

LEMMA EntersClass ==
  ASSUME NEW s, Sound(s), NEW e \in Writable, NEW a \in AttrNodes, CanEnter(s, e, Class, a), NEW t, Enters(s, t, e, a)
  PROVE  Sound(t) /\ ClassOnly(s, t, e) /\ ClassIs(t, e, addTokens(s.attrs[a].value))
<1>1. /\ t \in States /\ t.attrs[a].owner = e /\ t.attrs[a].name = Class /\ s.attrs[a].owner = 0 /\ s.attrs[a].name = Class
      /\ \A c \in AttrNodes \ {a} : t.attrs[c] = s.attrs[c]
  BY DEF Enters, CanEnter, Owns
<1>2. OwnedAreNamed(t)
  BY <1>1, NameFacts DEF OwnedAreNamed, Sound
<1>3. ASSUME NEW c \in AttrNodes, Owns(t, e, Class, c) PROVE c = a
  <2>1. c # a => Owns(s, e, Class, c)
    BY <1>1, <1>3 DEF Owns
  <2>2. QED
    BY <2>1 DEF CanEnter
<1>4. OneOfAName(t)
  <2>1. ASSUME NEW b \in AttrNodes, NEW c \in AttrNodes, NEW x \in Writable, NEW m \in Names, Owns(t, x, m, b), Owns(t, x, m, c)
        PROVE  b = c
    <3>1. CASE x = e /\ m = Class
      BY <1>3, <2>1, <3>1
    <3>2. CASE ~(x = e /\ m = Class)
      <4>1. b # a /\ c # a
        BY <1>1, <2>1, <3>2 DEF Owns
      <4>2. Owns(s, x, m, b) /\ Owns(s, x, m, c)
        BY <1>1, <2>1, <4>1 DEF Owns
      <4>3. QED
        BY <4>2 DEF Sound, OneOfAName
    <3>3. QED
      BY <3>1, <3>2
  <2>2. QED
    BY <2>1 DEF OneOfAName
<1>5. Sound(t)
  BY <1>1, <1>2, <1>4 DEF Sound, Enters
<1>6. ClassIs(t, e, addTokens(s.attrs[a].value))
  BY <1>3, NameFacts DEF ClassIs, Enters
<1>7. ASSUME NEW x \in Writable \ {e}
      PROVE  /\ t.current[x] = s.current[x]
             /\ t.current[x] # 0 => t.lists[t.current[x]] = s.lists[s.current[x]]
             /\ \A c \in AttrNodes : Owns(s, x, Class, c) \/ Owns(t, x, Class, c) => t.attrs[c] = s.attrs[c]
  <2>1. t.current[x] = s.current[x]
    BY <1>7 DEF Enters
  <2>2. ASSUME t.current[x] # 0 PROVE t.lists[t.current[x]] = s.lists[s.current[x]]
    <3>1. t.current[x] \in ListIds /\ t.lists[t.current[x]].owner = x /\ t.lists[t.current[e]].owner = e
      BY <1>7, <2>2, NameFacts DEF Enters, CurrentOwned, States
    <3>2. t.current[x] # t.current[e]
      BY <1>7, <3>1
    <3>3. QED
      BY <2>1, <3>1, <3>2 DEF Enters
  <2>3. \A c \in AttrNodes : Owns(s, x, Class, c) \/ Owns(t, x, Class, c) => t.attrs[c] = s.attrs[c]
    BY <1>1, <1>7, NameFacts DEF Owns
  <2>4. QED
    BY <2>1, <2>2, <2>3
<1>8. ClassOnly(s, t, e)
  <2>1. \A c \in AttrNodes : s.attrs[c].name \notin {Class, <<>>} \/ t.attrs[c].name # Class => t.attrs[c] = s.attrs[c]
    BY <1>1
  <2>2. QED
    BY <1>1, <1>7, <2>1 DEF ClassOnly
<1>9. QED
  BY <1>5, <1>6, <1>8

LEMMA EntersAgree ==
  ASSUME NEW s, Sound(s), NEW e \in Writable, NEW n \in Names, NEW a \in AttrNodes, CanEnter(s, e, n, a),
         NEW d \in [Writable -> Texts], NEW st \in Views, NEW by, Agree(s, d, st, by)
  PROVE  /\ Sound(setAttribute(s, e, a))
         /\ Agree(setAttribute(s, e, a), StdSet(d, e, n, s.attrs[a].value), st, Heal(by, e, n))
<1> DEFINE t == setAttribute(s, e, a)
           v == s.attrs[a].value
           d2 == StdSet(d, e, n, v)
<1>1. v \in Text
  BY DEF Sound, States, Node
<1>2. CASE n = Class
  <2>1. Enters(s, t, e, a)
    BY <1>2, ClassEnters
  <2>2. Sound(t) /\ ClassOnly(s, t, e) /\ ClassIs(t, e, addTokens(v))
    BY <1>2, <2>1, EntersClass
  <2> HIDE DEF t, v
  <2>3. ClassOnlyIn(d, d2, e) /\ TokensIn(d2[e]) = addTokens(v)
    BY <1>1, <1>2, StdSetFrames
  <2> HIDE DEF d2
  <2>4. /\ SameStyles(by, Heal(by, e, n))
        /\ \A x \in Writable \ {e} : <<x, Class>> \in by => <<x, Class>> \in Heal(by, e, n)
    BY HealIs
  <2>5. ClassIs(t, e, TokensIn(d2[e]))
    BY <2>2, <2>3
  <2>6. Agree(t, d2, st, Heal(by, e, n))
    BY <2>2, <2>3, <2>4, <2>5, ClassChange
  <2>7. QED
    BY <2>2, <2>6 DEF t, v, d2
<1>3. CASE n # Class
  <2>1. Sets(s, t, e, n, v, a)
    BY <1>3, PlainEnters
  <2>2. Heal(by, e, n) = by
    BY <1>3, HealIs
  <2> HIDE DEF t, v
  <2>3. Sound(t) /\ Agree(t, d2, st, by)
    BY <1>1, <1>3, <2>1, SetsAll
  <2>4. QED
    BY <2>2, <2>3 DEF t, v, d2
<1>4. QED
  BY <1>2, <1>3

(* A node that is made changes nothing that anybody sees.                     *)
LEMMA NewNode ==
  ASSUME NEW s, Sound(s), NEW a \in FreeNodes(s), NEW n \in Names, NEW v \in Text
  PROVE  /\ Sound(NewAttr(s, a, n, v))
         /\ \A x \in Writable, m \in Names, c \in AttrNodes : Owns(NewAttr(s, a, n, v), x, m, c) <=> Owns(s, x, m, c)
<1> DEFINE r == NewAttr(s, a, n, v)
<1>1. a \in AttrNodes /\ s.attrs[a].name = <<>> /\ s.attrs[a].owner = 0
  BY DEF FreeNodes, Sound, OwnedAreNamed
<1>2. OnlyNode(s, r, a) /\ r.attrs[a].name = n /\ r.attrs[a].owner = 0
  BY <1>1, NewAttrFields DEF Sound
<1> HIDE DEF r
<1>3. ASSUME NEW x \in Writable, NEW m \in Names, NEW c \in AttrNodes PROVE Owns(r, x, m, c) <=> Owns(s, x, m, c)
  BY <1>1, <1>2, NameFacts DEF OnlyNode, Owns
<1>4. OwnedAreNamed(r)
  BY <1>2, NameFacts DEF OwnedAreNamed, OnlyNode, Sound
<1>5. OneOfAName(r)
  BY <1>3 DEF OneOfAName, Sound
<1>6. CurrentOwned(r) /\ r \in States
  BY <1>2 DEF CurrentOwned, OnlyNode, Sound
<1>7. QED
  BY <1>3, <1>4, <1>5, <1>6 DEF Sound, r

(* A node that no element has is written.                                     *)
LEMMA UnseenAgree ==
  ASSUME NEW s, NEW t, NEW a \in AttrNodes, OnlyNode(s, t, a), s.attrs[a].owner = 0, t.attrs[a].owner = 0,
         s.attrs[a].name = Style => t.attrs[a].name = Style /\ t.attrs[a].changed,
         NEW d, NEW st \in Views, NEW by, Agree(s, d, st, by)
  PROVE  Agree(t, d, st, by)
<1>1. \A x \in Writable, m \in Names, c \in AttrNodes : (Owns(t, x, m, c) <=> Owns(s, x, m, c)) /\ (Owns(s, x, m, c) => c # a)
  BY NameFacts DEF OnlyNode, Owns
<1>2. \A c \in AttrNodes \ {a} : t.attrs[c] = s.attrs[c]
  BY DEF OnlyNode
<1>3. PresentAgree(t, d)
  BY <1>1 DEF PresentAgree, Agree, PlainParts
<1>4. ValuesAgree(t, d, st, by)
  <2>1. SUFFICES ASSUME NEW c \in AttrNodes, NEW x \in Writable, NEW m \in Names, Owns(t, x, m, c), m # Class
                 PROVE  \/ t.attrs[c].value = d[x][m]
                        \/ m = Style /\ st[x].from = c /\ ~t.attrs[c].changed /\ <<x, Style>> \in by
    BY DEF ValuesAgree
  <2>2. Owns(s, x, m, c) /\ t.attrs[c] = s.attrs[c]
    BY <1>1, <1>2, <2>1
  <2>3. QED
    BY <2>1, <2>2 DEF Agree, PlainParts, ValuesAgree
<1>5. ViewsKept(t, st, by)
  <2>1. SUFFICES ASSUME NEW x \in Writable, st[x].from # 0
                 PROVE  /\ t.attrs[st[x].from].name = Style
                        /\ ~t.attrs[st[x].from].changed /\ <<x, Style>> \notin by =>
                             st[x].map = Declarations(t.attrs[st[x].from].value)
    BY DEF ViewsKept
  <2>2. st[x].from \in AttrNodes /\ s.attrs[st[x].from].name = Style
    BY <2>1 DEF Views, Agree, PlainParts, ViewsKept
  <2>3. CASE st[x].from = a
    BY <2>2, <2>3
  <2>4. CASE st[x].from # a
    <3>1. t.attrs[st[x].from] = s.attrs[st[x].from]
      BY <1>2, <2>2, <2>4
    <3>2. QED
      BY <2>1, <3>1 DEF Agree, PlainParts, ViewsKept
  <2>5. QED
    BY <2>3, <2>4
<1>6. ClassAgree(t, d, by)
  <2>1. SUFFICES ASSUME NEW x \in Writable, <<x, Class>> \notin by PROVE ClassIs(t, x, TokensIn(d[x]))
    BY DEF ClassAgree
  <2>2. ClassIs(s, x, TokensIn(d[x]))
    BY <2>1 DEF Agree, ClassAgree
  <2>3. \A c \in AttrNodes : Owns(s, x, Class, c) \/ Owns(t, x, Class, c) => t.attrs[c] = s.attrs[c]
    BY <1>1, <1>2, NameFacts
  <2>4. QED
    BY <2>2, <2>3, ClassSame DEF OnlyNode
<1>7. QED
  BY <1>3, <1>4, <1>5, <1>6 DEF Agree, PlainParts

(* setAttributeNode: the element's own node of the name goes, the node leaves *)
(* its element, and enters.                                                   *)
LEMMA StdSetAfterDrop ==
  ASSUME NEW d \in [Writable -> Texts], NEW e \in Writable, NEW n \in Names, NEW v \in Text
  PROVE  StdSet(StdDrop(d, e, n), e, n, v) = StdSet(d, e, n, v)
<1> DEFINE f == [m \in DOMAIN d[e] \cup {n} |-> IF m = n THEN v ELSE d[e][m]]
           k == [m \in DOMAIN d[e] \ {n} |-> d[e][m]]
           h == [m \in DOMAIN k \cup {n} |-> IF m = n THEN v ELSE k[m]]
<1>1. h = f
  OBVIOUS
<1>2. StdSet(d, e, n, v) = [d EXCEPT ![e] = f] /\ StdDrop(d, e, n) = [d EXCEPT ![e] = k]
  BY DEF StdSet, StdDrop
<1>3. StdSet(StdDrop(d, e, n), e, n, v) = [[d EXCEPT ![e] = k] EXCEPT ![e] = h]
  BY <1>2 DEF StdSet
<1> HIDE DEF f, h, k
<1>4. QED
  BY <1>1, <1>2, <1>3

LEMMA StdDropsCommute ==
  ASSUME NEW d \in [Writable -> Texts], NEW e \in Writable, NEW x \in Writable, x # e, NEW n
  PROVE  StdDrop(StdDrop(d, e, n), x, n) = StdDrop(StdDrop(d, x, n), e, n)
BY DEF StdDrop

LEMMA AgreeSame ==
  ASSUME NEW s, NEW d, NEW st, NEW by, NEW by2, Agree(s, d, st, by), SameStyles(by, by2), SameClasses(by, by2)
  PROVE  Agree(s, d, st, by2)
<1>1. PresentAgree(s, d)
  BY DEF Agree, PlainParts
<1>2. ValuesAgree(s, d, st, by2)
  BY DEF Agree, PlainParts, ValuesAgree, SameStyles
<1>3. ViewsKept(s, st, by2)
  BY DEF Agree, PlainParts, ViewsKept, SameStyles
<1>4. ClassAgree(s, d, by2)
  BY DEF Agree, ClassAgree, SameClasses
<1>5. QED
  BY <1>1, <1>2, <1>3, <1>4 DEF Agree, PlainParts

LEMMA Leaves ==
  ASSUME NEW s, Sound(s), NEW x \in Writable, NEW n \in Names, NEW b \in AttrNodes, Owns(s, x, n, b),
         NEW d \in [Writable -> Texts], NEW st \in Views, NEW by, Agree(s, d, st, by)
  PROVE  LET r == removeAttribute(s, b)
         IN  /\ Sound(r) /\ Agree(r, StdDrop(d, x, n), st, Heal(by, x, n))
             /\ FreeLists(r) = FreeLists(s) /\ r.attrs[b].owner = 0
             /\ \A c \in AttrNodes : /\ r.attrs[c].name = s.attrs[c].name /\ r.attrs[c].value = s.attrs[c].value
                                     /\ c # b => r.attrs[c] = s.attrs[c]
                                     /\ ~Owns(r, x, n, c)
<1> DEFINE r == removeAttribute(s, b)
<1>1. Drops(s, r, x, n)
  BY RemoveIs
<1> HIDE DEF r
<1>2. Sound(r) /\ Agree(r, StdDrop(d, x, n), st, Heal(by, x, n)) /\ \A c \in AttrNodes : ~Owns(r, x, n, c)
  BY <1>1, DropsSound, DropsAgree
<1>3. FreeLists(r) = FreeLists(s)
  BY <1>1 DEF Drops, FreeLists
<1>4. ASSUME NEW c \in AttrNodes
      PROVE  /\ r.attrs[c].name = s.attrs[c].name /\ r.attrs[c].value = s.attrs[c].value
             /\ c # b => r.attrs[c] = s.attrs[c]
  <2>1. c # b => ~Owns(s, x, n, c)
    BY DEF Sound, OneOfAName
  <2>2. QED
    BY <1>1, <2>1 DEF Drops
<1>5. r.attrs[b].owner = 0
  BY <1>1 DEF Drops
<1>6. QED
  BY <1>2, <1>3, <1>4, <1>5 DEF r

LEMMA SetAttributeNodeAgree ==
  ASSUME NEW s, Sound(s), FreeLists(s) # {}, NEW e \in Writable, NEW n \in Names, NEW a \in AttrNodes,
         NEW from, from = s.attrs[a].owner, s.attrs[a].name = n, from # e,
         NEW d \in [Writable -> Texts], NEW st \in Views, NEW by, Agree(s, d, st, by),
         NEW by2, SameStyles(by, by2),
         \A x \in Writable : <<x, Class>> \in by2 <=> <<x, Class>> \in by /\ ~(n = Class /\ x \in {e, from})
  PROVE  /\ Sound(setAttributeNode(s, e, a))
         /\ Agree(setAttributeNode(s, e, a),
                  StdSet(IF from = 0 THEN d ELSE StdDrop(d, from, n), e, n, s.attrs[a].value), st, by2)
<1> DEFINE g == getAttributeNode(s, e, n)
           v == s.attrs[a].value
           r == IF Present(s, e, n) THEN removeAttribute(s, g) ELSE s
           dr == IF Present(s, e, n) THEN StdDrop(d, e, n) ELSE d
           br == IF Present(s, e, n) THEN Heal(by, e, n) ELSE by
           q == IF r.attrs[a].owner # 0 THEN removeAttribute(r, a) ELSE r
           dq == IF from # 0 THEN StdDrop(dr, from, n) ELSE dr
           bq == IF from # 0 THEN Heal(br, from, n) ELSE br
           t == setAttributeNode(s, e, a)
           d1 == IF from = 0 THEN d ELSE StdDrop(d, from, n)
<1>1. v \in Text /\ from \in Writable \cup {0} /\ d1 \in [Writable -> Texts] /\ dr \in [Writable -> Texts]
  <2>1. v \in Text /\ from \in Writable \cup {0}
    BY DEF Sound, States, Node
  <2>2. QED
    BY <2>1, StdDropIs
<1>2. g # a
  <2>1. ~Owns(s, e, n, a)
    BY DEF Owns
  <2>2. g = 0 \/ Owns(s, e, n, g)
    BY NodeFound
  <2>3. QED
    BY <2>1, <2>2, NameFacts
<1>3. t = setAttribute(q, e, a)
  BY <1>2 DEF setAttributeNode
<1>4. /\ Sound(r) /\ Agree(r, dr, st, br) /\ FreeLists(r) # {}
      /\ r.attrs[a].owner = from /\ r.attrs[a].name = n /\ r.attrs[a].value = v
      /\ \A c \in AttrNodes : ~Owns(r, e, n, c)
  <2>1. CASE Present(s, e, n)
    <3>1. g \in AttrNodes /\ Owns(s, e, n, g)
      BY <2>1, NodeFound
    <3> HIDE DEF g
    <3>2. /\ Sound(r) /\ Agree(r, dr, st, br) /\ FreeLists(r) = FreeLists(s)
          /\ \A c \in AttrNodes : /\ r.attrs[c].name = s.attrs[c].name /\ r.attrs[c].value = s.attrs[c].value
                                  /\ c # g => r.attrs[c] = s.attrs[c]
                                  /\ ~Owns(r, e, n, c)
      BY <2>1, <3>1, Leaves
    <3> HIDE DEF r, dr, br
    <3>3. QED
      BY <1>2, <3>2
  <2>2. CASE ~Present(s, e, n)
    BY <2>2, NodeFound
  <2>3. QED
    BY <2>1, <2>2
<1> HIDE DEF g, r, dr, br
<1>5. /\ Sound(q) /\ Agree(q, dq, st, bq) /\ FreeLists(q) # {} /\ dq \in [Writable -> Texts]
      /\ q.attrs[a].owner = 0 /\ q.attrs[a].name = n /\ q.attrs[a].value = v
      /\ \A c \in AttrNodes : ~Owns(q, e, n, c)
  <2>1. CASE from # 0
    <3>1. from \in Writable /\ Owns(r, from, n, a)
      BY <1>1, <1>4, <2>1 DEF Owns
    <3>2. q = removeAttribute(r, a) /\ dq = StdDrop(dr, from, n) /\ bq = Heal(br, from, n)
      BY <1>4, <2>1
    <3> HIDE DEF q, dq, bq
    <3>3. /\ Sound(q) /\ Agree(q, dq, st, bq) /\ FreeLists(q) = FreeLists(r) /\ q.attrs[a].owner = 0
          /\ \A c \in AttrNodes : /\ q.attrs[c].name = r.attrs[c].name /\ q.attrs[c].value = r.attrs[c].value
                                  /\ c # a => q.attrs[c] = r.attrs[c]
      BY <1>1, <1>4, <3>1, <3>2, Leaves
    <3>4. dq \in [Writable -> Texts]
      BY <1>1, <3>1, <3>2, StdDropIs
    <3>5. \A c \in AttrNodes : ~Owns(q, e, n, c)
      BY <1>4, <3>3, NameFacts DEF Owns
    <3>6. QED
      BY <1>4, <3>3, <3>4, <3>5
  <2>2. CASE from = 0
    BY <1>1, <1>4, <2>2
  <2>3. QED
    BY <2>1, <2>2
<1> HIDE DEF q
<1>6. Sound(t) /\ Agree(t, StdSet(dq, e, n, v), st, Heal(bq, e, n))
  <2>1. CanEnter(q, e, n, a)
    BY <1>5 DEF CanEnter
  <2> HIDE DEF t, dq, bq, v
  <2>2. Sound(setAttribute(q, e, a)) /\ Agree(setAttribute(q, e, a), StdSet(dq, e, n, q.attrs[a].value), st, Heal(bq, e, n))
    BY <1>5, <2>1, EntersAgree
  <2>3. QED
    BY <1>3, <1>5, <2>2
<1>7. StdSet(dq, e, n, v) = StdSet(d1, e, n, v)
  <2>1. CASE Present(s, e, n) /\ from # 0
    <3>1. from \in Writable
      BY <1>1, <2>1
    <3>2. dq = StdDrop(StdDrop(d, e, n), from, n) /\ d1 = StdDrop(d, from, n)
      BY <2>1 DEF dr
    <3>3. StdDrop(StdDrop(d, e, n), from, n) = StdDrop(d1, e, n)
      BY <3>1, <3>2, StdDropsCommute
    <3> HIDE DEF dq, d1, v
    <3>4. StdSet(StdDrop(d1, e, n), e, n, v) = StdSet(d1, e, n, v)
      BY <1>1, StdSetAfterDrop
    <3>5. QED
      BY <3>2, <3>3, <3>4
  <2>2. CASE Present(s, e, n) /\ from = 0
    <3>1. dq = StdDrop(d, e, n) /\ d1 = d
      BY <2>2 DEF dr
    <3> HIDE DEF dq, d1, v
    <3>2. StdSet(StdDrop(d, e, n), e, n, v) = StdSet(d, e, n, v)
      BY <1>1, StdSetAfterDrop
    <3>3. QED
      BY <3>1, <3>2
  <2>3. CASE ~Present(s, e, n)
    BY <2>3 DEF dr
  <2>4. QED
    BY <2>1, <2>2, <2>3
<1>8. SameStyles(Heal(bq, e, n), by2) /\ SameClasses(Heal(bq, e, n), by2)
  <2>1. SameStyles(Heal(bq, e, n), by)
    BY NameFacts DEF br, Heal, SameStyles
  <2>2. SameStyles(Heal(bq, e, n), by2)
    BY <2>1 DEF SameStyles
  <2>3. ASSUME NEW x \in Writable
        PROVE  <<x, Class>> \in Heal(bq, e, n) <=> <<x, Class>> \in by /\ ~(n = Class /\ x \in {e, from})
    BY NameFacts DEF br, Heal
  <2>4. QED
    BY <2>2, <2>3 DEF SameClasses
<1> HIDE DEF t, v, dq, bq, d1
<1>9. Agree(t, StdSet(d1, e, n, v), st, by2)
  BY <1>6, <1>7, <1>8, AgreeSame
<1>10. QED
  BY <1>6, <1>9 DEF t, v, d1

-----------------------------------------------------------------------------
(* What is written through a classList.                                       *)
LEMMA SameOwners ==
  ASSUME NEW s, Sound(s), NEW t \in States, CurrentOwned(t),
         \A c \in AttrNodes : t.attrs[c].owner = s.attrs[c].owner /\ t.attrs[c].name = s.attrs[c].name
  PROVE  Sound(t) /\ \A x \in Writable, m \in Names, c \in AttrNodes : Owns(t, x, m, c) <=> Owns(s, x, m, c)
<1>1. \A x \in Writable, m \in Names, c \in AttrNodes : Owns(t, x, m, c) <=> Owns(s, x, m, c)
  BY DEF Owns
<1>2. OwnedAreNamed(t)
  BY DEF OwnedAreNamed, Sound
<1>3. OneOfAName(t)
  BY <1>1 DEF OneOfAName, Sound
<1>4. QED
  BY <1>1, <1>2, <1>3 DEF Sound

(* Attributes are as they were, and the lists in use of other elements.       *)
OnlyLists(s, t, e) ==
  /\ Sound(t) /\ t.attrs = s.attrs
  /\ \A x \in Writable \ {e} : /\ t.current[x] = s.current[x]
                               /\ t.current[x] # 0 => t.lists[t.current[x]] = s.lists[s.current[x]]

LEMMA ListsThenClass ==
  ASSUME NEW s, NEW q, NEW t, NEW e, OnlyLists(s, q, e), ClassOnly(q, t, e)
  PROVE  ClassOnly(s, t, e)
<1>1. ASSUME NEW x \in Writable \ {e}
      PROVE  /\ t.current[x] = s.current[x]
             /\ t.current[x] # 0 => t.lists[t.current[x]] = s.lists[s.current[x]]
             /\ \A c \in AttrNodes : Owns(s, x, Class, c) \/ Owns(t, x, Class, c) => t.attrs[c] = s.attrs[c]
  BY DEF OnlyLists, ClassOnly, Owns
<1>2. QED
  BY <1>1 DEF OnlyLists, ClassOnly

LEMMA ListsAreClass ==
  ASSUME NEW s, NEW q, NEW e, OnlyLists(s, q, e)
  PROVE  ClassOnly(s, q, e)
BY DEF OnlyLists, ClassOnly, Sound

LEMMA TokenedLists ==
  ASSUME NEW s, Sound(s), NEW e \in Writable, NEW l \in ListIds, s.lists[l].owner = e, NEW tokens \in TokenLists
  PROVE  OnlyLists(s, Tokened(s, l, tokens), e)
<1> DEFINE q == Tokened(s, l, tokens)
<1>1. OnlyList(s, q, l) /\ q.current = s.current /\ q.lists[l].owner = s.lists[l].owner
  BY TokenedFields DEF Sound
<1> HIDE DEF q
<1>2. q \in States /\ q.attrs = s.attrs /\ \A k \in ListIds : q.lists[k].owner = s.lists[k].owner
  BY <1>1 DEF OnlyList
<1>3. CurrentOwned(q)
  BY <1>1, <1>2 DEF CurrentOwned, Sound, States
<1>4. Sound(q)
  BY <1>2, <1>3, SameOwners
<1>5. ASSUME NEW x \in Writable \ {e}, q.current[x] # 0 PROVE q.lists[q.current[x]] = s.lists[s.current[x]]
  <2>1. s.current[x] \in ListIds /\ s.lists[s.current[x]].owner = x
    BY <1>1, <1>5 DEF Sound, CurrentOwned, States
  <2>2. s.current[x] # l
    BY <1>5, <2>1
  <2>3. QED
    BY <1>1, <2>1, <2>2 DEF OnlyList
<1>6. QED
  BY <1>1, <1>2, <1>4, <1>5 DEF OnlyLists, q

LEMMA ReadLists ==
  ASSUME NEW s, Sound(s), NEW e \in Writable, s.current[e] = 0 => FreeLists(s) # {}
  PROVE  LET c == classList(s, e)
         IN  /\ OnlyLists(s, c, e) /\ c.current[e] \in ListIds /\ c.lists[c.current[e]].owner = e
             /\ \A tokens : ClassIs(s, e, tokens) => ClassIs(c, e, tokens)
<1> DEFINE c == classList(s, e)
<1>1. /\ OnlyList(s, c, c.current[e]) /\ CurrentOwned(c) /\ c.current[e] \in ListIds
      /\ c.lists[c.current[e]] = [owner |-> e, tokens |-> TokensNow(s, e)]
      /\ \A x \in Writable \ {e} : c.current[x] = s.current[x]
  BY classListIs DEF Sound
<1> HIDE DEF c
<1>2. c.lists[c.current[e]].owner = e /\ c.lists[c.current[e]].tokens = TokensNow(s, e)
  BY <1>1
<1>3. c \in States /\ c.attrs = s.attrs
  BY <1>1 DEF OnlyList
<1>4. Sound(c)
  BY <1>1, <1>3, SameOwners
<1>5. ASSUME NEW x \in Writable \ {e}, c.current[x] # 0 PROVE c.lists[c.current[x]] = s.lists[s.current[x]]
  <2>1. c.current[x] \in ListIds /\ c.lists[c.current[x]].owner = x
    BY <1>3, <1>5, <1>1 DEF CurrentOwned, States
  <2>2. c.current[x] # c.current[e]
    BY <1>2, <1>5, <2>1
  <2>3. QED
    BY <1>1, <1>5, <2>1, <2>2 DEF OnlyList
<1>6. ASSUME NEW tokens, ClassIs(s, e, tokens) PROVE ClassIs(c, e, tokens)
  <2>1. TokensNow(s, e) = tokens
    <3>1. CASE s.current[e] # 0
      BY <1>6, <3>1 DEF ClassIs, TokensNow
    <3>2. CASE s.current[e] = 0 /\ Present(s, e, Class)
      BY <1>6, <3>2, NodeFound DEF ClassIs, TokensNow, ValueOf
    <3>3. CASE s.current[e] = 0 /\ ~Present(s, e, Class)
      BY <1>6, <3>3, NodeFound DEF ClassIs, TokensNow
    <3>4. QED
      BY <3>1, <3>2, <3>3
  <2>2. \A x \in AttrNodes : Owns(c, e, Class, x) => addTokens(c.attrs[x].value) = tokens
    BY <1>3, <1>6 DEF ClassIs, Owns
  <2>3. QED
    BY <1>1, <1>2, <2>1, <2>2, NameFacts DEF ClassIs
<1>7. QED
  BY <1>1, <1>2, <1>3, <1>4, <1>5, <1>6 DEF OnlyLists, c

LEMMA UpdateIs ==
  ASSUME NEW s, Sound(s), FreeNodes(s) # {}, NEW l \in ListIds, NEW e \in Writable, s.lists[l].owner = e,
         s.current[e] = 0 => FreeLists(s) # {}
  PROVE  LET t == update(s, l)
         IN  /\ Sound(t) /\ ClassOnly(s, t, e)
             /\ l = s.current[e] => ClassIs(t, e, s.lists[l].tokens)
<1> DEFINE tokens == s.lists[l].tokens
           value == Joined(tokens)
           g == getAttributeNode(s, e, Class)
           t == update(s, l)
<1>1. tokens \in TokenLists /\ value \in Text /\ addTokens(value) = tokens
  <2>1. tokens \in TokenLists
    BY DEF Sound, States, ListObject
  <2> HIDE DEF tokens
  <2>2. QED
    BY <2>1, TokensOfJoined
<1>2. CASE Present(s, e, Class)
  <2>1. g \in AttrNodes /\ Owns(s, e, Class, g) /\ t = SetValue(s, g, value)
    BY <1>2, NodeFound DEF update
  <2> HIDE DEF g, t, value
  <2>2. /\ OnlyNode(s, t, g) /\ t.attrs[g].name = s.attrs[g].name /\ t.attrs[g].owner = s.attrs[g].owner
        /\ t.attrs[g].value = value
    BY <1>1, <2>1, SetValueFields DEF Sound
  <2>3. \A c \in AttrNodes : t.attrs[c].owner = s.attrs[c].owner /\ t.attrs[c].name = s.attrs[c].name
    BY <2>2 DEF OnlyNode
  <2>4. t \in States /\ CurrentOwned(t) /\ t.lists = s.lists /\ t.current = s.current
    BY <2>2 DEF OnlyNode, CurrentOwned, Sound
  <2>5. Sound(t) /\ \A x \in Writable, m \in Names, c \in AttrNodes : Owns(t, x, m, c) <=> Owns(s, x, m, c)
    BY <2>3, <2>4, SameOwners
  <2>6. ClassOnly(s, t, e)
    <3>1. \A c \in AttrNodes : s.attrs[c].name \notin {Class, <<>>} \/ t.attrs[c].name # Class => t.attrs[c] = s.attrs[c]
      BY <2>1, <2>2, NameFacts DEF Owns, OnlyNode
    <3>2. \A x \in Writable \ {e}, c \in AttrNodes : Owns(s, x, Class, c) \/ Owns(t, x, Class, c) => t.attrs[c] = s.attrs[c]
      BY <2>1, <2>2, <2>5, NameFacts DEF Owns, OnlyNode
    <3>3. QED
      BY <2>4, <3>1, <3>2 DEF ClassOnly
  <2>7. ASSUME l = s.current[e] PROVE ClassIs(t, e, tokens)
    <3>1. \A c \in AttrNodes : Owns(t, e, Class, c) => c = g
      BY <2>1, <2>5, NameFacts DEF Sound, OneOfAName
    <3>2. Owns(t, e, Class, g)
      BY <2>1, <2>5, NameFacts
    <3>3. QED
      BY <1>1, <2>1, <2>2, <2>4, <2>7, <3>1, <3>2 DEF ClassIs
  <2>8. QED
    BY <2>5, <2>6, <2>7 DEF t
<1>3. CASE ~Present(s, e, Class)
  <2> DEFINE a == Fresh(FreeNodes(s))
             r == NewAttr(s, a, Class, value)
  <2>1. t = setAttribute(r, e, a) /\ a \in FreeNodes(s) /\ a \in AttrNodes
    BY <1>3, FreshIn DEF update, FreeNodes
  <2> HIDE DEF a, t
  <2>2. Sound(r) /\ \A x \in Writable, m \in Names, c \in AttrNodes : Owns(r, x, m, c) <=> Owns(s, x, m, c)
    BY <1>1, <2>1, NewNode, NameFacts
  <2>3. OnlyNode(s, r, a) /\ r.attrs[a].name = Class /\ r.attrs[a].owner = 0 /\ r.attrs[a].value = value
    BY <1>1, <2>1, NewAttrFields, NameFacts DEF Sound
  <2> HIDE DEF r, value
  <2>4. CanEnter(r, e, Class, a)
    <3>1. \A c \in AttrNodes : ~Owns(s, e, Class, c)
      BY <1>3, NodeFound
    <3>2. r.current[e] = 0 => FreeLists(r) # {}
      BY <2>3 DEF OnlyNode, FreeLists
    <3>3. QED
      BY <2>2, <2>3, <3>1, <3>2, NameFacts DEF CanEnter
  <2>5. Sound(t) /\ ClassOnly(r, t, e) /\ ClassIs(t, e, addTokens(r.attrs[a].value))
    <3>1. Enters(r, t, e, a)
      BY <2>1, <2>2, <2>4, ClassEnters
    <3>2. QED
      BY <2>1, <2>2, <2>4, <3>1, EntersClass
  <2>6. ClassOnly(s, t, e)
    <3>1. s.attrs[a].name = <<>>
      BY <2>1 DEF FreeNodes
    <3>2. \A c \in AttrNodes \ {a} : r.attrs[c] = s.attrs[c]
      BY <2>3 DEF OnlyNode
    <3>3. \A c \in AttrNodes : s.attrs[c].name \notin {Class, <<>>} \/ t.attrs[c].name # Class => t.attrs[c] = s.attrs[c]
      <4>1. t.attrs[a].name = Class
        BY <2>1, <2>3, <2>5 DEF ClassOnly
      <4>2. QED
        BY <2>5, <3>1, <3>2, <4>1 DEF ClassOnly
    <3>4. ASSUME NEW x \in Writable \ {e}
          PROVE  /\ t.current[x] = s.current[x]
                 /\ t.current[x] # 0 => t.lists[t.current[x]] = s.lists[s.current[x]]
                 /\ \A c \in AttrNodes : Owns(s, x, Class, c) \/ Owns(t, x, Class, c) => t.attrs[c] = s.attrs[c]
      <4>1. r.lists = s.lists /\ r.current = s.current
        BY <2>3 DEF OnlyNode
      <4>2. /\ t.current[x] = r.current[x] /\ (t.current[x] # 0 => t.lists[t.current[x]] = r.lists[r.current[x]])
            /\ \A c \in AttrNodes : Owns(r, x, Class, c) \/ Owns(t, x, Class, c) => t.attrs[c] = r.attrs[c]
        BY <2>5 DEF ClassOnly
      <4>3. ASSUME NEW c \in AttrNodes, Owns(s, x, Class, c) \/ Owns(t, x, Class, c) PROVE t.attrs[c] = s.attrs[c]
        <5>1. Owns(r, x, Class, c) \/ Owns(t, x, Class, c)
          BY <2>2, <4>3, NameFacts
        <5>2. t.attrs[c] = r.attrs[c]
          BY <4>2, <5>1
        <5>3. c # a
          BY <2>3, <5>1, <5>2, NameFacts DEF Owns
        <5>4. QED
          BY <3>2, <5>2, <5>3
      <4>4. QED
        BY <4>1, <4>2, <4>3
    <3>5. QED
      BY <2>5, <3>3, <3>4 DEF ClassOnly, Sound
  <2>7. QED
    BY <1>1, <2>3, <2>5, <2>6 DEF t
<1>4. QED
  BY <1>2, <1>3

LEMMA RetokenIs ==
  ASSUME NEW s, Sound(s), FreeNodes(s) # {}, NEW l \in ListIds, NEW e \in Writable, s.lists[l].owner = e,
         s.current[e] = 0 => FreeLists(s) # {}, NEW tokens \in TokenLists
  PROVE  LET t == Retoken(s, l, tokens)
         IN  Sound(t) /\ ClassOnly(s, t, e) /\ (l = s.current[e] => ClassIs(t, e, tokens))
<1> DEFINE q == Tokened(s, l, tokens)
           t == Retoken(s, l, tokens)
<1>1. t = update(q, l)
  BY DEF Retoken, Tokened
<1>2. OnlyList(s, q, l) /\ q.current = s.current /\ q.lists[l].owner = s.lists[l].owner /\ q.lists[l].tokens = tokens
  BY TokenedFields DEF Sound
<1>3. OnlyLists(s, q, e)
  BY TokenedLists
<1> HIDE DEF q, t
<1>4. Sound(q) /\ FreeNodes(q) # {} /\ (q.current[e] = 0 => FreeLists(q) # {})
  BY <1>2, <1>3 DEF OnlyLists, OnlyList, FreeNodes, FreeLists
<1>5. Sound(t) /\ ClassOnly(q, t, e) /\ (l = q.current[e] => ClassIs(t, e, tokens))
  BY <1>1, <1>2, <1>4, UpdateIs
<1>6. QED
  BY <1>2, <1>3, <1>5, ListsThenClass DEF t

LEMMA classNameIs ==
  ASSUME NEW s, Sound(s), FreeNodes(s) # {}, NEW e \in Writable, s.current[e] = 0 => FreeLists(s) # {}, NEW v \in Text
  PROVE  LET t == className(s, e, v)
         IN  Sound(t) /\ ClassOnly(s, t, e) /\ ClassIs(t, e, addTokens(v))
<1> DEFINE c == classList(s, e)
           t == className(s, e, v)
<1>1. t = Retoken(c, c.current[e], addTokens(v))
  BY DEF className
<1>2. OnlyLists(s, c, e) /\ c.current[e] \in ListIds /\ c.lists[c.current[e]].owner = e
  BY ReadLists
<1> HIDE DEF c, t
<1>3. Sound(c) /\ FreeNodes(c) # {} /\ c.current[e] # 0
  BY <1>2, NameFacts DEF OnlyLists, FreeNodes
<1>4. addTokens(v) \in TokenLists
  BY TokensOfText
<1>5. Sound(t) /\ ClassOnly(c, t, e) /\ ClassIs(t, e, addTokens(v))
  BY <1>1, <1>2, <1>3, <1>4, RetokenIs
<1>6. QED
  BY <1>2, <1>5, ListsThenClass DEF t

(* attr.value = ...                                                           *)
LEMMA SetAttrValueAgree ==
  ASSUME NEW s, Sound(s), NEW e, NEW n \in Names, NEW a \in AttrNodes, Owns(s, e, n, a), NEW v \in Text,
         NEW d \in [Writable -> Texts], NEW st \in Views, NEW by, Agree(s, d, st, by)
  PROVE  LET t == SetValue(s, a, v)
         IN  /\ Sound(t)
             /\ Agree(t, IF e = 0 THEN d ELSE StdSet(d, e, n, v), st,
                      by \cup (IF n = Class /\ e # 0 /\ s.current[e] # 0 THEN {<<e, Class>>} ELSE {}))
<1> DEFINE t == SetValue(s, a, v)
           by2 == by \cup (IF n = Class /\ e # 0 /\ s.current[e] # 0 THEN {<<e, Class>>} ELSE {})
<1>1. /\ OnlyNode(s, t, a) /\ t.attrs[a].name = n /\ t.attrs[a].value = v /\ t.attrs[a].changed
      /\ t.attrs[a].owner = e /\ s.attrs[a].name = n /\ s.attrs[a].owner = e
  BY SetValueFields DEF Sound, Owns
<1> HIDE DEF t
<1>2. Sound(t) /\ \A x \in Writable, m \in Names, c \in AttrNodes : Owns(t, x, m, c) <=> Owns(s, x, m, c)
  <2>1. t \in States /\ CurrentOwned(t)
    BY <1>1 DEF OnlyNode, CurrentOwned, Sound
  <2>2. \A c \in AttrNodes : t.attrs[c].owner = s.attrs[c].owner /\ t.attrs[c].name = s.attrs[c].name
    BY <1>1 DEF OnlyNode
  <2>3. QED
    BY <2>1, <2>2, SameOwners
<1>3. e \in Writable \cup {0}
  BY <1>1 DEF Sound, States, Node
<1>4. CASE e = 0
  <2>1. Agree(t, d, st, by)
    BY <1>1, <1>4, UnseenAgree
  <2>2. by2 = by
    BY <1>4
  <2>3. QED
    BY <1>2, <1>4, <2>1, <2>2 DEF t
<1>5. CASE e # 0 /\ n # Class
  <2>1. Sets(s, t, e, n, v, a)
    BY <1>1 DEF Sets, Placed, Owns
  <2>2. Agree(t, StdSet(d, e, n, v), st, by)
    BY <1>3, <1>5, <2>1, SetsAll
  <2>3. by2 = by
    BY <1>5
  <2>4. QED
    BY <1>2, <1>5, <2>2, <2>3 DEF t
<1>6. CASE e # 0 /\ n = Class
  <2> DEFINE d2 == StdSet(d, e, n, v)
  <2>1. ClassOnly(s, t, e)
    <3>1. \A c \in AttrNodes : s.attrs[c].name \notin {Class, <<>>} \/ t.attrs[c].name # Class => t.attrs[c] = s.attrs[c]
      BY <1>1, <1>6, NameFacts DEF OnlyNode
    <3>2. \A x \in Writable \ {e}, c \in AttrNodes : Owns(s, x, Class, c) \/ Owns(t, x, Class, c) => t.attrs[c] = s.attrs[c]
      BY <1>1 DEF Owns, OnlyNode
    <3>3. QED
      BY <1>1, <3>1, <3>2 DEF ClassOnly, OnlyNode
  <2>2. ClassOnlyIn(d, d2, e) /\ TokensIn(d2[e]) = addTokens(v)
    BY <1>3, <1>6, StdSetFrames
  <2>3. SameStyles(by, by2) /\ \A x \in Writable \ {e} : <<x, Class>> \in by => <<x, Class>> \in by2
    BY NameFacts DEF SameStyles
  <2>4. ASSUME e \in Writable /\ <<e, Class>> \notin by2 PROVE ClassIs(t, e, TokensIn(d2[e]))
    <3>1. s.current[e] = 0 /\ t.current[e] = 0
      BY <1>1, <1>6, <2>4 DEF OnlyNode
    <3>2. Owns(t, e, Class, a) /\ \A c \in AttrNodes : Owns(t, e, Class, c) => c = a
      BY <1>1, <1>2, <1>6, <2>4, NameFacts DEF Owns, Sound, OneOfAName
    <3>3. QED
      BY <1>1, <2>2, <3>1, <3>2 DEF ClassIs
  <2> HIDE DEF d2, by2
  <2>5. Agree(t, d2, st, by2)
    BY <2>1, <2>2, <2>3, <2>4, ClassChange
  <2>6. QED
    BY <1>2, <1>6, <2>5 DEF t, d2, by2
<1>7. QED
  BY <1>4, <1>5, <1>6

-----------------------------------------------------------------------------
(* The Map of a style.                                                        *)
StyleIn(attr) == IF Style \in DOMAIN attr THEN Declarations(attr[Style]) ELSE <<>>

LEMMA NoMap == <<>> \in Maps
<1>1. <<>> \in Seq(Entries) /\ Len(<<>>) = 0
  BY NoneIn
<1>2. QED
  BY <1>1 DEF Maps, Distinct

LEMMA StyleInTyped ==
  ASSUME NEW d \in [Writable -> Texts], NEW e \in Writable
  PROVE  StyleIn(d[e]) \in Maps
<1>1. CASE Style \in DOMAIN d[e]
  BY <1>1, StdTyped, DeclarationsOfText DEF StyleIn
<1>2. CASE Style \notin DOMAIN d[e]
  BY <1>2, NoMap DEF StyleIn
<1>3. QED
  BY <1>1, <1>2

(* What a script reads in it is what the standard says, and so is the text of *)
(* the attribute, unless another element's style has written it.              *)
ViewFacts(s, e, d, st, by) ==
  LET view == updateKeys(s, st[e], e)
      g    == getAttributeNode(s, e, Style)
  IN  /\ view.from \in AttrNodes \cup {0} /\ view.map \in Maps
      /\ view = [from |-> view.from, map |-> view.map]
      /\ view.from = g
      /\ ~Reread(s, st[e], e) => view = st[e] /\ ~s.attrs[g].changed
      /\ Reread(s, st[e], e) \/ <<e, Style>> \notin by => view.map = StyleIn(d[e])
      /\ (Reread(s, st[e], e) \/ <<e, Style>> \notin by) /\ Present(s, e, Style) =>
           /\ s.attrs[g].value = d[e][Style]
           /\ view.map = Declarations(s.attrs[g].value)

LEMMA ViewIs ==
  ASSUME NEW s, Sound(s), NEW e \in Writable, NEW d \in [Writable -> Texts], NEW st \in Views, NEW by,
         PlainParts(s, d, st, by)
  PROVE  ViewFacts(s, e, d, st, by)
<1> DEFINE view == updateKeys(s, st[e], e)
           g == getAttributeNode(s, e, Style)
           again == Reread(s, st[e], e)
<1>1. Style \in Names /\ Style # Class
  BY NameFacts
<1>2. CASE ~Present(s, e, Style)
  <2>1. g = 0 /\ \A c \in AttrNodes : ~Owns(s, e, Style, c)
    BY <1>2, NodeFound
  <2>2. again
    BY <2>1 DEF Reread
  <2>3. view = [from |-> 0, map |-> <<>>]
    BY <1>2, <2>2 DEF updateKeys
  <2> HIDE DEF view, again, g
  <2>4. view.from = 0 /\ view.map = <<>>
    BY <2>3
  <2>5. Style \notin DOMAIN d[e]
    BY <1>1, <2>1 DEF PlainParts, PresentAgree
  <2>6. StyleIn(d[e]) = <<>>
    BY <2>5 DEF StyleIn
  <2>7. QED
    BY <1>2, <2>1, <2>2, <2>3, <2>4, <2>6, NoMap DEF ViewFacts, view, again, g
<1>3. CASE Present(s, e, Style)
  <2>1. g \in AttrNodes /\ Owns(s, e, Style, g) /\ g # 0
    BY <1>3, NodeFound, NameFacts
  <2>2. again <=> (s.attrs[g].changed \/ st[e].from # g)
    BY <2>1 DEF Reread
  <2>3. /\ again => view = [from |-> g, map |-> Declarations(ValueOf(s, e, Style))]
        /\ ~again => view = st[e]
    BY <1>3 DEF updateKeys
  <2>4. ValueOf(s, e, Style) = s.attrs[g].value
    BY DEF ValueOf
  <2>5. st[e] \in [from : AttrNodes \cup {0}, map : Maps]
    BY DEF Views
  <2>6. s.attrs[g].value \in Text
    BY <2>1 DEF Sound, States, Node
  <2> HIDE DEF view, again, g
  <2>7. Style \in DOMAIN d[e]
    BY <1>1, <2>1 DEF PlainParts, PresentAgree
  <2>8. again \/ <<e, Style>> \notin by => s.attrs[g].value = d[e][Style]
    BY <1>1, <2>1, <2>2 DEF PlainParts, ValuesAgree
  <2>9. StyleIn(d[e]) = Declarations(d[e][Style])
    BY <2>7 DEF StyleIn
  <2>10. CASE again
    <3>1. view.from = g /\ view.map = Declarations(s.attrs[g].value)
      BY <2>3, <2>4, <2>10
    <3>2. view.map \in Maps
      BY <2>6, <3>1, DeclarationsOfText
    <3>3. view = [from |-> view.from, map |-> view.map]
      BY <2>3, <2>10
    <3>4. QED
      BY <2>1, <2>8, <2>9, <2>10, <3>1, <3>2, <3>3 DEF ViewFacts, view, again, g
  <2>11. CASE ~again
    <3>1. view = st[e] /\ st[e].from = g /\ ~s.attrs[g].changed
      BY <2>2, <2>3, <2>11
    <3>2. view.from \in AttrNodes \cup {0} /\ view.map \in Maps /\ view = [from |-> view.from, map |-> view.map]
      BY <2>5, <3>1
    <3>3. <<e, Style>> \notin by => view.map = Declarations(s.attrs[g].value)
      BY <2>1, <3>1, NameFacts DEF PlainParts, ViewsKept
    <3>4. QED
      BY <2>8, <2>9, <2>11, <3>1, <3>2, <3>3 DEF ViewFacts, view, again, g
  <2>12. QED
    BY <2>10, <2>11
<1>4. QED
  BY <1>2, <1>3

(* A script reads the Map.                                                    *)
LEMMA StyleReadAgree ==
  ASSUME NEW s, Sound(s), NEW e \in Writable, NEW d \in [Writable -> Texts], NEW st \in Views, NEW by,
         Agree(s, d, st, by), Reread(s, st[e], e)
  PROVE  LET st2 == [st EXCEPT ![e] = updateKeys(s, @, e)]
         IN  st2 \in Views /\ Agree(s, d, st2, by \ {<<e, Style>>})
<1> DEFINE view == updateKeys(s, st[e], e)
           st2 == [st EXCEPT ![e] = updateKeys(s, @, e)]
           by2 == by \ {<<e, Style>>}
           g == getAttributeNode(s, e, Style)
<1>1. /\ view.from \in AttrNodes \cup {0} /\ view.map \in Maps /\ view = [from |-> view.from, map |-> view.map]
      /\ view.from = g
      /\ Present(s, e, Style) => s.attrs[g].value = d[e][Style] /\ view.map = Declarations(s.attrs[g].value)
  <2>1. ViewFacts(s, e, d, st, by)
    BY ViewIs DEF Agree
  <2>2. QED
    BY <2>1 DEF ViewFacts
<1>2. st2 = [st EXCEPT ![e] = view]
  OBVIOUS
<1>3. g # 0 => g \in AttrNodes /\ Owns(s, e, Style, g) /\ Present(s, e, Style)
  BY NodeFound
<1>4. \A c \in AttrNodes : Owns(s, e, Style, c) => c = g /\ Present(s, e, Style)
  BY NodeIs, NameFacts
<1> HIDE DEF view, st2, g
<1>5. st2 \in Views /\ st2[e] = view /\ \A x \in Writable \ {e} : st2[x] = st[x]
  <2>1. view \in [from : AttrNodes \cup {0}, map : Maps]
    BY <1>1
  <2>2. QED
    BY <1>2, <2>1 DEF Views
<1>6. ValuesAgree(s, d, st2, by2)
  <2>1. SUFFICES ASSUME NEW c \in AttrNodes, NEW x \in Writable, NEW m \in Names, Owns(s, x, m, c), m # Class
                 PROVE  \/ s.attrs[c].value = d[x][m]
                        \/ m = Style /\ st2[x].from = c /\ ~s.attrs[c].changed /\ <<x, Style>> \in by2
    BY DEF ValuesAgree
  <2>2. CASE x = e /\ m = Style
    BY <1>1, <1>4, <2>1, <2>2
  <2>3. CASE x = e /\ m # Style
    BY <2>1, <2>3 DEF Agree, PlainParts, ValuesAgree
  <2>4. CASE x # e
    <3>1. st2[x] = st[x] /\ (<<x, Style>> \in by => <<x, Style>> \in by2)
      BY <1>5, <2>4
    <3>2. QED
      BY <2>1, <3>1 DEF Agree, PlainParts, ValuesAgree
  <2>5. QED
    BY <2>2, <2>3, <2>4
<1>7. ViewsKept(s, st2, by2)
  <2>1. SUFFICES ASSUME NEW x \in Writable, st2[x].from # 0
                 PROVE  /\ s.attrs[st2[x].from].name = Style
                        /\ ~s.attrs[st2[x].from].changed /\ <<x, Style>> \notin by2 =>
                             st2[x].map = Declarations(s.attrs[st2[x].from].value)
    BY DEF ViewsKept
  <2>2. CASE x = e
    BY <1>1, <1>3, <1>5, <2>1, <2>2 DEF Owns
  <2>3. CASE x # e
    <3>1. st2[x] = st[x] /\ (<<x, Style>> \in by => <<x, Style>> \in by2)
      BY <1>5, <2>3
    <3>2. QED
      BY <2>1, <3>1 DEF Agree, PlainParts, ViewsKept
  <2>4. QED
    BY <2>2, <2>3
<1>8. ClassAgree(s, d, by2)
  BY NameFacts DEF Agree, ClassAgree
<1>9. QED
  BY <1>5, <1>6, <1>7, <1>8 DEF Agree, PlainParts, st2

(* A script sets a key of it.                                                 *)
Written(s, a, text) == [s EXCEPT !.attrs[a].changed = FALSE, !.attrs[a].value = text]

LEMMA WrittenFields ==
  ASSUME NEW s \in States, NEW a \in AttrNodes, NEW v \in Text
  PROVE  /\ OnlyNode(s, Written(s, a, v), a)
         /\ Written(s, a, v).attrs[a].name = s.attrs[a].name /\ Written(s, a, v).attrs[a].value = v
         /\ ~Written(s, a, v).attrs[a].changed /\ Written(s, a, v).attrs[a].owner = s.attrs[a].owner
<1> DEFINE x == s.attrs[a]
           node == [name |-> x.name, value |-> v, changed |-> FALSE, owner |-> x.owner]
           t == [s EXCEPT !.attrs = [s.attrs EXCEPT ![a] = node]]
<1>1. x \in Node /\ s.attrs \in [AttrNodes -> Node]
  BY DEF States
<1>2. [[x EXCEPT !.changed = FALSE] EXCEPT !.value = v] = node
  <2>1. x = [name |-> x.name, value |-> x.value, changed |-> x.changed, owner |-> x.owner]
    BY <1>1 DEF Node
  <2> HIDE DEF x
  <2>2. ASSUME NEW no
        PROVE  [[x EXCEPT !.changed = no] EXCEPT !.value = v] = [name |-> x.name, value |-> v, changed |-> no, owner |-> x.owner]
    <3>1. [x EXCEPT !.changed = no] = [name |-> x.name, value |-> x.value, changed |-> no, owner |-> x.owner]
      BY <2>1
    <3>2. [[name |-> x.name, value |-> x.value, changed |-> no, owner |-> x.owner] EXCEPT !.value = v]
            = [name |-> x.name, value |-> v, changed |-> no, owner |-> x.owner]
      OBVIOUS
    <3>3. QED
      BY <3>1, <3>2, Zenon
  <2>3. QED
    BY <2>2, Zenon DEF node
<1> HIDE DEF x
<1>3. Written(s, a, v) = [s EXCEPT !.attrs = [s.attrs EXCEPT ![a] = [[x EXCEPT !.changed = FALSE] EXCEPT !.value = v]]]
  <2>1. [[s.attrs EXCEPT ![a] = [@ EXCEPT !.changed = FALSE]] EXCEPT ![a] = [@ EXCEPT !.value = v]]
          = [s.attrs EXCEPT ![a] = [[x EXCEPT !.changed = FALSE] EXCEPT !.value = v]]
    BY <1>1 DEF x
  <2>2. QED
    BY <2>1 DEF Written, States
<1>4. node \in Node
  BY <1>1 DEF Node
<1>5. node.name = x.name /\ node.value = v /\ ~node.changed /\ node.owner = x.owner
  OBVIOUS
<1> HIDE DEF node
<1>6. OnlyNode(s, t, a) /\ t.attrs[a] = node
  BY <1>1, <1>4 DEF OnlyNode, States
<1>7. Written(s, a, v) = t
  BY <1>2, <1>3
<1> HIDE DEF t
<1>8. QED
  BY <1>5, <1>6, <1>7 DEF x

(* The node that is written: the one of the element, or a new one.            *)
WithStyle(s, e) ==
  IF Present(s, e, Style) THEN s ELSE setAttribute(NewAttr(s, Fresh(FreeNodes(s)), Style, <<>>), e, Fresh(FreeNodes(s)))

LEMMA StylePlaced ==
  ASSUME NEW s, Sound(s), FreeNodes(s) # {}, NEW e \in Writable, NEW text \in Text
  PROVE  LET a == getAttributeNode(WithStyle(s, e), e, Style)
             t == Written(WithStyle(s, e), a, text)
         IN  /\ a \in AttrNodes /\ Placed(s, t, e, Style, a)
             /\ t.attrs[a].value = text /\ ~t.attrs[a].changed /\ s.attrs[a].name \in {<<>>, Style}
             /\ Present(s, e, Style) => a = getAttributeNode(s, e, Style)
<1> DEFINE r == WithStyle(s, e)
           a == getAttributeNode(r, e, Style)
           t == Written(r, a, text)
<1>1. Style \in Names /\ Style # Class /\ <<>> \in Text
  BY NameFacts, NoneIn DEF Text
<1>2. CASE Present(s, e, Style)
  <2>1. r = s
    BY <1>2 DEF WithStyle
  <2>2. a \in AttrNodes /\ Owns(s, e, Style, a)
    BY <1>2, <2>1, NodeFound
  <2> HIDE DEF r, a
  <2>3. /\ OnlyNode(s, t, a) /\ t.attrs[a].name = s.attrs[a].name /\ t.attrs[a].value = text
        /\ ~t.attrs[a].changed /\ t.attrs[a].owner = s.attrs[a].owner
    BY <2>1, <2>2, WrittenFields DEF Sound
  <2> HIDE DEF t
  <2>4. Placed(s, t, e, Style, a)
    BY <2>2, <2>3 DEF Placed, Owns
  <2>5. s.attrs[a].name \in {<<>>, Style} /\ a = getAttributeNode(s, e, Style)
    BY <2>1, <2>2 DEF Owns, a
  <2>6. QED
    BY <2>2, <2>3, <2>4, <2>5 DEF r, a, t
<1>3. CASE ~Present(s, e, Style)
  <2> DEFINE f == Fresh(FreeNodes(s))
             q == NewAttr(s, f, Style, <<>>)
  <2>1. f \in AttrNodes /\ s.attrs[f].name = <<>> /\ s.attrs[f].owner = 0
    BY FreshIn DEF FreeNodes, Sound, OwnedAreNamed
  <2>2. \A c \in AttrNodes : ~Owns(s, e, Style, c)
    BY <1>3, NodeFound
  <2>3. r = setAttribute(q, e, f)
    BY <1>3 DEF WithStyle
  <2> HIDE DEF f
  <2>4. OnlyNode(s, q, f) /\ q.attrs[f].name = Style /\ q.attrs[f].owner = 0
    BY <1>1, <2>1, NewAttrFields DEF Sound
  <2> HIDE DEF q, r
  <2>5. r = Owned(q, f, e)
    BY <1>1, <2>3, <2>4 DEF setAttribute, Owned
  <2>6. OnlyNode(q, r, f) /\ r.attrs[f].name = Style /\ r.attrs[f].owner = e
    <3>1. q \in States /\ e \in Writable \cup {0}
      BY <2>4 DEF OnlyNode
    <3>2. OnlyNode(q, Owned(q, f, e), f) /\ Owned(q, f, e).attrs[f].name = q.attrs[f].name /\ Owned(q, f, e).attrs[f].owner = e
      BY <2>1, <3>1, OwnedFields
    <3>3. QED
      BY <2>4, <2>5, <3>2
  <2>7. Placed(s, r, e, Style, f) /\ r \in States
    BY <2>1, <2>2, <2>4, <2>6 DEF Placed, Owns, OnlyNode
  <2>8. a = f
    <3>1. Sound(r)
      BY <1>1, <2>1, <2>7, PlacedSound
    <3>2. QED
      BY <1>1, <2>1, <2>7, <3>1, NodeIs DEF Placed
  <2> HIDE DEF a
  <2>9. /\ OnlyNode(r, t, f) /\ t.attrs[f].name = r.attrs[f].name /\ t.attrs[f].value = text
        /\ ~t.attrs[f].changed /\ t.attrs[f].owner = r.attrs[f].owner
    BY <2>1, <2>7, <2>8, WrittenFields
  <2> HIDE DEF t
  <2>10. Placed(s, t, e, Style, f)
    BY <2>1, <2>2, <2>6, <2>7, <2>9 DEF Placed, Owns, OnlyNode
  <2>11. QED
    BY <1>3, <2>1, <2>8, <2>9, <2>10 DEF r, a, t
<1>4. QED
  BY <1>2, <1>3

StyleMaps(s, e, st, by, map, stdMap) == Reread(s, st[e], e) \/ <<e, Style>> \notin by => map = stdMap
StyleIsSet(s, e, map, stdMap, d, st, by) ==
  LET a == getAttributeNode(WithStyle(s, e), e, Style)
      t == Written(WithStyle(s, e), a, cssText(map))
      st2 == [st EXCEPT ![e] = [from |-> a, map |-> map]]
      past == {x \in Writable \ {e} : st[x].from = a}
      by2 == (IF Reread(s, st[e], e) THEN by \ {<<e, Style>>} ELSE by) \cup {<<x, Style>> : x \in past}
  IN  /\ Sound(t) /\ st2 \in Views
      /\ Agree(t, StdSet(d, e, Style, cssText(stdMap)), st2, by2)

LEMMA StyleSetAgree ==
  ASSUME NEW s, Sound(s), FreeNodes(s) # {}, NEW e \in Writable, NEW map \in Maps, NEW stdMap \in Maps,
         NEW d \in [Writable -> Texts], NEW st \in Views, NEW by, Agree(s, d, st, by),
         StyleMaps(s, e, st, by, map, stdMap)
  PROVE  StyleIsSet(s, e, map, stdMap, d, st, by)
<1> DEFINE a == getAttributeNode(WithStyle(s, e), e, Style)
           v == cssText(map)
           t == Written(WithStyle(s, e), a, v)
           w == cssText(stdMap)
           d2 == StdSet(d, e, Style, w)
           view2 == [from |-> a, map |-> map]
           st2 == [st EXCEPT ![e] = view2]
           again == Reread(s, st[e], e)
           past == {x \in Writable \ {e} : st[x].from = a}
           by2 == (IF again THEN by \ {<<e, Style>>} ELSE by) \cup {<<x, Style>> : x \in past}
<1>1. v \in Text /\ Declarations(v) = map /\ w \in Text
  BY DeclarationsOfMap
<1>2. Style \in Names /\ Style # Class
  BY NameFacts
<1> HIDE DEF v, w, again
<1>3. /\ a \in AttrNodes /\ Placed(s, t, e, Style, a) /\ Owns(t, e, Style, a)
      /\ t.attrs[a].value = v /\ ~t.attrs[a].changed /\ s.attrs[a].name \in {<<>>, Style}
  BY <1>1, StylePlaced DEF Placed
<1> HIDE DEF a, t
<1>4. Sound(t)
  BY <1>2, <1>3, PlacedSound
<1>5. /\ d2 \in [Writable -> Texts] /\ d2[e][Style] = w /\ \A x \in Writable \ {e} : d2[x] = d[x]
      /\ \A m \in DOMAIN d[e] \ {Style} : d2[e][m] = d[e][m]
  BY <1>1, <1>2, StdSetIs
<1>6. view2.from = a /\ view2.map = map /\ view2 \in [from : AttrNodes \cup {0}, map : Maps]
  BY <1>3
<1> HIDE DEF view2
<1>7. st2 \in Views /\ st2[e].from = a /\ st2[e].map = map /\ \A x \in Writable \ {e} : st2[x] = st[x]
  BY <1>6 DEF Views
<1>8. /\ \A x \in Writable \ {e} : <<x, Style>> \in by \/ st[x].from = a => <<x, Style>> \in by2
      /\ ~again /\ <<e, Style>> \in by => <<e, Style>> \in by2
  OBVIOUS
<1>9. SameClasses(by, by2)
  BY <1>2 DEF SameClasses
<1> HIDE DEF d2, st2, by2
<1>10. PresentAgree(t, d2)
  BY <1>1, <1>2, <1>3, PlacedPresent DEF Agree, PlainParts, d2
<1>11. ValuesAgree(t, d2, st2, by2)
  <2>1. SUFFICES ASSUME NEW c \in AttrNodes, NEW x \in Writable, NEW m \in Names, Owns(t, x, m, c), m # Class
                 PROVE  \/ t.attrs[c].value = d2[x][m]
                        \/ m = Style /\ st2[x].from = c /\ ~t.attrs[c].changed /\ <<x, Style>> \in by2
    BY DEF ValuesAgree
  <2>2. CASE c = a
    <3>1. x = e /\ m = Style
      BY <1>3, <2>1, <2>2 DEF Owns
    <3>2. CASE again \/ <<e, Style>> \notin by
      <4>1. v = w
        BY <3>2 DEF v, w, again, StyleMaps
      <4>2. QED
        BY <1>3, <1>5, <2>2, <3>1, <4>1
    <3>3. CASE ~again /\ <<e, Style>> \in by
      BY <1>3, <1>7, <1>8, <2>2, <3>1, <3>3
    <3>4. QED
      BY <3>2, <3>3
  <2>3. CASE c # a
    <3>1. t.attrs[c] = s.attrs[c] /\ Owns(s, x, m, c) /\ (x # e \/ m # Style)
      <4>1. /\ t.attrs[c] = s.attrs[c] /\ (Owns(t, x, m, c) <=> Owns(s, x, m, c))
            /\ Owns(s, x, m, c) => x # e \/ m # Style
        BY <1>2, <1>3, <2>3, PlacedOthers
      <4>2. QED
        BY <2>1, <4>1
    <3>2. m \in DOMAIN d[x]
      BY <2>1, <3>1 DEF Agree, PlainParts, PresentAgree
    <3>3. d2[x][m] = d[x][m]
      BY <1>5, <3>1, <3>2
    <3>4. \/ s.attrs[c].value = d[x][m]
          \/ m = Style /\ st[x].from = c /\ ~s.attrs[c].changed /\ <<x, Style>> \in by
      BY <2>1, <3>1 DEF Agree, PlainParts, ValuesAgree
    <3>5. m = Style => x # e
      BY <3>1
    <3>6. QED
      BY <1>7, <1>8, <3>1, <3>3, <3>4, <3>5
  <2>4. QED
    BY <2>2, <2>3
<1>12. ViewsKept(t, st2, by2)
  <2>1. SUFFICES ASSUME NEW x \in Writable, st2[x].from # 0
                 PROVE  /\ t.attrs[st2[x].from].name = Style
                        /\ ~t.attrs[st2[x].from].changed /\ <<x, Style>> \notin by2 =>
                             st2[x].map = Declarations(t.attrs[st2[x].from].value)
    BY DEF ViewsKept
  <2>2. t.attrs[a].name = Style
    BY <1>3 DEF Owns
  <2>3. CASE x = e
    BY <1>1, <1>3, <1>7, <2>2, <2>3
  <2>4. CASE x # e /\ st[x].from = a
    BY <1>7, <1>8, <2>2, <2>4
  <2>5. CASE x # e /\ st[x].from # a
    <3>1. st2[x] = st[x] /\ (<<x, Style>> \in by => <<x, Style>> \in by2)
      BY <1>7, <1>8, <2>5
    <3>2. st[x].from \in AttrNodes
      BY <2>1, <3>1 DEF Views
    <3>3. t.attrs[st[x].from] = s.attrs[st[x].from]
      BY <1>3, <2>5, <3>2 DEF Placed, OnlyNode
    <3>4. QED
      BY <2>1, <3>1, <3>3 DEF Agree, PlainParts, ViewsKept
  <2>6. QED
    BY <2>3, <2>4, <2>5
<1>13. ClassAgree(t, d2, by2)
  <2>1. ClassKept(s, t)
    <3>1. s.attrs[a].name # Class /\ t.attrs[a].name # Class
      BY <1>2, <1>3, NameFacts DEF Owns
    <3>2. QED
      BY <1>3, <3>1 DEF Placed, OnlyNode, ClassKept
  <2>2. ClassKeptIn(d, d2)
    BY <1>1, <1>2, StdSetFrames DEF d2
  <2>3. QED
    BY <1>9, <2>1, <2>2, ClassStays DEF Agree
<1>14. Agree(t, d2, st2, by2)
  BY <1>10, <1>11, <1>12, <1>13 DEF Agree, PlainParts
<1>15. QED
  BY <1>4, <1>7, <1>14 DEF StyleIsSet, a, t, v, w, d2, view2, st2, again, by2

-----------------------------------------------------------------------------
(* The inductive invariant.                                                   *)
Keeps(s, d, st, by) == Sound(s) /\ d \in [Writable -> Texts] /\ st \in Views /\ Agree(s, d, st, by)

Inv ==
  /\ scene \in DOMAIN Documents /\ writes \in 0..Document.writes
  /\ known \in [Writable -> {"unmade", "in", "out"}]
  /\ Keeps(S, std, style, bypassed)

LEMMA InputFacts ==
  /\ \A x \in DOMAIN Documents : Documents[x].names \subseteq Names /\ Documents[x].writes \in Nat
  /\ Tokens \subseteq Word
  /\ Keys \subseteq KeyTexts /\ KeyValues \subseteq ValueTexts
<1>1. \A x \in DOMAIN Documents : Documents[x].names \subseteq Names /\ Documents[x].writes \in Nat
  BY ViewsAssumption DEF Names
<1>2. ASSUME NEW token \in Tokens PROVE token \in Word
  <2>1. token \in Seq(Symbols) /\ token # <<>> /\ \A i \in DOMAIN token : token[i] \notin {Space}
    BY ViewsAssumption DEF IsWord, Without
  <2>2. token \in [1..Len(token) -> Symbols \ {Space}] /\ Len(token) \in Nat
    BY <2>1
  <2>3. token \in Seq(Symbols \ {Space})
    BY <2>2
  <2>4. QED
    BY <2>1, <2>3 DEF Word, Free
<1>3. Keys \subseteq KeyTexts /\ KeyValues \subseteq ValueTexts
  BY ViewsAssumption DEF KeyTexts, ValueTexts, IsTrimmed, Text
<1>4. QED
  BY <1>1, <1>2, <1>3

LEMMA NowIs ==
  ASSUME NEW s, s \in States, Becomes(s)
  PROVE  S' = s
<1>1. s = [attrs |-> s.attrs, lists |-> s.lists, current |-> s.current]
  BY DEF States
<1>2. QED
  BY <1>1 DEF S, Becomes

LEMMA WriteKept ==
  ASSUME Inv, MayWrite, NEW s, Becomes(s), known' \in [Writable -> {"unmade", "in", "out"}],
         Keeps(s, std', style', bypassed')
  PROVE  Inv'
<1>1. S' = s
  BY NowIs DEF Keeps, Sound
<1>2. scene' \in DOMAIN Documents /\ writes' \in 0..Document'.writes
  BY InputFacts DEF Inv, MayWrite, Document
<1>3. Keeps(S', std', style', bypassed')
  BY <1>1
<1>4. QED
  BY <1>2, <1>3 DEF Inv

LEMMA HealedIs ==
  ASSUME NEW e, NEW n
  PROVE  Healed({e}, n) = Heal(bypassed, e, n)
BY DEF Healed, Heal

LEMMA ElementSetAgree ==
  ASSUME NEW s, Sound(s), FreeNodes(s) # {}, FreeLists(s) # {}, NEW e \in Writable, NEW n \in Names, NEW v \in Text,
         NEW d \in [Writable -> Texts], NEW st \in Views, NEW by, Agree(s, d, st, by)
  PROVE  LET t == ElementSetAttribute(s, e, n, v)
         IN  Sound(t) /\ Agree(t, StdSet(d, e, n, v), st, Heal(by, e, n))
<1> DEFINE t == ElementSetAttribute(s, e, n, v)
           d2 == StdSet(d, e, n, v)
<1>1. CASE n = Class
  <2>1. t = className(s, e, v)
    BY <1>1 DEF ElementSetAttribute
  <2> HIDE DEF t
  <2>2. Sound(t) /\ ClassOnly(s, t, e) /\ ClassIs(t, e, addTokens(v))
    BY <2>1, classNameIs
  <2>3. ClassOnlyIn(d, d2, e) /\ TokensIn(d2[e]) = addTokens(v)
    BY <1>1, StdSetFrames
  <2> HIDE DEF d2
  <2>4. /\ SameStyles(by, Heal(by, e, n))
        /\ \A x \in Writable \ {e} : <<x, Class>> \in by => <<x, Class>> \in Heal(by, e, n)
    BY HealIs
  <2>5. ClassIs(t, e, TokensIn(d2[e]))
    BY <2>2, <2>3
  <2>6. Agree(t, d2, st, Heal(by, e, n))
    BY <2>2, <2>3, <2>4, <2>5, ClassChange
  <2>7. QED
    BY <2>2, <2>6 DEF t, d2
<1>2. CASE n # Class
  <2>1. PICK a \in AttrNodes : Sets(s, t, e, n, v, a)
    BY <1>2, ElementSetIs
  <2> HIDE DEF t
  <2>2. Sound(t) /\ Agree(t, d2, st, by)
    BY <1>2, <2>1, SetsAll
  <2>3. Heal(by, e, n) = by
    BY <1>2, HealIs
  <2>4. QED
    BY <2>2, <2>3 DEF t
<1>3. QED
  BY <1>1, <1>2

ListWritten(s, l, e, tokens, stdTokens, d, st, by) ==
  LET t == Retoken(s, l, tokens)
      d2 == IF stdTokens = <<>> /\ Class \notin DOMAIN d[e] THEN d ELSE StdSet(d, e, Class, Joined(stdTokens))
  IN  /\ Sound(t) /\ d2 \in [Writable -> Texts]
      /\ Agree(t, d2, st, IF l = s.current[e] THEN by ELSE by \cup {<<e, Class>>})

LEMMA ListWriteAgree ==
  ASSUME NEW s, Sound(s), FreeNodes(s) # {}, FreeLists(s) # {}, NEW l \in ListIds, NEW e \in Writable, s.lists[l].owner = e,
         NEW tokens \in TokenLists, NEW stdTokens \in TokenLists,
         NEW d \in [Writable -> Texts], NEW st \in Views, NEW by, Agree(s, d, st, by),
         s.lists[l].tokens = TokensIn(d[e]) => tokens = stdTokens
  PROVE  ListWritten(s, l, e, tokens, stdTokens, d, st, by)
<1> DEFINE t == Retoken(s, l, tokens)
           d2 == IF stdTokens = <<>> /\ Class \notin DOMAIN d[e] THEN d ELSE StdSet(d, e, Class, Joined(stdTokens))
           by2 == IF l = s.current[e] THEN by ELSE by \cup {<<e, Class>>}
<1>1. Sound(t) /\ ClassOnly(s, t, e) /\ (l = s.current[e] => ClassIs(t, e, tokens))
  BY RetokenIs
<1> HIDE DEF t
<1>2. Class \in Names
  BY NameFacts
<1>3. d2 \in [Writable -> Texts] /\ ClassOnlyIn(d, d2, e) /\ TokensIn(d2[e]) = stdTokens
  <2>1. CASE stdTokens = <<>> /\ Class \notin DOMAIN d[e]
    BY <2>1 DEF ClassOnlyIn, TokensIn
  <2>2. CASE ~(stdTokens = <<>> /\ Class \notin DOMAIN d[e])
    <3>1. Joined(stdTokens) \in Text /\ addTokens(Joined(stdTokens)) = stdTokens
      BY TokensOfJoined
    <3>2. d2 = StdSet(d, e, Class, Joined(stdTokens))
      BY <2>2
    <3> HIDE DEF d2
    <3>3. d2 \in [Writable -> Texts]
      BY <1>2, <3>1, <3>2, StdSetIs
    <3>4. ClassOnlyIn(d, d2, e) /\ TokensIn(d2[e]) = addTokens(Joined(stdTokens))
      BY <1>2, <3>1, <3>2, StdSetFrames
    <3>5. QED
      BY <3>1, <3>3, <3>4
  <2>3. QED
    BY <2>1, <2>2
<1> HIDE DEF d2
<1>4. SameStyles(by, by2) /\ \A x \in Writable \ {e} : <<x, Class>> \in by => <<x, Class>> \in by2
  BY NameFacts DEF SameStyles
<1>5. ASSUME <<e, Class>> \notin by2 PROVE ClassIs(t, e, TokensIn(d2[e]))
  <2>1. l = s.current[e] /\ <<e, Class>> \notin by
    BY <1>5
  <2>2. ClassIs(s, e, TokensIn(d[e]))
    BY <2>1 DEF Agree, ClassAgree
  <2>3. s.lists[l].tokens = TokensIn(d[e])
    BY <2>1, <2>2, NameFacts DEF ClassIs
  <2>4. QED
    BY <1>1, <1>3, <2>1, <2>3
<1> HIDE DEF by2
<1>6. Agree(t, d2, st, by2)
  BY <1>1, <1>3, <1>4, <1>5, ClassChange
<1>7. QED
  BY <1>1, <1>3, <1>6 DEF ListWritten, t, d2, by2

LEMMA ReadClassAgree ==
  ASSUME NEW s, Sound(s), NEW e \in Writable, s.current[e] = 0 => FreeLists(s) # {},
         NEW d \in [Writable -> Texts], NEW st \in Views, NEW by, Agree(s, d, st, by)
  PROVE  Sound(classList(s, e)) /\ Agree(classList(s, e), d, st, by)
<1> DEFINE c == classList(s, e)
<1>1. OnlyLists(s, c, e) /\ \A tokens : ClassIs(s, e, tokens) => ClassIs(c, e, tokens)
  BY ReadLists
<1> HIDE DEF c
<1>2. ClassOnly(s, c, e) /\ Sound(c)
  BY <1>1, ListsAreClass DEF OnlyLists
<1>3. ClassOnlyIn(d, d, e) /\ SameStyles(by, by)
  BY DEF ClassOnlyIn, SameStyles
<1>4. <<e, Class>> \notin by => ClassIs(c, e, TokensIn(d[e]))
  BY <1>1 DEF Agree, ClassAgree
<1>5. Agree(c, d, st, by)
  BY <1>2, <1>3, <1>4, ClassChange
<1>6. QED
  BY <1>2, <1>5 DEF c

(* One lemma for each kind of call.                                           *)
LEMMA AttributeSteps ==
  ASSUME Inv, NEW e \in Writable
  PROVE  /\ \A name \in Document.names : /\ \A value \in Values[name] : SetAttribute(e, name, value) => Inv'
                                         /\ RemoveAttribute(e, name) => Inv'
         /\ \A value \in Values[Data] : DatasetSet(e, value) => Inv'
         /\ DatasetMake(e) => Inv'
         /\ DatasetDelete(e) => Inv'
<1>1. /\ Sound(S) /\ std \in [Writable -> Texts] /\ style \in Views /\ Agree(S, std, style, bypassed)
      /\ known \in [Writable -> {"unmade", "in", "out"}] /\ Document.names \subseteq Names /\ Data \in Names /\ Data # Class
  BY InputFacts, NameFacts DEF Inv, Keeps, Document
<1>2. ASSUME NEW name \in Names, NEW value \in Values[name], MayWrite, Becomes(ElementSetAttribute(S, e, name, value)),
             std' = StdSet(std, e, name, value), bypassed' = Heal(bypassed, e, name), style' = style,
             known' \in [Writable -> {"unmade", "in", "out"}]
      PROVE  Inv'
  <2> DEFINE t == ElementSetAttribute(S, e, name, value)
  <2>1. value \in Text /\ FreeNodes(S) # {} /\ FreeLists(S) # {}
    BY <1>2, NameFacts DEF MayWrite
  <2>2. Sound(t) /\ Agree(t, StdSet(std, e, name, value), style, Heal(bypassed, e, name))
    BY <1>1, <2>1, ElementSetAgree
  <2>3. StdSet(std, e, name, value) \in [Writable -> Texts]
    BY <1>1, <2>1, StdSetIs
  <2> HIDE DEF t
  <2>4. Keeps(t, std', style', bypassed')
    BY <1>1, <1>2, <2>2, <2>3 DEF Keeps
  <2>5. QED
    BY <1>2, <2>4, WriteKept DEF t
<1>3. ASSUME NEW name \in Names, name = Class => Present(S, e, name), MayWrite, Becomes(ElementRemoveAttribute(S, e, name)),
             std' = StdDrop(std, e, name), bypassed' = Heal(bypassed, e, name), style' = style,
             known' \in [Writable -> {"unmade", "in", "out"}]
      PROVE  Inv'
  <2> DEFINE t == ElementRemoveAttribute(S, e, name)
  <2>1. Drops(S, t, e, name)
    BY <1>1, <1>3, ElementRemoveIs
  <2> HIDE DEF t
  <2>2. Sound(t) /\ Agree(t, StdDrop(std, e, name), style, Heal(bypassed, e, name))
    BY <1>1, <2>1, DropsSound, DropsAgree
  <2>3. StdDrop(std, e, name) \in [Writable -> Texts]
    BY <1>1, StdDropIs
  <2>4. Keeps(t, std', style', bypassed')
    BY <1>1, <1>3, <2>2, <2>3 DEF Keeps
  <2>5. QED
    BY <1>3, <2>4, WriteKept DEF t
<1>4. ASSUME NEW name \in Document.names, NEW value \in Values[name], SetAttribute(e, name, value) PROVE Inv'
  BY <1>1, <1>2, <1>4, HealedIs DEF SetAttribute
<1>5. ASSUME NEW name \in Document.names, RemoveAttribute(e, name) PROVE Inv'
  BY <1>1, <1>3, <1>5, HealedIs DEF RemoveAttribute
<1>6. Heal(bypassed, e, Data) = bypassed
  BY <1>1 DEF Heal
<1>7. ASSUME NEW value \in Values[Data], DatasetSet(e, value) PROVE Inv'
  <2>1. known' \in [Writable -> {"unmade", "in", "out"}]
    BY <1>1, <1>7 DEF DatasetSet
  <2>2. QED
    BY <1>1, <1>2, <1>6, <1>7, <2>1 DEF DatasetSet
<1>8. ASSUME DatasetDelete(e) PROVE Inv'
  <2>1. known' \in [Writable -> {"unmade", "in", "out"}]
    BY <1>1, <1>8 DEF DatasetDelete
  <2>2. QED
    BY <1>1, <1>3, <1>6, <1>8, <2>1 DEF DatasetDelete
<1>9. ASSUME DatasetMake(e) PROVE Inv'
  <2>1. known' \in [Writable -> {"unmade", "in", "out"}]
    BY <1>1, <1>9 DEF DatasetMake
  <2>2. S' = S /\ scene' = scene /\ writes' = writes /\ std' = std /\ style' = style /\ bypassed' = bypassed
    BY <1>9 DEF DatasetMake, S
  <2>3. QED
    BY <2>1, <2>2 DEF Inv, Document
<1>10. QED
  BY <1>4, <1>5, <1>7, <1>8, <1>9

LEMMA NodeSteps ==
  ASSUME Inv, NEW a \in AttrNodes
  PROVE  /\ \A e \in Writable : SetAttributeNode(e, a) => Inv'
         /\ RemoveAttributeNode(a) => Inv'
         /\ attrs[a].name # <<>> => \A value \in Values[attrs[a].name] : SetAttrValue(a, value) => Inv'
<1> DEFINE n == attrs[a].name
           from == attrs[a].owner
<1>1. /\ Sound(S) /\ std \in [Writable -> Texts] /\ style \in Views /\ Agree(S, std, style, bypassed)
      /\ known \in [Writable -> {"unmade", "in", "out"}]
  BY DEF Inv, Keeps
<1>2. n \in Names \cup {<<>>} /\ from \in Writable \cup {0} /\ attrs[a].value \in Text /\ Owns(S, from, n, a)
      /\ S.attrs = attrs /\ S.current = current
  BY <1>1 DEF Sound, States, Node, S, Owns
<1>3. ASSUME NEW e \in Writable, SetAttributeNode(e, a) PROVE Inv'
  <2> DEFINE t == setAttributeNode(S, e, a)
             d1 == IF from = 0 THEN std ELSE StdDrop(std, from, n)
             d2 == StdSet(d1, e, n, attrs[a].value)
             by2 == Healed({e, from}, n)
  <2>1. /\ MayWrite /\ n # <<>> /\ from # e /\ Becomes(t) /\ std' = d2 /\ bypassed' = by2
        /\ style' = style /\ known' = known
    BY <1>3 DEF SetAttributeNode
  <2>2. n \in Names /\ FreeLists(S) # {}
    BY <1>2, <2>1 DEF MayWrite
  <2>3. SameStyles(bypassed, by2)
    BY NameFacts DEF SameStyles, Healed
  <2>4. \A x \in Writable : <<x, Class>> \in by2 <=> <<x, Class>> \in bypassed /\ ~(n = Class /\ x \in {e, from})
    BY DEF Healed
  <2> HIDE DEF by2
  <2>5. S.attrs[a].owner = from /\ S.attrs[a].name = n /\ S.attrs[a].value = attrs[a].value
    BY <1>2
  <2>6. Sound(t) /\ Agree(t, StdSet(IF from = 0 THEN std ELSE StdDrop(std, from, n), e, n, S.attrs[a].value), style, by2)
    <3> HIDE DEF n, from, t
    <3>1. QED
      BY <1>1, <2>1, <2>2, <2>3, <2>4, <2>5, SetAttributeNodeAgree DEF t
  <2>7. d2 \in [Writable -> Texts]
    <3>1. d1 \in [Writable -> Texts]
      BY <1>1, <1>2, StdDropIs
    <3> HIDE DEF d1, n
    <3>2. QED
      BY <1>2, <2>2, <3>1, StdSetIs
  <2>8. Agree(t, d2, style, by2)
    BY <2>5, <2>6
  <2> HIDE DEF t, d2, d1, n, from
  <2>9. Keeps(t, std', style', bypassed')
    BY <1>1, <2>1, <2>6, <2>7, <2>8 DEF Keeps
  <2>10. QED
    BY <1>1, <2>1, <2>9, WriteKept
<1>4. ASSUME RemoveAttributeNode(a) PROVE Inv'
  <2> DEFINE t == removeAttribute(S, a)
             d2 == StdDrop(std, from, n)
             by2 == Heal(bypassed, from, n)
  <2>1. /\ MayWrite /\ from # 0 /\ Becomes(t) /\ std' = d2 /\ bypassed' = by2 /\ style' = style /\ known' = known
    BY <1>4, HealedIs DEF RemoveAttributeNode
  <2>2. from \in Writable /\ n \in Names
    BY <1>1, <1>2, <2>1 DEF Sound, OwnedAreNamed
  <2> HIDE DEF n, from
  <2>3. Sound(t) /\ Agree(t, d2, style, by2)
    BY <1>1, <1>2, <2>2, Leaves
  <2>4. d2 \in [Writable -> Texts]
    BY <1>1, <2>2, StdDropIs
  <2> HIDE DEF t, d2, by2
  <2>5. Keeps(t, std', style', bypassed')
    BY <1>1, <2>1, <2>3, <2>4 DEF Keeps
  <2>6. QED
    BY <1>1, <2>1, <2>5, WriteKept
<1>5. ASSUME n # <<>>, NEW value \in Values[n], SetAttrValue(a, value) PROVE Inv'
  <2> DEFINE t == SetValue(S, a, value)
             d2 == IF from = 0 THEN std ELSE StdSet(std, from, n, value)
             by2 == bypassed \cup (IF n = Class /\ from # 0 /\ S.current[from] # 0 THEN {<<from, Class>>} ELSE {})
  <2>1. /\ MayWrite /\ Becomes(t) /\ std' = d2 /\ bypassed' = by2 /\ style' = style /\ known' = known
    BY <1>2, <1>5 DEF SetAttrValue
  <2>2. n \in Names /\ value \in Text
    BY <1>2, <1>5, NameFacts
  <2> HIDE DEF n, from
  <2>3. Sound(t) /\ Agree(t, d2, style, by2)
    BY <1>1, <1>2, <2>2, SetAttrValueAgree
  <2>4. d2 \in [Writable -> Texts]
    BY <1>1, <1>2, <2>2, StdSetIs
  <2> HIDE DEF t, d2, by2
  <2>5. Keeps(t, std', style', bypassed')
    BY <1>1, <2>1, <2>3, <2>4 DEF Keeps
  <2>6. QED
    BY <1>1, <2>1, <2>5, WriteKept
<1>6. QED
  BY <1>3, <1>4, <1>5

LEMMA ListSteps ==
  ASSUME Inv, NEW l \in ListIds, lists[l].owner # 0, NEW token \in Tokens
  PROVE  /\ ListAdd(l, token) => Inv'
         /\ ListRemove(l, token) => Inv'
         /\ ListToggle(l, token) => Inv'
         /\ \A new \in Tokens : ListReplace(l, token, new) => Inv'
<1> DEFINE e == lists[l].owner
           ts == lists[l].tokens
           sd == StdOf(l)
<1>1. /\ Sound(S) /\ std \in [Writable -> Texts] /\ style \in Views /\ Agree(S, std, style, bypassed)
      /\ known \in [Writable -> {"unmade", "in", "out"}]
  BY DEF Inv, Keeps
<1>2. /\ e \in Writable /\ ts \in TokenLists /\ S.lists = lists /\ S.current = current
      /\ sd = TokensIn(std[e])
  BY <1>1 DEF Sound, States, ListObject, S, StdOf, StdTokens
<1>3. sd \in TokenLists
  BY <1>1, <1>2, StdTyped
<1>4. Tokens \subseteq Word /\ Word \subseteq Free(Space)
  BY InputFacts DEF Word
<1> HIDE DEF e, ts, sd
<1>5. ASSUME NEW tokens \in TokenLists, NEW stdTokens \in TokenLists, ts = sd => tokens = stdTokens,
             ListWrite(l, tokens, stdTokens)
      PROVE  Inv'
  <2> DEFINE t == Retoken(S, l, tokens)
             d2 == IF stdTokens = <<>> /\ Class \notin DOMAIN std[e] THEN std ELSE StdSet(std, e, Class, Joined(stdTokens))
             by2 == IF l = S.current[e] THEN bypassed ELSE bypassed \cup {<<e, Class>>}
  <2>1. /\ MayWrite /\ Becomes(t) /\ std' = d2 /\ bypassed' = by2 /\ style' = style /\ known' = known
    BY <1>2, <1>5 DEF ListWrite, e
  <2>2. FreeNodes(S) # {} /\ FreeLists(S) # {} /\ S.lists[l].owner = e /\ S.lists[l].tokens = ts
    BY <1>2, <2>1 DEF MayWrite, e, ts
  <2>3. S.lists[l].tokens = TokensIn(std[e]) => tokens = stdTokens
    BY <1>2, <1>5, <2>2
  <2>4. Sound(t) /\ d2 \in [Writable -> Texts] /\ Agree(t, d2, style, by2)
    <3>1. ListWritten(S, l, e, tokens, stdTokens, std, style, bypassed)
      BY <1>1, <1>2, <1>5, <2>2, <2>3, ListWriteAgree
    <3>2. QED
      BY <3>1 DEF ListWritten
  <2> HIDE DEF t, d2, by2
  <2>5. Keeps(t, std', style', bypassed')
    BY <1>1, <2>1, <2>4 DEF Keeps
  <2>6. QED
    BY <1>1, <2>1, <2>5, WriteKept
<1>6. ASSUME ListAdd(l, token) PROVE Inv'
  <2>1. Add(ts, token) \in TokenLists /\ Add(sd, token) \in TokenLists
    BY <1>2, <1>3, <1>4, AddKeeps
  <2>2. ListWrite(l, Add(ts, token), Add(sd, token))
    BY <1>6 DEF ListAdd, ts, sd
  <2>3. QED
    BY <1>5, <2>1, <2>2
<1>7. ASSUME ListRemove(l, token) PROVE Inv'
  <2>1. Drop(ts, token) \in TokenLists /\ Drop(sd, token) \in TokenLists
    BY <1>2, <1>3, DropKeeps
  <2>2. ListWrite(l, Drop(ts, token), Drop(sd, token))
    BY <1>7 DEF ListRemove, ts, sd
  <2>3. QED
    BY <1>5, <2>1, <2>2
<1>8. ASSUME NEW new \in Tokens, ListReplace(l, token, new) PROVE Inv'
  <2>1. Drop(ts, token) \in TokenLists /\ Drop(sd, token) \in TokenLists
    BY <1>2, <1>3, DropKeeps
  <2>2. Add(Drop(ts, token), new) \in TokenLists /\ Add(Drop(sd, token), new) \in TokenLists
    BY <1>4, <2>1, AddKeeps
  <2>3. ListWrite(l, Add(Drop(ts, token), new), Add(Drop(sd, token), new))
    BY <1>8 DEF ListReplace, ts, sd
  <2>4. QED
    BY <1>5, <2>2, <2>3
<1>9. ListToggle(l, token) => Inv'
  BY <1>6, <1>7 DEF ListToggle
<1>10. QED
  BY <1>6, <1>7, <1>8, <1>9

LEMMA ViewSteps ==
  ASSUME Inv, NEW e \in Writable
  PROVE  /\ ReadClass(e) => Inv'
         /\ StyleRead(e) => Inv'
         /\ \A key \in Keys, value \in KeyValues \cup {<<>>} : StyleSet(e, key, value) => Inv'
<1>1. /\ Sound(S) /\ std \in [Writable -> Texts] /\ style \in Views /\ Agree(S, std, style, bypassed)
      /\ known \in [Writable -> {"unmade", "in", "out"}]
  BY DEF Inv, Keeps
<1>2. ASSUME ReadClass(e) PROVE Inv'
  <2> DEFINE c == classList(S, e)
  <2>1. Becomes(c) /\ FreeLists(S) # {} /\ UNCHANGED <<scene, writes, style, known, std, bypassed>>
    BY <1>2 DEF ReadClass
  <2>2. Sound(c) /\ Agree(c, std, style, bypassed)
    BY <1>1, <2>1, ReadClassAgree
  <2> HIDE DEF c
  <2>3. S' = c
    BY <2>1, <2>2, NowIs DEF Sound
  <2>4. QED
    BY <2>1, <2>2, <2>3 DEF Inv, Keeps, Document
<1>3. ASSUME StyleRead(e) PROVE Inv'
  <2> DEFINE st2 == [style EXCEPT ![e] = updateKeys(S, @, e)]
             by2 == bypassed \ {<<e, Style>>}
  <2>1. /\ Reread(S, style[e], e) /\ style' = st2 /\ bypassed' = by2
        /\ UNCHANGED <<scene, writes, attrs, lists, current, known, std>>
    BY <1>3 DEF StyleRead
  <2>2. st2 \in Views /\ Agree(S, std, st2, by2)
    BY <1>1, <2>1, StyleReadAgree
  <2> HIDE DEF st2, by2
  <2>3. S' = S
    BY <2>1 DEF S
  <2>4. QED
    BY <2>1, <2>2, <2>3 DEF Inv, Keeps, Document
<1>4. ASSUME NEW key \in Keys, NEW value \in KeyValues \cup {<<>>}, StyleSet(e, key, value) PROVE Inv'
  <2> DEFINE view == updateKeys(S, style[e], e)
             map == IF value = <<>> THEN Delete(view.map, key) ELSE Put(view.map, key, value)
             s == WithStyle(S, e)
             a == getAttributeNode(s, e, Style)
             past == {x \in Writable \ {e} : style[x].from = a}
             stdMap == IF value = <<>> THEN Delete(StdStyle(e), key) ELSE Put(StdStyle(e), key, value)
             t == Written(s, a, cssText(map))
             st2 == [style EXCEPT ![e] = [from |-> a, map |-> map]]
             by2 == (IF Reread(S, style[e], e) THEN bypassed \ {<<e, Style>>} ELSE bypassed) \cup {<<x, Style>> : x \in past}
             d2 == StdSet(std, e, Style, cssText(stdMap))
  <2>1. /\ MayWrite /\ Becomes(t) /\ style' = st2 /\ std' = d2 /\ bypassed' = by2 /\ known' = known
    BY <1>4 DEF StyleSet, WithStyle, Written
  <2>2. FreeNodes(S) # {}
    BY <2>1 DEF MayWrite
  <2>3. /\ view.map \in Maps
        /\ Reread(S, style[e], e) \/ <<e, Style>> \notin bypassed => view.map = StdStyle(e)
    <3>1. ViewFacts(S, e, std, style, bypassed)
      BY <1>1, ViewIs DEF Agree
    <3>2. /\ view.map \in Maps
          /\ Reread(S, style[e], e) \/ <<e, Style>> \notin bypassed => view.map = StyleIn(std[e])
      BY <3>1 DEF ViewFacts
    <3>3. StdStyle(e) = StyleIn(std[e])
      BY DEF StdStyle, StyleIn
    <3>4. QED
      BY <3>2, <3>3
  <2>4. StdStyle(e) \in Maps
    BY <1>1, StyleInTyped DEF StdStyle, StyleIn
  <2>5. key \in KeyTexts /\ (value = <<>> \/ value \in ValueTexts)
    BY InputFacts
  <2>6. /\ map \in Maps /\ stdMap \in Maps
        /\ Reread(S, style[e], e) \/ <<e, Style>> \notin bypassed => map = stdMap
    <3> HIDE DEF view
    <3>1. QED
      BY <2>3, <2>4, <2>5, PutKeeps, DeleteKeeps
  <2> HIDE DEF view, map, stdMap
  <2>7. Sound(t) /\ st2 \in Views /\ Agree(t, d2, st2, by2)
    <3>1. StyleMaps(S, e, style, bypassed, map, stdMap)
      BY <2>6 DEF StyleMaps
    <3>2. StyleIsSet(S, e, map, stdMap, std, style, bypassed)
      BY ONLY <1>1, <2>2, <2>6, <3>1, e \in Writable, StyleSetAgree
    <3>3. QED
      BY <3>2 DEF StyleIsSet
  <2>8. d2 \in [Writable -> Texts]
    <3>1. cssText(stdMap) \in Text /\ Style \in Names
      BY <2>6, DeclarationsOfMap, NameFacts
    <3>2. QED
      BY <1>1, <3>1, StdSetIs
  <2> HIDE DEF t, st2, by2, d2
  <2>9. Keeps(t, std', style', bypassed')
    BY <2>1, <2>7, <2>8 DEF Keeps
  <2>10. QED
    BY <1>1, <2>1, <2>9, WriteKept
<1>5. QED
  BY <1>2, <1>3, <1>4

LEMMA InitInv == ViewInit => Inv
<1> SUFFICES ASSUME ViewInit PROVE Inv
  OBVIOUS
<1> DEFINE node == [name |-> <<>>, value |-> <<>>, changed |-> FALSE, owner |-> 0]
           list == [owner |-> 0, tokens |-> <<>>]
           view == [from |-> 0, map |-> <<>>]
<1>1. /\ scene \in DOMAIN Documents /\ writes = Document.writes
      /\ attrs = [a \in AttrNodes |-> node] /\ lists = [l \in ListIds |-> list] /\ current = [e \in Writable |-> 0]
      /\ style = [e \in Writable |-> view] /\ known = [e \in Writable |-> "unmade"]
      /\ std = [e \in Writable |-> NoAttrs] /\ bypassed = {}
  BY DEF ViewInit
<1>2. writes \in 0..Document.writes
  <2>1. Document.writes \in Nat
    BY <1>1, InputFacts DEF Document
  <2>2. QED
    BY <1>1, <2>1
<1>3. node \in Node /\ list \in ListObject /\ view \in [from : AttrNodes \cup {0}, map : Maps]
  <2>1. <<>> \in Text
    BY NoneIn DEF Text
  <2>2. QED
    BY <2>1, NoTokens, NoMap DEF Node, ListObject
<1>4. node.name = <<>> /\ node.owner = 0 /\ view.from = 0
  OBVIOUS
<1> HIDE DEF node, list, view
<1>5. S \in States
  BY <1>1, <1>3 DEF States, S
<1>6. /\ \A a \in AttrNodes : S.attrs[a].owner = 0 /\ S.attrs[a].name = <<>>
      /\ \A e \in Writable : S.current[e] = 0 /\ style[e].from = 0
  BY <1>1, <1>4 DEF S
<1>7. \A a \in AttrNodes, e \in Writable, n \in Names : ~Owns(S, e, n, a)
  BY <1>6, NameFacts DEF Owns
<1>8. Sound(S)
  BY <1>5, <1>6, <1>7 DEF Sound, OwnedAreNamed, OneOfAName, CurrentOwned
<1>9. NoAttrs \in Texts /\ DOMAIN NoAttrs = {} /\ TokensIn(NoAttrs) = <<>>
  <2>1. NoAttrs \in [{} -> Text] /\ DOMAIN NoAttrs = {}
    BY DEF NoAttrs
  <2>2. NoAttrs \in Texts
    BY <2>1 DEF Texts
  <2>3. QED
    BY <2>1, <2>2 DEF TokensIn
<1>10. std \in [Writable -> Texts] /\ style \in Views
  BY <1>1, <1>3, <1>9 DEF Views
<1>11. \A e \in Writable : std[e] = NoAttrs
  BY <1>1
<1>12. PlainParts(S, std, style, bypassed)
  <2>1. PresentAgree(S, std)
    BY <1>7, <1>9, <1>11 DEF PresentAgree
  <2>2. ValuesAgree(S, std, style, bypassed)
    BY <1>7 DEF ValuesAgree
  <2>3. ViewsKept(S, style, bypassed)
    BY <1>6 DEF ViewsKept
  <2>4. QED
    BY <2>1, <2>2, <2>3 DEF PlainParts
<1>13. ClassAgree(S, std, bypassed)
  BY <1>6, <1>7, <1>9, <1>11, NameFacts DEF ClassAgree, ClassIs
<1>14. QED
  BY <1>1, <1>2, <1>8, <1>10, <1>12, <1>13 DEF Inv, Keeps, Agree

LEMMA NextInv == Inv /\ [ViewNext]_viewVars => Inv'
<1>1. ASSUME Inv, ViewNext PROVE Inv'
  <2>1. CASE \E e \in Writable :
               \/ \E name \in Document.names : \/ \E value \in Values[name] : SetAttribute(e, name, value)
                                               \/ RemoveAttribute(e, name)
               \/ \E a \in AttrNodes : SetAttributeNode(e, a)
               \/ ReadClass(e) \/ StyleRead(e) \/ DatasetMake(e) \/ DatasetDelete(e)
               \/ \E key \in Keys : \E value \in KeyValues \cup {<<>>} : StyleSet(e, key, value)
               \/ \E value \in Values[Data] : DatasetSet(e, value)
    <3>1. PICK e \in Writable :
            \/ \E name \in Document.names : \/ \E value \in Values[name] : SetAttribute(e, name, value)
                                            \/ RemoveAttribute(e, name)
            \/ \E a \in AttrNodes : SetAttributeNode(e, a)
            \/ ReadClass(e) \/ StyleRead(e) \/ DatasetMake(e) \/ DatasetDelete(e)
            \/ \E key \in Keys : \E value \in KeyValues \cup {<<>>} : StyleSet(e, key, value)
            \/ \E value \in Values[Data] : DatasetSet(e, value)
      BY <2>1
    <3>2. /\ \A name \in Document.names : /\ \A value \in Values[name] : SetAttribute(e, name, value) => Inv'
                                          /\ RemoveAttribute(e, name) => Inv'
          /\ \A value \in Values[Data] : DatasetSet(e, value) => Inv'
          /\ DatasetMake(e) => Inv'
          /\ DatasetDelete(e) => Inv'
      BY <1>1, AttributeSteps
    <3>3. \A a \in AttrNodes : SetAttributeNode(e, a) => Inv'
      BY <1>1, NodeSteps
    <3>4. /\ ReadClass(e) => Inv'
          /\ StyleRead(e) => Inv'
          /\ \A key \in Keys, value \in KeyValues \cup {<<>>} : StyleSet(e, key, value) => Inv'
      BY <1>1, ViewSteps
    <3>5. QED
      BY <3>1, <3>2, <3>3, <3>4
  <2>2. CASE \E a \in AttrNodes :
               \/ RemoveAttributeNode(a)
               \/ attrs[a].name # <<>> /\ \E value \in Values[attrs[a].name] : SetAttrValue(a, value)
    BY <1>1, <2>2, NodeSteps
  <2>3. CASE \E l \in ListIds : lists[l].owner # 0 /\ \E token \in Tokens :
               \/ ListAdd(l, token) \/ ListRemove(l, token) \/ ListToggle(l, token)
               \/ \E new \in Tokens : ListReplace(l, token, new)
    BY <1>1, <2>3, ListSteps
  <2>4. QED
    BY <1>1, <2>1, <2>2, <2>3 DEF ViewNext
<1>2. ASSUME Inv, UNCHANGED viewVars PROVE Inv'
  BY <1>2 DEF Inv, viewVars, S, Document
<1>3. QED
  BY <1>1, <1>2

LEMMA InvAgrees == Inv => ViewsAgree
<1> SUFFICES ASSUME Inv PROVE ViewsAgree
  OBVIOUS
<1>1. /\ Sound(S) /\ std \in [Writable -> Texts] /\ style \in Views /\ Agree(S, std, style, bypassed)
      /\ S.attrs = attrs /\ S.lists = lists /\ S.current = current
  BY DEF Inv, Keeps, S
<1>2. \A a \in AttrNodes : attrs[a].owner \in Writable \cup {0} /\ attrs[a].name \in Names \cup {<<>>}
  BY <1>1 DEF Sound, States, Node
<1>3. TypeOK
  <2>1. writes \in 0..Document.writes /\ \A e \in Writable : known[e] \in {"unmade", "in", "out"}
    BY DEF Inv
  <2>2. \A e \in Writable : current[e] # 0 => lists[current[e]].owner = e
    BY <1>1 DEF Sound, CurrentOwned
  <2>3. \A e \in Writable : style[e].from # 0 => attrs[style[e].from].name = Style
    BY <1>1 DEF Agree, PlainParts, ViewsKept
  <2>4. QED
    BY <1>2, <2>1, <2>2, <2>3 DEF TypeOK
<1>4. ASSUME NEW e \in Writable
      PROVE  /\ \A a, b \in AttrNodes : attrs[a].owner = e /\ attrs[b].owner = e /\ attrs[a].name = attrs[b].name => a = b
             /\ <<e, Class>> \notin bypassed =>
                  /\ TokensNow(S, e) = StdTokens(e)
                  /\ Present(S, e, Class) => addTokens(ValueOf(S, e, Class)) = StdTokens(e)
             /\ <<e, Style>> \notin bypassed =>
                  /\ updateKeys(S, style[e], e).map = StdStyle(e)
                  /\ Present(S, e, Style) => Declarations(ValueOf(S, e, Style)) = StdStyle(e)
             /\ Present(S, e, Data) <=> Data \in DOMAIN std[e]
             /\ Present(S, e, Data) => ValueOf(S, e, Data) = std[e][Data]
  <2>1. ASSUME NEW a \in AttrNodes, NEW b \in AttrNodes, attrs[a].owner = e, attrs[b].owner = e, attrs[a].name = attrs[b].name
        PROVE  a = b
    <3>1. attrs[a].name \in Names
      BY <1>1, <1>2, <2>1, NameFacts DEF Sound, OwnedAreNamed
    <3>2. QED
      BY <1>1, <2>1, <3>1 DEF Sound, OneOfAName, Owns
  <2>2. ASSUME <<e, Class>> \notin bypassed
        PROVE  /\ TokensNow(S, e) = StdTokens(e)
               /\ Present(S, e, Class) => addTokens(ValueOf(S, e, Class)) = StdTokens(e)
    <3>1. ClassIs(S, e, StdTokens(e))
      BY <1>1, <2>2 DEF Agree, ClassAgree, StdTokens
    <3>2. Present(S, e, Class) => addTokens(ValueOf(S, e, Class)) = StdTokens(e)
      BY <3>1, NodeFound DEF ClassIs, ValueOf
    <3>3. CASE S.current[e] # 0
      BY <3>1, <3>2, <3>3 DEF ClassIs, TokensNow
    <3>4. CASE S.current[e] = 0 /\ Present(S, e, Class)
      BY <3>2, <3>4 DEF TokensNow
    <3>5. CASE S.current[e] = 0 /\ ~Present(S, e, Class)
      BY <3>1, <3>5, NodeFound DEF ClassIs, TokensNow
    <3>6. QED
      BY <3>3, <3>4, <3>5
  <2>3. ASSUME <<e, Style>> \notin bypassed
        PROVE  /\ updateKeys(S, style[e], e).map = StdStyle(e)
               /\ Present(S, e, Style) => Declarations(ValueOf(S, e, Style)) = StdStyle(e)
    <3>1. ViewFacts(S, e, std, style, bypassed)
      BY <1>1, ViewIs DEF Agree
    <3>2. StdStyle(e) = StyleIn(std[e])
      BY DEF StdStyle, StyleIn
    <3>3. updateKeys(S, style[e], e).map = StdStyle(e)
      BY <2>3, <3>1, <3>2 DEF ViewFacts
    <3>4. ASSUME Present(S, e, Style) PROVE Declarations(ValueOf(S, e, Style)) = StdStyle(e)
      <4>1. updateKeys(S, style[e], e).map = Declarations(S.attrs[getAttributeNode(S, e, Style)].value)
        BY <2>3, <3>1, <3>4 DEF ViewFacts
      <4>2. QED
        BY <3>3, <4>1 DEF ValueOf
    <3>5. QED
      BY <3>3, <3>4
  <2>4. Present(S, e, Data) <=> Data \in DOMAIN std[e]
    BY <1>1, NodeFound, NameFacts DEF Agree, PlainParts, PresentAgree
  <2>5. ASSUME Present(S, e, Data) PROVE ValueOf(S, e, Data) = std[e][Data]
    <3> DEFINE g == getAttributeNode(S, e, Data)
    <3>1. g \in AttrNodes /\ Owns(S, e, Data, g) /\ Data \in Names /\ Data # Class /\ Data # Style
      BY <2>5, NodeFound, NameFacts
    <3> HIDE DEF g
    <3>2. S.attrs[g].value = std[e][Data]
      BY <1>1, <3>1 DEF Agree, PlainParts, ValuesAgree
    <3>3. QED
      BY <3>2 DEF ValueOf, g
  <2>6. QED
    BY <2>1, <2>2, <2>3, <2>4, <2>5
<1>5. QED
  BY <1>3, <1>4 DEF ViewsAgree

(* Whatever a script writes to the attributes of elements, for every number   *)
(* of elements, attribute nodes and classList objects and all texts: every    *)
(* view it has of them, classList, style or dataset, made at any time, shows  *)
(* what the DOM standard says they are by then, but for the views written     *)
(* past.  Splitting a text at its separators, reading the tokens or the       *)
(* declarations in it and joining them again is part of it.                   *)
THEOREM ViewsStayTrue == ViewSpec => []ViewsAgree
<1>1. Inv /\ [ViewNext]_viewVars => Inv'
  BY NextInv
<1>2. QED
  BY InitInv, <1>1, InvAgrees, PTL DEF ViewSpec
=============================================================================
