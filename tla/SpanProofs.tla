----------------------------- MODULE SpanProofs -----------------------------
(***************************************************************************)
(* For every buffer, the tree that the parser builds says every token that *)
(* it has not passed over, once and in its place: SpanInv is inductive,    *)
(* and at the end it is Faithful.                                          *)
(***************************************************************************)
EXTENDS ParserProofs
-----------------------------------------------------------------------------
(* What a span of the buffer says, token by token.                         *)

Buffers == Seq(Tokens \cup {"End"})

LEMMA SaidSteps ==
    ASSUME NEW s \in Buffers
    PROVE  /\ Said(s) \in [0..Len(s) -> Buffers]
           /\ Said(s)[0] = <<>>
           /\ \A i \in 1..Len(s) : Said(s)[i] =
                 IF IsKept(s, i) THEN Append(Said(s)[i - 1], s[i]) ELSE Said(s)[i - 1]
  <1> DEFINE I == {i \in 1..Len(s) : IsKept(s, i)}
             S == Tokens \cup {"End"}
  <1>1. Said(s) = Chosen(s, I) BY DEF Said
  <1>2. \A i \in 1..Len(s) : i \in I <=> IsKept(s, i) OBVIOUS
  <1>3. s \in Seq(S) BY DEF Buffers
  <1> HIDE DEF I, S
  <1>4. /\ Chosen(s, I) \in [0..Len(s) -> Seq(S)] /\ Chosen(s, I)[0] = <<>>
        /\ \A i \in 1..Len(s) : Chosen(s, I)[i] =
              IF i \in I THEN Append(Chosen(s, I)[i - 1], s[i]) ELSE Chosen(s, I)[i - 1]
    BY ONLY <1>3, ChosenSteps
  <1> QED BY <1>1, <1>2, <1>4 DEF S, Buffers

LEMMA TextsInBuffers ==
    /\ GoodTexts \subseteq Seq(Tokens \cup KnownHoles \cup {"End"})
    /\ Buffers \subseteq Seq(Tokens \cup KnownHoles \cup {"End"})
  BY DEF GoodTexts, Buffers

LEMMA SpanSteps ==
    ASSUME NEW s \in Buffers, NEW b \in 1..Len(s)
    PROVE  /\ Len(s) \in Nat /\ b - 1 \in 0..Len(s) /\ b \in 0..Len(s) /\ (b + 1) - 1 = b
           /\ Depth(s)[b - 1] \in Int /\ Depth(s)[b] = Depth(s)[b - 1] + Opened(s[b])
           /\ Opened(s[b]) \in Int /\ Said(s)[b - 1] \in Buffers
           /\ Said(s)[b] = IF IsKept(s, b) THEN Append(Said(s)[b - 1], s[b]) ELSE Said(s)[b - 1]
  <1>1. Len(s) \in Nat BY LenProperties DEF Buffers
  <1>2. b - 1 \in 0..Len(s) /\ b \in 0..Len(s) /\ (b + 1) - 1 = b BY <1>1
  <1>3. /\ Depth(s) \in [0..Len(s) -> Int]
        /\ \A i \in 1..Len(s) : Depth(s)[i] = Depth(s)[i - 1] + Opened(s[i])
    BY DepthSteps DEF Buffers
  <1>4. Opened(s[b]) \in Int BY DEF Opened
  <1> QED BY <1>1, <1>2, <1>3, <1>4, SaidSteps

(* The depths at the two ends of a span.                                   *)
LEMMA SpanEnds ==
    ASSUME NEW s \in Buffers, NEW a \in 1..Len(s) + 1
    PROVE  a \in Nat /\ Depth(s)[a - 1] \in Int /\ Said(s)[a - 1] \in Buffers
  <1>1. Len(s) \in Nat BY LenProperties DEF Buffers
  <1>2. a - 1 \in 0..Len(s) /\ a \in Nat BY <1>1
  <1>3. Depth(s) \in [0..Len(s) -> Int] BY DepthSteps DEF Buffers
  <1> QED BY <1>2, <1>3, SaidSteps

LEMMA Glued ==
    ASSUME NEW S, NEW x \in Seq(S), NEW y \in Seq(S), NEW t \in S
    PROVE  Append(x \o y, t) = x \o (y \o <<t>>)
  <1>1. x \o y \in Seq(S) /\ <<t>> \in Seq(S) BY ConcatProperties
  <1>2. Append(x \o y, t) = (x \o y) \o <<t>> BY <1>1, AppendIsConcat
  <1>3. (x \o y) \o <<t>> = x \o (y \o <<t>>)
    BY ONLY <1>1, x \in Seq(S), y \in Seq(S), ConcatAssociative
  <1> QED BY <1>2, <1>3

LEMMA SaysNothing ==
    ASSUME NEW s \in Buffers, NEW a \in 1..Len(s) + 1 PROVE Says(s, a, a, <<>>, 0)
  <1>1. a \in Nat /\ Depth(s)[a - 1] \in Int /\ Said(s)[a - 1] \in Buffers BY SpanEnds
  <1>2. Said(s)[a - 1] \o <<>> = Said(s)[a - 1] BY <1>1, ConcatEmptySeq DEF Buffers
  <1>3. a \in 1..a /\ Depth(s)[a - 1] >= Depth(s)[a - 1] + 0 BY <1>1
  <1> QED BY <1>1, <1>2, <1>3 DEF Says, Opens

LEMMA OpensToken ==
    ASSUME NEW s \in Buffers, NEW a, NEW b \in 1..Len(s), NEW n \in Nat, Opens(s, a, b, n),
           NEW m \in Nat, m = n + Opened(s[b])
    PROVE  Opens(s, a, b + 1, m) /\ (Unclosed(s, a, b, n) => Unclosed(s, a, b + 1, m))
  <1>1. a \in 1..b /\ b \in Nat /\ a \in 1..b + 1 /\ b + 1 \in 1..Len(s) + 1 /\ a \in 1..Len(s) + 1
    BY LenProperties DEF Opens, Buffers
  <1>2. Depth(s)[a - 1] \in Int BY <1>1, SpanEnds
  <1>3. /\ Depth(s)[b - 1] \in Int /\ Depth(s)[b] = Depth(s)[b - 1] + Opened(s[b])
        /\ Opened(s[b]) \in Int /\ (b + 1) - 1 = b
    BY SpanSteps
  <1>4. Depth(s)[b - 1] >= Depth(s)[a - 1] + n BY DEF Opens
  <1>5. Depth(s)[b] >= Depth(s)[a - 1] + m
        /\ (Depth(s)[b - 1] > Depth(s)[a - 1] + n => Depth(s)[b] > Depth(s)[a - 1] + m)
    BY <1>2, <1>3, <1>4
  <1> QED BY <1>1, <1>3, <1>5 DEF Opens, Unclosed

LEMMA SaysToken ==
    ASSUME NEW s \in Buffers, NEW a, NEW b \in 1..Len(s), NEW n \in Nat, NEW X \in GoodTexts,
           Says(s, a, b, X, n), NEW m \in Nat, m = n + Opened(s[b]),
           s[b] \in Tokens, s[b] # "EOL", ~DeclComma(s, b)
    PROVE  Says(s, a, b + 1, X \o <<s[b]>>, m)
  <1>1. Opens(s, a, b, n) BY DEF Says
  <1>2. Opens(s, a, b + 1, m) /\ (Unclosed(s, a, b, n) => Unclosed(s, a, b + 1, m))
    BY <1>1, OpensToken
  <1>3. IsKept(s, b) BY WordsOfTexts DEF IsKept
  <1>4. Said(s)[b] = Append(Said(s)[b - 1], s[b]) /\ (b + 1) - 1 = b BY <1>3, SpanSteps
  <1>5. a \in 1..Len(s) + 1 BY <1>1, LenProperties DEF Opens, Buffers
  <1> DEFINE W == Tokens \cup KnownHoles \cup {"End"}
             x == Said(s)[a - 1]
  <1>6. x \in Seq(W) /\ X \in Seq(W) /\ s[b] \in W
    BY <1>5, SpanEnds, TextsInBuffers
  <1> HIDE DEF W, x
  <1> DEFINE t == s[b]
  <1> HIDE DEF t
  <1>7. Append(x \o X, t) = x \o (X \o <<t>>)
    <2>1. t \in W BY <1>6 DEF t
    <2> QED BY ONLY <1>6, <2>1, Glued
  <1>8. Said(s)[b - 1] = x \o X => Said(s)[b] = x \o (X \o <<s[b]>>)
    BY <1>4, <1>7 DEF t
  <1> QED BY <1>2, <1>4, <1>8 DEF Says, x

LEMMA SaysSkip ==
    ASSUME NEW s \in Buffers, NEW a, NEW b \in 1..Len(s), NEW n \in Nat, NEW X,
           Says(s, a, b, X, n), s[b] = "EOL" \/ DeclComma(s, b)
    PROVE  Says(s, a, b + 1, X, n)
  <1>1. Opens(s, a, b, n) BY DEF Says
  <1>2. n = n + Opened(s[b]) BY DEF Opened, DeclComma
  <1>3. Opens(s, a, b + 1, n) /\ (Unclosed(s, a, b, n) => Unclosed(s, a, b + 1, n))
    BY <1>1, <1>2, OpensToken
  <1>4. ~IsKept(s, b) BY DEF IsKept
  <1>5. Said(s)[b] = Said(s)[b - 1] /\ (b + 1) - 1 = b BY <1>4, SpanSteps
  <1> QED BY <1>3, <1>5 DEF Says

LEMMA SaysJoin ==
    ASSUME NEW s \in Buffers, NEW a, NEW b, NEW c, NEW n \in Nat,
           NEW X \in GoodTexts, NEW Y \in GoodTexts,
           Says(s, a, b, X, n), Says(s, b, c, Y, 0)
    PROVE  Says(s, a, c, X \o Y, n)
  <1>1. Opens(s, a, b, n) /\ Opens(s, b, c, 0) BY DEF Says
  <1>2. /\ a \in 1..b /\ b \in 1..c /\ c \in 1..Len(s) + 1 /\ Len(s) \in Nat
        /\ b \in 1..Len(s) + 1
    BY <1>1, LenProperties DEF Opens, Buffers
  <1>3. a \in 1..Len(s) + 1 /\ a \in 1..c BY <1>2
  <1>4. Depth(s)[a - 1] \in Int /\ Depth(s)[b - 1] \in Int /\ Depth(s)[c - 1] \in Int
    BY <1>2, <1>3, SpanEnds
  <1> DEFINE A == Depth(s)[a - 1]
             B == Depth(s)[b - 1]
             C == Depth(s)[c - 1]
  <1>5. B >= A + n /\ C >= B + 0 BY <1>1 DEF Opens
  <1>6. Opens(s, a, c, n) /\ (Unclosed(s, a, b, n) \/ Unclosed(s, b, c, 0) => Unclosed(s, a, c, n))
    <2>1. A \in Int /\ B \in Int /\ C \in Int BY <1>4
    <2> HIDE DEF A, B, C
    <2>2. C >= A + n /\ (B > A + n \/ C > B + 0 => C > A + n) BY <1>5, <2>1
    <2> QED BY <1>2, <1>3, <2>2 DEF Opens, Unclosed, A, B, C
  <1> DEFINE W == Tokens \cup KnownHoles \cup {"End"}
             x == Said(s)[a - 1]
  <1>7. x \in Seq(W) /\ X \in Seq(W) /\ Y \in Seq(W)
    BY <1>3, SpanEnds, TextsInBuffers
  <1> HIDE DEF W, x
  <1>8. (x \o X) \o Y = x \o (X \o Y) BY ONLY <1>7, ConcatAssociative
  <1>9. Said(s)[b - 1] = x \o X /\ Said(s)[c - 1] = Said(s)[b - 1] \o Y => Said(s)[c - 1] = x \o (X \o Y)
    BY <1>8
  <1> QED BY <1>6, <1>9 DEF Says, x

(* The commas that are not of a variable declaration.                      *)
LEMMA NotDeclComma ==
    /\ \A s, i : s[i] # "Comma" => ~DeclComma(s, i)
    /\ \A s \in Buffers : \A a, b \in Nat :
          a < b /\ Clean(s, a, b) /\ s[a] \in {"PL", "Type_array"} => ~DeclComma(s, b)
  <1>1. \A s, i : s[i] # "Comma" => ~DeclComma(s, i) BY DEF DeclComma
  <1>2. ASSUME NEW s \in Buffers, NEW a \in Nat, NEW b \in Nat, a < b, Clean(s, a, b),
               s[a] \in {"PL", "Type_array"}, DeclComma(s, b)
        PROVE  FALSE
    <2>1. PICK j \in 2..b - 1 : LineStart(s, j) /\ s[j] \in VarTokens
                                /\ \A m \in j + 1..b - 1 : s[m] \in {"Id", "Comma"}
      BY <1>2 DEF DeclComma
    <2>2. CASE j < a
      <3>1. a \in j + 1..b - 1 BY <1>2, <2>1, <2>2
      <3> QED BY <1>2, <2>1, <3>1
    <2>3. CASE j = a BY <1>2, <2>1, <2>3 DEF VarTokens, TypeTokens
    <2>4. CASE j > a
      <3>1. j - 1 \in a..b - 1 BY <1>2, <2>1, <2>4
      <3>2. s[j - 1] \notin {"EOL", "CR"} BY <1>2, <3>1 DEF Clean, Isnt
      <3> QED BY <2>1, <3>2 DEF LineStart
    <2> QED BY <1>2, <2>1, <2>2, <2>3, <2>4
  <1> QED BY <1>1, <1>2

LEMMA CleanSpans ==
    ASSUME NEW s \in Buffers
    PROVE  /\ \A a \in Nat : Clean(s, a, a)
           /\ \A a, b \in Nat : Clean(s, a, b) /\ Isnt(s, b, {"EOL", "CR"}) => Clean(s, a, b + 1)
           /\ \A a, b, c \in Nat : Clean(s, a, b) /\ Clean(s, b, c) => Clean(s, a, c)
  <1>1. \A a \in Nat : \A i \in a..a - 1 : FALSE OBVIOUS
  <1>2. ASSUME NEW a \in Nat, NEW b \in Nat, Clean(s, a, b), Isnt(s, b, {"EOL", "CR"}),
               NEW i \in a..(b + 1) - 1
        PROVE  Isnt(s, i, {"EOL", "CR"})
    <2>1. i = b \/ i \in a..b - 1 OBVIOUS
    <2> QED BY <1>2, <2>1 DEF Clean
  <1>3. ASSUME NEW a \in Nat, NEW b \in Nat, NEW c \in Nat, Clean(s, a, b), Clean(s, b, c),
               NEW i \in a..c - 1
        PROVE  Isnt(s, i, {"EOL", "CR"})
    <2>1. i \in b..c - 1 \/ i \in a..b - 1 OBVIOUS
    <2> QED BY <1>3, <2>1 DEF Clean
  <1> QED BY <1>1, <1>2, <1>3 DEF Clean

-----------------------------------------------------------------------------
(* What is so of the buffer stays so when it is read further.              *)

Further(s, t) ==
    /\ s \in Buffers /\ t \in Buffers /\ Len(s) <= Len(t)
    /\ \A i \in 1..Len(s) : i \in 1..Len(t) /\ t[i] = s[i]

LEMMA ReadFurther ==
    ASSUME NEW s \in Buffers, NEW a \in Tokens \cup {"End"} PROVE Further(s, Append(s, a))
  <1> DEFINE S == Tokens \cup {"End"}
  <1>1. s \in Seq(S) /\ a \in S BY DEF Buffers
  <1> HIDE DEF S
  <1>2. /\ Append(s, a) \in Seq(S) /\ Len(s) \in Nat /\ Len(Append(s, a)) = Len(s) + 1
        /\ \A i \in 1..Len(s) : Append(s, a)[i] = s[i]
    BY ONLY <1>1, PushLemma
  <1> QED BY <1>2 DEF Further, Buffers, S

LEMMA LooksFurther ==
    ASSUME NEW s, NEW t, Further(s, t)
    PROVE  /\ Len(s) \in Nat /\ Len(t) \in Nat
           /\ \A i, S : Is(s, i, S) => Is(t, i, S)
           /\ \A i, S : Isnt(s, i, S) => Isnt(t, i, S)
           /\ \A a : NoBlock(s, a) => NoBlock(t, a)
           /\ \A a : NoHead(s, a) => NoHead(t, a)
           /\ \A a : LineStart(s, a) => LineStart(t, a)
           /\ \A a, b : Clean(s, a, b) => Clean(t, a, b)
  <1>1. \A i, S : (Is(s, i, S) => Is(t, i, S)) /\ (Isnt(s, i, S) => Isnt(t, i, S))
    BY DEF Further, Is, Isnt
  <1>2. Len(s) \in Nat /\ Len(t) \in Nat BY LenProperties DEF Further, Buffers
  <1>3. \A a : LineStart(s, a) => LineStart(t, a) BY DEF LineStart, Further
  <1> QED BY <1>1, <1>2, <1>3 DEF NoBlock, NoHead, Clean

LEMMA KeptFurther ==
    ASSUME NEW s, NEW t, Further(s, t), NEW i \in 1..Len(s)
    PROVE  IsKept(s, i) <=> IsKept(t, i)
  <1>1. t[i] = s[i] /\ Len(s) \in Nat BY LooksFurther DEF Further
  <1>2. ASSUME NEW j \in 2..i - 1 PROVE /\ LineStart(s, j) <=> LineStart(t, j)
                                        /\ t[j] = s[j]
                                        /\ \A m \in j + 1..i - 1 : t[m] = s[m]
    <2>1. j - 1 \in 1..Len(s) /\ j \in 1..Len(s) /\ \A m \in j + 1..i - 1 : m \in 1..Len(s)
      BY <1>1
    <2> QED BY <2>1 DEF Further, LineStart
  <1>3. DeclComma(s, i) <=> DeclComma(t, i)
    <2>1. \A j \in 2..i - 1 :
            (LineStart(s, j) /\ s[j] \in VarTokens /\ \A m \in j + 1..i - 1 : s[m] \in {"Id", "Comma"})
            <=> (LineStart(t, j) /\ t[j] \in VarTokens /\ \A m \in j + 1..i - 1 : t[m] \in {"Id", "Comma"})
      BY <1>2
    <2> QED BY <1>1, <2>1 DEF DeclComma
  <1> QED BY <1>1, <1>3 DEF IsKept

LEMMA SaidFurther ==
    ASSUME NEW s, NEW t, Further(s, t), NEW n \in 0..Len(s)
    PROVE  Said(t)[n] = Said(s)[n]
  <1> DEFINE I == {i \in 1..Len(s) : IsKept(s, i)}
             J == {i \in 1..Len(t) : IsKept(t, i)}
             S == Tokens \cup {"End"}
  <1>0. /\ s \in Seq(S) /\ t \in Seq(S) /\ n \in Nat /\ n <= Len(s) /\ n <= Len(t)
    BY LooksFurther DEF Further, Buffers
  <1>1. \A i \in 1..n : i \in 1..Len(s) /\ i \in 1..Len(t) BY <1>0, LooksFurther DEF Further
  <1>2. Agree(s, I, t, J, n) BY <1>1, KeptFurther DEF Further, Agree
  <1>3. Said(s) = Chosen(s, I) /\ Said(t) = Chosen(t, J) BY DEF Said
  <1> HIDE DEF I, J, S
  <1>4. Chosen(s, I)[n] = Chosen(t, J)[n] BY ONLY <1>0, <1>2, ChosenPrefix
  <1> QED BY <1>3, <1>4

LEMMA DepthFurther ==
    ASSUME NEW s, NEW t, Further(s, t), NEW n \in 0..Len(s)
    PROVE  Depth(t)[n] = Depth(s)[n]
  <1> DEFINE A == Depth(s)
             B == Depth(t)
             h == [i \in 0..n |-> IF A[i] = B[i] THEN 0 ELSE 1]
  <1>1. n \in Nat /\ \A i \in 1..n : i \in 1..Len(s) /\ i \in 1..Len(t) /\ s[i] = t[i] /\ i - 1 \in 0..n /\ i \in 0..n
    BY LooksFurther DEF Further
  <1>2. /\ A[0] = 0 /\ \A i \in 1..Len(s) : A[i] = A[i - 1] + Opened(s[i])
        /\ B[0] = 0 /\ \A i \in 1..Len(t) : B[i] = B[i - 1] + Opened(t[i])
    BY DepthSteps DEF Further, Buffers
  <1> HIDE DEF A, B
  <1>3. h[0] \in {0} BY <1>1, <1>2
  <1>4. ASSUME NEW i \in 1..n, h[i - 1] \in {0} PROVE h[i] \in {0}
    <2>1. A[i - 1] = B[i - 1] BY <1>1, <1>4
    <2>2. A[i] = B[i] BY <1>1, <1>2, <2>1
    <2> QED BY <1>1, <2>2
  <1>5. h[n] \in {0}
    <2> HIDE DEF h
    <2> QED BY ONLY <1>1, <1>3, <1>4, Upward
  <1> QED BY <1>1, <1>5 DEF A, B

LEMMA SpansFurther ==
    ASSUME NEW s, NEW t, Further(s, t)
    PROVE  /\ \A a, b, n : Opens(s, a, b, n) => Opens(t, a, b, n)
           /\ \A a, b, n : Opens(s, a, b, n) /\ Unclosed(s, a, b, n) => Unclosed(t, a, b, n)
           /\ \A a, b, X, n : Says(s, a, b, X, n) => Says(t, a, b, X, n)
           /\ \A j, i \in 1..Len(s) : j <= i => (NameDue(s, j, i) => NameDue(t, j, i))
  <1>1. Len(s) \in Nat /\ Len(t) \in Nat /\ Len(s) <= Len(t) BY LooksFurther DEF Further
  <1>2. ASSUME NEW a, NEW b, NEW n, Opens(s, a, b, n)
        PROVE  /\ Opens(t, a, b, n) /\ (Unclosed(s, a, b, n) => Unclosed(t, a, b, n))
               /\ Said(t)[a - 1] = Said(s)[a - 1] /\ Said(t)[b - 1] = Said(s)[b - 1]
    <2>1. a \in 1..b /\ b \in 1..Len(s) + 1 BY <1>2 DEF Opens
    <2>2. a - 1 \in 0..Len(s) /\ b - 1 \in 0..Len(s) /\ b \in 1..Len(t) + 1 BY <1>1, <2>1
    <2>3. Depth(t)[a - 1] = Depth(s)[a - 1] /\ Depth(t)[b - 1] = Depth(s)[b - 1]
      BY <2>2, DepthFurther
    <2>4. Said(t)[a - 1] = Said(s)[a - 1] /\ Said(t)[b - 1] = Said(s)[b - 1]
      BY <2>2, SaidFurther
    <2> QED BY <1>2, <2>1, <2>2, <2>3, <2>4 DEF Opens, Unclosed
  <1>3. \A a, b, X, n : Says(s, a, b, X, n) => Says(t, a, b, X, n)
    BY <1>2 DEF Says
  <1>4. ASSUME NEW j \in 1..Len(s), NEW i \in 1..Len(s), j <= i, NameDue(s, j, i)
        PROVE  NameDue(t, j, i)
    <2>1. j \in 0..Len(s) /\ i \in 0..Len(s) /\ \A m \in j..i : m \in 1..Len(s) BY <1>1, <1>4
    <2>2. Depth(t)[j] = Depth(s)[j] /\ Depth(t)[i] = Depth(s)[i] BY <2>1, DepthFurther
    <2> QED BY <1>4, <2>1, <2>2 DEF NameDue, Further
  <1> QED BY <1>2, <1>3, <1>4

LEMMA PassedFurther ==
    ASSUME NEW s, NEW t, Further(s, t), PassedOver(s) PROVE PassedOver(t)
  <1>1. Len(s) \in Nat /\ Len(t) \in Nat BY LooksFurther
  <1>2. BadElse(s) => BadElse(t) BY LooksFurther DEF BadElse, Further
  <1>3. ASSUME BadName(s) PROVE BadName(t)
    <2>1. PICK j \in 1..Len(s) : \E i \in j..Len(s) :
            /\ LineStart(s, j) /\ s[j] = "Type_array" /\ NameDue(s, j, i)
            /\ \/ i = j /\ (Isnt(s, i + 1, {"Id"}) \/ Isnt(s, i + 2, {"SL", "PL"}))
               \/ NoHead(s, j) /\ (Isnt(s, i + 1, {"Id"}) \/ Isnt(s, i + 2, {"SL"}))
      BY <1>3 DEF BadName
    <2>2. PICK i \in j..Len(s) :
            /\ LineStart(s, j) /\ s[j] = "Type_array" /\ NameDue(s, j, i)
            /\ \/ i = j /\ (Isnt(s, i + 1, {"Id"}) \/ Isnt(s, i + 2, {"SL", "PL"}))
               \/ NoHead(s, j) /\ (Isnt(s, i + 1, {"Id"}) \/ Isnt(s, i + 2, {"SL"}))
      BY <2>1
    <2>3. i \in 1..Len(s) /\ j <= i BY <1>1
    <2>4. j \in 1..Len(t) /\ i \in 1..Len(t) /\ t[j] = s[j] BY <2>3 DEF Further
    <2>5. i \in j..Len(t) BY <1>1, <2>3, <2>4
    <2>6. LineStart(t, j) /\ NameDue(t, j, i) BY <2>2, <2>3, LooksFurther, SpansFurther
    <2>7. \/ i = j /\ (Isnt(t, i + 1, {"Id"}) \/ Isnt(t, i + 2, {"SL", "PL"}))
          \/ NoHead(t, j) /\ (Isnt(t, i + 1, {"Id"}) \/ Isnt(t, i + 2, {"SL"}))
      BY <2>2, LooksFurther
    <2> QED BY <2>2, <2>4, <2>5, <2>6, <2>7 DEF BadName
  <1> QED BY <1>2, <1>3 DEF PassedOver

LEMMA FrameFurther ==
    ASSUME NEW s, NEW t, Further(s, t), NEW f, f.tokIdx \in Nat \ {0}, NEW v, NEW b,
           SaysSo(s, f, v, b)
    PROVE  SaysSo(t, f, v, b)
  <1>1. Place(t, f, b) BY LooksFurther DEF SaysSo, Place
  <1>2. RowSays(s, f, v, b) => RowSays(t, f, v, b)
    BY LooksFurther, SpansFurther DEF RowSays, RowPlace
  <1>3. ASSUME ArraySays(s, f, v, b) PROVE ArraySays(t, f, v, b)
    <2>1. \A i : AtName(s, f, i) => AtName(t, f, i)
      <3> SUFFICES ASSUME NEW i, AtName(s, f, i) PROVE AtName(t, f, i) OBVIOUS
      <3>1. i \in f.tokIdx..Len(s) /\ Len(s) \in Nat /\ Len(t) \in Nat /\ Len(s) <= Len(t)
        BY LooksFurther DEF AtName, Further
      <3>2. i \in 1..Len(s) /\ f.tokIdx \in 1..Len(s) /\ f.tokIdx <= i /\ i \in f.tokIdx..Len(t)
        BY <3>1
      <3>3. NameDue(t, f.tokIdx, i) BY <3>2, SpansFurther DEF AtName
      <3> QED BY <3>2, <3>3, LooksFurther DEF AtName
    <2>2. ArrayPlace(s, f, v, b) => ArrayPlace(t, f, v, b)
      BY <2>1, LooksFurther DEF ArrayPlace
    <2>3. AtHead(s, f, v, b) => AtHead(t, f, v, b) BY LooksFurther DEF AtHead
    <2> QED BY <1>3, <2>2, <2>3, LooksFurther, SpansFurther DEF ArraySays
  <1>4. ASSUME LoopSays(s, f, v, b) PROVE LoopSays(t, f, v, b)
    <2>1. ListPlace(s, f, v) => ListPlace(t, f, v) BY LooksFurther DEF ListPlace
    <2>2. VarPlace(s, f, b) => VarPlace(t, f, b) BY LooksFurther DEF VarPlace
    <2>3. BlockPlace(s, f, b) => BlockPlace(t, f, b) BY LooksFurther DEF BlockPlace
    <2> QED BY <1>4, <2>1, <2>2, <2>3, SpansFurther DEF LoopSays
  <1>5. NoBlock(s, f.tokIdx) => NoBlock(t, f.tokIdx) BY LooksFurther
  <1> QED BY <1>1, <1>2, <1>3, <1>4, <1>5 DEF SaysSo

LEMMA ResultFurther ==
    ASSUME NEW s, NEW t, Further(s, t), NEW fn, NEW c, NEW b, NEW n, Result(s, fn, c, b, n)
    PROVE  Result(t, fn, c, b, n)
  BY LooksFurther, SpansFurther DEF Result

-----------------------------------------------------------------------------
(* What the items of the rows have to do with what they say.               *)

(* The brackets left open before the item i of fn.                         *)
Bracket(fn, i) == IF fn \in {"parseArrayExpr", "parseArrayAssignment"} /\ i \in {3, 4} THEN 1 ELSE 0

(* The items with which a statement parses its blocks.                     *)
AtBlock(fn, i) == \/ fn = "parseIfStmt" /\ i \in {5, 6}
                  \/ fn = "parseWhileStmt" /\ i = 5
                  \/ fn = "parseForStmt" /\ i = 7

AtElse(fn, i) == fn = "parseIfStmt" /\ i = 6

Spoken(fn, item, i) ==
    /\ \A t \in item.match : t \notin {"EOL", "End", "CR", "Comma"}
    /\ \A t \in item.match : Bracket(fn, i + 1) = Bracket(fn, i) + Opened(t)
    /\ item.match = {} => Bracket(fn, i + 1) = Bracket(fn, i)
    /\ item.call = "none" /\ item.match # {Only(item.match)} =>
          fn \in DOMAIN HoldsFrom /\ i + 1 = HoldsFrom[fn]
    /\ item.call # "none" =>
          /\ item.call \notin {"parseStmt", "parseVarDecls", "parseArrayDecls", "parseProgram"}
          /\ fn \in InLine => item.call \in InLine
          /\ item.match # {} => AtElse(fn, i)
          /\ item.null => item.call = "parseExpr" \/ AtBlock(fn, i)
    /\ AtBlock(fn, i) => item.call = "parseStmtBlock"
    /\ AtElse(fn, i) => item.match = {"Else"} /\ item.null

SpokenRow(fn, row) == \A i \in 1..Len(row) : Spoken(fn, row[i], i)

LEMMA LinesOf ==
    /\ {"parseExpr", "parseFnArgs", "parseStringOrExprArgs", "parseFnParams"} \subseteq InLine
    /\ \A fn \in {"parseIfStmt", "parseWhileStmt", "parseForStmt", "parseFnDef", "parseStmt",
                  "parseStmtBlock", "parseProgram"} : fn \notin InLine
    /\ {"parseVarDecls", "parseArrayDecls"} \subseteq InLine
  BY DEF InLine, Lists, Row

LEMMA WordSpoken ==
    ASSUME NEW t, NEW fn, NEW i, t \notin {"EOL", "End", "CR", "Comma"},
           Bracket(fn, i + 1) = Bracket(fn, i) + Opened(t), ~AtBlock(fn, i)
    PROVE  Spoken(fn, Word(t), i)
  <1>1. Word(t).call = "none" /\ Word(t).match = {t} /\ Only({t}) = t BY ItemKinds
  <1>2. Word(t).match = {Only(Word(t).match)} BY <1>1, Zenon
  <1>3. ~AtElse(fn, i) BY DEF AtElse, AtBlock
  <1>4. \A u \in Word(t).match : u = t BY <1>1
  <1>5. Word(t).match # {} BY <1>1
  <1> QED BY <1>1, <1>2, <1>3, <1>4, <1>5 DEF Spoken

LEMMA KindSpoken ==
    ASSUME NEW S, NEW fn, NEW i, S \subseteq TypeTokens \cup BinOps \cup UnaryOps, S # {},
           Bracket(fn, i + 1) = Bracket(fn, i), Bracket(fn, i) \in Int, ~AtBlock(fn, i),
           fn \in DOMAIN HoldsFrom, i + 1 = HoldsFrom[fn]
    PROVE  Spoken(fn, Match(S), i)
  <1>1. Match(S).call = "none" /\ Match(S).match = S BY ItemKinds
  <1>2. \A t \in S : t \notin {"EOL", "End", "CR", "Comma"} /\ Opened(t) = 0
    BY DEF TypeTokens, BinOps, UnaryOps, Opened
  <1>3. ~AtElse(fn, i) BY DEF AtElse, AtBlock
  <1> HIDE DEF HoldsFrom
  <1> QED BY <1>1, <1>2, <1>3 DEF Spoken

LEMMA CallSpoken ==
    ASSUME NEW item, NEW g, NEW fn, NEW i, item.call = g, item.match = {}, g # "none",
           Bracket(fn, i + 1) = Bracket(fn, i),
           g \notin {"parseStmt", "parseVarDecls", "parseArrayDecls", "parseProgram"},
           fn \in InLine => g \in InLine,
           item.null => g = "parseExpr" \/ AtBlock(fn, i),
           AtBlock(fn, i) => g = "parseStmtBlock", ~AtElse(fn, i)
    PROVE  Spoken(fn, item, i)
  BY DEF Spoken

LEMMA RowsSpoken == \A fn \in DOMAIN Row : SpokenRow(fn, Row[fn])
  <1>0. \A g : Parse(g).null = FALSE BY DEF Parse
  <1>1. SpokenRow("parseTrueExpr", parseTrueExpr)
    <2>1. Spoken("parseTrueExpr", Word("Literal_true"), 1)
      BY WordSpoken DEF Bracket, AtBlock, Opened
    <2> QED BY <2>1 DEF SpokenRow, parseTrueExpr
  <1>2. SpokenRow("parseFalseExpr", parseFalseExpr)
    <2>1. Spoken("parseFalseExpr", Word("Literal_false"), 1)
      BY WordSpoken DEF Bracket, AtBlock, Opened
    <2> QED BY <2>1 DEF SpokenRow, parseFalseExpr
  <1>3. SpokenRow("parseNumberExpr", parseNumberExpr)
    <2>1. Spoken("parseNumberExpr", Word("Number"), 1) BY WordSpoken DEF Bracket, AtBlock, Opened
    <2> QED BY <2>1 DEF SpokenRow, parseNumberExpr
  <1>4. SpokenRow("parseIdentExpr", parseIdentExpr)
    <2>1. Spoken("parseIdentExpr", Word("Id"), 1) BY WordSpoken DEF Bracket, AtBlock, Opened
    <2> QED BY <2>1 DEF SpokenRow, parseIdentExpr
  <1>5. SpokenRow("parseTernaryExpr", parseTernaryExpr)
    <2>1. Spoken("parseTernaryExpr", Word("PL"), 1) BY WordSpoken DEF Bracket, AtBlock, Opened
    <2>2. Spoken("parseTernaryExpr", Expr, 2)
      BY <1>0, ItemKinds, LinesOf, CallSpoken DEF Bracket, AtBlock, AtElse, Expr
    <2>3. Spoken("parseTernaryExpr", Word("Op_question"), 3)
      BY WordSpoken DEF Bracket, AtBlock, Opened
    <2>4. Spoken("parseTernaryExpr", Expr, 4)
      BY <1>0, ItemKinds, LinesOf, CallSpoken DEF Bracket, AtBlock, AtElse, Expr
    <2>5. Spoken("parseTernaryExpr", Word("Op_colon"), 5) BY WordSpoken DEF Bracket, AtBlock, Opened
    <2>6. Spoken("parseTernaryExpr", May("parseExpr"), 6)
      BY ItemKinds, LinesOf, CallSpoken DEF Bracket, AtBlock, AtElse
    <2>7. Spoken("parseTernaryExpr", Word("PR"), 7) BY WordSpoken DEF Bracket, AtBlock, Opened
    <2> QED BY <2>1, <2>2, <2>3, <2>4, <2>5, <2>6, <2>7 DEF SpokenRow, parseTernaryExpr
  <1>6. SpokenRow("parseSizeofExpr", parseSizeofExpr)
    <2>1. Spoken("parseSizeofExpr", Word("Sizeof"), 1) BY WordSpoken DEF Bracket, AtBlock, Opened
    <2>2. Spoken("parseSizeofExpr", Word("PL"), 2) BY WordSpoken DEF Bracket, AtBlock, Opened
    <2>3. Spoken("parseSizeofExpr", Expr, 3)
      BY <1>0, ItemKinds, LinesOf, CallSpoken DEF Bracket, AtBlock, AtElse, Expr
    <2>4. Spoken("parseSizeofExpr", Word("PR"), 4) BY WordSpoken DEF Bracket, AtBlock, Opened
    <2> QED BY <2>1, <2>2, <2>3, <2>4 DEF SpokenRow, parseSizeofExpr
  <1>7. SpokenRow("parseInputExpr", parseInputExpr)
    <2>1. Spoken("parseInputExpr", Word("Input"), 1) BY WordSpoken DEF Bracket, AtBlock, Opened
    <2>2. Spoken("parseInputExpr", Word("PL"), 2) BY WordSpoken DEF Bracket, AtBlock, Opened
    <2>3. Spoken("parseInputExpr", Word("PR"), 3) BY WordSpoken DEF Bracket, AtBlock, Opened
    <2> QED BY <2>1, <2>2, <2>3 DEF SpokenRow, parseInputExpr
  <1>8. SpokenRow("parseArrayExpr", parseArrayExpr)
    <2>1. Spoken("parseArrayExpr", Word("Id"), 1) BY WordSpoken DEF Bracket, AtBlock, Opened
    <2>2. Spoken("parseArrayExpr", Word("SL"), 2) BY WordSpoken DEF Bracket, AtBlock, Opened
    <2>3. Spoken("parseArrayExpr", Expr, 3)
      BY <1>0, ItemKinds, LinesOf, CallSpoken DEF Bracket, AtBlock, AtElse, Expr
    <2>4. Spoken("parseArrayExpr", Word("SR"), 4) BY WordSpoken DEF Bracket, AtBlock, Opened
    <2> QED BY <2>1, <2>2, <2>3, <2>4 DEF SpokenRow, parseArrayExpr
  <1>9. SpokenRow("parseFncallExpr", parseFncallExpr)
    <2>1. Spoken("parseFncallExpr", Word("Id"), 1) BY WordSpoken DEF Bracket, AtBlock, Opened
    <2>2. Spoken("parseFncallExpr", Parse("parseFnArgs"), 2)
      BY <1>0, ItemKinds, LinesOf, CallSpoken DEF Bracket, AtBlock, AtElse
    <2> QED BY <2>1, <2>2 DEF SpokenRow, parseFncallExpr
  <1>10. SpokenRow("parseBinopExpr", parseBinopExpr)
    <2>1. Spoken("parseBinopExpr", Word("PL"), 1) BY WordSpoken DEF Bracket, AtBlock, Opened
    <2>2. Spoken("parseBinopExpr", Expr, 2)
      BY <1>0, ItemKinds, LinesOf, CallSpoken DEF Bracket, AtBlock, AtElse, Expr
    <2>3. Spoken("parseBinopExpr", Match(BinOps), 3)
      BY KindSpoken DEF Bracket, AtBlock, HoldsFrom, BinOps
    <2>4. Spoken("parseBinopExpr", Expr, 4)
      BY <1>0, ItemKinds, LinesOf, CallSpoken DEF Bracket, AtBlock, AtElse, Expr
    <2>5. Spoken("parseBinopExpr", Word("PR"), 5) BY WordSpoken DEF Bracket, AtBlock, Opened
    <2> QED BY <2>1, <2>2, <2>3, <2>4, <2>5 DEF SpokenRow, parseBinopExpr
  <1>11. SpokenRow("parseUnaryopExpr", parseUnaryopExpr)
    <2>1. Spoken("parseUnaryopExpr", Word("PL"), 1) BY WordSpoken DEF Bracket, AtBlock, Opened
    <2>2. Spoken("parseUnaryopExpr", Match(UnaryOps), 2)
      BY KindSpoken DEF Bracket, AtBlock, HoldsFrom, UnaryOps
    <2>3. Spoken("parseUnaryopExpr", Expr, 3)
      BY <1>0, ItemKinds, LinesOf, CallSpoken DEF Bracket, AtBlock, AtElse, Expr
    <2>4. Spoken("parseUnaryopExpr", Word("PR"), 4) BY WordSpoken DEF Bracket, AtBlock, Opened
    <2> QED BY <2>1, <2>2, <2>3, <2>4 DEF SpokenRow, parseUnaryopExpr
  <1>12. SpokenRow("parseVarAssignment", parseVarAssignment)
    <2>1. Spoken("parseVarAssignment", Word("Id"), 1) BY WordSpoken DEF Bracket, AtBlock, Opened
    <2>2. Spoken("parseVarAssignment", Word("Op_assignment"), 2)
      BY WordSpoken DEF Bracket, AtBlock, Opened
    <2>3. Spoken("parseVarAssignment", Expr, 3)
      BY <1>0, ItemKinds, LinesOf, CallSpoken DEF Bracket, AtBlock, AtElse, Expr
    <2> QED BY <2>1, <2>2, <2>3 DEF SpokenRow, parseVarAssignment
  <1>13. SpokenRow("parseArrayAssignment", parseArrayAssignment)
    <2>1. Spoken("parseArrayAssignment", Word("Id"), 1) BY WordSpoken DEF Bracket, AtBlock, Opened
    <2>2. Spoken("parseArrayAssignment", Word("SL"), 2) BY WordSpoken DEF Bracket, AtBlock, Opened
    <2>3. Spoken("parseArrayAssignment", Expr, 3)
      BY <1>0, ItemKinds, LinesOf, CallSpoken DEF Bracket, AtBlock, AtElse, Expr
    <2>4. Spoken("parseArrayAssignment", Word("SR"), 4) BY WordSpoken DEF Bracket, AtBlock, Opened
    <2>5. Spoken("parseArrayAssignment", Word("Op_assignment"), 5)
      BY WordSpoken DEF Bracket, AtBlock, Opened
    <2>6. Spoken("parseArrayAssignment", Expr, 6)
      BY <1>0, ItemKinds, LinesOf, CallSpoken DEF Bracket, AtBlock, AtElse, Expr
    <2> QED BY <2>1, <2>2, <2>3, <2>4, <2>5, <2>6 DEF SpokenRow, parseArrayAssignment
  <1>14. SpokenRow("parsePrintStmt", parsePrintStmt)
    <2>1. Spoken("parsePrintStmt", Word("Print"), 1) BY WordSpoken DEF Bracket, AtBlock, Opened
    <2>2. Spoken("parsePrintStmt", Parse("parseStringOrExprArgs"), 2)
      BY <1>0, ItemKinds, LinesOf, CallSpoken DEF Bracket, AtBlock, AtElse
    <2> QED BY <2>1, <2>2 DEF SpokenRow, parsePrintStmt
  <1>15. SpokenRow("parseAbortStmt", parseAbortStmt)
    <2>1. Spoken("parseAbortStmt", Word("Abort"), 1) BY WordSpoken DEF Bracket, AtBlock, Opened
    <2>2. Spoken("parseAbortStmt", Parse("parseStringOrExprArgs"), 2)
      BY <1>0, ItemKinds, LinesOf, CallSpoken DEF Bracket, AtBlock, AtElse
    <2> QED BY <2>1, <2>2 DEF SpokenRow, parseAbortStmt
  <1>16. SpokenRow("parseIfStmt", parseIfStmt)
    <2>1. Spoken("parseIfStmt", Word("If"), 1) BY WordSpoken DEF Bracket, AtBlock, Opened
    <2>2. Spoken("parseIfStmt", Word("PL"), 2) BY WordSpoken DEF Bracket, AtBlock, Opened
    <2>3. Spoken("parseIfStmt", May("parseExpr"), 3)
      BY ItemKinds, LinesOf, CallSpoken DEF Bracket, AtBlock, AtElse
    <2>4. Spoken("parseIfStmt", Word("PR"), 4) BY WordSpoken DEF Bracket, AtBlock, Opened
    <2>5. Spoken("parseIfStmt", May("parseStmtBlock"), 5)
      BY ItemKinds, LinesOf, CallSpoken DEF Bracket, AtBlock, AtElse
    <2>6. Spoken("parseIfStmt", After("Else", "parseStmtBlock"), 6)
      BY LinesOf, ItemKinds DEF Spoken, After, AtBlock, AtElse, Bracket, Opened
    <2> QED BY <2>1, <2>2, <2>3, <2>4, <2>5, <2>6 DEF SpokenRow, parseIfStmt
  <1>17. SpokenRow("parseWhileStmt", parseWhileStmt)
    <2>1. Spoken("parseWhileStmt", Word("While"), 1) BY WordSpoken DEF Bracket, AtBlock, Opened
    <2>2. Spoken("parseWhileStmt", Word("PL"), 2) BY WordSpoken DEF Bracket, AtBlock, Opened
    <2>3. Spoken("parseWhileStmt", Expr, 3)
      BY <1>0, ItemKinds, LinesOf, CallSpoken DEF Bracket, AtBlock, AtElse, Expr
    <2>4. Spoken("parseWhileStmt", Word("PR"), 4) BY WordSpoken DEF Bracket, AtBlock, Opened
    <2>5. Spoken("parseWhileStmt", Parse("parseStmtBlock"), 5)
      BY <1>0, ItemKinds, LinesOf, CallSpoken DEF Bracket, AtBlock, AtElse
    <2> QED BY <2>1, <2>2, <2>3, <2>4, <2>5 DEF SpokenRow, parseWhileStmt
  <1>18. SpokenRow("parseForStmt", parseForStmt)
    <2>1. Spoken("parseForStmt", Word("For"), 1) BY WordSpoken DEF Bracket, AtBlock, Opened
    <2>2. Spoken("parseForStmt", Word("PL"), 2) BY WordSpoken DEF Bracket, AtBlock, Opened
    <2>3. Spoken("parseForStmt", Expr, 3)
      BY <1>0, ItemKinds, LinesOf, CallSpoken DEF Bracket, AtBlock, AtElse, Expr
    <2>4. Spoken("parseForStmt", Word("Op_colon"), 4) BY WordSpoken DEF Bracket, AtBlock, Opened
    <2>5. Spoken("parseForStmt", Expr, 5)
      BY <1>0, ItemKinds, LinesOf, CallSpoken DEF Bracket, AtBlock, AtElse, Expr
    <2>6. Spoken("parseForStmt", Word("PR"), 6) BY WordSpoken DEF Bracket, AtBlock, Opened
    <2>7. Spoken("parseForStmt", Parse("parseStmtBlock"), 7)
      BY <1>0, ItemKinds, LinesOf, CallSpoken DEF Bracket, AtBlock, AtElse
    <2> QED BY <2>1, <2>2, <2>3, <2>4, <2>5, <2>6, <2>7 DEF SpokenRow, parseForStmt
  <1>19. SpokenRow("parseReturnStmt", parseReturnStmt)
    <2>1. Spoken("parseReturnStmt", Word("Return"), 1) BY WordSpoken DEF Bracket, AtBlock, Opened
    <2>2. Spoken("parseReturnStmt", May("parseExpr"), 2)
      BY ItemKinds, LinesOf, CallSpoken DEF Bracket, AtBlock, AtElse
    <2> QED BY <2>1, <2>2 DEF SpokenRow, parseReturnStmt
  <1>20. SpokenRow("parseFnDef", parseFnDef)
    <2>1. Spoken("parseFnDef", Match(TypeTokens), 1)
      BY KindSpoken DEF Bracket, AtBlock, HoldsFrom, TypeTokens
    <2>2. Spoken("parseFnDef", Word("Id"), 2) BY WordSpoken DEF Bracket, AtBlock, Opened
    <2>3. Spoken("parseFnDef", Parse("parseFnParams"), 3)
      BY <1>0, ItemKinds, LinesOf, CallSpoken DEF Bracket, AtBlock, AtElse
    <2>4. Spoken("parseFnDef", Parse("parseStmtBlock"), 4)
      BY <1>0, ItemKinds, LinesOf, CallSpoken DEF Bracket, AtBlock, AtElse
    <2> QED BY <2>1, <2>2, <2>3, <2>4 DEF SpokenRow, parseFnDef
  <1> QED
    BY <1>1, <1>2, <1>3, <1>4, <1>5, <1>6, <1>7, <1>8, <1>9, <1>10, <1>11, <1>12, <1>13, <1>14,
       <1>15, <1>16, <1>17, <1>18, <1>19, <1>20 DEF Row

-----------------------------------------------------------------------------
(* What a row has said, item by item.                                      *)

LEMMA RowItem ==
    ASSUME NEW fn \in DOMAIN Row, NEW i \in 1..Len(Row[fn])
    PROVE  /\ Spoken(fn, Row[fn][i], i) /\ Adds(fn, Row[fn][i], i, Built[fn][i], Built[fn][i + 1])
           /\ Formed(fn, Row[fn][i], Built[fn][i], Built[fn][Len(Row[fn]) + 1])
           /\ Len(Row[fn]) \in Nat \ {0}
  BY RowsSpoken, RowsFit, RowsFormed DEF SpokenRow, Fits, FormedRow

LEMMA BuiltGrows ==
    ASSUME NEW fn \in DOMAIN Row, NEW k \in 1..Len(Row[fn]) + 1, NEW i \in 1..k
    PROVE  Built[fn][i] \in Nat /\ Built[fn][k] \in Nat /\ Built[fn][i] <= Built[fn][k]
  <1> DEFINE B == Built[fn]
             N == Len(Row[fn])
             n == k - i
             h == [j \in 0..n |-> IF B[i] \in Nat /\ B[i + j] \in Nat /\ B[i] <= B[i + j] THEN 0 ELSE 1]
  <1>1. N \in Nat \ {0} /\ B[1] = 0 BY RowsFit DEF Fits
  <1>2. \A j \in 1..N : B[j] \in Nat /\ (B[j + 1] = B[j] \/ B[j + 1] = B[j] + 1)
    BY RowItem DEF Adds
  <1> HIDE DEF B, N
  <1>3. i \in 1..N + 1 /\ n \in Nat /\ \A j \in 1..n : i + (j - 1) \in 1..N /\ (i + (j - 1)) + 1 = i + j
    BY <1>1 DEF N
  <1>4. B[i] \in Nat
    <2>1. CASE i = 1 BY <1>1, <2>1
    <2>2. CASE i # 1
      <3>1. i - 1 \in 1..N /\ (i - 1) + 1 = i BY <1>1, <1>3, <2>2
      <3>2. B[i - 1] \in Nat /\ (B[(i - 1) + 1] = B[i - 1] \/ B[(i - 1) + 1] = B[i - 1] + 1)
        BY <1>2, <3>1
      <3> QED BY <3>1, <3>2
    <2> QED BY <2>1, <2>2
  <1>5. h[0] \in {0}
    <2>1. i + 0 = i /\ 0 \in 0..n BY <1>3
    <2> QED BY <1>4, <2>1
  <1>6. ASSUME NEW j \in 1..n, h[j - 1] \in {0} PROVE h[j] \in {0}
    <2>1. j \in 0..n /\ j - 1 \in 0..n BY <1>3
    <2>2. B[i + (j - 1)] \in Nat /\ B[i] <= B[i + (j - 1)] BY <1>6, <2>1
    <2>3. B[i + j] = B[i + (j - 1)] \/ B[i + j] = B[i + (j - 1)] + 1 BY <1>2, <1>3
    <2>4. B[i + j] \in Nat /\ B[i] <= B[i + j]
      <3> DEFINE a == B[i]
                 c == B[i + (j - 1)]
                 d == B[i + j]
      <3>1. a \in Nat /\ c \in Nat /\ a <= c /\ (d = c \/ d = c + 1) BY <1>4, <2>2, <2>3
      <3> HIDE DEF a, c, d
      <3>2. d \in Nat /\ a <= d BY <3>1
      <3> QED BY <3>2 DEF a, d
    <2> QED BY <1>4, <2>1, <2>4
  <1>7. h[n] \in {0}
    <2> HIDE DEF h, n
    <2> QED BY ONLY <1>3, <1>5, <1>6, Upward
  <1>8. n \in 0..n /\ i + n = k BY <1>3
  <1>9. B[i] \in Nat /\ B[i + n] \in Nat /\ B[i] <= B[i + n] BY <1>7, <1>8
  <1> HIDE DEF n
  <1> QED BY <1>8, <1>9 DEF B

(* The children that a frame may go on with.                               *)
Longer(k, l) == l = k \/ \E n \in GoodTexts : l = Append(k, n)

(* The operator that it may go on with when it is at i.                    *)
SameOp(fn, i, o, p) ==
    \/ p = o
    \/ fn \in DOMAIN HoldsFrom /\ i + 1 = HoldsFrom[fn]

LEMMA ItemKnown ==
    ASSUME NEW f, Sound(f), f.fn \in DOMAIN Row, NEW i \in 1..f.at - 1
    PROVE  /\ ItemText(f.fn, i, f.op, f.kids) \in GoodTexts
           /\ \A op, kids : SameOp(f.fn, f.at, f.op, op) /\ Longer(f.kids, kids) =>
                 ItemText(f.fn, i, op, kids) = ItemText(f.fn, i, f.op, f.kids)
  <1> DEFINE fn == f.fn
             item == Row[fn][i]
             k == Built[fn][i] + 1
             N == Len(Row[fn])
  <1>1. /\ f.at \in Nat \ {0} /\ f.at <= N + 1 /\ Len(f.kids) = Built[fn][f.at]
        /\ f.kids \in Seq(GoodTexts) /\ f.op \in Tokens \cup {"End", "none"} /\ N \in Nat \ {0}
    BY RowsFit DEF Sound, Fits
  <1>2. i \in 1..N /\ i + 1 \in 1..f.at /\ f.at \in 1..N + 1
    <2> HIDE DEF N
    <2> QED BY <1>1
  <1>3. Spoken(fn, item, i) /\ Adds(fn, item, i, Built[fn][i], Built[fn][i + 1])
    BY <1>2, RowItem
  <1>4. Built[fn][i + 1] <= Built[fn][f.at] /\ Built[fn][f.at] \in Nat /\ Built[fn][i + 1] \in Nat
    BY <1>2, BuiltGrows
  <1>5. CASE item.call = "none" /\ item.match = {Only(item.match)}
    <2>1. \A op, kids : ItemText(fn, i, op, kids) = <<Only(item.match)>>
      BY <1>5 DEF ItemText
    <2>2. Only(item.match) \in item.match BY <1>5
    <2>3. Only(item.match) \in Tokens BY <1>3, <2>2 DEF Adds
    <2>4. <<Only(item.match)>> \in GoodTexts BY <2>3, FillToken
    <2> QED BY <2>1, <2>4
  <1>6. CASE item.call = "none" /\ item.match # {Only(item.match)}
    <2>1. \A op, kids : ItemText(fn, i, op, kids) = <<op>>
      BY <1>6 DEF ItemText
    <2>2. fn \in DOMAIN HoldsFrom /\ i + 1 = HoldsFrom[fn] BY <1>3, <1>6 DEF Spoken
    <2>3. f.op \in Tokens
      <3>1. f.at >= HoldsFrom[fn] BY <1>1, <2>2
      <3>2. f.op # "none" /\ (f.op = "End" => f.fn = "parseArrayDecls")
        BY <2>2, <3>1 DEF Sound, Holds
      <3>3. fn # "parseArrayDecls" BY DEF Row
      <3> QED BY <1>1, <3>2, <3>3
    <2>4. <<f.op>> \in GoodTexts BY <2>3, FillToken
    <2>5. \A op : SameOp(fn, f.at, f.op, op) => op = f.op
      <3> HIDE DEF fn
      <3> QED BY <1>1, <2>2 DEF SameOp
    <2> QED BY <2>1, <2>4, <2>5
  <1>7. CASE item.call # "none"
    <2>1. k = Built[fn][i + 1] /\ k \in Nat BY <1>3, <1>7 DEF Adds
    <2>2. k \in 1..Len(f.kids) /\ Len(f.kids) \in Nat BY <1>1, <1>3, <1>4, <2>1 DEF Adds
    <2>3. f.kids[k] \in GoodTexts BY <1>1, <2>2, ElementOfSeq
    <2>4. ASSUME NEW kids, Longer(f.kids, kids) PROVE kids[k] = f.kids[k]
      <3>1. CASE kids = f.kids BY <3>1
      <3>2. CASE \E n \in GoodTexts : kids = Append(f.kids, n)
        <4>1. PICK n \in GoodTexts : kids = Append(f.kids, n) BY <3>2
        <4>2. Append(f.kids, n)[k] = f.kids[k]
          <5>1. f.kids \in Seq(GoodTexts) /\ n \in GoodTexts BY <1>1
          <5>2. \A j \in 1..Len(f.kids) : Append(f.kids, n)[j] = f.kids[j] BY ONLY <5>1, PushLemma
          <5> QED BY <2>2, <5>2
        <4> QED BY <4>1, <4>2
      <3> QED BY <2>4, <3>1, <3>2 DEF Longer
    <2> DEFINE T(node) == IF item.match = {} THEN Fill(node)
                          ELSE IF node = Null THEN <<>> ELSE <<Only(item.match)>> \o Fill(node)
    <2>5. \A op, kids : ItemText(fn, i, op, kids) = T(kids[k]) BY <1>7 DEF ItemText
    <2>6. item.match # {} => item.match = {"Else"}
      BY <1>3, <1>7 DEF Spoken
    <2>7. T(f.kids[k]) \in GoodTexts
      <3>1. Fill(f.kids[k]) \in GoodTexts BY <2>3, FillGood
      <3>2. Only({"Else"}) = "Else" BY OnlyOne
      <3>3. <<"Else">> \in GoodTexts BY WordsOfTexts, FillToken
      <3>4. <<"Else">> \o Fill(f.kids[k]) \in GoodTexts /\ <<>> \in GoodTexts
        BY <3>1, <3>3, TextsJoin
      <3> HIDE DEF k, item
      <3> QED BY <2>6, <3>1, <3>2, <3>4
    <2> HIDE DEF T
    <2> QED BY <2>4, <2>5, <2>7
  <1> QED BY <1>5, <1>6, <1>7

LEMMA RowSaidOn ==
    ASSUME NEW f, Sound(f), f.fn \in DOMAIN Row, f.at <= Len(Row[f.fn]), NEW g, Sound(g),
           g.fn = f.fn, g.at = f.at + 1, SameOp(f.fn, f.at, f.op, g.op), Longer(f.kids, g.kids)
    PROVE  /\ RowSaid(f) \in GoodTexts /\ ItemText(f.fn, f.at, g.op, g.kids) \in GoodTexts
           /\ RowSaid(g) = RowSaid(f) \o ItemText(f.fn, f.at, g.op, g.kids)
  <1> DEFINE N == f.at - 1
             t == ItemText(f.fn, f.at, g.op, g.kids)
             X == [i \in 1..N |-> ItemText(f.fn, i, f.op, f.kids)]
             Y == [i \in 1..g.at - 1 |-> ItemText(g.fn, i, g.op, g.kids)]
             W == Tokens \cup KnownHoles
  <1>0. f.at \in Nat \ {0} BY DEF Sound
  <1>1. f.at \in Nat \ {0} /\ N \in Nat /\ g.at - 1 = N + 1 /\ f.at = N + 1 BY <1>0
  <1>2. \A i \in 1..N : ItemText(f.fn, i, f.op, f.kids) \in GoodTexts
                        /\ ItemText(f.fn, i, g.op, g.kids) = ItemText(f.fn, i, f.op, f.kids)
    BY ItemKnown
  <1>3. t \in GoodTexts
    <2>1. f.at \in 1..g.at - 1 BY <1>1
    <2> QED BY <2>1, ItemKnown
  <1>4. X \in Seq(Seq(W)) /\ Len(X) = N
    <2>1. X \in [1..N -> Seq(W)] BY <1>2 DEF GoodTexts
    <2> HIDE DEF X, W, N
    <2> QED BY ONLY <1>1, <2>1, SeqOfLength
  <1>5. t \in Seq(W) BY <1>3 DEF GoodTexts
  <1>6. Y = Append(X, t)
    <2>1. /\ Append(X, t) \in Seq(Seq(W)) /\ Len(Append(X, t)) = N + 1 /\ Append(X, t)[N + 1] = t
          /\ \A i \in 1..N : Append(X, t)[i] = X[i]
      <3> HIDE DEF X, W, N, t
      <3>1. /\ Append(X, t) \in Seq(Seq(W)) /\ Len(Append(X, t)) = Len(X) + 1
            /\ Append(X, t)[Len(X) + 1] = t /\ \A i \in 1..Len(X) : Append(X, t)[i] = X[i]
        BY ONLY <1>4, <1>5, PushLemma
      <3> QED BY <1>4, <3>1
    <2>2. Y = [i \in 1..N + 1 |-> ItemText(f.fn, i, g.op, g.kids)] BY <1>1
    <2>3. \A i \in 1..N : ItemText(f.fn, i, g.op, g.kids) = X[i] BY <1>2
    <2>4. \A i \in 1..N + 1 : i = N + 1 \/ i \in 1..N BY <1>1
    <2>5. ItemText(f.fn, N + 1, g.op, g.kids) = t BY <1>1
    <2> HIDE DEF X, t, N, Y
    <2>6. \A i \in 1..N + 1 : ItemText(f.fn, i, g.op, g.kids) = Append(X, t)[i]
      BY <2>1, <2>3, <2>4, <2>5
    <2>7. Append(X, t) = [i \in 1..N + 1 |-> Append(X, t)[i]]
      <3>1. Append(X, t) \in [1..Len(Append(X, t)) -> Seq(W)] BY <2>1, LenProperties
      <3> QED BY <2>1, <3>1
    <2> QED BY <2>2, <2>6, <2>7
  <1>7. RowSaid(f) = Run(X) /\ RowSaid(g) = Run(Y) BY DEF RowSaid
  <1>8. Run(X) \in Seq(W) /\ Run(Append(X, t)) = Run(X) \o t
    <2> HIDE DEF X, t, W
    <2> QED BY ONLY <1>4, <1>5, RunAppend
  <1> HIDE DEF X, Y, t
  <1> QED BY <1>3, <1>6, <1>7, <1>8 DEF t, W, GoodTexts

(* A row that begins has said nothing, and one that ends says its text.    *)
LEMMA RowSaidEnds ==
    ASSUME NEW f
    PROVE  /\ f.at = 1 => RowSaid(f) = <<>>
           /\ f.fn \in DOMAIN Row /\ f.at = Len(Row[f.fn]) + 1 =>
                 RowSaid(f) = RowText(f.fn, f.op, f.kids)
  <1>1. ASSUME f.at = 1 PROVE RowSaid(f) = <<>>
    <2>1. [i \in 1..1 - 1 |-> ItemText(f.fn, i, f.op, f.kids)] = <<>> OBVIOUS
    <2>2. Run(<<>>) = <<>>
      <3>1. <<>> \in Seq(Seq(Tokens)) /\ <<>> \in Seq(Tokens) OBVIOUS
      <3> QED BY ONLY <3>1, RunAppend
    <2>3. RowSaid(f) = Run([i \in 1..1 - 1 |-> ItemText(f.fn, i, f.op, f.kids)])
      BY <1>1, Zenon DEF RowSaid
    <2> QED BY <2>1, <2>2, <2>3, Zenon
  <1>2. ASSUME f.fn \in DOMAIN Row, f.at = Len(Row[f.fn]) + 1
        PROVE  RowSaid(f) = RowText(f.fn, f.op, f.kids)
    <2> DEFINE N == Len(Row[f.fn])
    <2>1. N \in Nat BY <1>2, RowsFit DEF Fits
    <2> HIDE DEF N
    <2>2. f.at - 1 = N BY <1>2, <2>1 DEF N
    <2> QED BY <2>2, Zenon DEF RowSaid, RowText, N
  <1> QED BY <1>1, <1>2

-----------------------------------------------------------------------------
(* How what the calls say carries over a step.                             *)

LEMMA Stacks ==
    ASSUME ParserInv
    PROVE  /\ Len(calls) \in Nat \ {0} /\ Top = calls[Len(calls)]
           /\ Len(Below) = Len(calls) - 1 /\ \A d \in 1..Len(calls) - 1 : Below[d] = calls[d]
           /\ \A f : /\ Len(Append(Below, f)) = Len(calls)
                     /\ Append(Below, f)[Len(calls)] = f
                     /\ \A d \in 1..Len(calls) - 1 : Append(Below, f)[d] = calls[d]
           /\ \A f, g : /\ Len(Append(Append(Below, f), g)) = Len(calls) + 1
                        /\ Append(Append(Below, f), g)[Len(calls) + 1] = g
                        /\ Append(Append(Below, f), g)[Len(calls)] = f
                        /\ \A d \in 1..Len(calls) - 1 : Append(Append(Below, f), g)[d] = calls[d]
  <1> DEFINE L == Len(calls)
  <1>1. PICK A : calls \in Seq(Shaped(A)) BY DEF ParserInv, CallsInv, Nested
  <1>2. L \in Nat \ {0} BY TopShape DEF ParserInv
  <1>3. L - 1 \in 0..L BY <1>2
  <1>4. /\ Below \in Seq(Shaped(A)) /\ Len(Below) = L - 1
        /\ \A d \in 1..L - 1 : Below[d] = calls[d]
    BY <1>1, <1>3, PrefixLemma DEF Below
  <1> HIDE DEF L
  <1>5. ASSUME NEW f
        PROVE  /\ Len(Append(Below, f)) = L /\ Append(Below, f)[L] = f
               /\ \A d \in 1..L - 1 : Append(Below, f)[d] = calls[d]
               /\ Append(Below, f) \in Seq(Shaped(A) \cup {f})
    <2> DEFINE T == Shaped(A) \cup {f}
    <2>1. Below \in Seq(T) BY <1>4, SeqMonotonic
    <2>2. f \in T OBVIOUS
    <2> HIDE DEF T
    <2>3. /\ Append(Below, f) \in Seq(T) /\ Len(Append(Below, f)) = Len(Below) + 1
          /\ Append(Below, f)[Len(Below) + 1] = f
          /\ \A d \in 1..Len(Below) : Append(Below, f)[d] = Below[d]
      BY ONLY <2>1, <2>2, PushLemma
    <2>4. (L - 1) + 1 = L BY <1>2
    <2> QED BY <1>4, <2>3, <2>4 DEF T
  <1>6. ASSUME NEW f, NEW g
        PROVE  /\ Len(Append(Append(Below, f), g)) = L + 1
               /\ Append(Append(Below, f), g)[L + 1] = g
               /\ Append(Append(Below, f), g)[L] = f
               /\ \A d \in 1..L - 1 : Append(Append(Below, f), g)[d] = calls[d]
    <2> DEFINE cs == Append(Below, f)
               T == Shaped(A) \cup {f} \cup {g}
    <2>1. /\ Len(cs) = L /\ cs[L] = f /\ \A d \in 1..L - 1 : cs[d] = calls[d]
          /\ cs \in Seq(Shaped(A) \cup {f})
      BY <1>5
    <2> HIDE DEF cs
    <2>2. cs \in Seq(T) BY <2>1, SeqMonotonic
    <2>3. g \in T OBVIOUS
    <2> HIDE DEF T
    <2>4. /\ Len(Append(cs, g)) = Len(cs) + 1 /\ Append(cs, g)[Len(cs) + 1] = g
          /\ \A d \in 1..Len(cs) : Append(cs, g)[d] = cs[d]
      BY ONLY <2>2, <2>3, PushLemma
    <2>5. L \in 1..L /\ \A d \in 1..L - 1 : d \in 1..L BY <1>2
    <2>6. Len(Append(cs, g)) = L + 1 /\ Append(cs, g)[L + 1] = g /\ Append(cs, g)[L] = f
          /\ \A d \in 1..L - 1 : Append(cs, g)[d] = calls[d]
      BY <2>1, <2>4, <2>5
    <2> QED BY <2>6 DEF cs
  <1> QED BY <1>2, <1>4, <1>5, <1>6 DEF L, Top

CallerSays(s, e, fn, i) == Calling(e, fn) /\ SaysSo(s, e, "called", i)

LEMMA GoSays ==
    ASSUME ParserInv, CallsSay, tokens' = tokens, NEW f, Go(f),
           f.fn = Top.fn, f.tokIdx = Top.tokIdx, SaysSo(tokens, f, "here", curTokIdx')
    PROVE  CallsSay'
  <1> DEFINE L == Len(calls)
  <1>1. calls' = Append(Below, f) /\ ret' = Running BY DEF Go
  <1>2. /\ L \in Nat \ {0} /\ Top = calls[L] /\ Len(calls') = L /\ calls'[L] = f
        /\ \A d \in 1..L - 1 : calls'[d] = calls[d]
    BY <1>1, Stacks
  <1>3. \A e \in 1..L - 1 : CallerSays(tokens, calls[e], calls[e + 1].fn, calls[e + 1].tokIdx)
    BY DEF CallsSay, CallerSays
  <1> HIDE DEF L
  <1>4. ASSUME NEW e \in 1..L - 1
        PROVE  CallerSays(tokens, calls'[e], calls'[e + 1].fn, calls'[e + 1].tokIdx)
    <2>1. e + 1 \in 1..L - 1 \/ e + 1 = L BY <1>2
    <2>2. calls'[e + 1].fn = calls[e + 1].fn /\ calls'[e + 1].tokIdx = calls[e + 1].tokIdx
      BY <1>2, <2>1
    <2> QED BY <1>2, <1>3, <2>2
  <1>5. Top' = f /\ ~ret'.done BY <1>1, <1>2 DEF Top, Running
  <1> QED BY <1>2, <1>4, <1>5 DEF CallsSay, CallerSays

LEMMA CallSays ==
    ASSUME ParserInv, CallsSay, tokens' = tokens, NEW f, NEW fn, NEW i, Call(f, fn, i),
           curTokIdx' = i, f.fn = Top.fn, f.tokIdx = Top.tokIdx,
           CallerSays(tokens, f, fn, i), SaysSo(tokens, Frame(fn, i), "here", i)
    PROVE  CallsSay'
  <1> DEFINE L == Len(calls)
             g == Frame(fn, i)
  <1>1. calls' = Append(Append(Below, f), g) /\ ret' = Running BY DEF Call
  <1>2. /\ L \in Nat \ {0} /\ Top = calls[L] /\ Len(calls') = L + 1
        /\ calls'[L + 1] = g /\ calls'[L] = f
        /\ \A d \in 1..L - 1 : calls'[d] = calls[d]
    BY <1>1, Stacks
  <1>3. \A e \in 1..L - 1 : CallerSays(tokens, calls[e], calls[e + 1].fn, calls[e + 1].tokIdx)
    BY DEF CallsSay, CallerSays
  <1>4. g.fn = fn /\ g.tokIdx = i BY DEF Frame
  <1> HIDE DEF L, g
  <1>5. ASSUME NEW e \in 1..(L + 1) - 1
        PROVE  CallerSays(tokens, calls'[e], calls'[e + 1].fn, calls'[e + 1].tokIdx)
    <2>1. CASE e = L BY <1>2, <1>4, <2>1
    <2>2. CASE e # L
      <3>1. e \in 1..L - 1 /\ (e + 1 \in 1..L - 1 \/ e + 1 = L) BY <1>2, <2>2
      <3>2. calls'[e + 1].fn = calls[e + 1].fn /\ calls'[e + 1].tokIdx = calls[e + 1].tokIdx
        BY <1>2, <3>1
      <3> QED BY <1>2, <1>3, <3>1, <3>2
    <2> QED BY <2>1, <2>2
  <1>6. Top' = g /\ ~ret'.done BY <1>1, <1>2 DEF Top, Running
  <1> QED BY <1>2, <1>5, <1>6 DEF CallsSay, CallerSays, g

LEMMA ReturnSays ==
    ASSUME ParserInv, ParserInv', CallsSay, tokens' = tokens, NEW n, Return(n),
           Top.fn \in Functions, Top.fn # "parseProgram", Top.tokIdx \in 1..curTokIdx',
           Result(tokens, Top.fn, Top.tokIdx, curTokIdx', n)
    PROVE  CallsSay'
  <1> DEFINE L == Len(calls)
  <1>1. calls' = Below /\ ret' = Done(n) BY DEF Return
  <1>2. /\ L \in Nat \ {0} /\ Top = calls[L] /\ Len(calls') = L - 1
        /\ \A d \in 1..L - 1 : calls'[d] = calls[d]
    BY <1>1, Stacks
  <1>3. Len(calls') \in Nat \ {0} /\ Top' = calls'[Len(calls')]
    <2>1. (\E A : calls \in Seq(Shaped(A)) /\ calls # <<>>)'
      BY DEF ParserInv, CallsInv, Nested
    <2>2. PICK A : calls' \in Seq(A) /\ calls' # <<>> BY <2>1
    <2>3. Len(calls') \in Nat /\ Len(calls') >= 1 BY <2>2, LenPositive
    <2> QED BY <2>3 DEF Top
  <1>4. \A e \in 1..L - 1 : CallerSays(tokens, calls[e], calls[e + 1].fn, calls[e + 1].tokIdx)
    BY DEF CallsSay, CallerSays
  <1> HIDE DEF L
  <1>5. L - 1 \in 1..L - 1 /\ (L - 1) + 1 = L BY <1>2, <1>3
  <1>6. CallerSays(tokens, Top', Top.fn, Top.tokIdx)
    BY <1>2, <1>3, <1>4, <1>5
  <1>7. ASSUME NEW e \in 1..(L - 1) - 1
        PROVE  CallerSays(tokens, calls'[e], calls'[e + 1].fn, calls'[e + 1].tokIdx)
    <2>1. e \in 1..L - 1 /\ e + 1 \in 1..L - 1 BY <1>2
    <2> QED BY <1>2, <1>4, <2>1
  <1>8. ret'.done /\ ret'.node = n BY <1>1 DEF Done
  <1>9. \E fn \in Functions : \E c \in 1..curTokIdx' :
            /\ Calling(Top', fn) /\ SaysSo(tokens, Top', "called", c)
            /\ Result(tokens, fn, c, curTokIdx', n)
    BY <1>6 DEF CallerSays
  <1> QED BY <1>2, <1>7, <1>8, <1>9 DEF CallsSay, CallerSays

(* A function that begins.                                                 *)
LEMMA FrameSays ==
    ASSUME NEW s \in Buffers, NEW fn \in Functions \ {"parseProgram"}, NEW i \in 1..Len(s) + 1,
           fn \in {"parseStmt", "parseVarDecls", "parseArrayDecls"} => LineStart(s, i)
    PROVE  SaysSo(s, Frame(fn, i), "here", i)
  <1> DEFINE f == Frame(fn, i)
  <1>1. f.fn = fn /\ f.tokIdx = i /\ f.at = 1 /\ f.kids = <<>> BY DEF Frame
  <1>2. i \in Nat /\ Says(s, i, i, <<>>, 0) /\ Clean(s, i, i) BY SpanEnds, SaysNothing, CleanSpans
  <1>3. Opens(s, i, i, 0) BY <1>2 DEF Says
  <1> HIDE DEF f
  <1>4. Place(s, f, i) BY <1>1, <1>2 DEF Place
  <1>5. ASSUME fn \in DOMAIN Row PROVE RowSays(s, f, "here", i)
    <2>1. RowSaid(f) = <<>> BY <1>1, RowSaidEnds
    <2>2. LeftOpen(f, "here") = 0 BY <1>1 DEF LeftOpen
    <2>3. RowPlace(s, f, "here", i) BY <1>1 DEF RowPlace
    <2> QED BY <1>1, <1>2, <2>1, <2>2, <2>3 DEF RowSays
  <1>6. ASSUME fn \notin DOMAIN Row PROVE LoopSaid(f, "here") = <<>>
    BY <1>1, <1>6 DEF LoopSaid
  <1>7. ASSUME fn = "parseArrayDecls" PROVE ArraySays(s, f, "here", i)
    <2>1. LoopSaid(f, "here") = <<>> BY <1>1, <1>7 DEF LoopSaid
    <2>2. LeftOpen(f, "here") = 0 BY <1>1, <1>7 DEF LeftOpen
    <2>3. ArrayPlace(s, f, "here", i) BY <1>1 DEF ArrayPlace
    <2>4. Says(s, f.tokIdx, i, LoopSaid(f, "here"), LeftOpen(f, "here")) BY <1>1, <1>2, <2>1, <2>2
    <2>5. Opens(s, f.tokIdx, i, LeftOpen(f, "here")) BY <1>1, <1>3, <2>2
    <2>6. ~(f.at > 1) BY <1>1
    <2> QED BY <2>3, <2>4, <2>5, <2>6 DEF ArraySays
  <1>8. ASSUME fn \notin DOMAIN Row PROVE LoopSays(s, f, "here", i)
    <2>1. ListPlace(s, f, "here") \/ fn \notin Lists BY <1>1 DEF ListPlace
    <2>2. VarPlace(s, f, i) /\ BlockPlace(s, f, i) BY <1>1 DEF VarPlace, BlockPlace
    <2> QED BY <1>1, <1>2, <1>6, <1>8, <2>1, <2>2 DEF LoopSays
  <1>9. f.at # 4 /\ "parseArrayDecls" \notin DOMAIN Row /\ "parseStmtBlock" \notin DOMAIN Row
    BY <1>1 DEF Row
  <1>10. \A g \in Lists \cup {"parseExpr", "parseStmt", "parseVarDecls", "parseProgram"} : g \notin DOMAIN Row
    BY DEF Lists, Row
  <1>11. SaysSo(s, f, "here", i) BY <1>1, <1>4, <1>5, <1>7, <1>8, <1>9, <1>10 DEF SaysSo
  <1> QED BY <1>11 DEF f

-----------------------------------------------------------------------------
(* The functions of the rows.                                              *)

(* What a step has to show.                                                *)
SaysOn == phase' = "error" \/ PassedOver(tokens) \/ CallsSay'

LEMMA AtToken ==
    ASSUME ParserInv
    PROVE  /\ tokens \in Buffers /\ Len(tokens) \in Nat /\ curTokIdx \in 1..Len(tokens) + 1
           /\ Known => /\ curTokIdx \in 1..Len(tokens) /\ curTok = tokens[curTokIdx]
                       /\ curTok \in Tokens \cup {"End"}
           /\ Top.tokIdx \in 1..curTokIdx
  <1>1. tokens \in Buffers /\ Len(tokens) \in Nat BY LenProperties DEF ParserInv, BufferInv, Buffers
  <1>2. curTokIdx \in 1..Len(tokens) + 1 BY DEF ParserInv, BufferInv, InBuffer
  <1>3. Known => curTokIdx \in 1..Len(tokens) BY <1>1, <1>2 DEF Known
  <1>4. Known => curTok \in Tokens \cup {"End"} BY <1>1, <1>3, ElementOfSeq DEF curTok, Buffers
  <1>5. Top.tokIdx \in Nat \ {0} /\ Top.tokIdx <= curTokIdx BY TopShape DEF ParserInv, CallsInv
  <1> QED BY <1>1, <1>2, <1>3, <1>4, <1>5 DEF curTok

LEMMA RowNames ==
    ASSUME NEW fn \in DOMAIN Row
    PROVE  /\ fn \notin {"parseExpr", "parseStmt", "parseProgram", "parseVarDecls",
                         "parseArrayDecls", "parseStmtBlock", "parseFnArgs",
                         "parseStringOrExprArgs", "parseFnParams"}
           /\ fn \in Functions
  BY DEF Row, Functions

LEMMA RowOpen ==
    ASSUME NEW f, f.fn \in DOMAIN Row, NEW v
    PROVE  LeftOpen(f, v) = Bracket(f.fn, f.at)
  BY RowNames DEF LeftOpen, Bracket

LEMMA RowSaysSo ==
    ASSUME NEW s, NEW f, f.fn \in DOMAIN Row, NEW v, NEW b
    PROVE  SaysSo(s, f, v, b) <=> Place(s, f, b) /\ RowSays(s, f, v, b)
  BY RowNames DEF SaysSo, Lists

(* Beyond its first item a row needs only this of its place.               *)
LEMMA RowInPlace ==
    ASSUME NEW s, NEW f, f.fn \in DOMAIN Row, f.at # 1, NEW b,
           f.fn \in InLine => Clean(s, f.tokIdx, b)
    PROVE  Place(s, f, b)
  BY RowNames DEF Place

LEMMA RowGo ==
    ASSUME ParserInv, TreeInv, CallsSay, tokens' = tokens, InRow, ~RowEnded,
           NEW g, Sound(g), Go(g), g.fn = Top.fn, g.tokIdx = Top.tokIdx, g.at = Top.at + 1,
           SameOp(Top.fn, Top.at, Top.op, g.op), Longer(Top.kids, g.kids),
           Top.fn \in InLine => Clean(tokens, Top.tokIdx, curTokIdx'),
           \/ g.fn = "parseIfStmt" /\ g.at \in {6, 7} /\ g.kids[2] = Null
           \/ /\ Says(tokens, Top.tokIdx, curTokIdx',
                      RowSaid(Top) \o ItemText(Top.fn, Top.at, g.op, g.kids),
                      Bracket(Top.fn, Top.at + 1))
              /\ AtBlock(Top.fn, Top.at) => Is(tokens, curTokIdx' - 1, {"CR"})
    PROVE  CallsSay'
  <1>1. Sound(Top) /\ Top.at \in Nat \ {0} BY TopSound DEF ParserInv
  <1>2. Top.fn \in DOMAIN Row /\ Top.at \in 1..Len(Row[Top.fn]) /\ Len(Row[Top.fn]) \in Nat
    BY RowTop
  <1>3. RowSaid(g) = RowSaid(Top) \o ItemText(Top.fn, Top.at, g.op, g.kids)
    BY <1>1, <1>2, RowSaidOn
  <1>4. LeftOpen(g, "here") = Bracket(Top.fn, Top.at + 1) BY <1>2, RowOpen
  <1>5. g.at # 1 BY <1>1
  <1>6. Place(tokens, g, curTokIdx') BY <1>2, <1>5, RowInPlace
  <1>7. \/ g.fn = "parseIfStmt" /\ g.at \in {6, 7}
        \/ g.fn = "parseWhileStmt" /\ g.at = 6
        \/ g.fn = "parseForStmt" /\ g.at = 8
        => AtBlock(Top.fn, Top.at)
    BY <1>1 DEF AtBlock
  <1>8. ASSUME Says(tokens, Top.tokIdx, curTokIdx',
                    RowSaid(Top) \o ItemText(Top.fn, Top.at, g.op, g.kids),
                    Bracket(Top.fn, Top.at + 1)),
               AtBlock(Top.fn, Top.at) => Is(tokens, curTokIdx' - 1, {"CR"})
        PROVE  RowSays(tokens, g, "here", curTokIdx')
    <2>1. RowPlace(tokens, g, "here", curTokIdx') BY <1>7, <1>8 DEF RowPlace
    <2>2. Says(tokens, g.tokIdx, curTokIdx', RowSaid(g), LeftOpen(g, "here")) BY <1>3, <1>4, <1>8
    <2> QED BY <2>1, <2>2 DEF RowSays
  <1>9. RowSays(tokens, g, "here", curTokIdx') BY <1>8 DEF RowSays
  <1>10. SaysSo(tokens, g, "here", curTokIdx') BY <1>2, <1>6, <1>9, RowSaysSo
  <1> QED BY <1>10, GoSays

(* What a row has said where it is.                                        *)
LEMMA RowHere ==
    ASSUME ParserInv, TreeInv, InRow, NEW v, NEW b, SaysSo(tokens, Top, v, b)
    PROVE  /\ Top.fn \in InLine => Clean(tokens, Top.tokIdx, b)
           /\ \/ Top.fn = "parseIfStmt" /\ Top.at \in {6, 7} /\ Top.kids[2] = Null
              \/ AtElse(Top.fn, Top.at) /\ v = "called"
              \/ /\ Says(tokens, Top.tokIdx, b, RowSaid(Top), Bracket(Top.fn, Top.at))
                 /\ RowPlace(tokens, Top, v, b)
  <1>1. Top.fn \in DOMAIN Row BY RowTop
  <1>2. Place(tokens, Top, b) /\ RowSays(tokens, Top, v, b) BY <1>1, RowSaysSo
  <1>3. LeftOpen(Top, v) = Bracket(Top.fn, Top.at) BY <1>1, RowOpen
  <1> QED BY <1>2, <1>3 DEF Place, RowSays, AtElse

LEMMA RowFails ==
    ASSUME ParserInv, ParserInv', TreeInv, CallsSay, tokens' = tokens, InRow, Fail,
           curTokIdx' = curTokIdx
    PROVE  SaysOn
  <1>1. Top.fn \in DOMAIN Row /\ Top.fn # "parseProgram" BY RowTop
  <1>2. CASE Top.fn = "parseFnDef" BY <1>2 DEF Fail, Throw, SaysOn
  <1>3. CASE Top.fn # "parseFnDef"
    <2>1. Return(Null) BY <1>3 DEF Fail
    <2>2. Result(tokens, Top.fn, Top.tokIdx, curTokIdx', Null) BY <1>1, <1>3, RowNames DEF Result
    <2>3. Top.tokIdx \in 1..curTokIdx' /\ Top.fn \in Functions BY <1>1, AtToken, RowNames
    <2>4. CallsSay' BY <1>1, <2>1, <2>2, <2>3, ReturnSays
    <2> QED BY <2>4 DEF SaysOn
  <1> QED BY <1>2, <1>3

-----------------------------------------------------------------------------

(* The item that a row is at.                                              *)
LEMMA RowItemHere ==
    ASSUME ParserInv, TreeInv, InRow, ~RowEnded
    PROVE  /\ Top.fn \in DOMAIN Row /\ Top.at \in 1..Len(Row[Top.fn])
           /\ Spoken(Top.fn, Item, Top.at)
           /\ Adds(Top.fn, Item, Top.at, Built[Top.fn][Top.at], Built[Top.fn][Top.at + 1])
           /\ Sound(Top) /\ RowSaid(Top) \in GoodTexts
           /\ Bracket(Top.fn, Top.at) \in Nat /\ Bracket(Top.fn, Top.at + 1) \in Nat
           /\ AtBlock(Top.fn, Top.at) => Item.call = "parseStmtBlock"
           /\ Top.fn = "parseIfStmt" /\ Top.at \in {6, 7} => AtElse(Top.fn, Top.at)
           /\ Len(Top.kids) = Built[Top.fn][Top.at] /\ Top.kids \in Seq(GoodTexts)
  <1>1. Top.fn \in DOMAIN Row /\ Top.at \in 1..Len(Row[Top.fn]) BY RowTop
  <1>2. Spoken(Top.fn, Item, Top.at)
          /\ Adds(Top.fn, Item, Top.at, Built[Top.fn][Top.at], Built[Top.fn][Top.at + 1])
    BY <1>1, RowItem DEF Item
  <1>3. Sound(Top) /\ Top.kids \in Seq(GoodTexts) BY TopSound DEF ParserInv
  <1>4. Top.at <= Len(Row[Top.fn]) BY <1>1
  <1>5. RowSaid(Top) \in GoodTexts
    <2> DEFINE X == [i \in 1..Top.at - 1 |-> ItemText(Top.fn, i, Top.op, Top.kids)]
    <2>1. \A i \in 1..Top.at - 1 : X[i] \in GoodTexts BY <1>1, <1>3, ItemKnown
    <2>2. Top.at - 1 \in Nat BY <1>1
    <2>3. X \in [1..Top.at - 1 -> GoodTexts] BY <2>1
    <2>4. RowSaid(Top) = Run(X) BY DEF RowSaid
    <2> HIDE DEF X
    <2>5. X \in Seq(GoodTexts) BY <2>2, <2>3, SeqOfLength
    <2> QED BY <2>4, <2>5, RunGood
  <1>6. Bracket(Top.fn, Top.at) \in Nat /\ Bracket(Top.fn, Top.at + 1) \in Nat BY DEF Bracket
  <1>7. AtBlock(Top.fn, Top.at) => Item.call = "parseStmtBlock" BY <1>2 DEF Spoken
  <1>8. Top.fn = "parseIfStmt" /\ Top.at \in {6, 7} => AtElse(Top.fn, Top.at)
    <2>1. Len(Row["parseIfStmt"]) = 6 BY DEF Row, parseIfStmt
    <2> SUFFICES ASSUME Top.fn = "parseIfStmt", Top.at \in {6, 7} PROVE AtElse(Top.fn, Top.at)
      OBVIOUS
    <2>2. Top.at <= 6 BY <1>4, <2>1
    <2>3. Top.at = 6 BY <2>2
    <2> QED BY <2>3 DEF AtElse
  <1>9. Len(Top.kids) = Built[Top.fn][Top.at] BY <1>1, <1>3 DEF Sound
  <1> QED BY <1>1, <1>2, <1>3, <1>5, <1>6, <1>7, <1>8, <1>9

(* A row consumes a token.                                                 *)
LEMMA RowMatches ==
    ASSUME ParserInv, TreeInv, CallsSay, MatchToken, curTok \in Item.match,
           Item.call = "none", curTokIdx' = curTokIdx + 1,
           Go(IF Item.match = {curTok} THEN At(Top.at + 1) ELSE Holding(Top.at + 1, curTok))
    PROVE  CallsSay'
  <1> DEFINE fn == Top.fn
             i == Top.at
             b == curTokIdx
             g == IF Item.match = {curTok} THEN At(i + 1) ELSE Holding(i + 1, curTok)
  <1>1. InRow /\ ~RowEnded /\ Known /\ ~ret.done /\ tokens' = tokens BY DEF MatchToken
  <1>2. /\ fn \in DOMAIN Row /\ i \in 1..Len(Row[fn]) /\ Spoken(fn, Item, i)
        /\ Item.match \subseteq Tokens /\ RowSaid(Top) \in GoodTexts
        /\ Bracket(fn, i) \in Nat /\ Bracket(fn, i + 1) \in Nat
        /\ ~AtBlock(fn, i)
        /\ ~(fn = "parseIfStmt" /\ i \in {6, 7})
    BY <1>1, RowItemHere DEF Adds, AtElse, AtBlock
  <1>3. tokens \in Buffers /\ b \in 1..Len(tokens) /\ curTok = tokens[b] BY <1>1, AtToken
  <1>4. SaysSo(tokens, Top, "here", b) BY <1>1 DEF CallsSay
  <1>5. /\ fn \in InLine => Clean(tokens, Top.tokIdx, b)
        /\ Says(tokens, Top.tokIdx, b, RowSaid(Top), Bracket(fn, i))
    BY <1>1, <1>2, <1>4, RowHere
  <1>6. /\ curTok \notin {"EOL", "End", "CR", "Comma"} /\ curTok \in Tokens
        /\ Bracket(fn, i + 1) = Bracket(fn, i) + Opened(curTok)
    BY <1>2 DEF Spoken
  <1>7. Says(tokens, Top.tokIdx, b + 1, RowSaid(Top) \o <<curTok>>, Bracket(fn, i + 1))
    <2>1. ~DeclComma(tokens, b) BY <1>3, <1>6, NotDeclComma
    <2> HIDE DEF fn, i, b
    <2> QED BY <1>2, <1>3, <1>5, <1>6, <2>1, SaysToken
  <1>8. fn \in InLine => Clean(tokens, Top.tokIdx, b + 1)
    <2>1. Isnt(tokens, b, {"EOL", "CR"}) BY <1>3, <1>6 DEF Isnt
    <2>2. b \in Nat /\ Top.tokIdx \in Nat BY <1>1, AtToken, TopSound DEF ParserInv
    <2> QED BY <1>3, <1>5, <2>1, <2>2, CleanSpans
  <1>9. /\ g.fn = fn /\ g.tokIdx = Top.tokIdx /\ g.at = i + 1 /\ g.kids = Top.kids
        /\ g.op = IF Item.match = {curTok} THEN Top.op ELSE curTok
    BY DEF At, Holding, Onward
  <1>10. Sound(g) BY <1>1, RowSound
  <1>11. Go(g) OBVIOUS
  <1> HIDE DEF g
  <1>12. ItemText(fn, i, g.op, g.kids) = <<curTok>>
    <2>1. Row[fn][i] = Item BY DEF Item
    <2>2. CASE Item.match = {curTok}
      <3>1. Only(Item.match) = curTok BY <2>2, OnlyOne
      <3> QED BY <2>1, <2>2, <3>1 DEF ItemText
    <2>3. CASE Item.match # {curTok}
      <3>1. Item.match # {Only(Item.match)}
        <4>1. SUFFICES ASSUME Item.match = {Only(Item.match)} PROVE FALSE OBVIOUS
        <4>2. curTok = Only(Item.match) BY <4>1
        <4> QED BY <2>3, <4>1, <4>2
      <3> QED BY <1>9, <2>1, <2>3, <3>1 DEF ItemText
    <2> QED BY <2>2, <2>3
  <1>13. SameOp(fn, i, Top.op, g.op)
    <2>1. CASE Item.match = {curTok}
      <3>1. g.op = Top.op BY <1>9, <2>1
      <3> HIDE DEF HoldsFrom
      <3> QED BY <3>1, Zenon DEF SameOp
    <2>2. CASE Item.match # {curTok}
      <3>1. Item.match # {Only(Item.match)}
        <4>1. SUFFICES ASSUME Item.match = {Only(Item.match)} PROVE FALSE OBVIOUS
        <4>2. curTok = Only(Item.match) BY <4>1
        <4> QED BY <2>2, <4>1, <4>2
      <3>2. fn \in DOMAIN HoldsFrom /\ i + 1 = HoldsFrom[fn] BY <1>2, <3>1 DEF Spoken
      <3> QED BY <3>2 DEF SameOp
    <2> QED BY <2>1, <2>2
  <1>14. Longer(Top.kids, g.kids) BY <1>9 DEF Longer
  <1> QED BY <1>1, <1>2, <1>7, <1>8, <1>9, <1>10, <1>11, <1>12, <1>13, <1>14, RowGo

(* An else, of an if statement.                                            *)
LEMMA ElseFound ==
    ASSUME ParserInv, TreeInv, CallsSay, MatchToken, curTok \in Item.match,
           Item.call # "none", curTokIdx' = curTokIdx + 1,
           Call(Top, Item.call, curTokIdx + 1)
    PROVE  CallsSay'
  <1> DEFINE b == curTokIdx
             c == curTokIdx + 1
  <1>1. InRow /\ ~RowEnded /\ Known /\ ~ret.done /\ tokens' = tokens BY DEF MatchToken
  <1>2. /\ Top.fn \in DOMAIN Row /\ Top.at \in 1..Len(Row[Top.fn]) /\ Spoken(Top.fn, Item, Top.at)
        /\ AtBlock(Top.fn, Top.at) => Item.call = "parseStmtBlock"
    BY <1>1, RowItemHere
  <1>3. AtElse(Top.fn, Top.at) /\ Item.match = {"Else"} BY <1>2 DEF Spoken
  <1>4. Top.fn = "parseIfStmt" /\ Top.at = 6 /\ Item.call = "parseStmtBlock" /\ curTok = "Else"
    BY <1>2, <1>3 DEF AtElse, AtBlock
  <1>5. tokens \in Buffers /\ b \in 1..Len(tokens) /\ curTok = tokens[b] /\ Len(tokens) \in Nat
    BY <1>1, AtToken
  <1>6. SaysSo(tokens, Top, "here", b) BY <1>1 DEF CallsSay
  <1>7. c - 1 = b /\ c \in 1..Len(tokens) + 1 BY <1>5
  <1> HIDE DEF b, c
  <1>8. RowSays(tokens, Top, "called", c)
    <2>1. RowSays(tokens, Top, "here", b) BY <1>2, <1>6, RowSaysSo
    <2>2. LeftOpen(Top, "here") = 0 BY <1>4 DEF LeftOpen
    <2>3. \/ Top.kids[2] = Null \/ Says(tokens, Top.tokIdx, b, RowSaid(Top), 0)
      BY <1>4, <2>1, <2>2 DEF RowSays
    <2>4. Is(tokens, b, {"Else"}) BY <1>4, <1>5 DEF Is
    <2> QED BY <1>4, <1>7, <2>3, <2>4 DEF RowSays
  <1>9. Place(tokens, Top, c)
    <2>1. Top.fn \notin InLine /\ Top.at # 1 BY <1>4, LinesOf
    <2> QED BY <1>2, <2>1, RowInPlace
  <1>10. SaysSo(tokens, Top, "called", c) BY <1>2, <1>8, <1>9, RowSaysSo
  <1>11. Calling(Top, "parseStmtBlock")
    <2>1. Top.at <= Len(Row[Top.fn]) BY <1>2
    <2> QED BY <1>2, <1>4, <2>1 DEF Calling, Item
  <1>12. SaysSo(tokens, Frame("parseStmtBlock", c), "here", c)
    <2>1. "parseStmtBlock" \in Functions \ {"parseProgram"} BY DEF Functions
    <2> QED BY <1>5, <1>7, <2>1, FrameSays
  <1>13. Call(Top, "parseStmtBlock", c) /\ curTokIdx' = c BY <1>4 DEF c
  <1> QED BY <1>1, <1>10, <1>11, <1>12, <1>13, CallSays DEF CallerSays

(* No else.                                                                *)
LEMMA ElseMissing ==
    ASSUME ParserInv, TreeInv, CallsSay, MatchToken, Item.null,
           curTokIdx' = curTokIdx, Go(With(Top.at + 1, Null))
    PROVE  CallsSay'
  <1> DEFINE b == curTokIdx
             g == With(Top.at + 1, Null)
  <1>1. InRow /\ ~RowEnded /\ Known /\ ~ret.done /\ tokens' = tokens /\ Item.match # {}
    BY DEF MatchToken
  <1>2. /\ Top.fn \in DOMAIN Row /\ Top.at \in 1..Len(Row[Top.fn]) /\ Spoken(Top.fn, Item, Top.at)
        /\ Item.call # "none" /\ RowSaid(Top) \in GoodTexts
        /\ Len(Top.kids) = Built[Top.fn][Top.at] /\ Top.kids \in Seq(GoodTexts)
    BY <1>1, RowItemHere DEF Adds
  <1>3. AtElse(Top.fn, Top.at) BY <1>1, <1>2 DEF Spoken
  <1>4. Top.fn = "parseIfStmt" /\ Top.at = 6 BY <1>3 DEF AtElse
  <1>5. Built["parseIfStmt"][6] = 2 BY DEF Built
  <1>6. /\ g.fn = Top.fn /\ g.tokIdx = Top.tokIdx /\ g.at = Top.at + 1
        /\ g.kids = Append(Top.kids, Null) /\ g.op = Top.op
    BY DEF With, Onward
  <1>7. Sound(g) BY <1>1, <1>2, TextsJoin, RowSound DEF Null
  <1>8. Go(g) OBVIOUS
  <1> HIDE DEF g
  <1>9. g.kids[2] = Top.kids[2] /\ g.kids[3] = Null
    <2>1. Len(Top.kids) = 2 /\ Null \in GoodTexts BY <1>2, <1>4, <1>5, TextsJoin DEF Null
    <2> QED BY <1>2, <1>6, <2>1, PushLemma
  <1>10. ItemText(Top.fn, Top.at, g.op, g.kids) = <<>>
    <2>1. Row["parseIfStmt"][6] = Item BY <1>4 DEF Item
    <2>2. g.kids[Built["parseIfStmt"][6] + 1] = Null BY <1>5, <1>9
    <2> QED BY <1>1, <1>2, <1>4, <2>1, <2>2 DEF ItemText
  <1>11. \/ g.fn = "parseIfStmt" /\ g.at \in {6, 7} /\ g.kids[2] = Null
         \/ /\ Says(tokens, Top.tokIdx, b, RowSaid(Top), 0)
            /\ Is(tokens, b - 1, {"CR"})
    <2>1. RowSays(tokens, Top, "here", b) BY <1>1, <1>2, RowSaysSo DEF CallsSay
    <2>2. LeftOpen(Top, "here") = 0 BY <1>4 DEF LeftOpen
    <2>3. \/ Top.kids[2] = Null
          \/ Says(tokens, Top.tokIdx, b, RowSaid(Top), 0) /\ RowPlace(tokens, Top, "here", b)
      <3>1. \/ Top.kids[2] = Null
            \/ Says(tokens, Top.tokIdx, b, RowSaid(Top), LeftOpen(Top, "here")) /\ RowPlace(tokens, Top, "here", b)
        BY <2>1, Zenon DEF RowSays
      <3> QED BY <2>2, <3>1
    <2> QED BY <1>4, <1>6, <1>9, <2>3 DEF RowPlace
  <1>12. RowSaid(Top) \o <<>> = RowSaid(Top) BY <1>2, ConcatEmptySeq DEF GoodTexts
  <1>13. Bracket(Top.fn, Top.at + 1) = 0 BY <1>4 DEF Bracket
  <1>14. Top.fn \notin InLine BY <1>4, LinesOf
  <1>15. SameOp(Top.fn, Top.at, Top.op, g.op) BY <1>6, Zenon DEF SameOp
  <1>16. Longer(Top.kids, g.kids) BY <1>6, TextsJoin DEF Longer, Null
  <1> QED BY <1>1, <1>6, <1>7, <1>8, <1>10, <1>11, <1>12, <1>13, <1>14, <1>15, <1>16, RowGo

LEMMA MatchTokenSays ==
    ASSUME ParserInv, ParserInv', TreeInv, CallsSay, MatchToken PROVE SaysOn
  <1>1. InRow /\ tokens' = tokens BY DEF MatchToken
  <1>2. \/ /\ curTok \in Item.match /\ curTokIdx' = curTokIdx + 1
           /\ IF Item.call = "none"
              THEN Go(IF Item.match = {curTok} THEN At(Top.at + 1) ELSE Holding(Top.at + 1, curTok))
              ELSE Call(Top, Item.call, curTokIdx + 1)
        \/ /\ curTokIdx' = curTokIdx
           /\ IF Item.null THEN Go(With(Top.at + 1, Null)) ELSE Fail
    BY DEF MatchToken, getNextTok, Stay
  <1>3. CASE curTok \in Item.match /\ curTokIdx' = curTokIdx + 1 /\ Item.call = "none"
             /\ Go(IF Item.match = {curTok} THEN At(Top.at + 1) ELSE Holding(Top.at + 1, curTok))
    BY <1>3, RowMatches DEF SaysOn
  <1>4. CASE curTok \in Item.match /\ curTokIdx' = curTokIdx + 1 /\ Item.call # "none"
             /\ Call(Top, Item.call, curTokIdx + 1)
    BY <1>4, ElseFound DEF SaysOn
  <1>5. CASE curTokIdx' = curTokIdx /\ Item.null /\ Go(With(Top.at + 1, Null))
    BY <1>5, ElseMissing DEF SaysOn
  <1>6. CASE curTokIdx' = curTokIdx /\ Fail BY <1>1, <1>6, RowFails
  <1> QED BY <1>2, <1>3, <1>4, <1>5, <1>6

LEMMA CallItemSays ==
    ASSUME ParserInv, ParserInv', TreeInv, CallsSay, CallItem PROVE SaysOn
  <1> DEFINE b == curTokIdx
  <1>1. InRow /\ ~RowEnded /\ ~ret.done /\ tokens' = tokens /\ curTokIdx' = b
        /\ Item.match = {} /\ Call(Top, Item.call, b)
    BY DEF CallItem
  <1>2. /\ Top.fn \in DOMAIN Row /\ Top.at \in 1..Len(Row[Top.fn]) /\ Spoken(Top.fn, Item, Top.at)
        /\ Item.call # "none" /\ Item.call \in Functions
    BY <1>1, RowItemHere DEF Adds
  <1>3. ~AtElse(Top.fn, Top.at) BY <1>1, <1>2 DEF Spoken
  <1>4. tokens \in Buffers /\ b \in 1..Len(tokens) + 1 BY AtToken
  <1>5. Place(tokens, Top, b) /\ RowSays(tokens, Top, "here", b)
    BY <1>1, <1>2, RowSaysSo DEF CallsSay
  <1> HIDE DEF b
  <1>6. LeftOpen(Top, "called") = LeftOpen(Top, "here") BY <1>2, RowOpen
  <1>7. RowPlace(tokens, Top, "here", b) => RowPlace(tokens, Top, "called", b) BY DEF RowPlace
  <1>8. RowSays(tokens, Top, "called", b) BY <1>3, <1>5, <1>6, <1>7 DEF RowSays, AtElse
  <1>9. SaysSo(tokens, Top, "called", b) BY <1>2, <1>5, <1>8, RowSaysSo
  <1>10. Calling(Top, Item.call)
    <2>1. Top.at <= Len(Row[Top.fn]) BY <1>2
    <2> QED BY <1>2, <2>1 DEF Calling, Item
  <1>11. Item.call \notin {"parseStmt", "parseVarDecls", "parseArrayDecls", "parseProgram"}
    BY <1>2 DEF Spoken
  <1>12. SaysSo(tokens, Frame(Item.call, b), "here", b) BY <1>2, <1>4, <1>11, FrameSays
  <1> QED BY <1>1, <1>9, <1>10, <1>12, CallSays DEF CallerSays, SaysOn

-----------------------------------------------------------------------------

(* A row goes on with a node n, which a call at c has returned.            *)
LEMMA RowTakes ==
    ASSUME ParserInv, TreeInv, CallsSay, TakeItem, NEW n, n = ret.node,
           Go(With(Top.at + 1, n)), n # Null \/ Item.null,
           \/ Top.fn = "parseIfStmt" /\ Top.at \in {5, 6} /\ Append(Top.kids, n)[2] = Null
           \/ /\ Says(tokens, Top.tokIdx, curTokIdx,
                      RowSaid(Top) \o (IF Item.match = {} THEN Fill(n)
                                       ELSE IF n = Null THEN <<>> ELSE <<"Else">> \o Fill(n)),
                      Bracket(Top.fn, Top.at))
              /\ AtBlock(Top.fn, Top.at) => Is(tokens, curTokIdx - 1, {"CR"}),
           Top.fn \in InLine => Clean(tokens, Top.tokIdx, curTokIdx)
    PROVE  CallsSay'
  <1> DEFINE g == With(Top.at + 1, n)
  <1>1. InRow /\ ~RowEnded /\ ret.done /\ tokens' = tokens /\ curTokIdx' = curTokIdx BY DEF TakeItem
  <1>2. /\ Top.fn \in DOMAIN Row /\ Top.at \in 1..Len(Row[Top.fn]) /\ Spoken(Top.fn, Item, Top.at)
        /\ RowSaid(Top) \in GoodTexts
        /\ Len(Top.kids) = Built[Top.fn][Top.at] /\ Top.kids \in Seq(GoodTexts)
    BY <1>1, RowItemHere
  <1>3. Item.call # "none"
    <2>1. Waits(Top) BY <1>1 DEF TreeInv
    <2> QED BY <1>2, <2>1 DEF Waits, Item
  <1>4. n \in GoodTexts BY RetGood
  <1>5. Sound(g) BY <1>1, <1>3, <1>4, RowSound
  <1>6. /\ g.fn = Top.fn /\ g.tokIdx = Top.tokIdx /\ g.at = Top.at + 1
        /\ g.kids = Append(Top.kids, n) /\ g.op = Top.op
    BY DEF With, Onward
  <1>7. Go(g) OBVIOUS
  <1> HIDE DEF g
  <1>8. g.kids[Built[Top.fn][Top.at] + 1] = n BY <1>2, <1>4, <1>6, PushLemma
  <1>9. ItemText(Top.fn, Top.at, g.op, g.kids) = IF Item.match = {} THEN Fill(n)
                                        ELSE IF n = Null THEN <<>> ELSE <<"Else">> \o Fill(n)
    <2>1. Row[Top.fn][Top.at] = Item BY DEF Item
    <2>2. Item.match # {} => Item.match = {"Else"} BY <1>2, <1>3 DEF Spoken
    <2>3. Item.match # {} => Only(Item.match) = "Else" BY <2>2, OnlyOne
    <2> QED BY <1>3, <1>8, <2>1, <2>3 DEF ItemText
  <1>10. Bracket(Top.fn, Top.at + 1) = Bracket(Top.fn, Top.at)
    <2>1. CASE Item.match = {} BY <1>2, <2>1 DEF Spoken
    <2>2. CASE Item.match # {}
      <3>1. Top.fn = "parseIfStmt" BY <1>2, <1>3, <2>2 DEF Spoken, AtElse
      <3> QED BY <3>1 DEF Bracket
    <2> QED BY <2>1, <2>2
  <1>11. SameOp(Top.fn, Top.at, Top.op, g.op) BY <1>6, Zenon DEF SameOp
  <1>12. Longer(Top.kids, g.kids) BY <1>4, <1>6 DEF Longer
  <1>13. Top.fn = "parseIfStmt" /\ Top.at \in {5, 6} => g.at \in {6, 7} BY <1>6
  <1> QED BY <1>1, <1>5, <1>6, <1>7, <1>9, <1>10, <1>11, <1>12, <1>13, RowGo

(* What the function that has returned to a row was called for.            *)
LEMMA RowCalled ==
    ASSUME ParserInv, TreeInv, CallsSay, InRow, ~RowEnded, ret.done
    PROVE  \E c \in 1..curTokIdx : /\ SaysSo(tokens, Top, "called", c)
                                   /\ Result(tokens, Item.call, c, curTokIdx, ret.node)
  <1>1. PICK fn \in Functions, c \in 1..curTokIdx :
              /\ Calling(Top, fn) /\ SaysSo(tokens, Top, "called", c)
              /\ Result(tokens, fn, c, curTokIdx, ret.node)
    BY DEF CallsSay
  <1>2. Top.fn \in DOMAIN Row BY RowTop
  <1>3. fn = Item.call BY <1>1, <1>2, RowNames DEF Calling, Item
  <1> QED BY <1>1, <1>3

LEMMA TakeItemSays ==
    ASSUME ParserInv, ParserInv', TreeInv, CallsSay, TakeItem PROVE SaysOn
  <1> DEFINE b == curTokIdx
             n == ret.node
             fn == Item.call
  <1>1. InRow /\ ~RowEnded /\ ret.done /\ tokens' = tokens /\ curTokIdx' = b BY DEF TakeItem
  <1>2. /\ Top.fn \in DOMAIN Row /\ Spoken(Top.fn, Item, Top.at)
        /\ Adds(Top.fn, Item, Top.at, Built[Top.fn][Top.at], Built[Top.fn][Top.at + 1])
        /\ RowSaid(Top) \in GoodTexts /\ Bracket(Top.fn, Top.at) \in Nat
        /\ Top.fn = "parseIfStmt" /\ Top.at \in {6, 7} => AtElse(Top.fn, Top.at)
        /\ Len(Top.kids) = Built[Top.fn][Top.at] /\ Top.kids \in Seq(GoodTexts)
        /\ AtBlock(Top.fn, Top.at) => fn = "parseStmtBlock"
    BY <1>1, RowItemHere
  <1>3. PICK c \in 1..b : SaysSo(tokens, Top, "called", c) /\ Result(tokens, fn, c, b, n)
    BY <1>1, RowCalled
  <1>4. tokens \in Buffers /\ b \in 1..Len(tokens) + 1 /\ Len(tokens) \in Nat BY AtToken
  <1>5. b \in Nat /\ c \in Nat /\ c \in 1..Len(tokens) + 1 BY <1>4
  <1>6. /\ Top.fn \in InLine => Clean(tokens, Top.tokIdx, c)
        /\ \/ Top.fn = "parseIfStmt" /\ Top.at \in {6, 7} /\ Top.kids[2] = Null
           \/ AtElse(Top.fn, Top.at)
           \/ Says(tokens, Top.tokIdx, c, RowSaid(Top), Bracket(Top.fn, Top.at))
    BY <1>1, <1>3, RowHere
  <1>7. n \in GoodTexts /\ Fill(n) \in GoodTexts BY RetGood, FillGood
  <1>8. CASE n = Null /\ ~Item.null
    <2>1. Fail BY <1>8 DEF TakeItem
    <2> QED BY <1>1, <2>1, RowFails
  <1>9. ASSUME n # Null \/ Item.null PROVE Go(With(Top.at + 1, n)) /\ TakeItem
    BY <1>9 DEF TakeItem
  <1>10. fn # "none"
    <2>1. Waits(Top) BY <1>1 DEF TreeInv
    <2> QED BY <1>2, <2>1 DEF Waits, Item
  <1>11. Top.fn \in InLine => fn \in InLine BY <1>2, <1>10 DEF Spoken
  <1>12. Top.tokIdx \in Nat BY TopSound DEF ParserInv
  <1>13. /\ n # Null => /\ Says(tokens, c, b, Fill(n), 0)
                        /\ fn \in InLine => Clean(tokens, c, b)
                        /\ fn = "parseStmtBlock" => Is(tokens, b - 1, {"CR"})
         /\ n = Null => /\ fn = "parseExpr" => b = c
                        /\ fn = "parseStmtBlock" => NoBlock(tokens, c)
    BY <1>3 DEF Result, Unterminated
  <1> HIDE DEF b, n, fn
  <1>14. CASE Item.match = {} /\ n # Null
    <2>1. ~AtElse(Top.fn, Top.at) BY <1>2, <1>14 DEF Spoken
    <2>2. Says(tokens, Top.tokIdx, c, RowSaid(Top), Bracket(Top.fn, Top.at)) BY <1>2, <1>6, <2>1
    <2>3. Says(tokens, Top.tokIdx, b, RowSaid(Top) \o Fill(n), Bracket(Top.fn, Top.at))
      BY <1>2, <1>4, <1>7, <1>13, <1>14, <2>2, SaysJoin
    <2>4. AtBlock(Top.fn, Top.at) => Is(tokens, b - 1, {"CR"}) BY <1>2, <1>13, <1>14
    <2>5. Top.fn \in InLine => Clean(tokens, Top.tokIdx, b)
      BY <1>4, <1>5, <1>6, <1>11, <1>12, <1>13, <1>14, CleanSpans
    <2> QED BY <1>9, <1>14, <2>3, <2>4, <2>5, RowTakes DEF SaysOn, b, n
  <1>15. CASE Item.match = {} /\ n = Null /\ Item.null /\ fn = "parseExpr"
    <2>1. ~AtElse(Top.fn, Top.at) /\ ~AtBlock(Top.fn, Top.at) /\ b = c
      BY <1>2, <1>13, <1>15 DEF Spoken
    <2>2. Says(tokens, Top.tokIdx, b, RowSaid(Top), Bracket(Top.fn, Top.at)) BY <1>2, <1>6, <2>1
    <2>3. RowSaid(Top) \o Fill(n) = RowSaid(Top)
      <3>1. Fill(n) = <<>> BY <1>15, <1>7, FillGood DEF Null
      <3> QED BY <1>2, <3>1, ConcatEmptySeq DEF GoodTexts
    <2> QED BY <1>6, <1>9, <1>15, <2>1, <2>2, <2>3, RowTakes DEF SaysOn, b, n
  <1>16. CASE Item.match = {} /\ n = Null /\ Item.null /\ fn # "parseExpr"
    <2>1. ~AtElse(Top.fn, Top.at) /\ AtBlock(Top.fn, Top.at)
      BY <1>2, <1>10, <1>16 DEF Spoken, fn
    <2>2. Top.fn \in KeepsNull BY <1>2, <1>16 DEF Adds
    <2>3. Top.fn = "parseIfStmt" /\ Top.at = 5 BY <2>1, <2>2 DEF AtBlock, AtElse, KeepsNull
    <2>4. Append(Top.kids, n)[2] = Null
      <3>1. Built["parseIfStmt"][5] = 1 BY DEF Built
      <3>2. Len(Top.kids) = 1 BY <1>2, <2>3, <3>1
      <3>3. Append(Top.kids, n)[Len(Top.kids) + 1] = n BY <1>2, <1>7, PushLemma
      <3>4. Len(Top.kids) + 1 = 2 BY <3>2
      <3> QED BY <1>16, <3>3, <3>4
    <2>5. Top.fn \notin InLine BY <2>3, LinesOf
    <2> QED BY <1>9, <1>16, <2>3, <2>4, <2>5, RowTakes DEF SaysOn, b, n
  <1>17. CASE Item.match # {}
    <2>1. AtElse(Top.fn, Top.at) BY <1>2, <1>10, <1>17 DEF Spoken, fn
    <2>2. Top.fn = "parseIfStmt" /\ Top.at = 6 /\ fn = "parseStmtBlock" /\ Item.null
      BY <1>2, <2>1 DEF AtElse, AtBlock, Spoken
    <2>3. RowSays(tokens, Top, "called", c) BY <1>2, <1>3, RowSaysSo
    <2>4. \/ Top.kids[2] = Null
          \/ Says(tokens, Top.tokIdx, c - 1, RowSaid(Top), 0) /\ Is(tokens, c - 1, {"Else"})
      BY <2>2, <2>3 DEF RowSays
    <2>5. Top.fn \notin InLine BY <2>2, LinesOf
    <2>6. CASE Top.kids[2] = Null
      <3>1. Built["parseIfStmt"][6] = 2 BY DEF Built
      <3>2. Len(Top.kids) = 2 BY <1>2, <2>2, <3>1
      <3>3. Append(Top.kids, n)[2] = Null BY <1>2, <1>7, <2>6, <3>2, PushLemma
      <3> QED BY <1>9, <2>2, <2>5, <3>3, RowTakes DEF SaysOn, b, n
    <2>7. CASE Says(tokens, Top.tokIdx, c - 1, RowSaid(Top), 0) /\ Is(tokens, c - 1, {"Else"})
      <3>1. c - 1 \in 1..Len(tokens) /\ tokens[c - 1] = "Else" /\ (c - 1) + 1 = c
        BY <1>5, <2>7 DEF Is
      <3>2. CASE n = Null
        <4>1. NoBlock(tokens, (c - 1) + 1) BY <1>13, <2>2, <3>1, <3>2
        <4>2. BadElse(tokens) BY <3>1, <4>1 DEF BadElse
        <4> QED BY <4>2 DEF SaysOn, PassedOver
      <3>3. CASE n # Null
        <4>1. Says(tokens, Top.tokIdx, c, RowSaid(Top) \o <<"Else">>, 0)
          <5>1. ~DeclComma(tokens, c - 1) BY <3>1, <1>4, NotDeclComma
          <5>2. 0 = 0 + Opened(tokens[c - 1]) /\ tokens[c - 1] \in Tokens /\ tokens[c - 1] # "EOL"
            BY <3>1, WordsOfTexts DEF Opened
          <5> QED BY <1>2, <1>4, <2>7, <3>1, <5>1, <5>2, SaysToken
        <4>2. <<"Else">> \in GoodTexts BY WordsOfTexts, FillToken
        <4>3. Says(tokens, Top.tokIdx, b, (RowSaid(Top) \o <<"Else">>) \o Fill(n), 0)
          <5>1. RowSaid(Top) \o <<"Else">> \in GoodTexts BY <1>2, <4>2, TextsJoin
          <5>2. 0 \in Nat OBVIOUS
          <5> QED BY <1>4, <1>7, <1>13, <3>3, <4>1, <5>1, <5>2, SaysJoin
        <4>4. (RowSaid(Top) \o <<"Else">>) \o Fill(n) = RowSaid(Top) \o (<<"Else">> \o Fill(n))
          BY <1>2, <1>7, <4>2, Flat3 DEF Assoc
        <4>5. Bracket(Top.fn, Top.at) = 0 BY <2>2 DEF Bracket
        <4>6. Is(tokens, b - 1, {"CR"}) BY <1>13, <2>2, <3>3
        <4> QED BY <1>9, <1>17, <2>2, <2>5, <3>3, <4>3, <4>4, <4>5, <4>6, RowTakes DEF SaysOn, b, n
      <3> QED BY <3>2, <3>3
    <2> QED BY <2>4, <2>6, <2>7
  <1> QED BY <1>8, <1>14, <1>15, <1>16, <1>17

LEMMA RowLengths ==
    /\ Len(Row["parseBinopExpr"]) = 5 /\ Len(Row["parseUnaryopExpr"]) = 4
    /\ Len(Row["parseFnDef"]) = 4 /\ Len(Row["parseArrayExpr"]) = 4
    /\ Len(Row["parseArrayAssignment"]) = 6 /\ Len(Row["parseIfStmt"]) = 6
    /\ Len(Row["parseWhileStmt"]) = 5 /\ Len(Row["parseForStmt"]) = 7
  BY DEF Row, parseBinopExpr, parseUnaryopExpr, parseFnDef, parseArrayExpr,
         parseArrayAssignment, parseIfStmt, parseWhileStmt, parseForStmt

LEMMA LengthsAdd ==
    ASSUME NEW s \in GoodTexts, NEW t \in GoodTexts
    PROVE  Len(s) \in Nat /\ s \o t \in GoodTexts /\ Len(s \o t) = Len(s) + Len(t)
  BY ConcatProperties, LenProperties DEF GoodTexts

(* A row that ends has the children and the operator of its node.          *)
LEMMA RowKidsAtEnd ==
    ASSUME NEW f, Sound(f), f.fn \in DOMAIN Row, f.at = Len(Row[f.fn]) + 1
    PROVE  RowKids(f.fn, f.op, f.kids)
  <1>1. f.kids \in Seq(GoodTexts) /\ f.op \in Tokens \cup {"End", "none"} BY DEF Sound
  <1>2. f.fn \notin KeepsNull => \A i \in 1..Len(f.kids) : f.kids[i] # Null BY DEF Sound
  <1>3. Len(f.kids) = Built[f.fn][Len(Row[f.fn]) + 1] BY DEF Sound
  <1>4. ASSUME f.fn \in DOMAIN HoldsFrom PROVE f.op \in Tokens
    <2>1. f.fn \in {"parseBinopExpr", "parseUnaryopExpr", "parseFnDef"}
      BY <1>4, RowNames DEF HoldsFrom
    <2>4. f.at >= HoldsFrom[f.fn]
      <3>1. HoldsFrom["parseBinopExpr"] = 4 /\ HoldsFrom["parseUnaryopExpr"] = 3
              /\ HoldsFrom["parseFnDef"] = 2
        BY DEF HoldsFrom
      <3>2. CASE f.fn = "parseBinopExpr"
        <4>2. Len(Row[f.fn]) = 5 BY <3>2, RowLengths
        <4>1. f.at = 6 BY <4>2
        <4> QED BY <3>1, <3>2, <4>1
      <3>3. CASE f.fn = "parseUnaryopExpr"
        <4>2. Len(Row[f.fn]) = 4 BY <3>3, RowLengths
        <4>1. f.at = 5 BY <4>2
        <4> QED BY <3>1, <3>3, <4>1
      <3>4. CASE f.fn = "parseFnDef"
        <4>2. Len(Row[f.fn]) = 4 BY <3>4, RowLengths
        <4>1. f.at = 5 BY <4>2
        <4> QED BY <3>1, <3>4, <4>1
      <3> QED BY <2>1, <3>2, <3>3, <3>4
    <2>5. Holds(f.fn, f.at, f.op) BY DEF Sound
    <2> QED BY <1>1, <1>4, <2>1, <2>4, <2>5 DEF Holds
  <1> QED BY <1>1, <1>2, <1>3, <1>4 DEF RowKids

LEMMA EndRowSays ==
    ASSUME ParserInv, ParserInv', TreeInv, CallsSay, EndRow PROVE SaysOn
  <1> DEFINE b == curTokIdx
             t == Text(Top.fn, Top.op, Top.kids)
  <1>1. InRow /\ RowEnded /\ tokens' = tokens /\ curTokIdx' = b
        /\ Return(IF Top.fn = "parseIfStmt" /\ Top.kids[2] = Null THEN Null ELSE t)
    BY DEF EndRow
  <1>2. /\ Top.fn \in DOMAIN Row /\ Top.fn # "parseProgram" /\ Sound(Top)
        /\ Top.at \in Nat /\ Len(Row[Top.fn]) \in Nat
    BY <1>1, RowTop, TopSound DEF ParserInv
  <1>3. Top.at = Len(Row[Top.fn]) + 1
    <2>1. Top.at <= Len(Row[Top.fn]) + 1 /\ Top.at > Len(Row[Top.fn]) BY <1>1, RowTop DEF RowEnded
    <2> QED BY <1>2, <2>1
  <1>4. ~ret.done
    <2>1. ret.done => Top.at <= Len(Row[Top.fn]) BY <1>2 DEF TreeInv, Waits
    <2>2. ret.done \in BOOLEAN BY RetGood
    <2> QED BY <1>2, <1>3, <2>1, <2>2
  <1>5. Top.tokIdx \in 1..b /\ Top.fn \in Functions BY <1>2, AtToken, RowNames
  <1>6. RowKids(Top.fn, Top.op, Top.kids) BY <1>2, <1>3, RowKidsAtEnd
  <1>7. Fill(t) = RowSaid(Top) BY <1>2, <1>3, <1>6, RowFilled, RowSaidEnds
  <1>8. SaysSo(tokens, Top, "here", b) BY <1>4 DEF CallsSay
  <1>9. CASE Top.fn = "parseIfStmt" /\ Top.kids[2] = Null
    <2>1. Return(Null) BY <1>1, <1>9
    <2>2. Result(tokens, Top.fn, Top.tokIdx, b, Null) BY <1>9 DEF Result
    <2> QED BY <1>1, <1>2, <1>5, <2>1, <2>2, ReturnSays DEF SaysOn
  <1>10. CASE ~(Top.fn = "parseIfStmt" /\ Top.kids[2] = Null)
    <2>1. Return(t) BY <1>1, <1>10
    <2>2. /\ Top.fn \in InLine => Clean(tokens, Top.tokIdx, b)
          /\ Says(tokens, Top.tokIdx, b, RowSaid(Top), Bracket(Top.fn, Top.at))
          /\ RowPlace(tokens, Top, "here", b)
      BY <1>1, <1>8, <1>10, RowHere
    <2>3. Bracket(Top.fn, Top.at) = 0
      <3>3. ASSUME Top.fn = "parseArrayExpr" PROVE Top.at = 5
        <4>1. Len(Row[Top.fn]) = 4 BY <3>3, RowLengths
        <4> QED BY <1>3, <4>1
      <3>4. ASSUME Top.fn = "parseArrayAssignment" PROVE Top.at = 7
        <4>1. Len(Row[Top.fn]) = 6 BY <3>4, RowLengths
        <4> QED BY <1>3, <4>1
      <3> QED BY <3>3, <3>4 DEF Bracket
    <2>4. Top.fn \in Unterminated => Is(tokens, b - 1, {"CR"})
      <3>3. Top.fn # "parseStmtBlock" BY <1>2, RowNames
      <3>4. ASSUME Top.fn = "parseIfStmt" PROVE Top.at = 7
        <4>1. Len(Row[Top.fn]) = 6 BY <3>4, RowLengths
        <4> QED BY <1>3, <4>1
      <3>5. ASSUME Top.fn = "parseWhileStmt" PROVE Top.at = 6
        <4>1. Len(Row[Top.fn]) = 5 BY <3>5, RowLengths
        <4> QED BY <1>3, <4>1
      <3>6. ASSUME Top.fn = "parseForStmt" PROVE Top.at = 8
        <4>1. Len(Row[Top.fn]) = 7 BY <3>6, RowLengths
        <4> QED BY <1>3, <4>1
      <3> QED BY <2>2, <3>3, <3>4, <3>5, <3>6 DEF RowPlace, Unterminated
    <2>5. Says(tokens, Top.tokIdx, b, Fill(t), 0) BY <1>7, <2>2, <2>3
    <2>6. Top.fn \notin {"parseStmt", "parseExpr", "parseStmtBlock"} BY <1>2, RowNames
    <2>7. Top.fn = "parseFnDef" => t # Null
      <3>1. SUFFICES ASSUME Top.fn = "parseFnDef", t = Null PROVE FALSE OBVIOUS
      <3> DEFINE X == Pieces(Top.fn, Top.op, Top.kids)
      <3>2. X \in Seq(GoodTexts) /\ Len(X) = Len(Row[Top.fn]) BY <1>6, PiecesFilled
      <3>3. X[1] = <<Top.op>>
        <4>1. Row[Top.fn][1] = Match(TypeTokens)
          <5>1. Row["parseFnDef"] = parseFnDef BY DEF Row
          <5>2. parseFnDef[1] = Match(TypeTokens) BY DEF parseFnDef
          <5> QED BY <3>1, <5>1, <5>2
        <4>2. \A u : TypeTokens # {u} BY DEF TypeTokens
        <4>3. Piece(Top.fn, 1, Top.op, Top.kids) = <<Top.op>> BY <4>1, <4>2, KindPiece
        <4>4. 1 \in 1..Len(Row[Top.fn]) BY <1>2, <3>1, RowsFit DEF Fits
        <4> QED BY <1>6, <4>3, <4>4, PiecesFilled
      <3>4. Len(X) = 4 BY <3>1, <3>2 DEF Row, parseFnDef
      <3>5. t = Run(X) BY <1>6, TextOfPieces
      <3> HIDE DEF X, t
      <3>6. t = X[1] \o X[2] \o X[3] \o X[4] BY <3>2, <3>4, <3>5, RunOf4 DEF GoodTexts
      <3>7. /\ X[1] \in GoodTexts /\ X[2] \in GoodTexts /\ X[3] \in GoodTexts /\ X[4] \in GoodTexts
        BY <3>2, <3>4, ElementOfSeq
      <3> DEFINE y == X[1] \o X[2]
                 z == y \o X[3]
      <3>8. Len(y) = Len(X[1]) + Len(X[2]) /\ y \in GoodTexts
        BY <3>7, LengthsAdd
      <3> HIDE DEF y
      <3>12. Len(z) = Len(y) + Len(X[3]) /\ z \in GoodTexts
        BY <3>7, <3>8, LengthsAdd
      <3> HIDE DEF z
      <3>13. Len(z \o X[4]) = Len(z) + Len(X[4]) BY <3>7, <3>12, LengthsAdd
      <3>14. t = z \o X[4] BY <3>6 DEF y, z
      <3>9. Len(X[1]) = 1 BY <3>3
      <3>10. Len(X[2]) \in Nat /\ Len(X[3]) \in Nat /\ Len(X[4]) \in Nat BY <3>7, LengthsAdd
      <3>11. Len(t) = 0 BY <3>1 DEF Null
      <3>15. Len(t) = 1 + Len(X[2]) + Len(X[3]) + Len(X[4])
        BY <3>8, <3>9, <3>10, <3>12, <3>13, <3>14
      <3>17. \A i, j, k \in Nat : 1 + i + j + k # 0 OBVIOUS
      <3>16. Len(t) # 0 BY <3>10, <3>15, <3>17
      <3> QED BY <3>11, <3>16
    <2>8. Result(tokens, Top.fn, Top.tokIdx, b, t) BY <2>2, <2>4, <2>5, <2>6, <2>7 DEF Result
    <2> HIDE DEF b, t
    <2> QED BY <1>1, <1>2, <1>5, <2>1, <2>8, ReturnSays DEF SaysOn
  <1> QED BY <1>9, <1>10

-----------------------------------------------------------------------------
(* The functions that try alternatives.                                    *)

LEMMA AlternativesFit ==
    /\ \A i \in DOMAIN ExprAlternatives :
          /\ ExprAlternatives[i] \in Functions /\ ExprAlternatives[i] \in InLine
          /\ ExprAlternatives[i] \notin {"parseStmt", "parseVarDecls", "parseArrayDecls", "parseProgram"}
    /\ \A i \in DOMAIN StmtAlternatives : StmtAlternatives[i] \in Functions \ {"parseProgram"}
  <1> DEFINE E == {"parseTrueExpr", "parseFalseExpr", "parseNumberExpr", "parseTernaryExpr",
                   "parseSizeofExpr", "parseInputExpr", "parseArrayExpr", "parseFncallExpr",
                   "parseIdentExpr", "parseBinopExpr", "parseUnaryopExpr"}
  <1>1. \A i \in DOMAIN ExprAlternatives : ExprAlternatives[i] \in E BY DEF ExprAlternatives
  <1>2. \A e \in E : e \in DOMAIN Row BY DEF Row
  <1>3. \A e \in E : e \in InLine BY <1>2 DEF InLine
  <1>4. \A e \in E : e \in Functions BY <1>2 DEF Functions
  <1>5. \A e \in E : e \notin {"parseStmt", "parseVarDecls", "parseArrayDecls", "parseProgram"} OBVIOUS
  <1>6. \A i \in DOMAIN StmtAlternatives : StmtAlternatives[i] \in Functions \ {"parseProgram"}
    <2>1. \A i \in DOMAIN StmtAlternatives : StmtAlternatives[i] \in
             {"parsePrintStmt", "parseAbortStmt", "parseIfStmt", "parseWhileStmt", "parseForStmt",
              "parseVarAssignment", "parseArrayAssignment", "parseReturnStmt"}
             \cup {"parseStmtBlock", "parseVarDecls", "parseArrayDecls", "parseExpr"}
      BY DEF StmtAlternatives
    <2>2. {"parsePrintStmt", "parseAbortStmt", "parseIfStmt", "parseWhileStmt", "parseForStmt",
           "parseVarAssignment", "parseArrayAssignment", "parseReturnStmt"} \subseteq DOMAIN Row
      BY DEF Row
    <2>3. {"parseStmtBlock", "parseVarDecls", "parseArrayDecls", "parseExpr"} \subseteq Functions
      BY DEF Functions
    <2>4. DOMAIN Row \subseteq Functions BY DEF Functions
    <2>5. "parseProgram" \notin DOMAIN Row BY RowNames
    <2> QED BY <2>1, <2>2, <2>3, <2>4, <2>5
  <1> HIDE DEF E
  <1> QED BY <1>1, <1>3, <1>4, <1>5, <1>6

(* The innermost function has called another one, or not.                  *)
LEMMA TopSays ==
    ASSUME ParserInv, TreeInv, CallsSay
    PROVE  /\ \E v \in {"here", "called"} : \E c : SaysSo(tokens, Top, v, c)
           /\ ~ret.done => SaysSo(tokens, Top, "here", curTokIdx)
           /\ ret.done => \E fn \in Functions : \E c \in 1..curTokIdx :
                 /\ Calling(Top, fn) /\ SaysSo(tokens, Top, "called", c)
                 /\ Result(tokens, fn, c, curTokIdx, ret.node)
  BY DEF CallsSay

LEMMA ChoicePlace ==
    ASSUME ParserInv, TreeInv, CallsSay, InChoice
    PROVE  /\ Top.fn = "parseStmt" => LineStart(tokens, Top.tokIdx)
           /\ \A v, c : SaysSo(tokens, Top, v, c) => c = Top.tokIdx
  <1>1. Top.fn \in {"parseExpr", "parseStmt"} BY ChoiceTop
  <1>2. PICK v \in {"here", "called"} : \E c : SaysSo(tokens, Top, v, c) BY TopSays
  <1>5. PICK c : SaysSo(tokens, Top, v, c) BY <1>2
  <1>3. Place(tokens, Top, c) BY <1>5 DEF SaysSo
  <1>4. \A w, d : SaysSo(tokens, Top, w, d) => d = Top.tokIdx BY <1>1 DEF SaysSo, Place
  <1> QED BY <1>3, <1>4 DEF Place

LEMMA TakeSays ==
    ASSUME ParserInv, ParserInv', TreeInv, CallsSay, Take PROVE SaysOn
  <1> DEFINE b == curTokIdx
             a == Top.tokIdx
             n == ret.node
  <1>1. /\ InChoice /\ ret.done /\ n # Null /\ tokens' = tokens /\ Return(n)
        /\ \/ ~NeedsEOL /\ curTokIdx' = b
           \/ NeedsEOL /\ Known /\ curTok = "EOL" /\ curTokIdx' = b + 1
    BY DEF Take, getNextTok, Stay
  <1>2. /\ Top.fn \in {"parseExpr", "parseStmt"} /\ Top.fn \notin DOMAIN Row /\ Top.fn # "parseProgram"
        /\ Top.fn \in Functions
    BY <1>1, ChoiceTop DEF Functions
  <1>3. PICK fn \in Functions, c \in 1..b :
              /\ Calling(Top, fn) /\ SaysSo(tokens, Top, "called", c) /\ Result(tokens, fn, c, b, n)
    BY <1>1, TopSays
  <1>4. c = a BY <1>1, <1>3, ChoicePlace
  <1>5. tokens \in Buffers /\ b \in 1..Len(tokens) + 1 /\ Len(tokens) \in Nat
        /\ (Known => b \in 1..Len(tokens) /\ curTok = tokens[b])
        /\ a \in 1..b
    BY AtToken
  <1>6. fn = Tried /\ (Top.fn = "parseExpr" => fn \in InLine)
    <2>1. CASE Top.fn = "parseExpr"
      <3>1. Top.at - 1 \in DOMAIN ExprAlternatives /\ fn = ExprAlternatives[Top.at - 1]
        BY <1>2, <1>3, <2>1 DEF Calling
      <3> QED BY <2>1, <3>1, AlternativesFit DEF Tried, Alternatives
    <2>2. CASE Top.fn = "parseStmt"
      <3>1. fn = StmtAlternatives[Top.at - 1] BY <1>2, <1>3, <2>2 DEF Calling
      <3> QED BY <2>2, <3>1 DEF Tried, Alternatives
    <2> QED BY <1>2, <2>1, <2>2
  <1>7. /\ Says(tokens, a, b, Fill(n), 0)
        /\ fn \in InLine => Clean(tokens, a, b)
        /\ fn \in Unterminated => Is(tokens, b - 1, {"CR"})
    BY <1>1, <1>3, <1>4 DEF Result
  <1> HIDE DEF a, b, n
  <1>8. Result(tokens, Top.fn, a, curTokIdx', n)
    <2>1. CASE Top.fn = "parseExpr"
      <3>1. curTokIdx' = b BY <1>1, <2>1 DEF NeedsEOL
      <3>2. "parseExpr" \notin Unterminated BY DEF Unterminated
      <3> QED BY <1>1, <1>6, <1>7, <2>1, <3>1, <3>2 DEF Result
    <2>2. CASE Top.fn = "parseStmt" /\ ~NeedsEOL
      <3>1. curTokIdx' = b /\ fn \in Unterminated BY <1>1, <1>6, <2>2 DEF NeedsEOL
      <3>2. LineStart(tokens, b) BY <1>7, <3>1 DEF Is, LineStart
      <3>3. "parseStmt" \notin Unterminated /\ "parseStmt" \notin InLine BY LinesOf DEF Unterminated
      <3> QED BY <1>1, <1>7, <2>2, <3>1, <3>2, <3>3 DEF Result
    <2>3. CASE Top.fn = "parseStmt" /\ NeedsEOL
      <3>1. curTokIdx' = b + 1 /\ b \in 1..Len(tokens) /\ tokens[b] = "EOL" BY <1>1, <1>5, <2>3
      <3>2. Says(tokens, a, b + 1, Fill(n), 0) BY <1>5, <1>7, <3>1, SaysSkip
      <3>3. (b + 1) - 1 = b BY <1>5
      <3>4. LineStart(tokens, b + 1) BY <3>1, <3>3 DEF LineStart
      <3>5. "parseStmt" \notin Unterminated /\ "parseStmt" \notin InLine BY LinesOf DEF Unterminated
      <3> QED BY <1>1, <2>3, <3>1, <3>2, <3>4, <3>5 DEF Result
    <2> QED BY <1>2, <2>1, <2>2, <2>3
  <1>9. a \in 1..curTokIdx' BY <1>1, <1>5
  <1>10. CallsSay' BY <1>1, <1>2, <1>8, <1>9, ReturnSays DEF a
  <1> QED BY <1>10 DEF SaysOn

LEMMA TrySays ==
    ASSUME ParserInv, ParserInv', TreeInv, CallsSay, Try PROVE SaysOn
  <1> DEFINE a == Top.tokIdx
  <1>1. InChoice /\ tokens' = tokens /\ curTokIdx' = a BY DEF Try
  <1>2. PICK i \in Untried : Call(At(i + 1), Alternatives[i], a) BY DEF Try
  <1>3. /\ Top.fn \in {"parseExpr", "parseStmt"} /\ Top.fn \notin DOMAIN Row
        /\ Top.at \in Nat \ {0}
    BY <1>1, ChoiceTop, TopShape
  <1>4. tokens \in Buffers /\ a \in 1..Len(tokens) + 1 /\ Len(tokens) \in Nat
    <2>1. tokens \in Buffers /\ Len(tokens) \in Nat /\ curTokIdx \in 1..Len(tokens) + 1
          /\ a \in 1..curTokIdx
      BY AtToken
    <2> QED BY <2>1
  <1>5. Top.fn = "parseStmt" => LineStart(tokens, a) BY <1>1, ChoicePlace
  <1> DEFINE f == At(i + 1)
             fn == Alternatives[i]
  <1>6. i \in Top.at..Len(Alternatives) /\ Len(Alternatives) \in Nat
        /\ DOMAIN Alternatives = 1..Len(Alternatives)
    <2>1. i \in Top.at..Len(Alternatives) BY DEF Untried
    <2>2. Len(Alternatives) \in Nat BY DEF Alternatives, ExprAlternatives, StmtAlternatives
    <2>4. DOMAIN ExprAlternatives = 1..Len(ExprAlternatives) BY DEF ExprAlternatives
    <2>5. DOMAIN StmtAlternatives = 1..Len(StmtAlternatives) BY DEF StmtAlternatives
    <2>3. DOMAIN Alternatives = 1..Len(Alternatives) BY <2>4, <2>5 DEF Alternatives
    <2> QED BY <2>1, <2>2, <2>3
  <1>7. i \in DOMAIN Alternatives /\ i \in Nat /\ i + 1 # 1 /\ (i + 1) - 1 = i BY <1>3, <1>6
  <1>8. f.fn = Top.fn /\ f.tokIdx = a /\ f.at = i + 1 BY DEF At, Onward
  <1>9. /\ fn \in Functions \ {"parseProgram"}
        /\ fn \in {"parseStmt", "parseVarDecls", "parseArrayDecls"} => LineStart(tokens, a)
        /\ Calling(f, fn)
    <2>1. CASE Top.fn = "parseExpr"
      <3>1. Alternatives = ExprAlternatives BY <2>1 DEF Alternatives
      <3> QED BY <1>7, <1>8, <2>1, <3>1, AlternativesFit DEF Calling
    <2>2. CASE Top.fn = "parseStmt"
      <3>1. Alternatives = StmtAlternatives BY <2>2 DEF Alternatives
      <3> QED BY <1>5, <1>7, <1>8, <2>2, <3>1, AlternativesFit DEF Calling
    <2> QED BY <1>3, <2>1, <2>2
  <1>10. Call(f, fn, a) BY <1>2
  <1> HIDE DEF f, fn, a
  <1>11. Says(tokens, a, a, <<>>, 0) /\ a \in Nat /\ Clean(tokens, a, a)
    BY <1>4, SaysNothing, SpanEnds, CleanSpans
  <1>12. SaysSo(tokens, f, "called", a)
    <2>1. Place(tokens, f, a) BY <1>3, <1>5, <1>7, <1>8, <1>11 DEF Place
    <2>2. LoopSaid(f, "called") = <<>> BY <1>3, <1>8 DEF LoopSaid
    <2>3. LoopSays(tokens, f, "called", a) BY <1>3, <1>8, <1>11, <2>2 DEF LoopSays, Lists
    <2> QED BY <1>3, <1>8, <2>1, <2>3 DEF SaysSo
  <1>13. SaysSo(tokens, Frame(fn, a), "here", a) BY <1>4, <1>9, FrameSays
  <1>14. CallsSay' BY <1>1, <1>8, <1>9, <1>10, <1>12, <1>13, CallSays DEF CallerSays, a
  <1> QED BY <1>14 DEF SaysOn

LEMMA NoAlternativeSays ==
    ASSUME ParserInv, ParserInv', TreeInv, CallsSay, NoAlternative PROVE SaysOn
  <1>1. InChoice /\ tokens' = tokens BY DEF NoAlternative
  <1>2. CASE Top.fn = "parseExpr"
    <2>1. curTokIdx' = Top.tokIdx /\ Return(Null) BY <1>2 DEF NoAlternative
    <2>2. Result(tokens, Top.fn, Top.tokIdx, curTokIdx', Null) BY <1>2, <2>1 DEF Result
    <2>3. Top.tokIdx \in 1..curTokIdx' BY <2>1, AtToken
    <2>4. Top.fn \in Functions /\ Top.fn # "parseProgram" BY <1>2 DEF Functions
    <2>5. CallsSay' BY <1>1, <2>1, <2>2, <2>3, <2>4, ReturnSays
    <2> QED BY <2>5 DEF SaysOn
  <1>3. CASE Top.fn # "parseExpr" BY <1>3 DEF NoAlternative, Throw, SaysOn
  <1> QED BY <1>2, <1>3

-----------------------------------------------------------------------------
(* The functions that parse a list in parentheses.                         *)

(* Whatever parseExpr returns says what it has consumed.                   *)
LEMMA ExprSays ==
    ASSUME NEW s \in Buffers, NEW c \in 1..Len(s) + 1, NEW b, NEW n \in GoodTexts,
           Result(s, "parseExpr", c, b, n)
    PROVE  Says(s, c, b, Fill(n), 0) /\ Clean(s, c, b)
  <1>1. "parseExpr" \in InLine BY LinesOf
  <1>2. CASE n = Null
    <2>1. b = c BY <1>2 DEF Result
    <2>2. Fill(n) = <<>> BY <1>2, FillGood DEF Null
    <2>3. c \in Nat BY SpanEnds
    <2> QED BY <2>1, <2>2, <2>3, SaysNothing, CleanSpans
  <1>3. CASE n # Null BY <1>1, <1>3 DEF Result
  <1> QED BY <1>2, <1>3

(* A further item.                                                         *)
LEMMA ItemsAppend ==
    ASSUME NEW f, NEW g, f.kids \in Seq(GoodTexts), NEW n \in GoodTexts, g.kids = Append(f.kids, n)
    PROVE  /\ Items(f) \in GoodTexts /\ ItemsOn(f) \in GoodTexts
           /\ Items(g) = ItemsOn(f) \o Fill(n)
  <1> DEFINE S == Tokens \cup KnownHoles
             k == Fills(f.kids)
  <1>1. "Comma" \in S BY WordsOfTexts
  <1>2. k \in Seq(Seq(S)) /\ (k = <<>> <=> f.kids = <<>>) BY FillsGood DEF GoodTexts
  <1>3. Fill(n) \in Seq(S) BY FillGood DEF GoodTexts
  <1>4. Fills(g.kids) = Append(k, Fill(n)) BY FillsAppend
  <1>5. Items(f) = Listed(k) /\ Items(g) = Listed(Append(k, Fill(n))) BY <1>4 DEF Items
  <1>6. Comma(f) = IF k = <<>> THEN <<>> ELSE <<"Comma">> BY <1>2 DEF Comma
  <1>7. GoodTexts = Seq(S) BY DEF GoodTexts
  <1> HIDE DEF S, k
  <1>8. Listed(k) \in Seq(S)
        /\ Listed(Append(k, Fill(n))) = Listed(k) \o (IF k = <<>> THEN <<>> ELSE <<"Comma">>) \o Fill(n)
    BY ONLY <1>1, <1>2, <1>3, ListedAppend
  <1>9. Comma(f) \in Seq(S) BY <1>1, <1>6
  <1>10. ItemsOn(f) = Listed(k) \o Comma(f) BY <1>5 DEF ItemsOn
  <1>11. ItemsOn(f) \in Seq(S) BY <1>8, <1>9, <1>10, ConcatProperties
  <1>12. Items(g) = ItemsOn(f) \o Fill(n) BY <1>5, <1>6, <1>8, <1>10
  <1> QED BY <1>5, <1>7, <1>8, <1>11, <1>12

LEMMA ItemsOf ==
    ASSUME NEW f, f.kids \in Seq(GoodTexts)
    PROVE  /\ Items(f) \in GoodTexts /\ ItemsOn(f) \in GoodTexts
           /\ f.kids = <<>> => Items(f) = <<>> /\ ItemsOn(f) = <<>>
           /\ f.kids # <<>> => ItemsOn(f) = Items(f) \o <<"Comma">>
           /\ \A g : g.kids = f.kids => Items(g) = Items(f) /\ ItemsOn(g) = ItemsOn(f)
  <1> DEFINE h == [kids |-> Append(f.kids, <<>>)]
  <1>1. <<>> \in GoodTexts BY TextsJoin
  <1>2. h.kids = Append(f.kids, <<>>) OBVIOUS
  <1> HIDE DEF h
  <1>3. Items(f) \in GoodTexts /\ ItemsOn(f) \in GoodTexts BY <1>1, <1>2, ItemsAppend
  <1>4. ASSUME f.kids = <<>> PROVE Items(f) = <<>> /\ ItemsOn(f) = <<>>
    <2> DEFINE S == Tokens \cup KnownHoles
    <2>1. "Comma" \in S /\ <<>> \in Seq(S) /\ <<>> \in Seq(Seq(S)) BY WordsOfTexts
    <2> HIDE DEF S
    <2>2. Listed(<<>>) = <<>> BY ONLY <2>1, ListedAppend
    <2>3. Fills(f.kids) = <<>> BY <1>4, FillsGood
    <2>4. Items(f) = <<>> BY <2>2, <2>3 DEF Items
    <2>5. ItemsOn(f) = <<>> \o <<>> BY <1>4, <2>4 DEF ItemsOn, Comma
    <2>6. <<>> \o <<>> = <<>> BY <1>1, ConcatEmptySeq DEF GoodTexts
    <2> QED BY <2>4, <2>5, <2>6
  <1>5. f.kids # <<>> => ItemsOn(f) = Items(f) \o <<"Comma">> BY DEF ItemsOn, Comma
  <1>6. \A g : g.kids = f.kids => Items(g) = Items(f) /\ ItemsOn(g) = ItemsOn(f)
    BY DEF Items, ItemsOn, Comma
  <1> QED BY <1>3, <1>4, <1>5, <1>6

LEMMA ListNames ==
    ASSUME NEW fn \in Lists
    PROVE  /\ fn \notin DOMAIN Row /\ fn \in InLine /\ fn \in Functions /\ fn \notin Unterminated
           /\ fn \notin {"parseExpr", "parseStmt", "parseProgram", "parseVarDecls",
                         "parseArrayDecls", "parseStmtBlock", "parseFnDef"}
  BY RowNames, LinesOf DEF Lists, Functions, Unterminated

LEMMA ListSaysSo ==
    ASSUME NEW s, NEW f, f.fn \in Lists, NEW v, NEW b
    PROVE  /\ SaysSo(s, f, v, b) =>
                 /\ f.at = 1 => f.kids = <<>> /\ b = f.tokIdx
                 /\ Clean(s, f.tokIdx, b) /\ Says(s, f.tokIdx, b, LoopSaid(f, v), 0)
                 /\ ListPlace(s, f, v)
           /\ /\ f.at # 1 /\ Clean(s, f.tokIdx, b) /\ Says(s, f.tokIdx, b, LoopSaid(f, v), 0)
              /\ ListPlace(s, f, v)
              => SaysSo(s, f, v, b)
  BY ListNames DEF SaysSo, Place, LoopSays

LEMMA ListGo ==
    ASSUME ParserInv, CallsSay, tokens' = tokens, Top.fn \in Lists, NEW f, Go(f),
           f.fn = Top.fn, f.tokIdx = Top.tokIdx, f.at # 1,
           Clean(tokens, Top.tokIdx, curTokIdx'),
           Says(tokens, Top.tokIdx, curTokIdx', LoopSaid(f, "here"), 0), ListPlace(tokens, f, "here")
    PROVE  SaysOn
  <1>1. SaysSo(tokens, f, "here", curTokIdx') BY ListSaysSo
  <1> QED BY <1>1, GoSays DEF SaysOn

LEMMA ListCalls ==
    ASSUME ParserInv, ParserInv', CallsSay, tokens' = tokens, Top.fn \in Lists,
           NEW f, NEW i, Call(f, "parseExpr", i), curTokIdx' = i,
           f.fn = Top.fn, f.tokIdx = Top.tokIdx, f.at # 1, Calling(f, "parseExpr"),
           Clean(tokens, Top.tokIdx, i),
           Says(tokens, Top.tokIdx, i, LoopSaid(f, "called"), 0), ListPlace(tokens, f, "called")
    PROVE  SaysOn
  <1>1. SaysSo(tokens, f, "called", i) BY ListSaysSo
  <1>2. "parseExpr" \in Functions \ {"parseProgram"} BY DEF Functions
  <1>3. i \in 1..Len(tokens) + 1 /\ tokens \in Buffers
    <2>1. Opens(tokens, Top.tokIdx, i, 0) BY DEF Says
    <2>2. tokens \in Buffers /\ Top.tokIdx \in Nat /\ Top.tokIdx >= 1 BY AtToken
    <2> QED BY <2>1, <2>2 DEF Opens
  <1>4. SaysSo(tokens, Frame("parseExpr", i), "here", i) BY <1>2, <1>3, FrameSays
  <1> QED BY <1>1, <1>4, CallSays DEF SaysOn, CallerSays

LEMMA ListFails ==
    ASSUME ParserInv, ParserInv', CallsSay, tokens' = tokens, Top.fn \in Lists, Return(Null),
           curTokIdx' \in {curTokIdx, curTokIdx + 1}
    PROVE  SaysOn
  <1>1. Result(tokens, Top.fn, Top.tokIdx, curTokIdx', Null) BY ListNames DEF Result
  <1>2. Top.tokIdx \in 1..curTokIdx' /\ Top.fn \in Functions /\ Top.fn # "parseProgram"
    <2>1. Top.tokIdx \in 1..curTokIdx /\ curTokIdx \in Nat BY AtToken
    <2> QED BY <2>1, ListNames
  <1> QED BY <1>1, <1>2, ReturnSays DEF SaysOn

(* The list ends.                                                          *)
LEMMA ListTextFilled ==
    ASSUME NEW fn \in Lists, NEW op, NEW kids \in Seq(GoodTexts),
           fn \notin KeepsNull => \A i \in 1..Len(kids) : kids[i] # Null
    PROVE  /\ Text(fn, op, kids) \in GoodTexts
           /\ Fill(Text(fn, op, kids)) = <<"PL">> \o Listed(Fills(kids)) \o <<"PR">>
  <1> DEFINE k == [i \in DOMAIN kids |-> Or(kids[i], fn)]
  <1>1. Text(fn, op, kids) = Paren(Listed(k))
    <2>1. fn = "parseFnArgs" \/ fn = "parseStringOrExprArgs" \/ fn = "parseFnParams" BY DEF Lists
    <2>2. CASE fn = "parseFnArgs" BY <2>2 DEF Text
    <2>3. CASE fn = "parseStringOrExprArgs" BY <2>3 DEF Text
    <2>4. CASE fn = "parseFnParams" BY <2>4 DEF Text
    <2> QED BY <2>1, <2>2, <2>3, <2>4
  <1>2. \/ \A i \in 1..Len(kids) : kids[i] # Null
        \/ fn \in {"parseFnArgs", "parseIfStmt", "parseTernaryExpr", "parseArrayDecls"}
    BY DEF Lists, KeepsNull
  <1>3. k \in Seq(GoodTexts) /\ Fills(k) = Fills(kids) BY <1>2, FillsOr
  <1> HIDE DEF k
  <1>4. Listed(k) \in GoodTexts BY <1>3, ListedGood
  <1>5. Fill(Listed(k)) = Listed(Fills(kids)) BY <1>3, FillListed
  <1>6. /\ Fill(<<"PL">>) = <<"PL">> /\ Fill(<<"PR">>) = <<"PR">>
        /\ <<"PL">> \in GoodTexts /\ <<"PR">> \in GoodTexts
    BY WordsOfTexts, FillToken
  <1>7. <<"PL">> \o Listed(k) \in GoodTexts BY <1>4, <1>6, TextsJoin
  <1>8. Fill(<<"PL">> \o Listed(k)) = <<"PL">> \o Listed(Fills(kids)) BY <1>4, <1>5, <1>6, FillJoin
  <1>9. Fill((<<"PL">> \o Listed(k)) \o <<"PR">>) = (<<"PL">> \o Listed(Fills(kids))) \o <<"PR">>
    BY <1>6, <1>7, <1>8, FillJoin
  <1>10. Paren(Listed(k)) = (<<"PL">> \o Listed(k)) \o <<"PR">> BY DEF Paren
  <1> QED BY <1>1, <1>6, <1>7, <1>9, <1>10, TextsJoin

(* A token of a list is consumed.                                          *)
LEMMA ListToken ==
    ASSUME NEW s \in Buffers, NEW a \in Nat, NEW b \in 1..Len(s), NEW X \in GoodTexts,
           Says(s, a, b, X, 0), Clean(s, a, b), s[b] \in Tokens,
           s[b] \notin {"EOL", "CR", "SL", "SR"}, s[b] # "Comma" \/ Is(s, a, {"PL"})
    PROVE  Says(s, a, b + 1, X \o <<s[b]>>, 0) /\ Clean(s, a, b + 1)
  <1>1. b \in Nat /\ Isnt(s, b, {"EOL", "CR"}) BY DEF Isnt
  <1>2. Clean(s, a, b + 1) BY <1>1, CleanSpans
  <1>3. ~DeclComma(s, b)
    <2>1. CASE s[b] # "Comma" BY <2>1, NotDeclComma
    <2>2. CASE s[b] = "Comma"
      <3>1. s[a] = "PL" BY <2>2 DEF Is
      <3>2. a \in 1..b BY DEF Says, Opens
      <3>3. a < b BY <1>1, <2>2, <3>1, <3>2
      <3> QED BY <1>1, <3>1, <3>3, NotDeclComma
    <2> QED BY <2>1, <2>2
  <1>4. 0 = 0 + Opened(s[b]) BY DEF Opened
  <1>5. 0 \in Nat OBVIOUS
  <1> QED BY <1>2, <1>3, <1>4, <1>5, SaysToken

LEMMA ListEnds ==
    ASSUME ParserInv, ParserInv', TreeInv, CallsSay, tokens' = tokens, Top.fn \in Lists,
           Consume("PR"), Return(Text(Top.fn, "none", Top.kids)),
           Clean(tokens, Top.tokIdx, curTokIdx),
           Says(tokens, Top.tokIdx, curTokIdx, <<"PL">> \o Items(Top), 0)
    PROVE  SaysOn
  <1> DEFINE b == curTokIdx
             t == Text(Top.fn, "none", Top.kids)
  <1>1. Known /\ curTok = "PR" /\ curTokIdx' = b + 1 BY DEF Consume, getNextTok
  <1>2. tokens \in Buffers /\ b \in 1..Len(tokens) /\ tokens[b] = "PR" /\ Top.tokIdx \in 1..b
        /\ b \in Nat /\ Len(tokens) \in Nat
    BY <1>1, AtToken
  <1>3. Sound(Top) /\ Top.kids \in Seq(GoodTexts) BY TopSound DEF ParserInv
  <1>4. t \in GoodTexts /\ Fill(t) = <<"PL">> \o Listed(Fills(Top.kids)) \o <<"PR">>
    BY <1>3, ListTextFilled DEF Sound
  <1> HIDE DEF t
  <1>5. Items(Top) \in GoodTexts /\ <<"PL">> \in GoodTexts BY <1>3, ItemsOf, WordsOfTexts, FillToken
  <1>6. <<"PL">> \o Items(Top) \in GoodTexts BY <1>5, TextsJoin
  <1>7. Says(tokens, Top.tokIdx, b + 1, (<<"PL">> \o Items(Top)) \o <<"PR">>, 0)
        /\ Clean(tokens, Top.tokIdx, b + 1)
    <2>1. Top.tokIdx \in Nat /\ "PR" \in Tokens BY <1>2, WordsOfTexts
    <2> QED BY <1>2, <1>6, <2>1, ListToken
  <1>8. Says(tokens, Top.tokIdx, b + 1, Fill(t), 0) BY <1>4, <1>7 DEF Items
  <1>9. t # Null
    <2>1. SUFFICES ASSUME t = <<>> PROVE FALSE BY DEF Null
    <2>2. Fill(t) = <<>> BY <2>1, <1>4, FillGood
    <2>3. Len((<<"PL">> \o Items(Top)) \o <<"PR">>) = Len(<<"PL">> \o Items(Top)) + Len(<<"PR">>)
          /\ Len(<<"PL">> \o Items(Top)) \in Nat
      BY <1>6, WordsOfTexts, FillToken, LengthsAdd
    <2>4. Len((<<"PL">> \o Items(Top)) \o <<"PR">>) = 0 BY <1>4, <2>2 DEF Items
    <2>5. Len(<<"PR">>) = 1 OBVIOUS
    <2> QED BY <2>3, <2>4, <2>5
  <1>10. Result(tokens, Top.fn, Top.tokIdx, b + 1, t) BY <1>7, <1>8, <1>9, ListNames DEF Result
  <1>11. Top.tokIdx \in 1..b + 1 /\ Top.fn \in Functions /\ Top.fn # "parseProgram"
    BY <1>2, ListNames
  <1>12. Return(t) BY DEF t
  <1> QED BY <1>1, <1>10, <1>11, <1>12, ReturnSays DEF SaysOn

-----------------------------------------------------------------------------

(* What a list has said, and with what it may go on.                       *)
LEMMA ListHere ==
    ASSUME ParserInv, TreeInv, CallsSay, Top.fn \in Lists
    PROVE  /\ tokens \in Buffers /\ Top.tokIdx \in Nat /\ curTokIdx \in Nat
           /\ Top.kids \in Seq(GoodTexts) /\ Top.at \in Nat \ {0}
           /\ ~ret.done =>
                 /\ Clean(tokens, Top.tokIdx, curTokIdx)
                 /\ Says(tokens, Top.tokIdx, curTokIdx, LoopSaid(Top, "here"), 0)
                 /\ ListPlace(tokens, Top, "here")
                 /\ Top.at = 1 => Top.kids = <<>> /\ curTokIdx = Top.tokIdx
           /\ ret.done =>
                 /\ Calling(Top, "parseExpr") /\ ListPlace(tokens, Top, "called") /\ Top.at # 1
                 /\ ret.node \in GoodTexts /\ Fill(ret.node) \in GoodTexts
                 /\ Clean(tokens, Top.tokIdx, curTokIdx)
                 /\ LoopSaid(Top, "called") \in GoodTexts =>
                       Says(tokens, Top.tokIdx, curTokIdx, LoopSaid(Top, "called") \o Fill(ret.node), 0)
  <1> DEFINE a == Top.tokIdx
             b == curTokIdx
  <1>1. tokens \in Buffers /\ a \in 1..b /\ b \in 1..Len(tokens) + 1 /\ Len(tokens) \in Nat
    BY AtToken
  <1>2. a \in Nat /\ b \in Nat BY <1>1
  <1>3. Top.kids \in Seq(GoodTexts) /\ Top.at \in Nat \ {0} BY TopSound DEF ParserInv
  <1>4. ASSUME ~ret.done
        PROVE  /\ Clean(tokens, a, b) /\ Says(tokens, a, b, LoopSaid(Top, "here"), 0)
               /\ ListPlace(tokens, Top, "here")
               /\ Top.at = 1 => Top.kids = <<>> /\ b = a
    BY <1>4, TopSays, ListSaysSo
  <1>5. ASSUME ret.done
        PROVE  /\ Calling(Top, "parseExpr") /\ ListPlace(tokens, Top, "called") /\ Top.at # 1
               /\ ret.node \in GoodTexts /\ Fill(ret.node) \in GoodTexts
               /\ Clean(tokens, a, b)
               /\ LoopSaid(Top, "called") \in GoodTexts =>
                     Says(tokens, a, b, LoopSaid(Top, "called") \o Fill(ret.node), 0)
    <2>1. PICK fn \in Functions, c \in 1..b :
                /\ Calling(Top, fn) /\ SaysSo(tokens, Top, "called", c)
                /\ Result(tokens, fn, c, b, ret.node)
      BY <1>5, TopSays
    <2>2. fn = "parseExpr" /\ Top.at # 1 BY <2>1, ListNames DEF Calling, Lists
    <2>3. ret.node \in GoodTexts /\ Fill(ret.node) \in GoodTexts BY RetGood, FillGood
    <2>4. c \in 1..Len(tokens) + 1 /\ c \in Nat BY <1>1
    <2>5. Says(tokens, c, b, Fill(ret.node), 0) /\ Clean(tokens, c, b)
      BY <1>1, <2>1, <2>2, <2>3, <2>4, ExprSays
    <2>6. /\ Clean(tokens, a, c) /\ Says(tokens, a, c, LoopSaid(Top, "called"), 0)
          /\ ListPlace(tokens, Top, "called")
      BY <2>1, ListSaysSo
    <2>7. Clean(tokens, a, b) BY <1>1, <1>2, <2>4, <2>5, <2>6, CleanSpans
    <2>8. 0 \in Nat OBVIOUS
    <2> HIDE DEF a, b
    <2>9. LoopSaid(Top, "called") \in GoodTexts =>
             Says(tokens, a, b, LoopSaid(Top, "called") \o Fill(ret.node), 0)
      BY <1>1, <2>3, <2>5, <2>6, <2>8, SaysJoin
    <2> QED BY <2>1, <2>2, <2>3, <2>6, <2>7, <2>9
  <1> QED BY <1>1, <1>2, <1>3, <1>4, <1>5

(* The parenthesis that a list begins with.                                *)
LEMMA ListBegins ==
    ASSUME ParserInv, TreeInv, CallsSay, tokens' = tokens, Top.fn \in Lists, Top.at = 1, ~ret.done,
           Consume("PL"), Go(At(2))
    PROVE  SaysOn
  <1> DEFINE b == curTokIdx
             f == At(2)
  <1>1. Known /\ curTok = "PL" /\ curTokIdx' = b + 1 BY DEF Consume, getNextTok
  <1>2. tokens \in Buffers /\ b \in 1..Len(tokens) /\ tokens[b] = "PL" BY <1>1, AtToken
  <1>3. Top.kids = <<>> /\ b = Top.tokIdx /\ b \in Nat /\ Clean(tokens, b, b) BY ListHere
  <1>4. b \in 1..Len(tokens) + 1
    <2>1. Len(tokens) \in Nat BY AtToken
    <2> QED BY <1>2, <2>1
  <1>5. Says(tokens, b, b, <<>>, 0) BY <1>2, <1>4, SaysNothing
  <1>6. Says(tokens, b, b + 1, <<>> \o <<"PL">>, 0) /\ Clean(tokens, b, b + 1)
    BY <1>2, <1>3, <1>5, TextsJoin, WordsOfTexts, ListToken
  <1>7. <<"PL">> \in GoodTexts BY WordsOfTexts, FillToken
  <1>8. <<>> \o <<"PL">> = <<"PL">> /\ <<"PL">> \o <<>> = <<"PL">>
    BY <1>7, ConcatEmptySeq DEF GoodTexts
  <1>9. f.fn = Top.fn /\ f.tokIdx = Top.tokIdx /\ f.at = 2 /\ f.kids = Top.kids BY DEF At, Onward
  <1>10. Go(f) OBVIOUS
  <1> HIDE DEF f, b
  <1>11. f.kids \in Seq(GoodTexts) /\ Items(f) = <<>> BY <1>3, <1>9, ListHere, ItemsOf
  <1>12. LoopSaid(f, "here") = <<"PL">> \o Items(f)
    BY <1>9 DEF LoopSaid, Lists
  <1>13. ListPlace(tokens, f, "here")
    <2>1. Is(tokens, f.tokIdx, {"PL"}) BY <1>2, <1>3, <1>9 DEF Is
    <2> QED BY <1>3, <1>9, <2>1 DEF ListPlace
  <1>14. Says(tokens, Top.tokIdx, curTokIdx', LoopSaid(f, "here"), 0)
    BY <1>1, <1>3, <1>6, <1>8, <1>11, <1>12
  <1>15. Clean(tokens, Top.tokIdx, curTokIdx') BY <1>1, <1>3, <1>6
  <1> QED BY <1>9, <1>10, <1>13, <1>14, <1>15, ListGo

(* A text that begins with a parenthesis goes on.                          *)
LEMMA ParenOn ==
    ASSUME NEW x \in GoodTexts, NEW y \in GoodTexts
    PROVE  /\ <<"PL">> \in GoodTexts /\ <<"PL">> \o x \in GoodTexts
           /\ (<<"PL">> \o x) \o y = <<"PL">> \o (x \o y)
  <1>1. <<"PL">> \in GoodTexts BY WordsOfTexts, FillToken
  <1>2. <<"PL">> \o x \in GoodTexts BY <1>1, TextsJoin
  <1>3. (<<"PL">> \o x) \o y = <<"PL">> \o (x \o y) BY <1>1, Flat3 DEF Assoc
  <1> QED BY <1>1, <1>2, <1>3

(* A comma.                                                                *)
LEMMA ListComma ==
    ASSUME ParserInv, TreeInv, CallsSay, Top.fn \in Lists, ~ret.done, Consume("Comma"),
           LoopSaid(Top, "here") = <<"PL">> \o Items(Top), Top.at > 1, Top.kids # <<>>
    PROVE  /\ Says(tokens, Top.tokIdx, curTokIdx + 1, <<"PL">> \o ItemsOn(Top), 0)
           /\ Clean(tokens, Top.tokIdx, curTokIdx + 1)
  <1> DEFINE b == curTokIdx
  <1>1. Known /\ curTok = "Comma" BY DEF Consume
  <1>2. tokens \in Buffers /\ b \in 1..Len(tokens) /\ tokens[b] = "Comma" BY <1>1, AtToken
  <1>3. /\ Clean(tokens, Top.tokIdx, b) /\ Says(tokens, Top.tokIdx, b, LoopSaid(Top, "here"), 0)
        /\ ListPlace(tokens, Top, "here") /\ Top.tokIdx \in Nat /\ Top.kids \in Seq(GoodTexts)
    BY ListHere
  <1>4. Is(tokens, Top.tokIdx, {"PL"}) BY <1>3 DEF ListPlace
  <1>5. Items(Top) \in GoodTexts /\ ItemsOn(Top) = Items(Top) \o <<"Comma">> BY <1>3, ItemsOf
  <1>6. <<"Comma">> \in GoodTexts /\ "Comma" \in Tokens BY WordsOfTexts, FillToken
  <1>7. <<"PL">> \o Items(Top) \in GoodTexts
        /\ (<<"PL">> \o Items(Top)) \o <<"Comma">> = <<"PL">> \o (Items(Top) \o <<"Comma">>)
    BY <1>5, <1>6, ParenOn
  <1> HIDE DEF b
  <1>8. Says(tokens, Top.tokIdx, b + 1, (<<"PL">> \o Items(Top)) \o <<"Comma">>, 0)
        /\ Clean(tokens, Top.tokIdx, b + 1)
    BY <1>2, <1>3, <1>4, <1>6, <1>7, ListToken
  <1> QED BY <1>5, <1>7, <1>8 DEF b

(* An item has been parsed.                                                *)
LEMMA ListItem ==
    ASSUME ParserInv, TreeInv, CallsSay, Top.fn \in Lists, NEW n \in GoodTexts, NEW f,
           f.kids = Append(Top.kids, n)
    PROVE  /\ f.kids # <<>>
           /\ <<"PL">> \o Items(f) = (<<"PL">> \o ItemsOn(Top)) \o Fill(n)
           /\ <<"PL">> \o ItemsOn(Top) \in GoodTexts /\ <<"PL">> \o Items(Top) \in GoodTexts
  <1>1. Top.kids \in Seq(GoodTexts) BY ListHere
  <1>2. f.kids # <<>> BY <1>1, PushLemma
  <1>3. ItemsOn(Top) \in GoodTexts /\ Items(f) = ItemsOn(Top) \o Fill(n) /\ Items(Top) \in GoodTexts
    BY <1>1, ItemsAppend
  <1>4. Fill(n) \in GoodTexts BY FillGood
  <1> QED BY <1>2, <1>3, <1>4, ParenOn

(* Items separated by commas, when none or the last of them has been said. *)
LEMMA ListSaid ==
    ASSUME NEW f, f.fn = "parseFnArgs" \/ f.fn = "parseStringOrExprArgs", f.at = 3
    PROVE  LoopSaid(f, "here") = <<"PL">> \o Items(f)
  <1>1. CASE f.fn = "parseFnArgs" BY <1>1 DEF LoopSaid
  <1>2. CASE f.fn = "parseStringOrExprArgs" BY <1>2 DEF LoopSaid
  <1> QED BY <1>1, <1>2

LEMMA ListTakes ==
    ASSUME ParserInv, TreeInv, CallsSay, tokens' = tokens,
           Top.fn = "parseFnArgs" \/ Top.fn = "parseStringOrExprArgs",
           NEW n \in GoodTexts, Go(With(3, n)), NEW b, curTokIdx' = b, Top.at # 1,
           Is(tokens, Top.tokIdx, {"PL"}), Clean(tokens, Top.tokIdx, b),
           Says(tokens, Top.tokIdx, b, (<<"PL">> \o ItemsOn(Top)) \o Fill(n), 0)
    PROVE  SaysOn
  <1> DEFINE f == With(3, n)
             a == Top.tokIdx
  <1>1. f.fn = Top.fn /\ f.tokIdx = a /\ f.at = 3 /\ f.kids = Append(Top.kids, n)
    BY DEF With, Onward
  <1>2. Go(f) OBVIOUS
  <1> HIDE DEF f
  <1>3. Top.fn \in Lists BY DEF Lists
  <1>4. f.kids # <<>> /\ <<"PL">> \o Items(f) = (<<"PL">> \o ItemsOn(Top)) \o Fill(n)
    BY <1>1, <1>3, ListItem
  <1>5. LoopSaid(f, "here") = <<"PL">> \o Items(f) BY <1>1, ListSaid
  <1>6. ListPlace(tokens, f, "here") BY <1>1, <1>4 DEF ListPlace
  <1>7. Says(tokens, a, curTokIdx', LoopSaid(f, "here"), 0) BY <1>4, <1>5
  <1>8. Clean(tokens, a, curTokIdx') /\ f.at # 1 BY <1>1
  <1> QED BY <1>1, <1>2, <1>3, <1>6, <1>7, <1>8, ListGo

LEMMA FnArgsSays ==
    ASSUME ParserInv, ParserInv', TreeInv, CallsSay, parseFnArgs PROVE SaysOn
  <1> DEFINE a == Top.tokIdx
             b == curTokIdx
  <1>1. Top.fn = "parseFnArgs" /\ Top.fn \in Lists /\ tokens' = tokens BY DEF parseFnArgs, In, Lists
  <1>2. /\ tokens \in Buffers /\ a \in Nat /\ b \in Nat /\ Top.kids \in Seq(GoodTexts)
        /\ Top.at \in Nat \ {0}
    BY <1>1, ListHere
  <1>3. ret.done \in BOOLEAN /\ (ret.done => Top.at = 3)
    <2>1. ret.done => Calling(Top, "parseExpr") BY <1>1, ListHere
    <2> QED BY <1>1, <2>1, ListNames, RetGood DEF Calling
  <1>4. \A f, v : f.fn = "parseFnArgs" /\ f.at # 1 =>
           LoopSaid(f, v) = <<"PL">> \o (IF v = "called" THEN ItemsOn(f) ELSE Items(f))
    BY DEF LoopSaid
  <1>5. /\ Items(Top) \in GoodTexts /\ (Top.kids = <<>> => Items(Top) = <<>> /\ ItemsOn(Top) = <<>>)
        /\ \A g : g.kids = Top.kids => Items(g) = Items(Top) /\ ItemsOn(g) = ItemsOn(Top)
    BY <1>2, ItemsOf
  <1>6. ~ret.done => /\ Clean(tokens, a, b) /\ Says(tokens, a, b, LoopSaid(Top, "here"), 0)
                     /\ ListPlace(tokens, Top, "here")
    BY <1>1, ListHere
  <1>7. CASE Top.at = 1 /\ Consume("PL") /\ Go(At(2)) BY <1>1, <1>3, <1>7, ListBegins
  <1>8. CASE Miss({"PL"}) /\ Return(Null) BY <1>1, <1>8, ListFails DEF Miss, Stay
  <1>9. CASE Top.at \in {2, 3} /\ ~ret.done /\ Consume("PR") /\ Return(Text(Top.fn, "none", Top.kids))
    <2>1. LoopSaid(Top, "here") = <<"PL">> \o Items(Top) BY <1>1, <1>4, <1>9
    <2> QED BY <1>1, <1>6, <1>9, <2>1, ListEnds
  <1>10. CASE Top.at = 2 /\ Miss({"PR"}) /\ Call(At(3), "parseExpr", b)
    <2> DEFINE f == At(3)
    <2>1. f.fn = Top.fn /\ f.tokIdx = a /\ f.at = 3 /\ f.kids = Top.kids BY DEF At, Onward
    <2>2. ~ret.done BY <1>3, <1>10
    <2>3. curTokIdx' = b BY <1>10 DEF Miss, Stay
    <2>4. Call(f, "parseExpr", b) BY <1>10
    <2> HIDE DEF f
    <2>5. Top.kids = <<>> /\ Is(tokens, a, {"PL"}) BY <1>6, <1>10, <2>2 DEF ListPlace
    <2>6. LoopSaid(f, "called") = LoopSaid(Top, "here")
      <3>1. ItemsOn(f) = <<>> /\ Items(Top) = <<>> BY <1>5, <2>1, <2>5
      <3>2. LoopSaid(f, "called") = <<"PL">> \o ItemsOn(f) BY <1>1, <1>4, <2>1
      <3>3. LoopSaid(Top, "here") = <<"PL">> \o Items(Top) BY <1>1, <1>4, <1>10
      <3> QED BY <3>1, <3>2, <3>3
    <2>7. ListPlace(tokens, f, "called") BY <1>1, <2>1, <2>5 DEF ListPlace
    <2>8. Calling(f, "parseExpr") BY <1>1, <2>1 DEF Calling
    <2> QED BY <1>1, <1>6, <2>1, <2>2, <2>3, <2>4, <2>6, <2>7, <2>8, ListCalls
  <1>11. CASE Top.at = 3 /\ ~ret.done /\ Consume("Comma") /\ Call(Top, "parseExpr", b + 1)
    <2>1. LoopSaid(Top, "here") = <<"PL">> \o Items(Top)
            /\ LoopSaid(Top, "called") = <<"PL">> \o ItemsOn(Top)
      BY <1>1, <1>4, <1>11
    <2>2. Top.kids # <<>> /\ Is(tokens, a, {"PL"}) BY <1>1, <1>6, <1>11 DEF ListPlace
    <2>7. Top.at > 1 /\ ~ret.done /\ Consume("Comma") BY <1>11
    <2>3. Says(tokens, a, b + 1, LoopSaid(Top, "called"), 0) /\ Clean(tokens, a, b + 1)
      BY <1>1, <2>1, <2>2, <2>7, ListComma
    <2>4. ListPlace(tokens, Top, "called") BY <1>1, <1>11, <2>2 DEF ListPlace
    <2>5. Calling(Top, "parseExpr") BY <1>1, <1>11 DEF Calling
    <2>6. curTokIdx' = b + 1 BY <1>11 DEF Consume, getNextTok
    <2> QED BY <1>1, <1>11, <2>3, <2>4, <2>5, <2>6, ListCalls
  <1>12. CASE Miss({"PR", "Comma"}) /\ Return(Null) BY <1>1, <1>12, ListFails DEF Miss, Stay
  <1>13. CASE Top.at = 3 /\ ret.done /\ Stay /\ Go(With(3, ret.node))
    <2>1. LoopSaid(Top, "called") = <<"PL">> \o ItemsOn(Top) BY <1>1, <1>4, <1>13
    <2>2. curTokIdx' = b /\ Go(With(3, ret.node)) BY <1>13 DEF Stay
    <2>3. /\ ListPlace(tokens, Top, "called") /\ ret.node \in GoodTexts /\ Clean(tokens, a, b)
          /\ LoopSaid(Top, "called") \in GoodTexts =>
                Says(tokens, a, b, LoopSaid(Top, "called") \o Fill(ret.node), 0)
      BY <1>1, <1>13, ListHere
    <2>4. <<"PL">> \o ItemsOn(Top) \in GoodTexts BY <1>2, ItemsOf, ParenOn
    <2>5. Says(tokens, a, b, (<<"PL">> \o ItemsOn(Top)) \o Fill(ret.node), 0) BY <2>1, <2>3, <2>4
    <2>6. Is(tokens, a, {"PL"}) /\ Top.at # 1 BY <1>13, <2>3 DEF ListPlace
    <2> QED BY <1>1, <2>2, <2>3, <2>5, <2>6, ListTakes
  <1>14. \/ Top.at = 1 /\ Consume("PL") /\ Go(At(2))
         \/ Miss({"PL"}) /\ Return(Null)
         \/ Top.at \in {2, 3} /\ ~ret.done /\ Consume("PR") /\ Return(Text(Top.fn, "none", Top.kids))
         \/ Top.at = 2 /\ Miss({"PR"}) /\ Call(At(3), "parseExpr", b)
         \/ Top.at = 3 /\ ~ret.done /\ Consume("Comma") /\ Call(Top, "parseExpr", b + 1)
         \/ Miss({"PR", "Comma"}) /\ Return(Null)
         \/ Top.at = 3 /\ ret.done /\ Stay /\ Go(With(3, ret.node))
    BY Zenon DEF parseFnArgs
  <1> QED BY <1>7, <1>8, <1>9, <1>10, <1>11, <1>12, <1>13, <1>14

-----------------------------------------------------------------------------

(* Another token than the comma.                                           *)
LEMMA ListWord ==
    ASSUME ParserInv, TreeInv, CallsSay, Top.fn \in Lists, ~ret.done, Known,
           NEW t \in Tokens, curTok = t, t \notin {"EOL", "CR", "SL", "SR", "Comma"},
           NEW X \in GoodTexts, LoopSaid(Top, "here") = X
    PROVE  /\ Says(tokens, Top.tokIdx, curTokIdx + 1, X \o <<t>>, 0)
           /\ Clean(tokens, Top.tokIdx, curTokIdx + 1) /\ <<t>> \in GoodTexts /\ Fill(<<t>>) = <<t>>
  <1> DEFINE b == curTokIdx
  <1>1. tokens \in Buffers /\ b \in 1..Len(tokens) /\ tokens[b] = t BY AtToken
  <1>2. Clean(tokens, Top.tokIdx, b) /\ Says(tokens, Top.tokIdx, b, X, 0) /\ Top.tokIdx \in Nat
    BY ListHere
  <1> HIDE DEF b
  <1>3. Says(tokens, Top.tokIdx, b + 1, X \o <<tokens[b]>>, 0) /\ Clean(tokens, Top.tokIdx, b + 1)
    BY <1>1, <1>2, ListToken
  <1> QED BY <1>1, <1>3, FillToken DEF b

LEMMA StringOrExprArgsSays ==
    ASSUME ParserInv, ParserInv', TreeInv, CallsSay, parseStringOrExprArgs PROVE SaysOn
  <1> DEFINE a == Top.tokIdx
             b == curTokIdx
  <1>1. /\ Top.fn = "parseStringOrExprArgs" /\ Top.fn \in Lists /\ tokens' = tokens
    BY DEF parseStringOrExprArgs, In, Lists
  <1>2. /\ tokens \in Buffers /\ a \in Nat /\ b \in Nat /\ Top.kids \in Seq(GoodTexts)
        /\ Top.at \in Nat \ {0}
    BY <1>1, ListHere
  <1>3. ret.done \in BOOLEAN /\ (ret.done => Top.at \in {2, 4})
    <2>1. ret.done => Calling(Top, "parseExpr") BY <1>1, ListHere
    <2> QED BY <1>1, <2>1, ListNames, RetGood DEF Calling
  <1>4. ~ret.done => /\ Clean(tokens, a, b) /\ Says(tokens, a, b, LoopSaid(Top, "here"), 0)
                     /\ ListPlace(tokens, Top, "here")
    BY <1>1, ListHere
  <1>5. /\ Items(Top) \in GoodTexts /\ (Top.kids = <<>> => Items(Top) = <<>> /\ ItemsOn(Top) = <<>>)
        /\ \A g : g.kids = Top.kids => Items(g) = Items(Top) /\ ItemsOn(g) = ItemsOn(Top)
        /\ ItemsOn(Top) \in GoodTexts
    BY <1>2, ItemsOf
  <1>6. \A f, v : f.fn = "parseStringOrExprArgs" /\ f.at # 1 =>
           LoopSaid(f, v) = <<"PL">> \o (IF f.at = 4 THEN ItemsOn(f) ELSE Items(f))
    BY DEF LoopSaid
  <1>7. <<"PL">> \o ItemsOn(Top) \in GoodTexts /\ <<"PL">> \o Items(Top) \in GoodTexts
    BY <1>5, ParenOn
  <1>8. ASSUME Top.at \in {2, 4}
        PROVE  /\ \A v : LoopSaid(Top, v) = <<"PL">> \o ItemsOn(Top)
               /\ Is(tokens, a, {"PL"}) /\ ListPlace(tokens, Top, "called")
    <2>1. ListPlace(tokens, Top, "here") \/ ListPlace(tokens, Top, "called")
      BY <1>1, <1>3, <1>4, ListHere
    <2>2. /\ Top.at = 2 => Top.kids = <<>>
          /\ Is(tokens, a, {"PL"}) /\ ListPlace(tokens, Top, "called")
      BY <1>1, <1>8, <2>1 DEF ListPlace
    <2>3. CASE Top.at = 2
      <3>1. \A v : LoopSaid(Top, v) = <<"PL">> \o Items(Top) BY <1>1, <1>6, <2>3
      <3> QED BY <1>5, <2>2, <2>3, <3>1
    <2>4. CASE Top.at = 4
      <3>1. \A v : LoopSaid(Top, v) = <<"PL">> \o ItemsOn(Top) BY <1>1, <1>6, <2>4
      <3> QED BY <2>2, <3>1
    <2> QED BY <1>8, <2>3, <2>4
  <1>9. CASE Top.at = 1 /\ Consume("PL") /\ Go(At(2)) BY <1>1, <1>3, <1>9, ListBegins
  <1>10. CASE Return(Null) /\ (Stay \/ Consume("PR"))
    <2>1. curTokIdx' \in {curTokIdx, curTokIdx + 1} BY <1>10 DEF Stay, Consume, getNextTok
    <2> QED BY <1>1, <1>10, <2>1, ListFails
  <1>11. CASE /\ Top.at \in {2, 3} /\ ~ret.done /\ Consume("PR")
              /\ Return(Text(Top.fn, "none", Top.kids))
    <2>1. LoopSaid(Top, "here") = <<"PL">> \o Items(Top) BY <1>1, <1>6, <1>11
    <2> QED BY <1>1, <1>4, <1>11, <2>1, ListEnds
  <1>12. CASE Top.at = 3 /\ ~ret.done /\ Consume("Comma") /\ Go(At(4))
    <2> DEFINE f == At(4)
    <2>1. f.fn = Top.fn /\ f.tokIdx = a /\ f.at = 4 /\ f.kids = Top.kids BY DEF At, Onward
    <2>2. Go(f) /\ curTokIdx' = b + 1 BY <1>12 DEF Consume, getNextTok
    <2> HIDE DEF f
    <2>3. LoopSaid(Top, "here") = <<"PL">> \o Items(Top) BY <1>1, <1>6, <1>12
    <2>4. Top.kids # <<>> /\ Is(tokens, a, {"PL"}) BY <1>1, <1>4, <1>12 DEF ListPlace
    <2>5. Top.at > 1 /\ ~ret.done /\ Consume("Comma") BY <1>12
    <2>6. Says(tokens, a, b + 1, <<"PL">> \o ItemsOn(Top), 0) /\ Clean(tokens, a, b + 1)
      BY <1>1, <2>3, <2>4, <2>5, ListComma
    <2>7. LoopSaid(f, "here") = <<"PL">> \o ItemsOn(Top)
      <3>1. LoopSaid(f, "here") = <<"PL">> \o ItemsOn(f) BY <1>1, <1>6, <2>1
      <3> QED BY <1>5, <2>1, <3>1
    <2>8. ListPlace(tokens, f, "here") BY <2>1, <2>4 DEF ListPlace
    <2>9. Says(tokens, a, curTokIdx', LoopSaid(f, "here"), 0) BY <2>2, <2>6, <2>7, Zenon
    <2>10. Clean(tokens, a, curTokIdx') BY <2>2, <2>6, Zenon
    <2>11. f.at # 1 BY <2>1
    <2> QED BY <1>1, <2>1, <2>2, <2>8, <2>9, <2>10, <2>11, ListGo
  <1>13. CASE Top.at \in {2, 4} /\ ~ret.done /\ Consume("Literal_string") /\ PushString
    <2>1. Known /\ curTok = "Literal_string" /\ curTokIdx' = b + 1 BY <1>13 DEF Consume, getNextTok
    <2>2. LoopSaid(Top, "here") = <<"PL">> \o ItemsOn(Top) /\ Is(tokens, a, {"PL"}) BY <1>8, <1>13
    <2>3. "Literal_string" \in Tokens BY WordsOfTexts
    <2> DEFINE n == <<"Literal_string">>
    <2>4. /\ Says(tokens, a, b + 1, (<<"PL">> \o ItemsOn(Top)) \o n, 0)
          /\ Clean(tokens, a, b + 1) /\ n \in GoodTexts /\ Fill(n) = n
      BY <1>1, <1>7, <1>13, <2>1, <2>2, <2>3, ListWord
    <2>5. Go(With(3, n)) /\ Top.at # 1 BY <1>13 DEF PushString
    <2> HIDE DEF n
    <2>6. Says(tokens, a, b + 1, (<<"PL">> \o ItemsOn(Top)) \o Fill(n), 0) BY <2>4
    <2> QED BY <1>1, <2>1, <2>2, <2>4, <2>5, <2>6, ListTakes
  <1>14. CASE Top.at \in {2, 4} /\ ~ret.done /\ Stay /\ Call(Top, "parseExpr", b)
    <2>1. /\ LoopSaid(Top, "called") = LoopSaid(Top, "here") /\ ListPlace(tokens, Top, "called")
      BY <1>8, <1>14
    <2>2. Calling(Top, "parseExpr") BY <1>1, <1>14 DEF Calling
    <2>3. curTokIdx' = b /\ Top.at # 1 BY <1>14 DEF Stay
    <2>4. Says(tokens, a, b, LoopSaid(Top, "called"), 0) BY <1>4, <1>14, <2>1
    <2>5. Clean(tokens, a, b) /\ Call(Top, "parseExpr", b) BY <1>4, <1>14
    <2> HIDE DEF a, b
    <2> QED BY <1>1, <2>1, <2>2, <2>3, <2>4, <2>5, ListCalls DEF a
  <1>15. CASE ret.done /\ Stay /\ Go(With(3, ret.node))
    <2>1. LoopSaid(Top, "called") = <<"PL">> \o ItemsOn(Top) /\ Is(tokens, a, {"PL"})
      BY <1>3, <1>8, <1>15
    <2>2. curTokIdx' = b /\ Go(With(3, ret.node)) BY <1>15 DEF Stay
    <2>3. /\ ret.node \in GoodTexts /\ Clean(tokens, a, b) /\ Top.at # 1
          /\ LoopSaid(Top, "called") \in GoodTexts =>
                Says(tokens, a, b, LoopSaid(Top, "called") \o Fill(ret.node), 0)
      BY <1>1, <1>15, ListHere
    <2>4. Says(tokens, a, b, (<<"PL">> \o ItemsOn(Top)) \o Fill(ret.node), 0) BY <1>7, <2>1, <2>3
    <2> QED BY <1>1, <2>1, <2>2, <2>3, <2>4, ListTakes
  <1>16. \/ Top.at = 1 /\ Consume("PL") /\ Go(At(2))
         \/ Return(Null) /\ (Stay \/ Consume("PR"))
         \/ /\ Top.at \in {2, 3} /\ ~ret.done /\ Consume("PR")
            /\ Return(Text(Top.fn, "none", Top.kids))
         \/ Top.at = 3 /\ ~ret.done /\ Consume("Comma") /\ Go(At(4))
         \/ Top.at \in {2, 4} /\ ~ret.done /\ Consume("Literal_string") /\ PushString
         \/ Top.at \in {2, 4} /\ ~ret.done /\ Stay /\ Call(Top, "parseExpr", b)
         \/ ret.done /\ Stay /\ Go(With(3, ret.node))
    <2>1. \A S : Miss(S) => Stay BY DEF Miss
    <2> QED BY <2>1, Zenon DEF parseStringOrExprArgs
  <1> QED BY <1>9, <1>10, <1>11, <1>12, <1>13, <1>14, <1>15, <1>16

LEMMA FnParamsSays ==
    ASSUME ParserInv, ParserInv', TreeInv, CallsSay, parseFnParams PROVE SaysOn
  <1> DEFINE a == Top.tokIdx
             b == curTokIdx
  <1>1. /\ Top.fn = "parseFnParams" /\ Top.fn \in Lists /\ tokens' = tokens
    BY DEF parseFnParams, In, Lists
  <1>2. /\ tokens \in Buffers /\ a \in Nat /\ b \in Nat /\ Top.kids \in Seq(GoodTexts)
        /\ Top.at \in Nat \ {0}
    BY <1>1, ListHere
  <1>3. ~ret.done
    <2>1. ret.done => Calling(Top, "parseExpr") BY <1>1, ListHere
    <2> QED BY <1>1, <2>1, ListNames, RetGood DEF Calling
  <1>4. /\ Clean(tokens, a, b) /\ Says(tokens, a, b, LoopSaid(Top, "here"), 0)
        /\ ListPlace(tokens, Top, "here")
    BY <1>1, <1>3, ListHere
  <1>5. /\ Items(Top) \in GoodTexts /\ (Top.kids = <<>> => Items(Top) = <<>> /\ ItemsOn(Top) = <<>>)
        /\ \A g : g.kids = Top.kids => Items(g) = Items(Top) /\ ItemsOn(g) = ItemsOn(Top)
        /\ ItemsOn(Top) \in GoodTexts
    BY <1>2, ItemsOf
  <1>6. \A f : f.fn = "parseFnParams" =>
           /\ f.at \in {2, 4} => LoopSaid(f, "here") = <<"PL">> \o Items(f)
           /\ f.at = 3 => LoopSaid(f, "here") = <<"PL">> \o ItemsOn(f) \o <<f.op>>
           /\ f.at = 5 => LoopSaid(f, "here") = <<"PL">> \o ItemsOn(f)
    BY DEF LoopSaid
  <1>7. <<"PL">> \o ItemsOn(Top) \in GoodTexts /\ <<"PL">> \o Items(Top) \in GoodTexts
    BY <1>5, ParenOn
  <1>8. Top.at # 1 => Is(tokens, a, {"PL"})
    <2>1. Top.at # 1 => Top.at > 1 BY <1>2
    <2> QED BY <1>4, <2>1 DEF ListPlace
  <1>9. CASE Top.at = 1 /\ Consume("PL") /\ Go(At(2)) BY <1>1, <1>3, <1>9, ListBegins
  <1>10. CASE Return(Null) /\ Stay
    <2>1. curTokIdx' \in {curTokIdx, curTokIdx + 1} BY <1>10 DEF Stay
    <2> QED BY <1>1, <1>10, <2>1, ListFails
  <1>11. CASE Top.at \in {2, 4} /\ Consume("PR") /\ Return(Text(Top.fn, "none", Top.kids))
    <2>1. LoopSaid(Top, "here") = <<"PL">> \o Items(Top) BY <1>1, <1>6, <1>11
    <2> QED BY <1>1, <1>4, <1>11, <2>1, ListEnds
  <1>12. CASE Top.at = 4 /\ Consume("Comma") /\ Go(At(5))
    <2> DEFINE f == At(5)
    <2>1. f.fn = Top.fn /\ f.tokIdx = a /\ f.at = 5 /\ f.kids = Top.kids BY DEF At, Onward
    <2>2. Go(f) /\ curTokIdx' = b + 1 BY <1>12 DEF Consume, getNextTok
    <2> HIDE DEF f
    <2>3. LoopSaid(Top, "here") = <<"PL">> \o Items(Top) BY <1>1, <1>6, <1>12
    <2>4. Top.kids # <<>> /\ Is(tokens, a, {"PL"}) BY <1>1, <1>4, <1>8, <1>12 DEF ListPlace
    <2>5. Top.at > 1 /\ Consume("Comma") BY <1>12
    <2>6. Says(tokens, a, b + 1, <<"PL">> \o ItemsOn(Top), 0) /\ Clean(tokens, a, b + 1)
      BY <1>1, <1>3, <2>3, <2>4, <2>5, ListComma
    <2>7. LoopSaid(f, "here") = <<"PL">> \o ItemsOn(Top)
      <3>1. LoopSaid(f, "here") = <<"PL">> \o ItemsOn(f) BY <1>1, <1>6, <2>1
      <3> QED BY <1>5, <2>1, <3>1
    <2>8. ListPlace(tokens, f, "here") BY <2>1, <2>4 DEF ListPlace
    <2>9. Says(tokens, a, curTokIdx', LoopSaid(f, "here"), 0) BY <2>2, <2>6, <2>7, Zenon
    <2>10. Clean(tokens, a, curTokIdx') BY <2>2, <2>6, Zenon
    <2>11. f.at # 1 BY <2>1
    <2> QED BY <1>1, <2>1, <2>2, <2>8, <2>9, <2>10, <2>11, ListGo
  <1>13. CASE Top.at \in {2, 5} /\ Known /\ curTok \in ParamTokens /\ getNextTok /\ Go(Holding(3, curTok))
    <2> DEFINE t == curTok
               f == Holding(3, t)
    <2>1. f.fn = Top.fn /\ f.tokIdx = a /\ f.at = 3 /\ f.kids = Top.kids /\ f.op = t
      BY DEF Holding, Onward
    <2>2. Go(f) /\ curTokIdx' = b + 1 /\ Known BY <1>13 DEF getNextTok
    <2>3. t \in Tokens /\ t \notin {"EOL", "CR", "SL", "SR", "Comma"}
      <3>1. \A u \in ParamTokens : u \in TypeTokens /\ u \notin {"EOL", "CR", "SL", "SR", "Comma"}
        BY DEF ParamTokens, TypeTokens
      <3> QED BY <1>13, <3>1, WordsOfTexts
    <2> HIDE DEF f, t
    <2>4. LoopSaid(Top, "here") = <<"PL">> \o ItemsOn(Top)
      <3>1. CASE Top.at = 2
        <4>1. Top.kids = <<>> BY <1>4, <3>1 DEF ListPlace
        <4> QED BY <1>1, <1>5, <1>6, <3>1, <4>1
      <3>2. CASE Top.at = 5 BY <1>1, <1>6, <3>2
      <3> QED BY <1>13, <3>1, <3>2
    <2>5. Says(tokens, a, b + 1, (<<"PL">> \o ItemsOn(Top)) \o <<t>>, 0) /\ Clean(tokens, a, b + 1)
      BY <1>1, <1>3, <1>7, <2>2, <2>3, <2>4, ListWord DEF t
    <2>6. LoopSaid(f, "here") = (<<"PL">> \o ItemsOn(Top)) \o <<t>>
      <3>1. LoopSaid(f, "here") = <<"PL">> \o ItemsOn(f) \o <<f.op>> BY <1>1, <1>6, <2>1
      <3> QED BY <1>5, <2>1, <3>1
    <2>7. Is(tokens, a, {"PL"}) BY <1>8, <1>13
    <2>8. ListPlace(tokens, f, "here") BY <1>1, <2>1, <2>7 DEF ListPlace
    <2>9. Says(tokens, a, curTokIdx', LoopSaid(f, "here"), 0) BY <2>2, <2>5, <2>6, Zenon
    <2>10. Clean(tokens, a, curTokIdx') BY <2>2, <2>5, Zenon
    <2>11. f.at # 1 BY <2>1
    <2> QED BY <1>1, <2>1, <2>2, <2>8, <2>9, <2>10, <2>11, ListGo
  <1>14. CASE Top.at = 3 /\ Consume("Id") /\ Go(With(4, <<Top.op, "Id">>))
    <2> DEFINE n == <<Top.op, "Id">>
               f == With(4, n)
               o == <<Top.op>>
    <2>1. f.fn = Top.fn /\ f.tokIdx = a /\ f.at = 4 /\ f.kids = Append(Top.kids, n)
      BY DEF With, Onward
    <2>2. Go(f) /\ curTokIdx' = b + 1 /\ Known /\ curTok = "Id" BY <1>14 DEF getNextTok, Consume
    <2>3. Top.op \in Tokens
      <3>1. Sound(Top) BY TopSound DEF ParserInv
      <3>2. HoldsFrom["parseFnParams"] = 3 /\ "parseFnParams" \in DOMAIN HoldsFrom BY DEF HoldsFrom
      <3>3. Top.op # "none" /\ Top.op # "End" BY <1>1, <1>14, <3>1, <3>2 DEF Sound, Holds
      <3> QED BY <3>1, <3>3 DEF Sound
    <2>4. /\ o \in GoodTexts /\ <<"Id">> \in GoodTexts /\ Fill(o) = o /\ Fill(<<"Id">>) = <<"Id">>
          /\ "Id" \in Tokens /\ n \in GoodTexts
      BY <2>3, WordsOfTexts, FillToken, TextsJoin
    <2>5. n = o \o <<"Id">> OBVIOUS
    <2> HIDE DEF f, n, o
    <2>6. Fill(n) = n BY <2>4, <2>5, FillJoin
    <2> DEFINE X == <<"PL">> \o ItemsOn(Top)
    <2>7. LoopSaid(Top, "here") = X \o o BY <1>1, <1>6, <1>14 DEF o
    <2>8. X \in GoodTexts BY <1>7
    <2> HIDE DEF X
    <2>9. X \o o \in GoodTexts BY <2>4, <2>8, TextsJoin
    <2>10. Says(tokens, a, b + 1, (X \o o) \o <<"Id">>, 0) /\ Clean(tokens, a, b + 1)
      BY <1>1, <1>3, <2>2, <2>4, <2>7, <2>9, ListWord
    <2>11. (X \o o) \o <<"Id">> = X \o Fill(n)
      <3>1. Assoc(X, o, <<"Id">>) BY <2>4, <2>8, Flat3
      <3>2. (X \o o) \o <<"Id">> = X \o (o \o <<"Id">>) BY <3>1 DEF Assoc
      <3> QED BY <2>5, <2>6, <3>2, Zenon
    <2>12. f.kids # <<>> /\ <<"PL">> \o Items(f) = X \o Fill(n) BY <1>1, <2>1, <2>4, ListItem DEF X
    <2>13. LoopSaid(f, "here") = <<"PL">> \o Items(f) BY <1>1, <1>6, <2>1
    <2>14. Is(tokens, a, {"PL"}) BY <1>8, <1>14
    <2>15. ListPlace(tokens, f, "here") BY <2>1, <2>12, <2>14 DEF ListPlace
    <2>16. LoopSaid(f, "here") = (X \o o) \o <<"Id">> BY <2>11, <2>12, <2>13, Zenon
    <2>17. Says(tokens, a, curTokIdx', LoopSaid(f, "here"), 0) BY <2>2, <2>10, <2>16, Zenon
    <2>18. Clean(tokens, a, curTokIdx') BY <2>2, <2>10, Zenon
    <2>19. f.at # 1 BY <2>1
    <2> QED BY <1>1, <2>1, <2>2, <2>15, <2>17, <2>18, <2>19, ListGo
  <1>15. \/ Top.at = 1 /\ Consume("PL") /\ Go(At(2))
         \/ Return(Null) /\ Stay
         \/ Top.at \in {2, 4} /\ Consume("PR") /\ Return(Text(Top.fn, "none", Top.kids))
         \/ Top.at = 4 /\ Consume("Comma") /\ Go(At(5))
         \/ Top.at \in {2, 5} /\ Known /\ curTok \in ParamTokens /\ getNextTok /\ Go(Holding(3, curTok))
         \/ Top.at = 3 /\ Consume("Id") /\ Go(With(4, <<Top.op, "Id">>))
    <2>1. \A S : Miss(S) => Stay BY DEF Miss
    <2> QED BY <2>1, Zenon DEF parseFnParams
  <1> QED BY <1>9, <1>10, <1>11, <1>12, <1>13, <1>14, <1>15

-----------------------------------------------------------------------------
(* Variable declarations.                                                  *)

LEMMA LoopNames ==
    ASSUME NEW fn \in {"parseVarDecls", "parseArrayDecls", "parseStmtBlock", "parseProgram"}
    PROVE  /\ fn \notin DOMAIN Row /\ fn \notin Lists /\ fn \in Functions
           /\ fn \in InLine <=> fn \in {"parseVarDecls", "parseArrayDecls"}
           /\ fn \in Unterminated <=> fn = "parseStmtBlock"
  <1>1. \A g \in DOMAIN Row : g \notin {"parseVarDecls", "parseArrayDecls", "parseStmtBlock", "parseProgram"}
    BY RowNames
  <1>2. \A g \in Lists : g \notin {"parseVarDecls", "parseArrayDecls", "parseStmtBlock", "parseProgram"}
    BY ListNames
  <1>3. fn \in InLine <=> fn \in {"parseVarDecls", "parseArrayDecls"} BY LinesOf
  <1> QED BY <1>1, <1>2, <1>3 DEF Functions, Unterminated

LEMMA VarSaysSo ==
    ASSUME NEW s, NEW f, f.fn = "parseVarDecls", NEW v, NEW b
    PROVE  /\ SaysSo(s, f, v, b) =>
                 /\ f.at = 1 => f.kids = <<>> /\ b = f.tokIdx
                 /\ Clean(s, f.tokIdx, b) /\ LineStart(s, f.tokIdx)
                 /\ Says(s, f.tokIdx, b, LoopSaid(f, v), 0) /\ VarPlace(s, f, b)
           /\ /\ f.at # 1 /\ Clean(s, f.tokIdx, b) /\ LineStart(s, f.tokIdx)
              /\ Says(s, f.tokIdx, b, LoopSaid(f, v), 0) /\ VarPlace(s, f, b)
              => SaysSo(s, f, v, b)
  BY LoopNames DEF SaysSo, Place, LoopSays

LEMMA VarHere ==
    ASSUME ParserInv, TreeInv, CallsSay, Top.fn = "parseVarDecls"
    PROVE  /\ tokens \in Buffers /\ Len(tokens) \in Nat /\ curTokIdx \in Nat /\ Top.tokIdx \in Nat
           /\ Top.kids \in Seq(GoodTexts) /\ Top.at \in Nat \ {0} /\ ~ret.done
           /\ Top.at = 1 => Top.kids = <<>> /\ curTokIdx = Top.tokIdx
           /\ Clean(tokens, Top.tokIdx, curTokIdx) /\ LineStart(tokens, Top.tokIdx)
           /\ Says(tokens, Top.tokIdx, curTokIdx, LoopSaid(Top, "here"), 0)
           /\ VarPlace(tokens, Top, curTokIdx)
  <1>1. /\ tokens \in Buffers /\ Len(tokens) \in Nat /\ curTokIdx \in Nat /\ Top.tokIdx \in Nat
    BY AtToken
  <1>2. Top.kids \in Seq(GoodTexts) /\ Top.at \in Nat \ {0} BY TopSound DEF ParserInv
  <1>3. ~ret.done
    <2>1. \A fn : ~Calling(Top, fn) BY LoopNames DEF Calling
    <2> QED BY <2>1, TopSays
  <1>4. SaysSo(tokens, Top, "here", curTokIdx) BY <1>3, TopSays
  <1> QED BY <1>1, <1>2, <1>3, <1>4, VarSaysSo

LEMMA VarGo ==
    ASSUME ParserInv, TreeInv, CallsSay, tokens' = tokens, Top.fn = "parseVarDecls", NEW f, Go(f),
           f.fn = Top.fn, f.tokIdx = Top.tokIdx, f.at # 1, NEW b, curTokIdx' = b,
           Clean(tokens, Top.tokIdx, b),
           Says(tokens, Top.tokIdx, b, LoopSaid(f, "here"), 0), VarPlace(tokens, f, b)
    PROVE  SaysOn
  <1>1. LineStart(tokens, Top.tokIdx) BY VarHere
  <1>2. SaysSo(tokens, f, "here", b) BY <1>1, VarSaysSo
  <1> QED BY <1>2, GoSays DEF SaysOn

(* What it has said, and says with one name more.                          *)
LEMMA VarSaid ==
    ASSUME NEW f, f.fn = "parseVarDecls", f.at # 1, f.kids \in Seq(GoodTexts), f.op \in Tokens
    PROVE  /\ LoopSaid(f, "here") = <<f.op>> \o Run(Fills(f.kids)) /\ LoopSaid(f, "here") \in GoodTexts
           /\ f.kids = <<>> => LoopSaid(f, "here") = <<f.op>>
           /\ \A g : g.fn = f.fn /\ g.at # 1 /\ g.op = f.op /\ g.kids = Append(f.kids, <<"Id">>) =>
                 LoopSaid(g, "here") = LoopSaid(f, "here") \o <<"Id">>
           /\ \A g : g.fn = f.fn /\ g.at # 1 /\ g.op = f.op /\ g.kids = f.kids =>
                 LoopSaid(g, "here") = LoopSaid(f, "here")
  <1> DEFINE k == Fills(f.kids)
             o == <<f.op>>
  <1>1. \A g : g.fn = "parseVarDecls" /\ g.at # 1 => LoopSaid(g, "here") = <<g.op>> \o Run(Fills(g.kids))
    BY DEF LoopSaid
  <1>2. o \in GoodTexts /\ "Id" \in Tokens BY TextsJoin, WordsOfTexts
  <1>3. k \in Seq(GoodTexts) /\ Fills(<<>>) = <<>> BY FillsGood
  <1>4. Run(k) \in GoodTexts BY <1>3, RunGood
  <1>5. LoopSaid(f, "here") = o \o Run(k) BY <1>1
  <1>6. f.kids = <<>> => LoopSaid(f, "here") = o
    <2>1. f.kids = <<>> => Run(k) = <<>> BY <1>3, RunAppend DEF GoodTexts
    <2>2. o \o <<>> = o BY <1>2, ConcatEmptySeq DEF GoodTexts
    <2> QED BY <1>5, <2>1, <2>2
  <1>7. ASSUME NEW g, g.fn = f.fn, g.at # 1, g.op = f.op, g.kids = Append(f.kids, <<"Id">>)
        PROVE  LoopSaid(g, "here") = LoopSaid(f, "here") \o <<"Id">>
    <2>1. LoopSaid(g, "here") = o \o Run(Fills(g.kids)) BY <1>1, <1>7
    <2>2. <<"Id">> \in GoodTexts /\ Fill(<<"Id">>) = <<"Id">> BY <1>2, FillToken
    <2>3. Fills(g.kids) = Append(k, <<"Id">>) BY <1>7, <2>2, FillsAppend
    <2> HIDE DEF k, o
    <2>4. Run(Append(k, <<"Id">>)) = Run(k) \o <<"Id">> BY <1>3, <2>2, RunAppend DEF GoodTexts
    <2>5. Assoc(o, Run(k), <<"Id">>) BY <1>2, <1>4, <2>2, Flat3
    <2>6. o \o (Run(k) \o <<"Id">>) = (o \o Run(k)) \o <<"Id">> BY <2>5 DEF Assoc
    <2> QED BY <1>5, <2>1, <2>3, <2>4, <2>6, Zenon
  <1>8. o \o Run(k) \in GoodTexts BY <1>2, <1>4, TextsJoin
  <1> QED BY <1>1, <1>5, <1>6, <1>7, <1>8

LEMMA VarTextFilled ==
    ASSUME NEW op \in Tokens, NEW kids \in Seq(GoodTexts), \A i \in 1..Len(kids) : kids[i] # Null
    PROVE  /\ Text("parseVarDecls", op, kids) \in GoodTexts
           /\ Fill(Text("parseVarDecls", op, kids)) = <<op>> \o Run(Fills(kids))
  <1> DEFINE k == [i \in DOMAIN kids |-> Or(kids[i], "parseVarDecls")]
             o == <<op>>
  <1>1. Text("parseVarDecls", op, kids) = o \o Run(k) BY DEF Text
  <1>2. k \in Seq(GoodTexts) /\ Fills(k) = Fills(kids) BY FillsOr
  <1>3. o \in GoodTexts /\ Fill(o) = o BY FillToken
  <1> HIDE DEF k, o
  <1>4. Run(k) \in GoodTexts /\ Fill(Run(k)) = Run(Fills(kids)) BY <1>2, RunGood, FillRun
  <1>5. o \o Run(k) \in GoodTexts BY <1>3, <1>4, TextsJoin
  <1>6. Fill(o \o Run(k)) = o \o Run(Fills(kids)) BY <1>3, <1>4, FillJoin
  <1> QED BY <1>1, <1>5, <1>6 DEF o

LEMMA VarDeclsSays ==
    ASSUME ParserInv, ParserInv', TreeInv, CallsSay, parseVarDecls PROVE SaysOn
  <1> DEFINE a == Top.tokIdx
             b == curTokIdx
             X == LoopSaid(Top, "here")
  <1>1. Top.fn = "parseVarDecls" /\ tokens' = tokens BY DEF parseVarDecls, In
  <1>2. /\ tokens \in Buffers /\ Len(tokens) \in Nat /\ b \in Nat /\ a \in Nat
        /\ Top.kids \in Seq(GoodTexts) /\ Top.at \in Nat \ {0}
        /\ Top.at = 1 => Top.kids = <<>> /\ b = a
        /\ Clean(tokens, a, b) /\ LineStart(tokens, a) /\ Says(tokens, a, b, X, 0)
        /\ VarPlace(tokens, Top, b)
    BY <1>1, VarHere
  <1>3. VarTokens \subseteq Tokens /\ \A t \in VarTokens : t \notin {"EOL", "CR", "SL", "SR", "Comma"}
    BY DEF VarTokens, Tokens, TypeTokens
  <1>4. Top.at # 1 => /\ Top.op \in VarTokens /\ Top.op \in Tokens /\ Is(tokens, a, {Top.op}) /\ a < b
                      /\ \A i \in a + 1..b - 1 : Is(tokens, i, {"Id", "Comma"})
    <2>1. Top.at # 1 => Top.at > 1 BY <1>2
    <2> QED BY <1>2, <1>3, <2>1 DEF VarPlace
  <1>5. Top.at # 1 =>
           /\ X = <<Top.op>> \o Run(Fills(Top.kids)) /\ X \in GoodTexts
           /\ \A g : g.fn = Top.fn /\ g.at # 1 /\ g.op = Top.op /\ g.kids = Append(Top.kids, <<"Id">>) =>
                 LoopSaid(g, "here") = X \o <<"Id">>
           /\ \A g : g.fn = Top.fn /\ g.at # 1 /\ g.op = Top.op /\ g.kids = Top.kids =>
                 LoopSaid(g, "here") = X
    BY <1>1, <1>2, <1>4, VarSaid
  <1> HIDE DEF X
  <1>6. CASE Top.at = 1 /\ Known /\ curTok \in VarTokens /\ getNextTok /\ Go(Holding(2, curTok))
    <2> DEFINE t == curTok
               f == Holding(2, t)
    <2>1. f.fn = Top.fn /\ f.tokIdx = a /\ f.at = 2 /\ f.kids = <<>> /\ f.op = t
      BY <1>2, <1>6 DEF Holding, Onward
    <2>2. Go(f) /\ curTokIdx' = b + 1 BY <1>6 DEF getNextTok
    <2>3. b \in 1..Len(tokens) /\ tokens[b] = t /\ t \in VarTokens /\ b = a BY <1>2, <1>6, AtToken
    <2> HIDE DEF f, t
    <2>4. Says(tokens, a, a + 1, <<t>>, 0) /\ Clean(tokens, a, a + 1)
      <3>1. a \in 1..Len(tokens) + 1 BY <1>2, <2>3
      <3>2. Says(tokens, a, a, <<>>, 0) BY <1>2, <3>1, SaysNothing
      <3>3. Clean(tokens, a, a) BY <1>2, CleanSpans
      <3>4. tokens[a] \in Tokens /\ tokens[a] \notin {"EOL", "CR", "SL", "SR", "Comma"}
        BY <1>3, <2>3
      <3>5. <<>> \in GoodTexts /\ a \in 1..Len(tokens) BY <2>3, TextsJoin
      <3>6. Says(tokens, a, a + 1, <<>> \o <<tokens[a]>>, 0) /\ Clean(tokens, a, a + 1)
        BY <1>2, <3>2, <3>3, <3>4, <3>5, ListToken
      <3>7. <<>> \o <<t>> = <<t>> OBVIOUS
      <3> QED BY <2>3, <3>6, <3>7
    <2>5. LoopSaid(f, "here") = <<t>>
      <3>1. f.kids \in Seq(GoodTexts) /\ f.op \in Tokens /\ f.at # 1 BY <1>2, <1>3, <1>6, <2>1, <2>3
      <3> QED BY <1>1, <2>1, <3>1, VarSaid
    <2>6. VarPlace(tokens, f, b + 1)
      <3>1. Is(tokens, a, {t}) /\ a < b + 1 /\ \A i \in a + 1..(b + 1) - 1 : FALSE
        BY <1>2, <2>3 DEF Is
      <3> QED BY <2>1, <2>3, <3>1 DEF VarPlace
    <2>7. Says(tokens, a, b + 1, LoopSaid(f, "here"), 0) BY <2>3, <2>4, <2>5, Zenon
    <2>8. Clean(tokens, a, b + 1) /\ f.at # 1 BY <2>1, <2>3, <2>4
    <2> QED BY <1>1, <2>1, <2>2, <2>6, <2>7, <2>8, VarGo
  <1>7. CASE Top.at # 1 /\ Consume("Id") /\ Go(With(3, <<"Id">>))
    <2> DEFINE f == With(3, <<"Id">>)
    <2>1. f.fn = Top.fn /\ f.tokIdx = a /\ f.at = 3
            /\ f.kids = Append(Top.kids, <<"Id">>) /\ f.op = Top.op
      BY DEF With, Onward
    <2>2. Go(f) /\ curTokIdx' = b + 1 /\ Known /\ curTok = "Id" BY <1>7 DEF getNextTok, Consume
    <2>3. b \in 1..Len(tokens) /\ tokens[b] = "Id" /\ "Id" \in Tokens BY <2>2, AtToken, WordsOfTexts
    <2> HIDE DEF f
    <2>4. Says(tokens, a, b + 1, X \o <<tokens[b]>>, 0) /\ Clean(tokens, a, b + 1)
      BY <1>2, <1>5, <1>7, <2>3, ListToken
    <2>5. LoopSaid(f, "here") = X \o <<"Id">> BY <1>5, <1>7, <2>1
    <2>6. VarPlace(tokens, f, b + 1)
      <3>1. a < b + 1 BY <1>2, <1>4, <1>7
      <3>2. \A i \in a + 1..(b + 1) - 1 : Is(tokens, i, {"Id", "Comma"})
        <4>1. Is(tokens, b, {"Id", "Comma"}) BY <2>3 DEF Is
        <4>2. \A i \in a + 1..(b + 1) - 1 : i \in a + 1..b - 1 \/ i = b BY <1>2
        <4> QED BY <1>4, <1>7, <4>1, <4>2
      <3> QED BY <1>4, <1>7, <2>1, <3>1, <3>2 DEF VarPlace
    <2>7. Says(tokens, a, b + 1, LoopSaid(f, "here"), 0) BY <2>3, <2>4, <2>5
    <2>8. f.at # 1 BY <2>1
    <2> QED BY <1>1, <2>1, <2>2, <2>4, <2>6, <2>7, <2>8, VarGo
  <1>8. CASE Top.at # 1 /\ Consume("Comma") /\ Go(At(2))
    <2> DEFINE f == At(2)
    <2>1. f.fn = Top.fn /\ f.tokIdx = a /\ f.at = 2 /\ f.kids = Top.kids /\ f.op = Top.op
      BY DEF At, Onward
    <2>2. Go(f) /\ curTokIdx' = b + 1 /\ Known /\ curTok = "Comma" BY <1>8 DEF getNextTok, Consume
    <2>3. b \in 1..Len(tokens) /\ tokens[b] = "Comma" BY <2>2, AtToken
    <2> HIDE DEF f
    <2>4. DeclComma(tokens, b)
      <3>1. a \in 2..b - 1 /\ tokens[a] \in VarTokens
        <4>1. a - 1 \in 1..Len(tokens) /\ a < b /\ tokens[a] = Top.op
          BY <1>2, <1>4, <1>8 DEF LineStart, Is
        <4>2. tokens[a] \in VarTokens BY <1>4, <1>8, <4>1
        <4>3. a \in 2..b - 1
          <5>1. a \in Nat /\ b \in Nat /\ Len(tokens) \in Nat BY <1>2
          <5> HIDE DEF a, b
          <5> QED BY <4>1, <5>1
        <4> QED BY <4>2, <4>3
      <3>2. \A m \in a + 1..b - 1 : tokens[m] \in {"Id", "Comma"} BY <1>4, <1>8 DEF Is
      <3> QED BY <1>2, <2>3, <3>1, <3>2 DEF DeclComma
    <2>5. Says(tokens, a, b + 1, X, 0)
      <3>1. 0 \in Nat OBVIOUS
      <3> QED BY <1>2, <2>3, <2>4, <3>1, SaysSkip
    <2>6. Clean(tokens, a, b + 1)
      <3>1. Isnt(tokens, b, {"EOL", "CR"}) BY <2>3 DEF Isnt
      <3> QED BY <1>2, <3>1, CleanSpans
    <2>7. LoopSaid(f, "here") = X BY <1>5, <1>8, <2>1
    <2>8. VarPlace(tokens, f, b + 1)
      <3>1. a < b + 1 BY <1>2, <1>4, <1>8
      <3>2. \A i \in a + 1..(b + 1) - 1 : Is(tokens, i, {"Id", "Comma"})
        <4>1. Is(tokens, b, {"Id", "Comma"}) BY <2>3 DEF Is
        <4>2. \A i \in a + 1..(b + 1) - 1 : i \in a + 1..b - 1 \/ i = b BY <1>2
        <4> QED BY <1>4, <1>8, <4>1, <4>2
      <3> QED BY <1>4, <1>8, <2>1, <3>1, <3>2 DEF VarPlace
    <2>9. Says(tokens, a, b + 1, LoopSaid(f, "here"), 0) BY <2>5, <2>7
    <2>10. f.at # 1 BY <2>1
    <2> QED BY <1>1, <2>1, <2>2, <2>6, <2>8, <2>9, <2>10, VarGo
  <1>9. CASE /\ Top.at # 1 /\ Stay
             /\ Return(IF Top.kids = <<>> THEN Null ELSE Text(Top.fn, Top.op, Top.kids))
    <2> DEFINE t == Text(Top.fn, Top.op, Top.kids)
               n == IF Top.kids = <<>> THEN Null ELSE t
    <2>1. Return(n) /\ curTokIdx' = b BY <1>9 DEF Stay
    <2>2. t \in GoodTexts /\ Fill(t) = X
      <3>1. \A i \in 1..Len(Top.kids) : Top.kids[i] # Null
        <4>1. Sound(Top) /\ Top.fn \notin KeepsNull BY <1>1, TopSound DEF ParserInv, KeepsNull
        <4> QED BY <4>1 DEF Sound
      <3> QED BY <1>1, <1>2, <1>4, <1>5, <1>9, <3>1, VarTextFilled
    <2> HIDE DEF t
    <2>3. Result(tokens, Top.fn, a, b, n)
      <3>1. n = Null \/ n = t OBVIOUS
      <3>2. CASE n = Null BY <1>1, <3>2 DEF Result, Unterminated
      <3>3. CASE n = t /\ n # Null
        <4>1. Says(tokens, a, b, Fill(n), 0) BY <1>2, <2>2, <3>3
        <4> QED BY <1>1, <1>2, <3>3, <4>1, LoopNames DEF Result
      <3> QED BY <3>1, <3>2, <3>3
    <2> HIDE DEF n
    <2>4. Top.fn \in Functions /\ Top.fn # "parseProgram" /\ a \in 1..b
      BY <1>1, LoopNames, AtToken
    <2> QED BY <1>1, <2>1, <2>3, <2>4, ReturnSays DEF SaysOn
  <1>10. \/ Top.at = 1 /\ Known /\ curTok \in VarTokens /\ getNextTok /\ Go(Holding(2, curTok))
         \/ Top.at # 1 /\ Consume("Id") /\ Go(With(3, <<"Id">>))
         \/ Top.at # 1 /\ Consume("Comma") /\ Go(At(2))
         \/ /\ Top.at # 1 /\ Stay
            /\ Return(IF Top.kids = <<>> THEN Null ELSE Text(Top.fn, Top.op, Top.kids))
    <2>1. \A S : Miss(S) => Stay BY DEF Miss
    <2>2. 2 # 1 /\ 3 # 1 OBVIOUS
    <2> QED BY <2>1, <2>2 DEF parseVarDecls
  <1> QED BY <1>6, <1>7, <1>8, <1>9, <1>10

-----------------------------------------------------------------------------
(* Blocks.                                                                 *)

LEMMA BlockSaysSo ==
    ASSUME NEW s, NEW f, f.fn = "parseStmtBlock", NEW v, NEW b
    PROVE  /\ SaysSo(s, f, v, b) =>
                 /\ f.at = 1 => f.kids = <<>> /\ b = f.tokIdx
                 /\ f.at = 4 => NoBlock(s, f.tokIdx)
                 /\ f.at # 4 => Says(s, f.tokIdx, b, LoopSaid(f, v), 0) /\ BlockPlace(s, f, b)
           /\ f.at = 4 /\ NoBlock(s, f.tokIdx) => SaysSo(s, f, v, b)
           /\ f.at \notin {1, 4} /\ Says(s, f.tokIdx, b, LoopSaid(f, v), 0) /\ BlockPlace(s, f, b) =>
                 SaysSo(s, f, v, b)
  BY LoopNames DEF SaysSo, Place, LoopSays

LEMMA BlockSaid ==
    ASSUME NEW f, f.fn = "parseStmtBlock", f.at # 1, f.kids \in Seq(GoodTexts)
    PROVE  /\ \A v : LoopSaid(f, v) = <<"CL">> \o Run(Fills(f.kids))
           /\ <<"CL">> \o Run(Fills(f.kids)) \in GoodTexts
           /\ f.kids = <<>> => \A v : LoopSaid(f, v) = <<"CL">>
           /\ \A n \in GoodTexts : \A g :
                 g.fn = f.fn /\ g.at # 1 /\ g.kids = Append(f.kids, n) =>
                 LoopSaid(g, "here") = (<<"CL">> \o Run(Fills(f.kids))) \o Fill(n)
           /\ \A g : g.fn = f.fn /\ g.at # 1 /\ g.kids = f.kids =>
                 LoopSaid(g, "here") = LoopSaid(f, "here")
  <1> DEFINE k == Fills(f.kids)
             o == <<"CL">>
  <1>1. \A g, v : g.fn = "parseStmtBlock" /\ g.at # 1 => LoopSaid(g, v) = <<"CL">> \o Run(Fills(g.kids))
    BY DEF LoopSaid
  <1>2. o \in GoodTexts BY TextsJoin, WordsOfTexts
  <1>3. k \in Seq(GoodTexts) /\ Fills(<<>>) = <<>> BY FillsGood
  <1>4. Run(k) \in GoodTexts BY <1>3, RunGood
  <1>5. \A v : LoopSaid(f, v) = o \o Run(k) BY <1>1
  <1>6. f.kids = <<>> => \A v : LoopSaid(f, v) = o
    <2>1. f.kids = <<>> => Run(k) = <<>> BY <1>3, RunAppend DEF GoodTexts
    <2>2. o \o <<>> = o BY <1>2, ConcatEmptySeq DEF GoodTexts
    <2> QED BY <1>5, <2>1, <2>2
  <1>7. ASSUME NEW n \in GoodTexts, NEW g, g.fn = f.fn, g.at # 1, g.kids = Append(f.kids, n)
        PROVE  LoopSaid(g, "here") = (o \o Run(k)) \o Fill(n)
    <2>1. LoopSaid(g, "here") = o \o Run(Fills(g.kids)) BY <1>1, <1>7
    <2>2. Fill(n) \in GoodTexts BY FillGood
    <2>3. Fills(g.kids) = Append(k, Fill(n)) BY <1>7, FillsAppend
    <2> HIDE DEF k, o
    <2>4. Run(Append(k, Fill(n))) = Run(k) \o Fill(n) BY <1>3, <2>2, RunAppend DEF GoodTexts
    <2>5. Assoc(o, Run(k), Fill(n)) BY <1>2, <1>4, <2>2, Flat3
    <2>6. o \o (Run(k) \o Fill(n)) = (o \o Run(k)) \o Fill(n) BY <2>5 DEF Assoc
    <2> QED BY <2>1, <2>3, <2>4, <2>6, Zenon
  <1>8. o \o Run(k) \in GoodTexts BY <1>2, <1>4, TextsJoin
  <1> QED BY <1>1, <1>5, <1>6, <1>7, <1>8

LEMMA BlockTextFilled ==
    ASSUME NEW kids \in Seq(GoodTexts), \A i \in 1..Len(kids) : kids[i] # Null
    PROVE  /\ Text("parseStmtBlock", "none", kids) \in GoodTexts
           /\ Text("parseStmtBlock", "none", kids) # <<>>
           /\ Fill(Text("parseStmtBlock", "none", kids)) = (<<"CL">> \o Run(Fills(kids))) \o <<"CR">>
  <1> DEFINE k == [i \in DOMAIN kids |-> Or(kids[i], "parseStmtBlock")]
             o == <<"CL">>
             c == <<"CR">>
  <1>1. Text("parseStmtBlock", "none", kids) = (o \o Run(k)) \o c BY DEF Text
  <1>2. k \in Seq(GoodTexts) /\ Fills(k) = Fills(kids) BY FillsOr
  <1>3. o \in GoodTexts /\ Fill(o) = o /\ c \in GoodTexts /\ Fill(c) = c BY FillToken, WordsOfTexts
  <1>4. Len(c) = 1 OBVIOUS
  <1> HIDE DEF k, o, c
  <1>5. Run(k) \in GoodTexts /\ Fill(Run(k)) = Run(Fills(kids)) BY <1>2, RunGood, FillRun
  <1>6. o \o Run(k) \in GoodTexts BY <1>3, <1>5, TextsJoin
  <1>7. Fill(o \o Run(k)) = o \o Run(Fills(kids)) BY <1>3, <1>5, FillJoin
  <1>8. Fill((o \o Run(k)) \o c) = (o \o Run(Fills(kids))) \o c BY <1>3, <1>6, <1>7, FillJoin
  <1>9. (o \o Run(k)) \o c \in GoodTexts /\ (o \o Run(k)) \o c # <<>>
    <2>1. /\ Len((o \o Run(k)) \o c) = Len(o \o Run(k)) + Len(c) /\ Len(o \o Run(k)) \in Nat
          /\ (o \o Run(k)) \o c \in GoodTexts
      BY <1>3, <1>6, LengthsAdd
    <2>2. Len(<<>>) = 0 OBVIOUS
    <2>3. Len((o \o Run(k)) \o c) # 0 BY <1>4, <2>1
    <2> QED BY <2>1, <2>2, <2>3
  <1> QED BY <1>1, <1>8, <1>9 DEF o, c

LEMMA BlockHere ==
    ASSUME ParserInv, TreeInv, CallsSay, Top.fn = "parseStmtBlock"
    PROVE  /\ tokens \in Buffers /\ Len(tokens) \in Nat /\ curTokIdx \in Nat /\ Top.tokIdx \in Nat \ {0}
           /\ Top.kids \in Seq(GoodTexts) /\ Top.at \in Nat \ {0}
           /\ ~ret.done =>
                 /\ Top.at = 1 => Top.kids = <<>> /\ curTokIdx = Top.tokIdx
                 /\ Top.at = 4 => NoBlock(tokens, Top.tokIdx)
                 /\ Top.at # 4 => /\ Says(tokens, Top.tokIdx, curTokIdx, LoopSaid(Top, "here"), 0)
                                  /\ BlockPlace(tokens, Top, curTokIdx)
           /\ ret.done =>
                 /\ Top.at = 3 /\ ret.node # Null /\ ret.node \in GoodTexts
                 /\ Says(tokens, Top.tokIdx, curTokIdx,
                         (<<"CL">> \o Run(Fills(Top.kids))) \o Fill(ret.node), 0)
                 /\ LineStart(tokens, curTokIdx)
  <1>1. /\ tokens \in Buffers /\ Len(tokens) \in Nat /\ curTokIdx \in Nat /\ Top.tokIdx \in Nat \ {0}
    BY AtToken
  <1>2. Top.kids \in Seq(GoodTexts) /\ Top.at \in Nat \ {0} BY TopSound DEF ParserInv
  <1>3. CASE ~ret.done
    <2>1. SaysSo(tokens, Top, "here", curTokIdx) BY <1>3, TopSays
    <2> QED BY <1>1, <1>2, <1>3, <2>1, BlockSaysSo
  <1>4. CASE ret.done
    <2>1. PICK fn \in Functions : \E c \in 1..curTokIdx :
             /\ Calling(Top, fn) /\ SaysSo(tokens, Top, "called", c)
             /\ Result(tokens, fn, c, curTokIdx, ret.node)
      BY <1>4, TopSays
    <2>2. PICK c \in 1..curTokIdx :
             /\ Calling(Top, fn) /\ SaysSo(tokens, Top, "called", c)
             /\ Result(tokens, fn, c, curTokIdx, ret.node)
      BY <2>1
    <2>3. Top.at = 3 /\ fn = "parseStmt" BY <2>2, LoopNames DEF Calling
    <2>4. Says(tokens, Top.tokIdx, c, LoopSaid(Top, "called"), 0) BY <2>2, <2>3, BlockSaysSo
    <2>5. ret.node # Null /\ Says(tokens, c, curTokIdx, Fill(ret.node), 0)
            /\ LineStart(tokens, curTokIdx)
      BY <2>2, <2>3 DEF Result
    <2>6. ret.node \in GoodTexts /\ Fill(ret.node) \in GoodTexts BY RetGood, FillGood
    <2> DEFINE X == <<"CL">> \o Run(Fills(Top.kids))
    <2>7. LoopSaid(Top, "called") = X /\ X \in GoodTexts BY <1>2, <2>3, BlockSaid
    <2> HIDE DEF X
    <2>8. 0 \in Nat OBVIOUS
    <2>9. Says(tokens, Top.tokIdx, curTokIdx, X \o Fill(ret.node), 0)
      BY <1>1, <2>4, <2>5, <2>6, <2>7, <2>8, SaysJoin
    <2> QED BY <1>1, <1>2, <1>4, <2>3, <2>5, <2>6, <2>9 DEF X
  <1> QED BY <1>3, <1>4

LEMMA BlockGo ==
    ASSUME ParserInv, TreeInv, CallsSay, tokens' = tokens, Top.fn = "parseStmtBlock", NEW f, Go(f),
           f.fn = Top.fn, f.tokIdx = Top.tokIdx, f.at # 1, NEW b, curTokIdx' = b, f.at # 4,
           Says(tokens, Top.tokIdx, b, LoopSaid(f, "here"), 0), BlockPlace(tokens, f, b)
    PROVE  SaysOn
  <1>1. SaysSo(tokens, f, "here", b) BY BlockSaysSo
  <1> QED BY <1>1, GoSays DEF SaysOn

LEMMA BlockLost ==
    ASSUME ParserInv, TreeInv, CallsSay, tokens' = tokens, Top.fn = "parseStmtBlock",
           Go(At(4)), NoBlock(tokens, Top.tokIdx)
    PROVE  SaysOn
  <1> DEFINE f == At(4)
  <1>1. f.fn = Top.fn /\ f.tokIdx = Top.tokIdx /\ f.at = 4 /\ Go(f) BY DEF At, Onward
  <1> HIDE DEF f
  <1>2. SaysSo(tokens, f, "here", curTokIdx') BY <1>1, BlockSaysSo
  <1> QED BY <1>1, <1>2, GoSays DEF SaysOn

LEMMA StmtBlockSays ==
    ASSUME ParserInv, ParserInv', TreeInv, CallsSay, parseStmtBlock PROVE SaysOn
  <1> DEFINE a == Top.tokIdx
             b == curTokIdx
             X == <<"CL">> \o Run(Fills(Top.kids))
  <1>1. Top.fn = "parseStmtBlock" /\ tokens' = tokens BY DEF parseStmtBlock, In
  <1>2. /\ tokens \in Buffers /\ Len(tokens) \in Nat /\ b \in Nat /\ a \in Nat \ {0}
        /\ Top.kids \in Seq(GoodTexts) /\ Top.at \in Nat \ {0}
        /\ ret.done => /\ Top.at = 3 /\ ret.node # Null /\ ret.node \in GoodTexts
                       /\ Says(tokens, a, b, X \o Fill(ret.node), 0) /\ LineStart(tokens, b)
        /\ ret.done \in BOOLEAN
    BY <1>1, BlockHere, RetGood
  <1>3. ~ret.done =>
           /\ Top.at = 1 => Top.kids = <<>> /\ b = a
           /\ Top.at = 4 => NoBlock(tokens, a)
           /\ Top.at # 4 => Says(tokens, a, b, LoopSaid(Top, "here"), 0) /\ BlockPlace(tokens, Top, b)
    BY <1>1, BlockHere
  <1>4. Top.at # 1 =>
           /\ \A v : LoopSaid(Top, v) = X
           /\ X \in GoodTexts
           /\ \A n \in GoodTexts : \A g :
                 g.fn = Top.fn /\ g.at # 1 /\ g.kids = Append(Top.kids, n) =>
                 LoopSaid(g, "here") = X \o Fill(n)
           /\ \A g : g.fn = Top.fn /\ g.at # 1 /\ g.kids = Top.kids => LoopSaid(g, "here") = X
    BY <1>1, <1>2, BlockSaid
  <1> HIDE DEF X
  <1>5. CASE Top.at = 1 /\ Consume("CL") /\ Go(At(2))
    <2> DEFINE f == At(2)
    <2>1. ~ret.done BY <1>2, <1>5
    <2>2. f.fn = Top.fn /\ f.tokIdx = a /\ f.at = 2 /\ f.kids = <<>>
      BY <1>3, <1>5, <2>1 DEF At, Onward
    <2>3. Go(f) /\ curTokIdx' = b + 1 /\ Known /\ curTok = "CL" BY <1>5 DEF getNextTok, Consume
    <2>4. b \in 1..Len(tokens) /\ tokens[b] = "CL" /\ b = a /\ "CL" \in Tokens
      BY <1>3, <1>5, <2>1, <2>3, AtToken, WordsOfTexts
    <2> HIDE DEF f
    <2>5. Says(tokens, a, a + 1, <<"CL">>, 0)
      <3>1. a \in 1..Len(tokens) + 1 BY <1>2, <2>4
      <3>2. Says(tokens, a, a, <<>>, 0) BY <1>2, <3>1, SaysNothing
      <3>3. tokens[a] \in Tokens /\ tokens[a] # "EOL" /\ ~DeclComma(tokens, a) BY <2>4, NotDeclComma
      <3>4. <<>> \in GoodTexts /\ a \in 1..Len(tokens) /\ 0 \in Nat BY <2>4, TextsJoin
      <3>5. 0 = 0 + Opened(tokens[a]) BY <2>4 DEF Opened
      <3>6. Says(tokens, a, a + 1, <<>> \o <<tokens[a]>>, 0)
        BY <1>2, <3>2, <3>3, <3>4, <3>5, SaysToken
      <3>7. <<>> \o <<"CL">> = <<"CL">> OBVIOUS
      <3> QED BY <2>4, <3>6, <3>7
    <2>6. LoopSaid(f, "here") = <<"CL">>
      <3>1. f.kids \in Seq(GoodTexts) /\ f.at # 1 BY <1>2, <1>3, <1>5, <2>1, <2>2
      <3> QED BY <1>1, <2>2, <3>1, BlockSaid
    <2>7. BlockPlace(tokens, f, b + 1)
      <3>1. Is(tokens, a, {"CL"}) BY <2>4 DEF Is
      <3> QED BY <2>2, <2>4, <3>1 DEF BlockPlace
    <2>8. Says(tokens, a, b + 1, LoopSaid(f, "here"), 0) BY <2>4, <2>5, <2>6
    <2>9. f.at # 1 /\ f.at # 4 BY <2>2
    <2> QED BY <1>1, <2>2, <2>3, <2>7, <2>8, <2>9, BlockGo
  <1>6. CASE Top.at = 1 /\ Miss({"CL"}) /\ Go(At(4))
    <2>1. ~ret.done BY <1>2, <1>6
    <2>2. Known /\ curTok \notin {"CL"} BY <1>6 DEF Miss
    <2>3. Isnt(tokens, a, {"CL"}) BY <1>3, <1>6, <2>1, <2>2, AtToken DEF Isnt
    <2> QED BY <1>1, <1>6, <2>3, BlockLost DEF NoBlock
  <1>7. CASE Top.at = 2 /\ Consume("EOL") /\ Go(At(3))
    <2> DEFINE f == At(3)
    <2>1. ~ret.done BY <1>2, <1>7
    <2>2. f.fn = Top.fn /\ f.tokIdx = a /\ f.at = 3 /\ f.kids = Top.kids BY DEF At, Onward
    <2>3. Go(f) /\ curTokIdx' = b + 1 /\ Known /\ curTok = "EOL" BY <1>7 DEF getNextTok, Consume
    <2>4. b \in 1..Len(tokens) /\ tokens[b] = "EOL" BY <2>3, AtToken
    <2> HIDE DEF f
    <2>5. Says(tokens, a, b + 1, X, 0)
      <3>1. Says(tokens, a, b, X, 0) /\ 0 \in Nat BY <1>3, <1>4, <1>7, <2>1
      <3> QED BY <1>2, <2>4, <3>1, SaysSkip
    <2>6. BlockPlace(tokens, f, b + 1)
      <3>1. LineStart(tokens, b + 1)
        <4>1. (b + 1) - 1 = b BY <1>2
        <4> QED BY <2>4, <4>1 DEF LineStart
      <3> QED BY <2>2, <3>1 DEF BlockPlace
    <2>7. Says(tokens, a, b + 1, LoopSaid(f, "here"), 0) BY <1>4, <1>7, <2>2, <2>5
    <2>8. f.at # 1 /\ f.at # 4 BY <2>2
    <2> QED BY <1>1, <2>2, <2>3, <2>6, <2>7, <2>8, BlockGo
  <1>8. CASE Top.at = 2 /\ Miss({"EOL"}) /\ Go(At(4))
    <2>1. ~ret.done BY <1>2, <1>8
    <2>2. Known /\ curTok \notin {"EOL"} BY <1>8 DEF Miss
    <2>3. b = a + 1 BY <1>3, <1>8, <2>1 DEF BlockPlace
    <2>4. Isnt(tokens, b, {"EOL"}) BY <2>2, AtToken DEF Isnt
    <2> QED BY <1>1, <1>8, <2>3, <2>4, BlockLost DEF NoBlock
  <1>9. CASE Top.at = 3 /\ ~ret.done /\ Consume("EOL") /\ Go(Top)
    <2>1. Go(Top) /\ curTokIdx' = b + 1 /\ Known /\ curTok = "EOL" BY <1>9 DEF getNextTok, Consume
    <2>2. b \in 1..Len(tokens) /\ tokens[b] = "EOL" BY <2>1, AtToken
    <2>3. Says(tokens, a, b + 1, X, 0)
      <3>1. Says(tokens, a, b, X, 0) /\ 0 \in Nat BY <1>3, <1>4, <1>9
      <3> QED BY <1>2, <2>2, <3>1, SaysSkip
    <2>4. BlockPlace(tokens, Top, b + 1)
      <3>1. LineStart(tokens, b + 1)
        <4>1. (b + 1) - 1 = b BY <1>2
        <4> QED BY <2>2, <4>1 DEF LineStart
      <3> QED BY <1>9, <3>1 DEF BlockPlace
    <2>5. Says(tokens, a, b + 1, LoopSaid(Top, "here"), 0) BY <1>4, <1>9, <2>3
    <2>6. Top.at # 1 /\ Top.at # 4 BY <1>9
    <2> QED BY <1>1, <2>1, <2>4, <2>5, <2>6, BlockGo
  <1>10. CASE Top.at = 3 /\ ~ret.done /\ Consume("CR") /\ Return(Text(Top.fn, "none", Top.kids))
    <2> DEFINE t == Text(Top.fn, "none", Top.kids)
    <2>1. curTokIdx' = b + 1 /\ Known /\ curTok = "CR" BY <1>10 DEF getNextTok, Consume
    <2>2. b \in 1..Len(tokens) /\ tokens[b] = "CR" /\ a \in 1..b /\ "CR" \in Tokens
      BY <2>1, AtToken, WordsOfTexts
    <2>3. t \in GoodTexts /\ t # <<>> /\ Fill(t) = X \o <<"CR">>
      <3>1. \A i \in 1..Len(Top.kids) : Top.kids[i] # Null
        <4>1. Sound(Top) /\ Top.fn \notin KeepsNull BY <1>1, TopSound DEF ParserInv, KeepsNull
        <4> QED BY <4>1 DEF Sound
      <3> QED BY <1>1, <1>2, <3>1, BlockTextFilled DEF X
    <2>4. Return(t) BY <1>10
    <2> HIDE DEF t
    <2>5. Says(tokens, a, b + 1, Fill(t), 0)
      <3>1. Says(tokens, a, b, X, 0) /\ X \in GoodTexts /\ 0 \in Nat BY <1>3, <1>4, <1>10
      <3>2. tokens[b] \in Tokens /\ tokens[b] # "EOL" /\ ~DeclComma(tokens, b) BY <2>2, NotDeclComma
      <3>3. 0 = 0 + Opened(tokens[b]) BY <2>2 DEF Opened
      <3>4. Says(tokens, a, b + 1, X \o <<tokens[b]>>, 0)
        BY <1>2, <2>2, <3>1, <3>2, <3>3, SaysToken
      <3> QED BY <2>2, <2>3, <3>4
    <2>6. Is(tokens, (b + 1) - 1, {"CR"})
      <3>1. (b + 1) - 1 = b BY <1>2
      <3> QED BY <2>2, <3>1 DEF Is
    <2>7. Result(tokens, Top.fn, a, b + 1, t)
      BY <1>1, <2>3, <2>5, <2>6, LoopNames DEF Result, Null
    <2>8. Top.fn \in Functions /\ Top.fn # "parseProgram" /\ a \in 1..b + 1
      BY <1>1, <2>2, LoopNames
    <2> QED BY <1>1, <2>1, <2>4, <2>7, <2>8, ReturnSays DEF SaysOn
  <1>11. CASE Top.at = 3 /\ ~ret.done /\ Stay /\ Call(Top, "parseStmt", b)
    <2>1. Calling(Top, "parseStmt") BY <1>1, <1>11 DEF Calling
    <2>2. Says(tokens, a, b, LoopSaid(Top, "called"), 0) /\ BlockPlace(tokens, Top, b)
      BY <1>3, <1>4, <1>11
    <2>3. SaysSo(tokens, Top, "called", b) BY <1>1, <1>11, <2>2, BlockSaysSo
    <2>4. LineStart(tokens, b) BY <1>11, <2>2 DEF BlockPlace
    <2>5. "parseStmt" \in Functions \ {"parseProgram"} BY DEF Functions
    <2>6. SaysSo(tokens, Frame("parseStmt", b), "here", b)
      <3>1. b \in 1..Len(tokens) + 1 BY AtToken
      <3> QED BY <1>2, <2>4, <2>5, <3>1, FrameSays
    <2>7. curTokIdx' = b BY <1>11 DEF Stay
    <2> HIDE DEF a, b
    <2> QED BY <1>1, <1>11, <2>1, <2>3, <2>6, <2>7, CallSays DEF SaysOn, CallerSays, b
  <1>12. CASE ret.done /\ Stay /\ Go(IF ret.node = Null THEN Top ELSE With(3, ret.node))
    <2> DEFINE f == With(3, ret.node)
    <2>1. f.fn = Top.fn /\ f.tokIdx = a /\ f.at = 3 /\ f.kids = Append(Top.kids, ret.node)
      BY DEF With, Onward
    <2>2. Go(f) /\ curTokIdx' = b BY <1>2, <1>12 DEF Stay
    <2> HIDE DEF f
    <2>3. BlockPlace(tokens, f, b) BY <1>2, <1>12, <2>1 DEF BlockPlace
    <2>4. LoopSaid(f, "here") = X \o Fill(ret.node) BY <1>2, <1>4, <1>12, <2>1
    <2>5. Says(tokens, a, b, LoopSaid(f, "here"), 0) BY <1>2, <1>12, <2>4
    <2>6. f.at # 1 /\ f.at # 4 BY <2>1
    <2> QED BY <1>1, <2>1, <2>2, <2>3, <2>5, <2>6, BlockGo
  <1>13. CASE Top.at = 4 /\ Return(Null) /\ curTokIdx' \in {b, b + 1}
    <2>1. ~ret.done BY <1>2, <1>13
    <2>2. NoBlock(tokens, a) BY <1>3, <1>13, <2>1
    <2>3. Result(tokens, Top.fn, a, curTokIdx', Null) BY <1>1, <2>2 DEF Result
    <2>4. Top.fn \in Functions /\ Top.fn # "parseProgram" /\ a \in 1..curTokIdx'
      <3>1. a \in 1..b /\ b \in Nat BY AtToken
      <3> QED BY <1>1, <1>13, <3>1, LoopNames
    <2> QED BY <1>1, <1>13, <2>3, <2>4, ReturnSays DEF SaysOn
  <1>14. \/ Top.at = 1 /\ Consume("CL") /\ Go(At(2))
         \/ Top.at = 1 /\ Miss({"CL"}) /\ Go(At(4))
         \/ Top.at = 2 /\ Consume("EOL") /\ Go(At(3))
         \/ Top.at = 2 /\ Miss({"EOL"}) /\ Go(At(4))
         \/ Top.at = 3 /\ ~ret.done /\ Consume("EOL") /\ Go(Top)
         \/ Top.at = 3 /\ ~ret.done /\ Consume("CR") /\ Return(Text(Top.fn, "none", Top.kids))
         \/ Top.at = 3 /\ ~ret.done /\ Stay /\ Call(Top, "parseStmt", b)
         \/ ret.done /\ Stay /\ Go(IF ret.node = Null THEN Top ELSE With(3, ret.node))
         \/ Top.at = 4 /\ Return(Null) /\ curTokIdx' \in {b, b + 1}
    <2>1. \A S : Miss(S) => Stay BY DEF Miss
    <2>2. Stay \/ Consume("CR") => curTokIdx' \in {b, b + 1} BY DEF Stay, Consume, getNextTok
    <2> QED BY <2>1, <2>2, Zenon DEF parseStmtBlock
  <1> QED BY <1>5, <1>6, <1>7, <1>8, <1>9, <1>10, <1>11, <1>12, <1>13, <1>14

-----------------------------------------------------------------------------
(* The program.                                                            *)

LEMMA ProgramSaysSo ==
    ASSUME NEW s, NEW f, f.fn = "parseProgram", NEW v, NEW b
    PROVE  SaysSo(s, f, v, b) <=> /\ f.at = 1 => f.kids = <<>>
                                  /\ f.tokIdx = 1
                                  /\ Says(s, f.tokIdx, b, Run(Fills(f.kids)), 0)
  <1>1. f.at = 1 \/ f.at # 1 => LoopSaid(f, v) = Run(Fills(f.kids)) BY DEF LoopSaid
  <1> QED BY <1>1, LoopNames DEF SaysSo, Place, LoopSays

LEMMA ProgramHere ==
    ASSUME ParserInv, TreeInv, CallsSay, Top.fn = "parseProgram"
    PROVE  /\ tokens \in Buffers /\ Len(tokens) \in Nat /\ curTokIdx \in Nat
           /\ Top.kids \in Seq(GoodTexts) /\ Top.at \in Nat \ {0}
           /\ Run(Fills(Top.kids)) \in GoodTexts /\ Top.tokIdx = 1
           /\ ~ret.done => /\ Says(tokens, Top.tokIdx, curTokIdx, Run(Fills(Top.kids)), 0)
                           /\ Top.at = 1 => Top.kids = <<>>
           /\ ret.done =>
                 /\ ret.node # Null /\ ret.node \in GoodTexts
                 /\ Says(tokens, Top.tokIdx, curTokIdx,
                         Run(Fills(Top.kids)) \o Fill(ret.node), 0)
  <1> DEFINE X == Run(Fills(Top.kids))
  <1>1. tokens \in Buffers /\ Len(tokens) \in Nat /\ curTokIdx \in Nat BY AtToken
  <1>2. Top.kids \in Seq(GoodTexts) /\ Top.at \in Nat \ {0} BY TopSound DEF ParserInv
  <1>3. X \in GoodTexts BY <1>2, FillsGood, RunGood
  <1>4. CASE ~ret.done
    <2>1. SaysSo(tokens, Top, "here", curTokIdx) BY <1>4, TopSays
    <2>2. /\ Says(tokens, Top.tokIdx, curTokIdx, X, 0) /\ Top.tokIdx = 1
          /\ Top.at = 1 => Top.kids = <<>>
      BY <2>1, ProgramSaysSo
    <2> HIDE DEF X
    <2> QED BY <1>1, <1>2, <1>3, <1>4, <2>2 DEF X
  <1>5. CASE ret.done
    <2>1. PICK fn \in Functions : \E c \in 1..curTokIdx :
             /\ Calling(Top, fn) /\ SaysSo(tokens, Top, "called", c)
             /\ Result(tokens, fn, c, curTokIdx, ret.node)
      BY <1>5, TopSays
    <2>2. PICK c \in 1..curTokIdx :
             /\ Calling(Top, fn) /\ SaysSo(tokens, Top, "called", c)
             /\ Result(tokens, fn, c, curTokIdx, ret.node)
      BY <2>1
    <2>3. fn = "parseFnDef" BY <2>2, LoopNames DEF Calling
    <2>4. Says(tokens, Top.tokIdx, c, X, 0) /\ Top.tokIdx = 1 BY <2>2, ProgramSaysSo
    <2>5. ret.node # Null /\ Says(tokens, c, curTokIdx, Fill(ret.node), 0)
      BY <2>2, <2>3 DEF Result
    <2>6. ret.node \in GoodTexts /\ Fill(ret.node) \in GoodTexts BY RetGood, FillGood
    <2> HIDE DEF X
    <2>7. 0 \in Nat OBVIOUS
    <2>8. Says(tokens, Top.tokIdx, curTokIdx, X \o Fill(ret.node), 0)
      BY <1>1, <1>3, <2>4, <2>5, <2>6, <2>7, SaysJoin
    <2> QED BY <1>1, <1>2, <1>3, <1>5, <2>4, <2>5, <2>6, <2>8 DEF X
  <1> QED BY <1>4, <1>5, RetGood

LEMMA ProgramGo ==
    ASSUME ParserInv, TreeInv, CallsSay, tokens' = tokens, Top.fn = "parseProgram", NEW f, Go(f),
           f.fn = Top.fn, f.tokIdx = Top.tokIdx, f.at = 1 => f.kids = <<>>, NEW b, curTokIdx' = b,
           Says(tokens, Top.tokIdx, b, Run(Fills(f.kids)), 0)
    PROVE  SaysOn
  <1>1. Top.tokIdx = 1 BY ProgramHere
  <1>2. SaysSo(tokens, f, "here", b) BY <1>1, ProgramSaysSo
  <1> QED BY <1>2, GoSays DEF SaysOn

(* An end of line.                                                         *)
LEMMA ProgramLine ==
    ASSUME ParserInv, TreeInv, CallsSay, tokens' = tokens, Top.fn = "parseProgram", ~ret.done,
           Consume("EOL"), NEW f, Go(f), f.fn = Top.fn, f.tokIdx = Top.tokIdx, f.kids = Top.kids,
           f.at = 1 => f.kids = <<>>
    PROVE  SaysOn
  <1> DEFINE X == Run(Fills(Top.kids))
             b == curTokIdx
  <1>1. curTokIdx' = b + 1 /\ Known /\ curTok = "EOL" BY DEF getNextTok, Consume
  <1>2. b \in 1..Len(tokens) /\ tokens[b] = "EOL" BY <1>1, AtToken
  <1>3. Says(tokens, Top.tokIdx, b, X, 0) /\ tokens \in Buffers /\ 0 \in Nat BY ProgramHere
  <1> HIDE DEF X
  <1>4. Says(tokens, Top.tokIdx, b + 1, X, 0) BY <1>2, <1>3, SaysSkip
  <1>5. Says(tokens, Top.tokIdx, b + 1, Run(Fills(f.kids)), 0) BY <1>4 DEF X
  <1> QED BY <1>1, <1>5, ProgramGo

LEMMA ProgramSays ==
    ASSUME ParserInv, ParserInv', TreeInv, CallsSay, parseProgram PROVE SaysOn
  <1> DEFINE a == Top.tokIdx
             b == curTokIdx
             X == Run(Fills(Top.kids))
  <1>1. Top.fn = "parseProgram" /\ tokens' = tokens BY DEF parseProgram, In
  <1>2. /\ tokens \in Buffers /\ Len(tokens) \in Nat /\ b \in Nat
        /\ Top.kids \in Seq(GoodTexts) /\ Top.at \in Nat \ {0} /\ X \in GoodTexts /\ a = 1
        /\ ~ret.done => Says(tokens, a, b, X, 0) /\ (Top.at = 1 => Top.kids = <<>>)
        /\ ret.done => ret.node # Null /\ ret.node \in GoodTexts
                       /\ Says(tokens, a, b, X \o Fill(ret.node), 0)
    BY <1>1, ProgramHere
  <1>3. CASE ~ret.done /\ Consume("EOL") /\ Go(Top)
    <2>1. Top.at = 1 => Top.kids = <<>> BY <1>2, <1>3
    <2> QED BY <1>1, <1>3, <2>1, ProgramLine
  <1>4. CASE Top.at \in {1, 3} /\ ~ret.done /\ Stay /\ Call(Top, "parseFnDef", b)
    <2>1. Calling(Top, "parseFnDef") BY <1>1, <1>4 DEF Calling
    <2>2. Says(tokens, a, b, X, 0) /\ (Top.at = 1 => Top.kids = <<>>) /\ a = 1 BY <1>2, <1>4
    <2>3. SaysSo(tokens, Top, "called", b) BY <1>1, <2>2, ProgramSaysSo
    <2>4. "parseFnDef" \in Functions \ {"parseProgram"} BY RowNames DEF Row
    <2>5. SaysSo(tokens, Frame("parseFnDef", b), "here", b)
      <3>1. b \in 1..Len(tokens) + 1 BY AtToken
      <3> QED BY <1>2, <2>4, <3>1, FrameSays
    <2>6. curTokIdx' = b BY <1>4 DEF Stay
    <2> HIDE DEF a, b, X
    <2> QED BY <1>1, <1>4, <2>1, <2>3, <2>5, <2>6, CallSays DEF SaysOn, CallerSays, b
  <1>5. CASE ret.done /\ Stay /\ Go(With(2, ret.node))
    <2> DEFINE f == With(2, ret.node)
    <2>1. f.fn = Top.fn /\ f.tokIdx = a /\ f.at = 2 /\ f.kids = Append(Top.kids, ret.node)
      BY DEF With, Onward
    <2>2. Go(f) /\ curTokIdx' = b BY <1>5 DEF Stay
    <2> HIDE DEF f
    <2>3. Run(Fills(f.kids)) = X \o Fill(ret.node)
      <3>1. Fill(ret.node) \in GoodTexts BY <1>2, <1>5, FillGood
      <3>2. Fills(f.kids) = Append(Fills(Top.kids), Fill(ret.node)) BY <1>2, <1>5, <2>1, FillsAppend
      <3>3. Fills(Top.kids) \in Seq(GoodTexts) BY <1>2, FillsGood
      <3>4. Run(Append(Fills(Top.kids), Fill(ret.node))) = X \o Fill(ret.node)
        BY <3>1, <3>3, RunAppend DEF GoodTexts
      <3> QED BY <3>2, <3>4
    <2> HIDE DEF X
    <2>4. Says(tokens, a, b, Run(Fills(f.kids)), 0) BY <1>2, <1>5, <2>3
    <2>5. f.at # 1 BY <2>1
    <2> QED BY <1>1, <2>1, <2>2, <2>4, <2>5, ProgramGo
  <1>6. CASE Top.at = 2 /\ ~ret.done /\ Consume("EOL") /\ Go(At(3))
    <2> DEFINE f == At(3)
    <2>1. f.fn = Top.fn /\ f.tokIdx = a /\ f.at = 3 /\ f.kids = Top.kids BY DEF At, Onward
    <2>2. Go(f) BY <1>6
    <2> HIDE DEF f
    <2>3. f.at # 1 BY <2>1
    <2> QED BY <1>1, <1>6, <2>1, <2>2, <2>3, ProgramLine
  <1>7. CASE Throw BY <1>7 DEF Throw, SaysOn
  <1>8. CASE UNCHANGED <<calls, ret, curTokIdx>>
    <2>1. Top' = Top BY <1>8 DEF Top
    <2>2. CallsSay' BY <1>1, <1>8, <2>1 DEF CallsSay
    <2> QED BY <2>2 DEF SaysOn
  <1>9. Top.at = 2 => ~ret.done
    <2>1. ret.done => \E fn : Calling(Top, fn) BY TopSays
    <2> QED BY <1>1, <2>1, LoopNames DEF Calling
  <1>10. \/ ~ret.done /\ Consume("EOL") /\ Go(Top)
         \/ Top.at \in {1, 3} /\ ~ret.done /\ Stay /\ Call(Top, "parseFnDef", b)
         \/ ret.done /\ Stay /\ Go(With(2, ret.node))
         \/ Top.at = 2 /\ ~ret.done /\ Consume("EOL") /\ Go(At(3))
         \/ Throw
         \/ UNCHANGED <<calls, ret, curTokIdx>>
    <2>1. \A S : Miss(S) => Stay BY DEF Miss
    <2>2. \A S : Look(S) => curTokIdx' = curTokIdx BY DEF Look, Stay
    <2>3. CASE Top.at = 3 /\ ~ret.done /\ Look({"End"}) /\ UNCHANGED <<calls, ret>>
      BY <2>2, <2>3
    <2> QED BY <1>9, <2>1, <2>3, Zenon DEF parseProgram
  <1> QED BY <1>3, <1>4, <1>5, <1>6, <1>7, <1>8, <1>10

-----------------------------------------------------------------------------
(* Array declarations.                                                     *)

LEMMA ArraySaysSo ==
    ASSUME NEW s, NEW f, f.fn = "parseArrayDecls", NEW v, NEW b
    PROVE  /\ SaysSo(s, f, v, b) =>
                 /\ f.at = 1 => f.kids = <<>> /\ b = f.tokIdx
                 /\ Clean(s, f.tokIdx, b) /\ LineStart(s, f.tokIdx) /\ ArraySays(s, f, v, b)
           /\ /\ f.at # 1 /\ Clean(s, f.tokIdx, b) /\ LineStart(s, f.tokIdx) /\ ArraySays(s, f, v, b)
              => SaysSo(s, f, v, b)
  BY LoopNames DEF SaysSo, Place

LEMMA Pair == ASSUME NEW x, NEW y PROVE <<x>> \o <<y>> = <<x, y>>
  <1>1. <<x>> \in Seq({x, y}) /\ <<y>> \in Seq({x, y}) /\ <<x, y>> \in Seq({x, y}) OBVIOUS
  <1>2. <<x>> \o <<y>> \in Seq({x, y}) BY <1>1
  <1>3. Len(<<x>> \o <<y>>) = 2 /\ Len(<<x, y>>) = 2 BY <1>1
  <1>4. (<<x>> \o <<y>>)[1] = x /\ (<<x>> \o <<y>>)[2] = y OBVIOUS
  <1>5. <<x, y>>[1] = x /\ <<x, y>>[2] = y OBVIOUS
  <1>6. \A i \in 1..2 : i = 1 \/ i = 2 OBVIOUS
  <1>7. \A i \in 1..2 : (<<x>> \o <<y>>)[i] = <<x, y>>[i] BY <1>4, <1>5, <1>6
  <1> QED BY <1>1, <1>2, <1>3, <1>7, SeqEqual

LEMMA OpensJoin ==
    ASSUME NEW s \in Buffers, NEW a, NEW b, NEW c, NEW n \in Nat, Opens(s, a, c, n), Opens(s, c, b, 0)
    PROVE  Opens(s, a, b, n) /\ (Unclosed(s, a, c, n) => Unclosed(s, a, b, n))
  <1>1. /\ c \in 1..b /\ b \in 1..Len(s) + 1 /\ a \in 1..c
        /\ Depth(s)[b - 1] >= Depth(s)[c - 1] + 0
        /\ Depth(s)[c - 1] >= Depth(s)[a - 1] + n
    BY DEF Opens
  <1>2. Len(s) \in Nat BY DEF Buffers
  <1>3. a \in 1..Len(s) + 1 /\ c \in 1..Len(s) + 1 /\ a \in 1..b
    <2>1. b \in Nat /\ b <= Len(s) + 1 /\ c \in Nat /\ c <= b /\ a \in Nat /\ a <= c /\ 1 <= a
      BY <1>1, <1>2
    <2> QED BY <1>2, <2>1
  <1>4. /\ Depth(s)[b - 1] \in Int /\ Depth(s)[c - 1] \in Int /\ Depth(s)[a - 1] \in Int
    BY <1>1, <1>3, SpanEnds
  <1> DEFINE x == Depth(s)[a - 1]
             y == Depth(s)[b - 1]
             z == Depth(s)[c - 1]
  <1>5. y >= z + 0 /\ z >= x + n /\ x \in Int /\ y \in Int /\ z \in Int BY <1>1, <1>4
  <1>6. Unclosed(s, a, c, n) => z > x + n BY DEF Unclosed
  <1>7. y > x + n => Unclosed(s, a, b, n) BY DEF Unclosed
  <1>8. y >= x + n => Opens(s, a, b, n) BY <1>1, <1>3 DEF Opens
  <1> HIDE DEF x, y, z
  <1>9. y >= x + n /\ (z > x + n => y > x + n) BY <1>5
  <1> QED BY <1>6, <1>7, <1>8, <1>9

LEMMA ArrayOpenings ==
    ASSUME NEW f, f.fn = "parseArrayDecls"
    PROVE  LeftOpen(f, "here") = 0 /\ LeftOpen(f, "called") = 1
  BY DEF LeftOpen

(* What is said where.                                                     *)
LEMMA ArraySaid ==
    ASSUME NEW f, f.fn = "parseArrayDecls", f.at # 1, f.kids \in Seq(GoodTexts)
    PROVE  /\ f.at \in {2, 3} => LoopSaid(f, "here") = <<"Type_array">> \o Items(f)
           /\ f.at = 4 => LoopSaid(f, "here") = <<"Type_array">> \o ItemsOn(f)
           /\ f.at = 5 => /\ LoopSaid(f, "here") = (<<"Type_array">> \o ItemsOn(f)) \o <<"Id">>
                          /\ LoopSaid(f, "called") = (<<"Type_array">> \o ItemsOn(f)) \o <<"Id", "SL">>
           /\ <<"Type_array">> \o Items(f) \in GoodTexts
           /\ <<"Type_array">> \o ItemsOn(f) \in GoodTexts
           /\ (<<"Type_array">> \o ItemsOn(f)) \o <<"Id">> \in GoodTexts
           /\ (<<"Type_array">> \o ItemsOn(f)) \o <<"Id", "SL">> \in GoodTexts
           /\ ((<<"Type_array">> \o ItemsOn(f)) \o <<"Id">>) \o <<"SL">> =
                 (<<"Type_array">> \o ItemsOn(f)) \o <<"Id", "SL">>
           /\ f.kids = <<>> => <<"Type_array">> \o Items(f) = <<"Type_array">>
           /\ f.kids # <<>> => (<<"Type_array">> \o Items(f)) \o <<"Comma">> = <<"Type_array">> \o ItemsOn(f)
  <1> DEFINE o == <<"Type_array">>
  <1>1. /\ f.at \in {2, 3} => LoopSaid(f, "here") = o \o Items(f)
        /\ f.at = 4 => LoopSaid(f, "here") = o \o ItemsOn(f)
        /\ f.at = 5 => /\ LoopSaid(f, "here") = (o \o ItemsOn(f)) \o <<"Id">>
                       /\ LoopSaid(f, "called") = (o \o ItemsOn(f)) \o <<"Id", "SL">>
    <2>1. f.at \in {2, 3} => LoopSaid(f, "here") = o \o Items(f) BY DEF LoopSaid
    <2>2. f.at = 4 => LoopSaid(f, "here") = o \o ItemsOn(f) BY DEF LoopSaid
    <2>3. f.at = 5 => LoopSaid(f, "here") = (o \o ItemsOn(f)) \o <<"Id">> BY DEF LoopSaid
    <2>4. f.at = 5 => LoopSaid(f, "called") = (o \o ItemsOn(f)) \o <<"Id", "SL">> BY DEF LoopSaid
    <2> QED BY <2>1, <2>2, <2>3, <2>4
  <1>2. "Type_array" \in Tokens /\ "Id" \in Tokens /\ "SL" \in Tokens /\ "Comma" \in Tokens
    BY WordsOfTexts DEF TypeTokens
  <1>3. /\ o \in GoodTexts /\ <<"Id">> \in GoodTexts /\ <<"SL">> \in GoodTexts
        /\ <<"Id", "SL">> \in GoodTexts /\ <<"Comma">> \in GoodTexts
    BY <1>2, TextsJoin
  <1>4. Items(f) \in GoodTexts /\ ItemsOn(f) \in GoodTexts BY ItemsOf
  <1> HIDE DEF o
  <1>5. o \o Items(f) \in GoodTexts /\ o \o ItemsOn(f) \in GoodTexts BY <1>3, <1>4, TextsJoin
  <1>6. (o \o ItemsOn(f)) \o <<"Id">> \in GoodTexts /\ (o \o ItemsOn(f)) \o <<"Id", "SL">> \in GoodTexts
    BY <1>3, <1>5, TextsJoin
  <1>7. ((o \o ItemsOn(f)) \o <<"Id">>) \o <<"SL">> = (o \o ItemsOn(f)) \o <<"Id", "SL">>
    <2>1. Assoc(o \o ItemsOn(f), <<"Id">>, <<"SL">>) BY <1>3, <1>5, Flat3
    <2>2. <<"Id">> \o <<"SL">> = <<"Id", "SL">> BY Pair
    <2> QED BY <2>1, <2>2 DEF Assoc
  <1>8. f.kids = <<>> => o \o Items(f) = o
    <2>1. f.kids = <<>> => Items(f) = <<>> BY ItemsOf
    <2>2. o \o <<>> = o BY <1>3, ConcatEmptySeq DEF GoodTexts
    <2> QED BY <2>1, <2>2
  <1>9. f.kids # <<>> => (o \o Items(f)) \o <<"Comma">> = o \o ItemsOn(f)
    <2>1. f.kids # <<>> => ItemsOn(f) = Items(f) \o <<"Comma">> BY ItemsOf
    <2>2. Assoc(o, Items(f), <<"Comma">>) BY <1>3, <1>4, Flat3
    <2>3. o \o (Items(f) \o <<"Comma">>) = (o \o Items(f)) \o <<"Comma">> BY <2>2 DEF Assoc
    <2> QED BY <2>1, <2>3
  <1> QED BY <1>1, <1>5, <1>6, <1>7, <1>8, <1>9 DEF o

(* A token is consumed.                                                    *)
LEMMA ArrayToken ==
    ASSUME NEW s \in Buffers, NEW a \in Nat, NEW b \in 1..Len(s), NEW n \in Nat, NEW m \in Nat,
           m = n + Opened(s[b]), Clean(s, a, b), Opens(s, a, b, n), s[b] \in Tokens,
           s[b] \notin {"EOL", "CR"}, s[b] # "Comma" \/ Is(s, a, {"Type_array"})
    PROVE  /\ Clean(s, a, b + 1) /\ Opens(s, a, b + 1, m)
           /\ Unclosed(s, a, b, n) => Unclosed(s, a, b + 1, m)
           /\ \A X \in GoodTexts : Says(s, a, b, X, n) => Says(s, a, b + 1, X \o <<s[b]>>, m)
  <1>1. b \in Nat /\ Isnt(s, b, {"EOL", "CR"}) BY DEF Isnt
  <1>2. Clean(s, a, b + 1) BY <1>1, CleanSpans
  <1>3. ~DeclComma(s, b)
    <2>1. CASE s[b] # "Comma" BY <2>1, NotDeclComma
    <2>2. CASE s[b] = "Comma"
      <3>1. s[a] = "Type_array" BY <2>2 DEF Is
      <3>2. a \in 1..b BY DEF Opens
      <3>3. a < b BY <1>1, <2>2, <3>1, <3>2
      <3> QED BY <1>1, <3>1, <3>3, NotDeclComma
    <2> QED BY <2>1, <2>2
  <1>4. Opens(s, a, b + 1, m) /\ (Unclosed(s, a, b, n) => Unclosed(s, a, b + 1, m)) BY OpensToken
  <1>5. \A X \in GoodTexts : Says(s, a, b, X, n) => Says(s, a, b + 1, X \o <<s[b]>>, m)
    BY <1>3, SaysToken
  <1> QED BY <1>2, <1>4, <1>5

(* Where a name should be, there is none, or no bracket after it.          *)
LEMMA NoName ==
    ASSUME NEW s \in Buffers, NEW a \in Nat \ {0}, LineStart(s, a), Is(s, a, {"Type_array"}),
           NEW i, i \in a..Len(s), NameDue(s, a, i),
           \/ i = a /\ (Isnt(s, i + 1, {"Id"}) \/ Isnt(s, i + 2, {"SL", "PL"}))
           \/ NoHead(s, a) /\ (Isnt(s, i + 1, {"Id"}) \/ Isnt(s, i + 2, {"SL"}))
    PROVE  PassedOver(s)
  <1>1. a \in 1..Len(s) /\ s[a] = "Type_array" BY DEF Is
  <1> QED BY <1>1 DEF PassedOver, BadName

LEMMA ArrayHere ==
    ASSUME ParserInv, TreeInv, CallsSay, Top.fn = "parseArrayDecls"
    PROVE  /\ tokens \in Buffers /\ Len(tokens) \in Nat /\ curTokIdx \in Nat /\ Top.tokIdx \in Nat \ {0}
           /\ Top.kids \in Seq(GoodTexts) /\ Top.at \in Nat \ {0} /\ LineStart(tokens, Top.tokIdx)
           /\ ret.done \in BOOLEAN
           /\ ~ret.done =>
                 /\ Top.at = 1 => Top.kids = <<>> /\ curTokIdx = Top.tokIdx
                 /\ Clean(tokens, Top.tokIdx, curTokIdx)
                 /\ ArraySays(tokens, Top, "here", curTokIdx)
           /\ ret.done =>
                 /\ Top.at = 5 /\ ret.node \in GoodTexts
                 /\ Clean(tokens, Top.tokIdx, curTokIdx)
                 /\ Is(tokens, Top.tokIdx, {"Type_array"})
                 /\ Opens(tokens, Top.tokIdx, curTokIdx, 1)
                 /\ \/ Unclosed(tokens, Top.tokIdx, curTokIdx, 1)
                    \/ /\ Says(tokens, Top.tokIdx, curTokIdx,
                               ((<<"Type_array">> \o ItemsOn(Top)) \o <<"Id", "SL">>) \o Fill(ret.node), 1)
                       /\ Top.op = "Id" /\ NoHead(tokens, Top.tokIdx)
  <1> DEFINE a == Top.tokIdx
             b == curTokIdx
             X == (<<"Type_array">> \o ItemsOn(Top)) \o <<"Id", "SL">>
  <1>1. tokens \in Buffers /\ Len(tokens) \in Nat /\ b \in Nat /\ a \in Nat \ {0} BY AtToken
  <1>2. Top.kids \in Seq(GoodTexts) /\ Top.at \in Nat \ {0} /\ ret.done \in BOOLEAN
    BY TopSound, RetGood DEF ParserInv
  <1>3. CASE ~ret.done
    <2>1. SaysSo(tokens, Top, "here", curTokIdx) BY <1>3, TopSays
    <2> QED BY <1>1, <1>2, <1>3, <2>1, ArraySaysSo
  <1>4. CASE ret.done
    <2>1. PICK fn \in Functions : \E c \in 1..curTokIdx :
             /\ Calling(Top, fn) /\ SaysSo(tokens, Top, "called", c)
             /\ Result(tokens, fn, c, curTokIdx, ret.node)
      BY <1>4, TopSays
    <2>2. PICK c \in 1..curTokIdx :
             /\ Calling(Top, fn) /\ SaysSo(tokens, Top, "called", c)
             /\ Result(tokens, fn, c, curTokIdx, ret.node)
      BY <2>1
    <2>3. Top.at = 5 /\ fn = "parseExpr" BY <2>2, LoopNames DEF Calling
    <2>4. Clean(tokens, a, c) /\ LineStart(tokens, a) /\ ArraySays(tokens, Top, "called", c)
      BY <2>2, ArraySaysSo
    <2>5. /\ Opens(tokens, a, c, 1) /\ Is(tokens, a, {"Type_array"})
          /\ \/ Unclosed(tokens, a, c, 1)
             \/ /\ Says(tokens, a, c, LoopSaid(Top, "called"), 1)
                /\ ArrayPlace(tokens, Top, "called", c)
      BY <2>3, <2>4, ArrayOpenings DEF ArraySays, AtHead
    <2>6. ret.node \in GoodTexts /\ Fill(ret.node) \in GoodTexts BY RetGood, FillGood
    <2>7. Says(tokens, c, b, Fill(ret.node), 0) /\ Clean(tokens, c, b)
      <3>1. c \in 1..Len(tokens) + 1 BY <2>5 DEF Opens
      <3> QED BY <1>1, <2>2, <2>3, <2>6, <3>1, ExprSays
    <2>8. Clean(tokens, a, b) BY <1>1, <2>4, <2>7, CleanSpans
    <2>9. Opens(tokens, a, b, 1) /\ (Unclosed(tokens, a, c, 1) => Unclosed(tokens, a, b, 1))
      <3>1. Opens(tokens, c, b, 0) BY <2>7 DEF Says
      <3> QED BY <1>1, <2>5, <3>1, OpensJoin
    <2>10. CASE Unclosed(tokens, a, c, 1)
      BY <1>1, <1>2, <1>4, <2>3, <2>4, <2>5, <2>6, <2>8, <2>9, <2>10
    <2>12. LoopSaid(Top, "called") = X /\ X \in GoodTexts
      <3>1. Top.at # 1 BY <2>3
      <3> QED BY <1>2, <2>3, <3>1, ArraySaid
    <2>11. CASE Says(tokens, a, c, LoopSaid(Top, "called"), 1) /\ ArrayPlace(tokens, Top, "called", c)
      <3>1. Top.op = "Id" /\ NoHead(tokens, a) BY <2>3, <2>11 DEF ArrayPlace
      <3>2. LoopSaid(Top, "called") = X /\ X \in GoodTexts BY <2>12
      <3> HIDE DEF X
      <3>3. 1 \in Nat OBVIOUS
      <3>4. Says(tokens, a, b, X \o Fill(ret.node), 1)
        BY <1>1, <2>6, <2>7, <2>11, <3>2, <3>3, SaysJoin
      <3> QED BY <1>1, <1>2, <1>4, <2>3, <2>4, <2>5, <2>6, <2>8, <2>9, <3>1, <3>4 DEF X
    <2> QED BY <2>5, <2>10, <2>11
  <1> QED BY <1>2, <1>3, <1>4

LEMMA ArrayGo ==
    ASSUME ParserInv, TreeInv, CallsSay, tokens' = tokens, Top.fn = "parseArrayDecls", NEW f, Go(f),
           f.fn = Top.fn, f.tokIdx = Top.tokIdx, f.at # 1, NEW b, curTokIdx' = b,
           Clean(tokens, Top.tokIdx, b), Opens(tokens, Top.tokIdx, b, 0),
           Is(tokens, Top.tokIdx, {"Type_array"}),
           \/ Unclosed(tokens, Top.tokIdx, b, 0)
           \/ AtHead(tokens, f, "here", b)
           \/ Says(tokens, Top.tokIdx, b, LoopSaid(f, "here"), 0) /\ ArrayPlace(tokens, f, "here", b)
    PROVE  SaysOn
  <1>1. LineStart(tokens, Top.tokIdx) BY ArrayHere
  <1>2. ArraySays(tokens, f, "here", b) BY ArrayOpenings DEF ArraySays
  <1>3. SaysSo(tokens, f, "here", b) BY <1>1, <1>2, ArraySaysSo
  <1> QED BY <1>3, GoSays DEF SaysOn

-----------------------------------------------------------------------------

(* What parseArrayDecls has said where it has not called parseExpr.        *)
LEMMA ArrayAt ==
    ASSUME ParserInv, TreeInv, CallsSay, Top.fn = "parseArrayDecls", ~ret.done, Top.at # 1
    PROVE  /\ Clean(tokens, Top.tokIdx, curTokIdx) /\ Opens(tokens, Top.tokIdx, curTokIdx, 0)
           /\ Is(tokens, Top.tokIdx, {"Type_array"})
           /\ \/ Unclosed(tokens, Top.tokIdx, curTokIdx, 0)
              \/ AtHead(tokens, Top, "here", curTokIdx)
              \/ /\ Says(tokens, Top.tokIdx, curTokIdx, LoopSaid(Top, "here"), 0)
                 /\ ArrayPlace(tokens, Top, "here", curTokIdx)
  <1>1. Clean(tokens, Top.tokIdx, curTokIdx) /\ ArraySays(tokens, Top, "here", curTokIdx)
        /\ Top.at \in Nat \ {0}
    BY ArrayHere
  <1>2. Top.at > 1 BY <1>1
  <1> QED BY <1>1, <1>2, ArrayOpenings DEF ArraySays

LEMMA ArrayBegins ==
    ASSUME ParserInv, TreeInv, CallsSay, tokens' = tokens, Top.fn = "parseArrayDecls", ~ret.done,
           Top.at = 1, Consume("Type_array"), Go(At(2))
    PROVE  SaysOn
  <1> DEFINE a == Top.tokIdx
             b == curTokIdx
             f == At(2)
  <1>1. tokens \in Buffers /\ Len(tokens) \in Nat /\ a \in Nat \ {0} /\ Top.kids = <<>> /\ b = a
    BY ArrayHere
  <1>2. f.fn = Top.fn /\ f.tokIdx = a /\ f.at = 2 /\ f.kids = <<>> /\ Go(f)
    BY <1>1 DEF At, Onward
  <1>3. Known /\ curTok = "Type_array" /\ curTokIdx' = b + 1 BY DEF Consume, getNextTok
  <1>4. a \in 1..Len(tokens) /\ tokens[a] = "Type_array" /\ "Type_array" \in Tokens
    BY <1>1, <1>3, AtToken, WordsOfTexts DEF TypeTokens
  <1> HIDE DEF f
  <1>5. Says(tokens, a, a + 1, <<"Type_array">>, 0) /\ Clean(tokens, a, a + 1)
    <2>1. a \in 1..Len(tokens) + 1 /\ a \in Nat BY <1>1, <1>4
    <2>2. Says(tokens, a, a, <<>>, 0) BY <1>1, <2>1, SaysNothing
    <2>3. Clean(tokens, a, a) BY <1>1, CleanSpans
    <2>4. tokens[a] \in Tokens /\ tokens[a] \notin {"EOL", "CR", "SL", "SR", "Comma"} BY <1>4
    <2>5. <<>> \in GoodTexts BY TextsJoin
    <2>6. Says(tokens, a, a + 1, <<>> \o <<tokens[a]>>, 0) /\ Clean(tokens, a, a + 1)
      BY <1>1, <1>4, <2>1, <2>2, <2>3, <2>4, <2>5, ListToken
    <2>7. <<>> \o <<"Type_array">> = <<"Type_array">> OBVIOUS
    <2> QED BY <1>4, <2>6, <2>7
  <1>6. LoopSaid(f, "here") = <<"Type_array">>
    <2>1. f.kids \in Seq(GoodTexts) /\ f.at # 1 /\ f.at \in {2, 3} BY <1>2
    <2> QED BY <1>2, <2>1, ArraySaid
  <1>7. ArrayPlace(tokens, f, "here", b + 1)
    <2>1. b + 1 = a + 1 BY <1>1
    <2> QED BY <1>2, <2>1 DEF ArrayPlace
  <1>8. Says(tokens, a, b + 1, LoopSaid(f, "here"), 0) BY <1>1, <1>5, <1>6
  <1>9. Opens(tokens, a, b + 1, 0) BY <1>8 DEF Says
  <1>10. Is(tokens, a, {"Type_array"}) BY <1>4 DEF Is
  <1>11. Clean(tokens, a, b + 1) /\ f.at # 1 BY <1>1, <1>2, <1>5
  <1> QED BY <1>2, <1>3, <1>7, <1>8, <1>9, <1>10, <1>11, ArrayGo

(* A second `array' is not a name.                                         *)
LEMMA ArrayAgain ==
    ASSUME ParserInv, TreeInv, CallsSay, tokens' = tokens, Top.fn = "parseArrayDecls", ~ret.done,
           Top.at = 2, Consume("Type_array"), Go(At(3))
    PROVE  SaysOn
  <1> DEFINE a == Top.tokIdx
             b == curTokIdx
             f == At(3)
  <1>1. tokens \in Buffers /\ Len(tokens) \in Nat /\ a \in Nat \ {0} /\ LineStart(tokens, a)
    BY ArrayHere
  <1>2. /\ Clean(tokens, a, b) /\ Opens(tokens, a, b, 0) /\ Is(tokens, a, {"Type_array"})
        /\ \/ Unclosed(tokens, a, b, 0)
           \/ AtHead(tokens, Top, "here", b)
           \/ Says(tokens, a, b, LoopSaid(Top, "here"), 0) /\ ArrayPlace(tokens, Top, "here", b)
    <2>1. Top.at # 1 OBVIOUS
    <2> QED BY <2>1, ArrayAt
  <1>3. Known /\ curTok = "Type_array" /\ curTokIdx' = b + 1 BY DEF Consume, getNextTok
  <1>4. b \in 1..Len(tokens) /\ tokens[b] = "Type_array" /\ "Type_array" \in Tokens
    BY <1>3, AtToken, WordsOfTexts DEF TypeTokens
  <1>5. f.fn = Top.fn /\ f.tokIdx = a /\ f.at = 3 /\ Go(f) BY DEF At, Onward
  <1> HIDE DEF f
  <1>6. CASE Unclosed(tokens, a, b, 0)
    <2>1. 0 = 0 + Opened(tokens[b]) /\ 0 \in Nat /\ a \in Nat BY <1>1, <1>4 DEF Opened
    <2>2. tokens[b] \in Tokens /\ tokens[b] \notin {"EOL", "CR"} /\ tokens[b] # "Comma" BY <1>4
    <2>3. /\ Clean(tokens, a, b + 1) /\ Opens(tokens, a, b + 1, 0)
          /\ Unclosed(tokens, a, b + 1, 0)
      BY <1>1, <1>2, <1>4, <1>6, <2>1, <2>2, ArrayToken
    <2>4. f.at # 1 BY <1>5
    <2> QED BY <1>2, <1>3, <1>5, <2>3, <2>4, ArrayGo
  <1>7. CASE AtHead(tokens, Top, "here", b) BY <1>7 DEF AtHead
  <1>8. CASE ArrayPlace(tokens, Top, "here", b)
    <2>1. b = a + 1 BY <1>8 DEF ArrayPlace
    <2>2. Isnt(tokens, a + 1, {"Id"}) BY <1>4, <2>1 DEF Isnt
    <2>3. a \in a..Len(tokens) /\ NameDue(tokens, a, a) BY <1>1, <1>2 DEF NameDue, Is
    <2>4. PassedOver(tokens) BY <1>1, <1>2, <2>2, <2>3, NoName
    <2> QED BY <2>4 DEF SaysOn
  <1> QED BY <1>2, <1>6, <1>7, <1>8

(* The first name is due.                                                  *)
LEMMA ArrayFirst ==
    ASSUME ParserInv, TreeInv, CallsSay, tokens' = tokens, Top.fn = "parseArrayDecls", ~ret.done,
           Stay, \/ Top.at = 2 /\ Go(At(3))
                 \/ Top.at = 3 /\ Top.kids = <<>> /\ Go(At(4))
    PROVE  SaysOn
  <1> DEFINE a == Top.tokIdx
             b == curTokIdx
  <1>1. tokens \in Buffers /\ Len(tokens) \in Nat /\ a \in Nat \ {0} /\ Top.kids \in Seq(GoodTexts)
    BY ArrayHere
  <1>2. /\ Clean(tokens, a, b) /\ Opens(tokens, a, b, 0) /\ Is(tokens, a, {"Type_array"})
        /\ \/ Unclosed(tokens, a, b, 0)
           \/ AtHead(tokens, Top, "here", b)
           \/ Says(tokens, a, b, LoopSaid(Top, "here"), 0) /\ ArrayPlace(tokens, Top, "here", b)
    <2>1. Top.at # 1 OBVIOUS
    <2> QED BY <2>1, ArrayAt
  <1>3. PICK f : /\ f.fn = Top.fn /\ f.tokIdx = a /\ f.kids = Top.kids /\ Go(f)
                 /\ \/ Top.at = 2 /\ f.at = 3
                    \/ Top.at = 3 /\ Top.kids = <<>> /\ f.at = 4
    <2>1. /\ At(3).fn = Top.fn /\ At(3).tokIdx = a /\ At(3).kids = Top.kids /\ At(3).at = 3
          /\ At(4).fn = Top.fn /\ At(4).tokIdx = a /\ At(4).kids = Top.kids /\ At(4).at = 4
      BY DEF At, Onward
    <2>2. CASE Top.at = 2 /\ Go(At(3)) BY <2>1, <2>2
    <2>3. CASE Top.at = 3 /\ Top.kids = <<>> /\ Go(At(4)) BY <2>1, <2>3
    <2> QED BY <2>2, <2>3
  <1>4. curTokIdx' = b /\ f.at # 1 BY <1>3 DEF Stay
  <1>5. CASE Unclosed(tokens, a, b, 0) BY <1>2, <1>3, <1>4, <1>5, ArrayGo
  <1>6. CASE AtHead(tokens, Top, "here", b)
    <2>1. AtHead(tokens, f, "here", b) BY <1>3, <1>6 DEF AtHead
    <2> QED BY <1>2, <1>3, <1>4, <2>1, ArrayGo
  <1>7. CASE Says(tokens, a, b, LoopSaid(Top, "here"), 0) /\ ArrayPlace(tokens, Top, "here", b)
    <2>1. Top.kids = <<>> /\ b = a + 1 BY <1>3, <1>7 DEF ArrayPlace
    <2>2. LoopSaid(Top, "here") = <<"Type_array">>
      <3>1. Top.at # 1 /\ Top.at \in {2, 3} BY <1>3
      <3> QED BY <1>1, <2>1, <3>1, ArraySaid
    <2>3. LoopSaid(f, "here") = <<"Type_array">>
      <3>1. f.kids \in Seq(GoodTexts) /\ f.kids = <<>> /\ f.at # 1 BY <1>1, <1>3, <2>1
      <3>2. Items(f) = <<>> /\ ItemsOn(f) = <<>> BY <3>1, ItemsOf
      <3>3. <<"Type_array">> \o Items(f) = <<"Type_array">> BY <1>3, <3>1, ArraySaid
      <3>4. \/ LoopSaid(f, "here") = <<"Type_array">> \o Items(f)
            \/ LoopSaid(f, "here") = <<"Type_array">> \o ItemsOn(f)
        <4>1. f.at \in {2, 3} \/ f.at = 4 BY <1>3
        <4> QED BY <1>3, <3>1, <4>1, ArraySaid
      <3> QED BY <3>2, <3>3, <3>4
    <2>4. ArrayPlace(tokens, f, "here", b)
      <3>1. f.at = 4 => AtName(tokens, f, b - 1)
        <4>1. b - 1 = a BY <1>1, <2>1
        <4>2. a \in a..Len(tokens) /\ NameDue(tokens, a, a) BY <1>1, <1>2 DEF NameDue, Is
        <4> QED BY <1>3, <2>1, <4>1, <4>2 DEF AtName
      <3>2. f.kids = <<>> /\ f.tokIdx = a /\ f.at \in {3, 4} BY <1>3, <2>1
      <3> QED BY <2>1, <3>1, <3>2 DEF ArrayPlace
    <2>5. Says(tokens, a, b, LoopSaid(f, "here"), 0) BY <1>7, <2>2, <2>3
    <2> QED BY <1>2, <1>3, <1>4, <2>4, <2>5, ArrayGo
  <1> QED BY <1>2, <1>5, <1>6, <1>7

(* A further name is due.                                                  *)
LEMMA ArrayNext ==
    ASSUME ParserInv, TreeInv, CallsSay, tokens' = tokens, Top.fn = "parseArrayDecls", ~ret.done,
           Top.at = 3, Top.kids # <<>>, Consume("Comma"), Go(At(4))
    PROVE  SaysOn
  <1> DEFINE a == Top.tokIdx
             b == curTokIdx
             f == At(4)
  <1>1. tokens \in Buffers /\ Len(tokens) \in Nat /\ a \in Nat \ {0} /\ Top.kids \in Seq(GoodTexts)
    BY ArrayHere
  <1>2. /\ Clean(tokens, a, b) /\ Opens(tokens, a, b, 0) /\ Is(tokens, a, {"Type_array"})
        /\ \/ Unclosed(tokens, a, b, 0)
           \/ AtHead(tokens, Top, "here", b)
           \/ Says(tokens, a, b, LoopSaid(Top, "here"), 0) /\ ArrayPlace(tokens, Top, "here", b)
    <2>1. Top.at # 1 OBVIOUS
    <2> QED BY <2>1, ArrayAt
  <1>3. Known /\ curTok = "Comma" /\ curTokIdx' = b + 1 BY DEF Consume, getNextTok
  <1>4. b \in 1..Len(tokens) /\ b \in Nat /\ tokens[b] = "Comma" /\ "Comma" \in Tokens
    BY <1>1, <1>3, AtToken, WordsOfTexts
  <1>5. f.fn = Top.fn /\ f.tokIdx = a /\ f.at = 4 /\ f.kids = Top.kids /\ Go(f) BY DEF At, Onward
  <1> HIDE DEF f
  <1>6. 0 = 0 + Opened(tokens[b]) /\ 0 \in Nat /\ a \in Nat BY <1>1, <1>4 DEF Opened
  <1>7. /\ Clean(tokens, a, b + 1) /\ Opens(tokens, a, b + 1, 0)
        /\ Unclosed(tokens, a, b, 0) => Unclosed(tokens, a, b + 1, 0)
        /\ \A X \in GoodTexts : Says(tokens, a, b, X, 0) => Says(tokens, a, b + 1, X \o <<tokens[b]>>, 0)
    <2>1. tokens[b] \in Tokens /\ tokens[b] \notin {"EOL", "CR"} BY <1>4
    <2> QED BY <1>1, <1>2, <1>4, <1>6, <2>1, ArrayToken
  <1>8. f.at # 1 BY <1>5
  <1>9. CASE Unclosed(tokens, a, b, 0) BY <1>2, <1>3, <1>5, <1>7, <1>8, <1>9, ArrayGo
  <1>10. CASE AtHead(tokens, Top, "here", b) BY <1>10 DEF AtHead
  <1>11. CASE /\ ~Unclosed(tokens, a, b, 0)
              /\ Says(tokens, a, b, LoopSaid(Top, "here"), 0) /\ ArrayPlace(tokens, Top, "here", b)
    <2>1. LoopSaid(Top, "here") = <<"Type_array">> \o Items(Top)
            /\ <<"Type_array">> \o Items(Top) \in GoodTexts
          /\ (<<"Type_array">> \o Items(Top)) \o <<"Comma">> = <<"Type_array">> \o ItemsOn(Top)
      <3>1. Top.at # 1 /\ Top.at \in {2, 3} OBVIOUS
      <3> QED BY <1>1, <3>1, ArraySaid
    <2>2. Says(tokens, a, b + 1, <<"Type_array">> \o ItemsOn(Top), 0) BY <1>4, <1>7, <1>11, <2>1
    <2>3. LoopSaid(f, "here") = <<"Type_array">> \o ItemsOn(Top)
      <3>1. f.kids \in Seq(GoodTexts) BY <1>1, <1>5
      <3>2. LoopSaid(f, "here") = <<"Type_array">> \o ItemsOn(f) BY <1>5, <1>8, <3>1, ArraySaid
      <3>3. ItemsOn(f) = ItemsOn(Top) BY <1>1, <1>5, ItemsOf
      <3> QED BY <3>2, <3>3
    <2>4. NameDue(tokens, a, b)
      <3>1. a \in 1..Len(tokens) /\ tokens[a] = "Type_array" /\ a \in 1..b BY <1>2 DEF Is, Opens
      <3>2. /\ Depth(tokens)[b - 1] \in Int /\ Depth(tokens)[b] = Depth(tokens)[b - 1] + Opened(tokens[b])
            /\ Depth(tokens)[a - 1] \in Int /\ Depth(tokens)[a] = Depth(tokens)[a - 1] + Opened(tokens[a])
        BY <1>1, <1>4, <3>1, SpanSteps
      <3>3. Opened(tokens[a]) = 0 /\ Opened(tokens[b]) = 0 BY <1>4, <3>1 DEF Opened
      <3>4. Depth(tokens)[b - 1] >= Depth(tokens)[a - 1] + 0 BY <1>2 DEF Opens
      <3>5. ~(Depth(tokens)[b - 1] > Depth(tokens)[a - 1] + 0) BY <1>11 DEF Unclosed
      <3> DEFINE x == Depth(tokens)[a - 1]
                 y == Depth(tokens)[b - 1]
      <3>6. x \in Int /\ y \in Int /\ y >= x + 0 /\ ~(y > x + 0) BY <3>2, <3>4, <3>5
      <3>7. Depth(tokens)[b] = y + 0 /\ Depth(tokens)[a] = x + 0 BY <3>2, <3>3
      <3> HIDE DEF x, y
      <3>8. Depth(tokens)[b] = Depth(tokens)[a] BY <3>6, <3>7
      <3>9. \A m \in a..b : tokens[m] # "EOL"
        <4>1. \A m \in a..b : m \in a..b - 1 \/ m = b BY <1>1, <1>4
        <4>2. \A m \in a..b - 1 : tokens[m] # "EOL" BY <1>2 DEF Clean, Isnt
        <4> QED BY <1>4, <4>1, <4>2
      <3> QED BY <1>4, <3>8, <3>9 DEF NameDue
    <2>5. ArrayPlace(tokens, f, "here", b + 1)
      <3>1. NoHead(tokens, a) BY <1>11 DEF ArrayPlace
      <3>2. (b + 1) - 1 = b BY <1>4
      <3>3. b \in a..Len(tokens)
        <4>1. a \in 1..b BY <1>2 DEF Opens
        <4> QED BY <1>1, <1>4, <4>1
      <3>4. AtName(tokens, f, (b + 1) - 1) BY <1>5, <2>4, <3>1, <3>2, <3>3 DEF AtName
      <3> QED BY <1>5, <3>4 DEF ArrayPlace
    <2>6. Says(tokens, a, b + 1, LoopSaid(f, "here"), 0) BY <2>2, <2>3
    <2> QED BY <1>2, <1>3, <1>5, <1>7, <1>8, <2>5, <2>6, ArrayGo
  <1> QED BY <1>2, <1>9, <1>10, <1>11

-----------------------------------------------------------------------------

(* The name.                                                               *)
LEMMA ArrayName ==
    ASSUME ParserInv, TreeInv, CallsSay, tokens' = tokens, Top.fn = "parseArrayDecls", ~ret.done,
           Top.at = 4, Consume("Id") \/ Miss({"Id"}), Go(Holding(5, curTok))
    PROVE  SaysOn
  <1> DEFINE a == Top.tokIdx
             b == curTokIdx
             f == Holding(5, curTok)
  <1>1. tokens \in Buffers /\ Len(tokens) \in Nat /\ a \in Nat \ {0} /\ Top.kids \in Seq(GoodTexts)
        /\ LineStart(tokens, a)
    BY ArrayHere
  <1>2. /\ Clean(tokens, a, b) /\ Opens(tokens, a, b, 0) /\ Is(tokens, a, {"Type_array"})
        /\ \/ Unclosed(tokens, a, b, 0)
           \/ AtHead(tokens, Top, "here", b)
           \/ Says(tokens, a, b, LoopSaid(Top, "here"), 0) /\ ArrayPlace(tokens, Top, "here", b)
    <2>1. Top.at # 1 OBVIOUS
    <2> QED BY <2>1, ArrayAt
  <1>3. Known BY DEF Consume, Miss
  <1>4. b \in 1..Len(tokens) /\ b \in Nat /\ curTok = tokens[b] BY <1>1, <1>3, AtToken
  <1>5. f.fn = Top.fn /\ f.tokIdx = a /\ f.at = 5 /\ f.kids = Top.kids /\ f.op = tokens[b] /\ Go(f)
    BY <1>4 DEF Holding, Onward
  <1> HIDE DEF f
  <1>6. f.at # 1 BY <1>5
  <1>7. CASE Consume("Id")
    <2>1. tokens[b] = "Id" /\ "Id" \in Tokens /\ curTokIdx' = b + 1
      BY <1>4, <1>7, WordsOfTexts DEF Consume, getNextTok
    <2>2. 0 = 0 + Opened(tokens[b]) /\ 0 \in Nat /\ a \in Nat BY <1>1, <2>1 DEF Opened
    <2>3. /\ Clean(tokens, a, b + 1) /\ Opens(tokens, a, b + 1, 0)
          /\ Unclosed(tokens, a, b, 0) => Unclosed(tokens, a, b + 1, 0)
          /\ \A X \in GoodTexts : Says(tokens, a, b, X, 0) => Says(tokens, a, b + 1, X \o <<tokens[b]>>, 0)
      <3>1. tokens[b] \in Tokens /\ tokens[b] \notin {"EOL", "CR"} /\ tokens[b] # "Comma" BY <2>1
      <3> QED BY <1>1, <1>2, <1>4, <2>2, <3>1, ArrayToken
    <2>4. CASE Unclosed(tokens, a, b, 0) BY <1>2, <1>5, <1>6, <2>1, <2>3, <2>4, ArrayGo
    <2>5. CASE AtHead(tokens, Top, "here", b) BY <2>1, <2>5 DEF AtHead, Is
    <2>6. CASE Says(tokens, a, b, LoopSaid(Top, "here"), 0) /\ ArrayPlace(tokens, Top, "here", b)
      <3> DEFINE X == <<"Type_array">> \o ItemsOn(Top)
      <3>1. LoopSaid(Top, "here") = X /\ X \in GoodTexts
        <4>1. Top.at # 1 OBVIOUS
        <4> QED BY <1>1, <4>1, ArraySaid
      <3>2. LoopSaid(f, "here") = X \o <<"Id">>
        <4>1. f.kids \in Seq(GoodTexts) BY <1>1, <1>5
        <4>2. LoopSaid(f, "here") = (<<"Type_array">> \o ItemsOn(f)) \o <<"Id">>
          BY <1>5, <1>6, <4>1, ArraySaid
        <4>3. ItemsOn(f) = ItemsOn(Top) BY <1>1, <1>5, ItemsOf
        <4> QED BY <4>2, <4>3
      <3> HIDE DEF X
      <3>3. Says(tokens, a, b + 1, X \o <<tokens[b]>>, 0) BY <2>3, <2>6, <3>1
      <3>4. Says(tokens, a, b + 1, LoopSaid(f, "here"), 0) BY <2>1, <3>2, <3>3
      <3>5. ArrayPlace(tokens, f, "here", b + 1)
        <4>1. (b + 1) - 1 = b /\ (b + 1) - 2 = b - 1 BY <1>4
        <4>2. AtName(tokens, Top, b - 1) BY <2>6 DEF ArrayPlace
        <4>3. AtName(tokens, f, b - 1) BY <1>5, <4>2 DEF AtName
        <4>4. Is(tokens, b, {"Id"}) BY <1>4, <2>1 DEF Is
        <4>5. f.op = "Id" BY <1>5, <2>1
        <4>6. AtName(tokens, f, (b + 1) - 2) /\ Is(tokens, (b + 1) - 1, {"Id"}) BY <4>1, <4>3, <4>4
        <4> QED BY <1>5, <4>5, <4>6 DEF ArrayPlace
      <3> QED BY <1>2, <1>5, <1>6, <2>1, <2>3, <3>4, <3>5, ArrayGo
    <2> QED BY <1>2, <2>4, <2>5, <2>6
  <1>8. CASE Miss({"Id"})
    <2>1. curTokIdx' = b /\ tokens[b] # "Id" BY <1>4, <1>8 DEF Miss, Stay
    <2>2. CASE Unclosed(tokens, a, b, 0) BY <1>2, <1>5, <1>6, <2>1, <2>2, ArrayGo
    <2>3. CASE AtHead(tokens, Top, "here", b)
      <3>1. AtHead(tokens, f, "here", b) BY <1>5, <2>3 DEF AtHead
      <3> QED BY <1>2, <1>5, <1>6, <2>1, <3>1, ArrayGo
    <2>4. CASE ArrayPlace(tokens, Top, "here", b)
      <3>1. AtName(tokens, Top, b - 1) BY <2>4 DEF ArrayPlace
      <3>2. Isnt(tokens, (b - 1) + 1, {"Id"})
        <4>1. (b - 1) + 1 = b BY <1>4
        <4> QED BY <1>4, <2>1, <4>1 DEF Isnt
      <3>3. b - 1 \in a..Len(tokens) /\ NameDue(tokens, a, b - 1) BY <3>1 DEF AtName
      <3>4. b - 1 = a \/ NoHead(tokens, a) BY <3>1 DEF AtName
      <3> HIDE DEF a, b
      <3>5. PassedOver(tokens) BY <1>1, <1>2, <3>2, <3>3, <3>4, NoName
      <3> QED BY <3>5 DEF SaysOn
    <2> QED BY <1>2, <2>2, <2>3, <2>4
  <1> QED BY <1>7, <1>8

(* The bracket after the name.                                             *)
LEMMA ArrayOpen ==
    ASSUME ParserInv, ParserInv', TreeInv, CallsSay, tokens' = tokens, Top.fn = "parseArrayDecls",
           ~ret.done, Top.at = 5, Consume("SL"), Call(Top, "parseExpr", curTokIdx + 1)
    PROVE  SaysOn
  <1> DEFINE a == Top.tokIdx
             b == curTokIdx
  <1>1. tokens \in Buffers /\ Len(tokens) \in Nat /\ a \in Nat \ {0} /\ Top.kids \in Seq(GoodTexts)
        /\ LineStart(tokens, a)
    BY ArrayHere
  <1>2. /\ Clean(tokens, a, b) /\ Opens(tokens, a, b, 0) /\ Is(tokens, a, {"Type_array"})
        /\ \/ Unclosed(tokens, a, b, 0)
           \/ AtHead(tokens, Top, "here", b)
           \/ Says(tokens, a, b, LoopSaid(Top, "here"), 0) /\ ArrayPlace(tokens, Top, "here", b)
    <2>1. Top.at # 1 OBVIOUS
    <2> QED BY <2>1, ArrayAt
  <1>3. Known /\ curTok = "SL" /\ curTokIdx' = b + 1 BY DEF Consume, getNextTok
  <1>4. b \in 1..Len(tokens) /\ b \in Nat /\ tokens[b] = "SL" /\ "SL" \in Tokens
    BY <1>1, <1>3, AtToken, WordsOfTexts
  <1>5. 1 = 0 + Opened(tokens[b]) /\ 0 \in Nat /\ 1 \in Nat /\ a \in Nat BY <1>1, <1>4 DEF Opened
  <1>6. /\ Clean(tokens, a, b + 1) /\ Opens(tokens, a, b + 1, 1)
        /\ Unclosed(tokens, a, b, 0) => Unclosed(tokens, a, b + 1, 1)
        /\ \A X \in GoodTexts : Says(tokens, a, b, X, 0) => Says(tokens, a, b + 1, X \o <<tokens[b]>>, 1)
    <2>1. tokens[b] \in Tokens /\ tokens[b] \notin {"EOL", "CR"} /\ tokens[b] # "Comma" BY <1>4
    <2> QED BY <1>1, <1>2, <1>4, <1>5, <2>1, ArrayToken
  <1>7. \/ Unclosed(tokens, a, b + 1, 1)
        \/ /\ Says(tokens, a, b + 1, LoopSaid(Top, "called"), 1)
           /\ ArrayPlace(tokens, Top, "called", b + 1)
    <2>1. CASE Unclosed(tokens, a, b, 0) BY <1>6, <2>1
    <2>2. CASE AtHead(tokens, Top, "here", b) BY <1>4, <2>2 DEF AtHead, Is
    <2>3. CASE Says(tokens, a, b, LoopSaid(Top, "here"), 0) /\ ArrayPlace(tokens, Top, "here", b)
      <3> DEFINE X == (<<"Type_array">> \o ItemsOn(Top)) \o <<"Id">>
      <3>1. LoopSaid(Top, "here") = X /\ X \in GoodTexts /\ LoopSaid(Top, "called") = X \o <<"SL">>
        <4>1. Top.at # 1 OBVIOUS
        <4>2. /\ LoopSaid(Top, "here") = X /\ X \in GoodTexts
              /\ LoopSaid(Top, "called") = (<<"Type_array">> \o ItemsOn(Top)) \o <<"Id", "SL">>
          BY <1>1, <4>1, ArraySaid
        <4>3. X \o <<"SL">> = (<<"Type_array">> \o ItemsOn(Top)) \o <<"Id", "SL">>
          BY <1>1, <4>1, ArraySaid
        <4> QED BY <4>2, <4>3
      <3> HIDE DEF X
      <3>2. Says(tokens, a, b + 1, X \o <<tokens[b]>>, 1) BY <1>6, <2>3, <3>1
      <3>3. Says(tokens, a, b + 1, LoopSaid(Top, "called"), 1) BY <1>4, <3>1, <3>2
      <3>4. /\ Top.op = "Id" /\ b - 2 \in a..Len(tokens)
            /\ IF Top.kids = <<>> THEN b - 2 = a ELSE NoHead(tokens, a)
        BY <2>3 DEF ArrayPlace, AtName
      <3>5. NoHead(tokens, a)
        <4>1. CASE b - 2 = a
          <5>1. a + 2 = b BY <1>1, <1>4, <4>1
          <5>2. Isnt(tokens, a + 2, {"PL"}) BY <1>4, <5>1 DEF Isnt
          <5> QED BY <5>2 DEF NoHead
        <4> QED BY <3>4, <4>1
      <3>6. ArrayPlace(tokens, Top, "called", b + 1) BY <3>4, <3>5 DEF ArrayPlace
      <3> QED BY <3>3, <3>6
    <2> QED BY <1>2, <2>1, <2>2, <2>3
  <1>8. ArraySays(tokens, Top, "called", b + 1)
    <2>1. LeftOpen(Top, "called") = 1 BY ArrayOpenings
    <2> QED BY <1>2, <1>6, <1>7, <2>1 DEF ArraySays
  <1>9. SaysSo(tokens, Top, "called", b + 1)
    <2>1. Top.at # 1 OBVIOUS
    <2> QED BY <1>1, <1>6, <1>8, <2>1, ArraySaysSo
  <1>10. SaysSo(tokens, Frame("parseExpr", b + 1), "here", b + 1)
    <2>1. "parseExpr" \in Functions \ {"parseProgram"} BY DEF Functions
    <2>2. b + 1 \in 1..Len(tokens) + 1 BY <1>1, <1>4
    <2> QED BY <1>1, <2>1, <2>2, FrameSays
  <1>11. Calling(Top, "parseExpr") BY DEF Calling
  <1> HIDE DEF a, b
  <1>12. Call(Top, "parseExpr", b + 1) BY DEF b
  <1> QED BY <1>3, <1>9, <1>10, <1>11, <1>12, CallSays DEF SaysOn, CallerSays

LEMMA ArrayUnopened ==
    ASSUME ParserInv, TreeInv, CallsSay, tokens' = tokens, Top.fn = "parseArrayDecls", ~ret.done,
           Top.at = 5, Miss({"SL"}), Go(At(3))
    PROVE  SaysOn
  <1> DEFINE a == Top.tokIdx
             b == curTokIdx
             f == At(3)
  <1>1. tokens \in Buffers /\ Len(tokens) \in Nat /\ a \in Nat \ {0} /\ Top.kids \in Seq(GoodTexts)
        /\ LineStart(tokens, a)
    BY ArrayHere
  <1>2. /\ Clean(tokens, a, b) /\ Opens(tokens, a, b, 0) /\ Is(tokens, a, {"Type_array"})
        /\ \/ Unclosed(tokens, a, b, 0)
           \/ AtHead(tokens, Top, "here", b)
           \/ Says(tokens, a, b, LoopSaid(Top, "here"), 0) /\ ArrayPlace(tokens, Top, "here", b)
    <2>1. Top.at # 1 OBVIOUS
    <2> QED BY <2>1, ArrayAt
  <1>3. Known /\ curTok # "SL" /\ curTokIdx' = b BY DEF Miss, Stay
  <1>4. b \in 1..Len(tokens) /\ b \in Nat /\ tokens[b] # "SL" BY <1>1, <1>3, AtToken
  <1>5. f.fn = Top.fn /\ f.tokIdx = a /\ f.at = 3 /\ f.kids = Top.kids /\ Go(f) BY DEF At, Onward
  <1> HIDE DEF f
  <1>6. f.at # 1 BY <1>5
  <1>7. CASE Unclosed(tokens, a, b, 0) BY <1>2, <1>3, <1>5, <1>6, <1>7, ArrayGo
  <1>8. CASE AtHead(tokens, Top, "here", b)
    <2>1. AtHead(tokens, f, "here", b) BY <1>5, <1>8 DEF AtHead
    <2> QED BY <1>2, <1>3, <1>5, <1>6, <2>1, ArrayGo
  <1>9. CASE ArrayPlace(tokens, Top, "here", b)
    <2>1. /\ b - 2 \in a..Len(tokens) /\ NameDue(tokens, a, b - 2)
          /\ IF Top.kids = <<>> THEN b - 2 = a ELSE NoHead(tokens, a)
      BY <1>9 DEF ArrayPlace, AtName
    <2>2. (b - 2) + 2 = b BY <1>4
    <2>3. Isnt(tokens, (b - 2) + 2, {"SL"}) BY <1>4, <2>2 DEF Isnt
    <2>4. CASE Top.kids = <<>> /\ tokens[b] = "PL"
      <3>1. b = a + 2 BY <1>1, <1>4, <2>1, <2>4
      <3>2. Is(tokens, b, {"PL"}) BY <1>4, <2>4 DEF Is
      <3>3. AtHead(tokens, f, "here", b) BY <1>5, <2>4, <3>1, <3>2 DEF AtHead
      <3> QED BY <1>2, <1>3, <1>5, <1>6, <3>3, ArrayGo
    <2>5. CASE Top.kids # <<>> \/ tokens[b] # "PL"
      <3>1. tokens[b] # "PL" => Isnt(tokens, (b - 2) + 2, {"SL", "PL"}) BY <1>4, <2>2 DEF Isnt
      <3>2. \/ b - 2 = a /\ Isnt(tokens, (b - 2) + 2, {"SL", "PL"})
            \/ NoHead(tokens, a) /\ Isnt(tokens, (b - 2) + 2, {"SL"})
        BY <2>1, <2>3, <2>5, <3>1
      <3>3. b - 2 \in a..Len(tokens) /\ NameDue(tokens, a, b - 2) BY <2>1
      <3> HIDE DEF a, b
      <3>4. PassedOver(tokens) BY <1>1, <1>2, <3>2, <3>3, NoName
      <3> QED BY <3>4 DEF SaysOn
    <2> QED BY <2>4, <2>5
  <1> QED BY <1>2, <1>7, <1>8, <1>9

(* A size has been parsed; the bracket after it.                           *)
LEMMA ArrayTextFilled ==
    ASSUME NEW n \in GoodTexts
    PROVE  /\ ArrayText("Id", n) \in GoodTexts
           /\ Fill(ArrayText("Id", n)) = (<<"Id", "SL">> \o Fill(n)) \o <<"SR">>
  <1> DEFINE o == <<"Id", "SL">>
             c == <<"SR">>
             r == Or(n, "parseArrayDecls")
  <1>1. ArrayText("Id", n) = (o \o r) \o c BY DEF ArrayText
  <1>2. r \in GoodTexts /\ Fill(r) = Fill(n) BY FillOr
  <1>3. "Id" \in Tokens /\ "SL" \in Tokens /\ "SR" \in Tokens BY WordsOfTexts
  <1>4. o \in GoodTexts /\ c \in GoodTexts /\ Fill(c) = c BY <1>3, FillToken, TextsJoin
  <1>5. Fill(o) = o
    <2>1. o = <<"Id">> \o <<"SL">> BY Pair
    <2>2. /\ Fill(<<"Id">>) = <<"Id">> /\ <<"Id">> \in GoodTexts
          /\ Fill(<<"SL">>) = <<"SL">> /\ <<"SL">> \in GoodTexts
      BY <1>3, FillToken
    <2>3. Fill(<<"Id">> \o <<"SL">>) = <<"Id">> \o <<"SL">> BY <2>2, FillJoin
    <2> QED BY <2>1, <2>3, Zenon
  <1> HIDE DEF o, c, r
  <1>6. o \o r \in GoodTexts /\ Fill(o \o r) = o \o Fill(n)
    <2>1. o \o r \in GoodTexts BY <1>2, <1>4, TextsJoin
    <2>2. Fill(o \o r) = Fill(o) \o Fill(r) BY <1>2, <1>4, FillJoin
    <2> QED BY <1>2, <1>5, <2>1, <2>2
  <1>7. (o \o r) \o c \in GoodTexts /\ Fill((o \o r) \o c) = (o \o Fill(n)) \o c
    BY <1>4, <1>6, TextsJoin, FillJoin, Zenon
  <1> QED BY <1>1, <1>7 DEF o, c

LEMMA ArrayClose ==
    ASSUME ParserInv, TreeInv, CallsSay, tokens' = tokens, Top.fn = "parseArrayDecls", ret.done,
           Consume("SR"), Go(With(3, ArrayText(Top.op, ret.node)))
    PROVE  SaysOn
  <1> DEFINE a == Top.tokIdx
             b == curTokIdx
             n == ArrayText(Top.op, ret.node)
             f == With(3, n)
             o == <<"Type_array">> \o ItemsOn(Top)
             p == <<"Id", "SL">>
             e == Fill(ret.node)
             c == <<"SR">>
  <1>1. /\ tokens \in Buffers /\ Len(tokens) \in Nat /\ b \in Nat /\ a \in Nat \ {0}
        /\ Top.kids \in Seq(GoodTexts) /\ Top.at = 5 /\ ret.node \in GoodTexts
        /\ Clean(tokens, a, b) /\ Is(tokens, a, {"Type_array"}) /\ Opens(tokens, a, b, 1)
        /\ \/ Unclosed(tokens, a, b, 1)
           \/ /\ Says(tokens, a, b, (o \o p) \o e, 1)
              /\ Top.op = "Id" /\ NoHead(tokens, a)
    BY ArrayHere
  <1>2. Known /\ curTok = "SR" /\ curTokIdx' = b + 1 BY DEF Consume, getNextTok
  <1>3. b \in 1..Len(tokens) /\ tokens[b] = "SR" /\ "SR" \in Tokens
          /\ "Id" \in Tokens /\ "SL" \in Tokens
    BY <1>2, AtToken, WordsOfTexts
  <1>4. f.fn = Top.fn /\ f.tokIdx = a /\ f.at = 3 /\ f.kids = Append(Top.kids, n) /\ Go(f)
    BY DEF With, Onward
  <1>5. o \in GoodTexts
    <2>1. Top.at # 1 BY <1>1
    <2> QED BY <1>1, <2>1, ArraySaid
  <1>6. p \in GoodTexts /\ e \in GoodTexts /\ c \in GoodTexts BY <1>1, <1>3, TextsJoin, FillGood
  <1>7. Top.op = "Id" => n \in GoodTexts /\ Fill(n) = (p \o e) \o c BY <1>1, ArrayTextFilled
  <1>8. 0 = 1 + Opened(tokens[b]) /\ 0 \in Nat /\ 1 \in Nat /\ a \in Nat BY <1>1, <1>3 DEF Opened
  <1>9. f.at # 1 BY <1>4
  <1>10. /\ f.kids \in Seq(GoodTexts) /\ f.at \in {2, 3} =>
               LoopSaid(f, "here") = <<"Type_array">> \o Items(f)
    BY <1>4, <1>9, ArraySaid
  <1>11. n \in GoodTexts =>
            /\ f.kids \in Seq(GoodTexts) /\ f.kids # <<>>
            /\ Items(f) = ItemsOn(Top) \o Fill(n)
    <2>1. ASSUME n \in GoodTexts PROVE f.kids \in Seq(GoodTexts) /\ f.kids # <<>>
      <3>1. f.kids = Append(Top.kids, n) BY <1>4
      <3> HIDE DEF f, n
      <3>2. Append(Top.kids, n) \in Seq(GoodTexts) /\ Len(Append(Top.kids, n)) = Len(Top.kids) + 1
            /\ Len(Top.kids) \in Nat
        BY <1>1, <2>1
      <3>3. Len(<<>>) = 0 OBVIOUS
      <3>4. Len(Top.kids) + 1 # 0 BY <3>2
      <3> QED BY <3>1, <3>2, <3>3, <3>4
    <2>2. ASSUME n \in GoodTexts PROVE Items(f) = ItemsOn(Top) \o Fill(n)
      <3>1. f.kids = Append(Top.kids, n) BY <1>4
      <3> HIDE DEF f, n
      <3> QED BY <1>1, <2>2, <3>1, ItemsAppend
    <2> QED BY <2>1, <2>2
  <1> HIDE DEF f, n, o, p, e, c
  <1>12. /\ Clean(tokens, a, b + 1) /\ Opens(tokens, a, b + 1, 0)
         /\ Unclosed(tokens, a, b, 1) => Unclosed(tokens, a, b + 1, 0)
         /\ \A X \in GoodTexts : Says(tokens, a, b, X, 1) => Says(tokens, a, b + 1, X \o <<tokens[b]>>, 0)
    <2>1. tokens[b] \in Tokens /\ tokens[b] \notin {"EOL", "CR"} /\ tokens[b] # "Comma" BY <1>3
    <2> QED BY <1>1, <1>3, <1>8, <2>1, ArrayToken
  <1>13. CASE Unclosed(tokens, a, b, 1)
    BY <1>1, <1>2, <1>4, <1>9, <1>12, <1>13, ArrayGo
  <1>14. CASE Says(tokens, a, b, (o \o p) \o e, 1) /\ Top.op = "Id" /\ NoHead(tokens, a)
    <2>1. n \in GoodTexts /\ Fill(n) = (p \o e) \o c BY <1>7, <1>14
    <2>2. (o \o p) \o e \in GoodTexts /\ o \o p \in GoodTexts /\ p \o e \in GoodTexts
          /\ (p \o e) \o c \in GoodTexts
      BY <1>5, <1>6, TextsJoin
    <2>3. Says(tokens, a, b + 1, ((o \o p) \o e) \o <<tokens[b]>>, 0) BY <1>12, <1>14, <2>2
    <2>4. ((o \o p) \o e) \o c = o \o ((p \o e) \o c)
      <3>1. Assoc4(o, p, e, c) BY <1>5, <1>6, Flat4
      <3> QED BY <3>1 DEF Assoc4
    <2>5. LoopSaid(f, "here") = <<"Type_array">> \o (ItemsOn(Top) \o Fill(n))
      BY <1>4, <1>10, <1>11, <2>1
    <2>6. <<"Type_array">> \o (ItemsOn(Top) \o Fill(n)) = o \o Fill(n)
      <3>1. <<"Type_array">> \in GoodTexts BY TextsJoin, WordsOfTexts DEF TypeTokens
      <3>2. ItemsOn(Top) \in GoodTexts /\ Fill(n) \in GoodTexts BY <1>1, <2>1, ItemsOf, FillGood
      <3>3. Assoc(<<"Type_array">>, ItemsOn(Top), Fill(n)) BY <3>1, <3>2, Flat3
      <3> QED BY <3>3 DEF Assoc, o
    <2>7. LoopSaid(f, "here") = ((o \o p) \o e) \o c BY <2>1, <2>4, <2>5, <2>6, Zenon
    <2>8. Says(tokens, a, b + 1, LoopSaid(f, "here"), 0) BY <1>3, <2>3, <2>7 DEF c
    <2>9. ArrayPlace(tokens, f, "here", b + 1) BY <1>4, <1>11, <1>14, <2>1 DEF ArrayPlace
    <2> QED BY <1>1, <1>2, <1>4, <1>9, <1>12, <2>8, <2>9, ArrayGo
  <1> QED BY <1>1, <1>13, <1>14

LEMMA ArrayUnclosed ==
    ASSUME ParserInv, TreeInv, CallsSay, tokens' = tokens, Top.fn = "parseArrayDecls", ret.done,
           Stay, Go(At(3))
    PROVE  SaysOn
  <1> DEFINE a == Top.tokIdx
             b == curTokIdx
             f == At(3)
  <1>1. /\ tokens \in Buffers /\ Len(tokens) \in Nat /\ b \in Nat /\ a \in Nat \ {0}
        /\ Clean(tokens, a, b) /\ Is(tokens, a, {"Type_array"}) /\ Opens(tokens, a, b, 1)
    BY ArrayHere
  <1>2. f.fn = Top.fn /\ f.tokIdx = a /\ f.at = 3 /\ Go(f) BY DEF At, Onward
  <1> HIDE DEF f
  <1>3. Opens(tokens, a, b, 0) /\ Unclosed(tokens, a, b, 0)
    <2>1. a \in 1..b /\ b \in 1..Len(tokens) + 1 /\ Depth(tokens)[b - 1] >= Depth(tokens)[a - 1] + 1
      BY <1>1 DEF Opens
    <2>2. a \in 1..Len(tokens) + 1 BY <1>1, <2>1
    <2> DEFINE x == Depth(tokens)[a - 1]
               y == Depth(tokens)[b - 1]
    <2>3. x \in Int /\ y \in Int /\ y >= x + 1 BY <1>1, <2>1, <2>2, SpanEnds
    <2>4. y >= x + 0 => Opens(tokens, a, b, 0) BY <2>1 DEF Opens
    <2>5. y > x + 0 => Unclosed(tokens, a, b, 0) BY DEF Unclosed
    <2> HIDE DEF x, y
    <2>6. y >= x + 0 /\ y > x + 0 BY <2>3
    <2> QED BY <2>4, <2>5, <2>6
  <1>4. curTokIdx' = b /\ f.at # 1 BY <1>2 DEF Stay
  <1> QED BY <1>1, <1>2, <1>3, <1>4, ArrayGo

-----------------------------------------------------------------------------

LEMMA DeclsTextFilled ==
    ASSUME NEW op, NEW kids \in Seq(GoodTexts)
    PROVE  /\ Text("parseArrayDecls", op, kids) \in GoodTexts
           /\ Fill(Text("parseArrayDecls", op, kids)) = <<"Type_array">> \o Listed(Fills(kids))
  <1> DEFINE k == [i \in DOMAIN kids |-> Or(kids[i], "parseArrayDecls")]
             o == <<"Type_array">>
  <1>1. Text("parseArrayDecls", op, kids) = o \o Listed(k) BY DEF Text
  <1>2. k \in Seq(GoodTexts) /\ Fills(k) = Fills(kids) BY FillsOr
  <1>3. o \in GoodTexts /\ Fill(o) = o BY FillToken, WordsOfTexts DEF TypeTokens
  <1> HIDE DEF k, o
  <1>4. Listed(k) \in GoodTexts /\ Fill(Listed(k)) = Listed(Fills(kids))
    BY <1>2, ListedGood, FillListed
  <1>5. o \o Listed(k) \in GoodTexts BY <1>3, <1>4, TextsJoin
  <1>6. Fill(o \o Listed(k)) = o \o Listed(Fills(kids))
    <2>1. Fill(o \o Listed(k)) = Fill(o) \o Fill(Listed(k)) BY <1>3, <1>4, FillJoin
    <2> QED BY <1>3, <1>4, <2>1
  <1> QED BY <1>1, <1>5, <1>6 DEF o

(* The end of the line.                                                    *)
LEMMA ArrayEnds ==
    ASSUME ParserInv, ParserInv', TreeInv, CallsSay, tokens' = tokens, Top.fn = "parseArrayDecls",
           Stay,
           \/ Return(Null)
           \/ /\ ~ret.done /\ Top.at = 3 /\ Top.kids # <<>>
              /\ Return(Text(Top.fn, "none", Top.kids))
    PROVE  SaysOn
  <1> DEFINE a == Top.tokIdx
             b == curTokIdx
             t == Text(Top.fn, "none", Top.kids)
  <1>1. tokens \in Buffers /\ Len(tokens) \in Nat /\ a \in Nat \ {0} /\ Top.kids \in Seq(GoodTexts)
    BY ArrayHere
  <1>2. curTokIdx' = b BY DEF Stay
  <1>3. Top.fn \in Functions /\ Top.fn # "parseProgram" /\ a \in 1..b BY LoopNames, AtToken
  <1>4. CASE Return(Null)
    <2>1. Result(tokens, Top.fn, a, b, Null) BY DEF Result
    <2> QED BY <1>2, <1>3, <1>4, <2>1, ReturnSays DEF SaysOn
  <1>5. CASE ~ret.done /\ Top.at = 3 /\ Top.kids # <<>> /\ Return(t)
    <2>1. /\ Clean(tokens, a, b) /\ Opens(tokens, a, b, 0)
          /\ \/ Unclosed(tokens, a, b, 0)
             \/ AtHead(tokens, Top, "here", b)
             \/ Says(tokens, a, b, LoopSaid(Top, "here"), 0)
      <3>1. Top.at # 1 BY <1>5
      <3> QED BY <1>5, <3>1, ArrayAt
    <2>2. t \in GoodTexts /\ Fill(t) = <<"Type_array">> \o Items(Top)
      BY <1>1, DeclsTextFilled DEF Items
    <2>3. Return(t) BY <1>5
    <2> HIDE DEF t
    <2>4. LoopSaid(Top, "here") = Fill(t)
      <3>1. Top.at # 1 /\ Top.at \in {2, 3} BY <1>5
      <3> QED BY <1>1, <2>2, <3>1, ArraySaid
    <2>5. Says(tokens, a, b, Fill(t), 0)
      <3>1. ~AtHead(tokens, Top, "here", b) BY <1>5 DEF AtHead
      <3>2. Unclosed(tokens, a, b, 0) => Says(tokens, a, b, Fill(t), 0) BY <2>1 DEF Says
      <3> QED BY <2>1, <2>4, <3>1, <3>2
    <2>6. Result(tokens, Top.fn, a, b, t)
      <3>1. CASE t = Null BY <3>1 DEF Result
      <3>2. CASE t # Null BY <2>1, <2>5, <3>2, LoopNames DEF Result
      <3> QED BY <3>1, <3>2
    <2> QED BY <1>2, <1>3, <2>3, <2>6, ReturnSays DEF SaysOn
  <1> QED BY <1>4, <1>5

LEMMA ArrayDeclsSays ==
    ASSUME ParserInv, ParserInv', TreeInv, CallsSay, parseArrayDecls PROVE SaysOn
  <1>1. Top.fn = "parseArrayDecls" /\ tokens' = tokens BY DEF parseArrayDecls, In
  <1>2. ret.done => Top.at = 5
    <2>1. ret.done => Top.at = 5 BY <1>1, ArrayHere
    <2> QED BY <2>1
  <1>3. CASE Top.at = 1 /\ Consume("Type_array") /\ Go(At(2))
    <2>1. ~ret.done BY <1>2, <1>3
    <2> QED BY <1>1, <1>3, <2>1, ArrayBegins
  <1>4. CASE Top.at = 2 /\ Consume("Type_array") /\ Go(At(3))
    <2>1. ~ret.done BY <1>2, <1>4
    <2> QED BY <1>1, <1>4, <2>1, ArrayAgain
  <1>5. CASE Stay /\ (\/ Top.at = 2 /\ Go(At(3))
                      \/ Top.at = 3 /\ Top.kids = <<>> /\ Go(At(4)))
    <2>1. ~ret.done BY <1>2, <1>5
    <2> QED BY <1>1, <1>5, <2>1, ArrayFirst
  <1>6. CASE Stay /\ Return(Null) BY <1>1, <1>6, ArrayEnds
  <1>7. CASE /\ Stay /\ Top.at = 3 /\ Top.kids # <<>>
             /\ Return(Text(Top.fn, "none", Top.kids))
    <2>1. ~ret.done BY <1>2, <1>7
    <2> QED BY <1>1, <1>7, <2>1, ArrayEnds
  <1>8. CASE Top.at = 3 /\ Top.kids # <<>> /\ Consume("Comma") /\ Go(At(4))
    <2>1. ~ret.done BY <1>2, <1>8
    <2> QED BY <1>1, <1>8, <2>1, ArrayNext
  <1>9. CASE Top.at = 4 /\ (Consume("Id") \/ Miss({"Id"})) /\ Go(Holding(5, curTok))
    <2>1. ~ret.done BY <1>2, <1>9
    <2> QED BY <1>1, <1>9, <2>1, ArrayName
  <1>10. CASE Top.at = 5 /\ ~ret.done /\ Consume("SL") /\ Call(Top, "parseExpr", curTokIdx + 1)
    BY <1>1, <1>10, ArrayOpen
  <1>11. CASE Top.at = 5 /\ ~ret.done /\ Miss({"SL"}) /\ Go(At(3)) BY <1>1, <1>11, ArrayUnopened
  <1>12. CASE ret.done /\ Consume("SR") /\ Go(With(3, ArrayText(Top.op, ret.node)))
    BY <1>1, <1>12, ArrayClose
  <1>13. CASE ret.done /\ Stay /\ Go(At(3)) BY <1>1, <1>13, ArrayUnclosed
  <1>14. \/ Top.at = 1 /\ Consume("Type_array") /\ Go(At(2))
         \/ Top.at = 2 /\ Consume("Type_array") /\ Go(At(3))
         \/ Stay /\ (\/ Top.at = 2 /\ Go(At(3))
                     \/ Top.at = 3 /\ Top.kids = <<>> /\ Go(At(4)))
         \/ Stay /\ Return(Null)
         \/ /\ Stay /\ Top.at = 3 /\ Top.kids # <<>>
            /\ Return(Text(Top.fn, "none", Top.kids))
         \/ Top.at = 3 /\ Top.kids # <<>> /\ Consume("Comma") /\ Go(At(4))
         \/ Top.at = 4 /\ (Consume("Id") \/ Miss({"Id"})) /\ Go(Holding(5, curTok))
         \/ Top.at = 5 /\ ~ret.done /\ Consume("SL") /\ Call(Top, "parseExpr", curTokIdx + 1)
         \/ Top.at = 5 /\ ~ret.done /\ Miss({"SL"}) /\ Go(At(3))
         \/ ret.done /\ Consume("SR") /\ Go(With(3, ArrayText(Top.op, ret.node)))
         \/ ret.done /\ Stay /\ Go(At(3))
    <2>1. \A S : Miss(S) \/ Look(S) => Stay BY DEF Miss, Look
    <2>2. Return(IF Top.kids = <<>> THEN Null ELSE Text(Top.fn, "none", Top.kids)) =>
             Return(Null) \/ (Top.kids # <<>> /\ Return(Text(Top.fn, "none", Top.kids)))
      OBVIOUS
    <2> QED BY <2>1, <2>2, Zenon DEF parseArrayDecls
  <1> QED BY <1>3, <1>4, <1>5, <1>6, <1>7, <1>8, <1>9, <1>10, <1>11, <1>12, <1>13, <1>14

-----------------------------------------------------------------------------
(* SpanInv is inductive.                                                   *)

LEMMA StepSays == ASSUME ParserInv, ParserInv', TreeInv, CallsSay, Step PROVE SaysOn
  <1>1. CASE MatchToken BY <1>1, MatchTokenSays
  <1>2. CASE CallItem BY <1>2, CallItemSays
  <1>3. CASE TakeItem BY <1>3, TakeItemSays
  <1>4. CASE EndRow BY <1>4, EndRowSays
  <1>5. CASE Take BY <1>5, TakeSays
  <1>6. CASE Try BY <1>6, TrySays
  <1>7. CASE NoAlternative BY <1>7, NoAlternativeSays
  <1>8. CASE parseFnArgs BY <1>8, FnArgsSays
  <1>9. CASE parseStringOrExprArgs BY <1>9, StringOrExprArgsSays
  <1>10. CASE parseVarDecls BY <1>10, VarDeclsSays
  <1>11. CASE parseArrayDecls BY <1>11, ArrayDeclsSays
  <1>12. CASE parseStmtBlock BY <1>12, StmtBlockSays
  <1>13. CASE parseFnParams BY <1>13, FnParamsSays
  <1>14. CASE parseProgram BY <1>14, ProgramSays
  <1> QED BY <1>1, <1>2, <1>3, <1>4, <1>5, <1>6, <1>7, <1>8, <1>9, <1>10, <1>11, <1>12, <1>13,
             <1>14 DEF Step

(* Only parseProgram ends the parse, and at End.                           *)
LEMMA StepEnds ==
    ASSUME Step, phase' = "parsed"
    PROVE  /\ Top.fn = "parseProgram" /\ ~ret.done /\ Look({"End"})
           /\ UNCHANGED <<calls, ret>>
  <1>1. /\ \A f : Go(f) => phase' = phase
        /\ \A f, fn, i : Call(f, fn, i) => phase' = phase
        /\ \A n : Return(n) => phase' = phase
        /\ ~Throw
    BY DEF Go, Call, Return, Throw
  <1>2. Fail => phase' = phase BY <1>1 DEF Fail
  <1>3. ~MatchToken BY <1>1, <1>2 DEF MatchToken, InRow
  <1>4. ~CallItem BY <1>1 DEF CallItem, InRow
  <1>5. ~TakeItem BY <1>1, <1>2 DEF TakeItem, InRow
  <1>6. ~EndRow BY <1>1 DEF EndRow, InRow
  <1>7. ~Take BY <1>1 DEF Take, InChoice
  <1>8. ~Try BY <1>1 DEF Try, InChoice
  <1>9. ~NoAlternative BY <1>1 DEF NoAlternative, InChoice
  <1>10. ~parseFnArgs BY <1>1 DEF parseFnArgs, In
  <1>11. ~parseStringOrExprArgs BY <1>1 DEF parseStringOrExprArgs, In, PushString
  <1>12. ~parseVarDecls BY <1>1 DEF parseVarDecls, In
  <1>13. ~parseArrayDecls BY <1>1 DEF parseArrayDecls, In
  <1>14. ~parseStmtBlock BY <1>1 DEF parseStmtBlock, In
  <1>15. ~parseFnParams BY <1>1 DEF parseFnParams, In
  <1>16. parseProgram
    BY <1>3, <1>4, <1>5, <1>6, <1>7, <1>8, <1>9, <1>10, <1>11, <1>12, <1>13, <1>14, <1>15 DEF Step
  <1> QED BY <1>1, <1>16 DEF parseProgram, In

LEMMA InitSays == Init => SpanInv
  <1> SUFFICES ASSUME Init PROVE SpanInv OBVIOUS
  <1> DEFINE f == Frame("parseProgram", 1)
  <1>1. /\ tokens = <<>> /\ curTokIdx = 1 /\ calls = <<f>> /\ ~ret.done /\ phase = "parsing"
        /\ ret.done = FALSE
    BY DEF Init, Running
  <1>2. f.fn = "parseProgram" /\ f.at = 1 /\ f.tokIdx = 1 /\ f.kids = <<>> BY DEF Frame
  <1> HIDE DEF f
  <1>3. Len(calls) = 1 /\ calls[1] = f BY <1>1
  <1>4. Top = f BY <1>3 DEF Top
  <1>5. <<>> \in Buffers /\ 1 \in 1..Len(<<>>) + 1
    <2>1. <<>> \in Buffers BY DEF Buffers
    <2>2. Len(<<>>) = 0 OBVIOUS
    <2> QED BY <2>1, <2>2
  <1>6. Says(<<>>, 1, 1, <<>>, 0) BY <1>5, SaysNothing
  <1>7. Run(Fills(f.kids)) = <<>>
    <2>1. Fills(<<>>) = <<>> /\ <<>> \in Seq(GoodTexts) /\ <<>> \in GoodTexts
      <3>1. <<>> \in Seq(GoodTexts) OBVIOUS
      <3> QED BY <3>1, FillsGood, TextsJoin
    <2>2. Run(<<>>) = <<>> BY <2>1, RunAppend DEF GoodTexts
    <2> QED BY <1>2, <2>1, <2>2
  <1>8. SaysSo(tokens, Top, "here", curTokIdx)
    <2>1. Says(<<>>, f.tokIdx, 1, Run(Fills(f.kids)), 0) BY <1>2, <1>6, <1>7
    <2>2. SaysSo(<<>>, f, "here", 1) BY <1>2, <2>1, ProgramSaysSo
    <2> QED BY <1>1, <1>4, <2>2
  <1>9. CallsSay
    <2>1. \A e \in 1..Len(calls) - 1 : FALSE BY <1>3
    <2> QED BY <1>1, <1>8, <2>1 DEF CallsSay
  <1> QED BY <1>1, <1>9 DEF SpanInv

(* A token is read.                                                        *)
LEMMA ReadSays ==
    ASSUME ParserInv, TreeInv, NEW t \in Tokens \cup {"End"}, ReadToken(t)
    PROVE  /\ PassedOver(tokens) => PassedOver(tokens')
           /\ CallsSay => CallsSay'
  <1>1. /\ tokens' = Append(tokens, t) /\ calls' = calls /\ ret' = ret /\ curTokIdx' = curTokIdx
    BY DEF ReadToken
  <1>2. Further(tokens, tokens')
    <2>1. tokens \in Buffers BY AtToken
    <2> QED BY <1>1, <2>1, ReadFurther
  <1>3. PassedOver(tokens) => PassedOver(tokens') BY <1>2, PassedFurther
  <1>4. ASSUME CallsSay PROVE CallsSay'
    <2>1. \A d \in 1..Len(calls) : calls[d].tokIdx \in Nat \ {0} BY DEF TreeInv, Sound
    <2>2. Len(calls) \in Nat \ {0} /\ Top = calls[Len(calls)] BY Stacks
    <2>3. Top' = Top BY <1>1 DEF Top
    <2>4. ASSUME NEW e \in 1..Len(calls) - 1
          PROVE  /\ Calling(calls[e], calls[e + 1].fn)
                 /\ SaysSo(tokens', calls[e], "called", calls[e + 1].tokIdx)
      <3>1. /\ Calling(calls[e], calls[e + 1].fn)
            /\ SaysSo(tokens, calls[e], "called", calls[e + 1].tokIdx)
        BY <1>4 DEF CallsSay
      <3>2. calls[e].tokIdx \in Nat \ {0} BY <2>1, <2>2
      <3> QED BY <1>2, <3>1, <3>2, FrameFurther
    <2>5. Top.tokIdx \in Nat \ {0} BY <2>1, <2>2
    <2>6. ASSUME ret.done
          PROVE  \E fn \in Functions : \E c \in 1..curTokIdx :
                    /\ Calling(Top, fn)
                    /\ SaysSo(tokens', Top, "called", c)
                    /\ Result(tokens', fn, c, curTokIdx, ret.node)
      <3>1. PICK fn \in Functions : \E c \in 1..curTokIdx :
               /\ Calling(Top, fn) /\ SaysSo(tokens, Top, "called", c)
               /\ Result(tokens, fn, c, curTokIdx, ret.node)
        BY <1>4, <2>6 DEF CallsSay
      <3>2. PICK c \in 1..curTokIdx :
               /\ Calling(Top, fn) /\ SaysSo(tokens, Top, "called", c)
               /\ Result(tokens, fn, c, curTokIdx, ret.node)
        BY <3>1
      <3>3. SaysSo(tokens', Top, "called", c) BY <1>2, <2>5, <3>2, FrameFurther
      <3>4. Result(tokens', fn, c, curTokIdx, ret.node) BY <1>2, <3>2, ResultFurther
      <3> QED BY <3>2, <3>3, <3>4
    <2>7. ASSUME ~ret.done PROVE SaysSo(tokens', Top, "here", curTokIdx)
      <3>1. SaysSo(tokens, Top, "here", curTokIdx) BY <1>4, <2>7 DEF CallsSay
      <3> QED BY <1>2, <2>5, <3>1, FrameFurther
    <2> QED BY <1>1, <2>3, <2>4, <2>6, <2>7 DEF CallsSay
  <1> QED BY <1>3, <1>4

LEMMA SpanStep ==
    ASSUME ParserInv, ParserInv', TreeInv, SpanInv, [Next]_vars PROVE SpanInv'
  <1>1. CASE \E t \in Tokens \cup {"End"} : ReadToken(t)
    <2>1. PICK t \in Tokens \cup {"End"} : ReadToken(t) BY <1>1
    <2>2. phase = "parsing" /\ phase' = "parsing" BY <2>1 DEF ReadToken
    <2>3. PassedOver(tokens') \/ CallsSay' BY <2>1, <2>2, ReadSays DEF SpanInv
    <2> QED BY <2>2, <2>3 DEF SpanInv
  <1>2. CASE Step
    <2>1. tokens' = tokens BY <1>2, StepMoves DEF ParserInv, Moves
    <2>2. phase = "parsing"
      BY <1>2 DEF Step, MatchToken, CallItem, TakeItem, EndRow, InRow, Take, Try, NoAlternative,
                  InChoice, parseFnArgs, parseStringOrExprArgs, parseVarDecls, parseArrayDecls,
                  parseStmtBlock, parseFnParams, parseProgram, In
    <2>3. phase' = "error" \/ PassedOver(tokens') \/ CallsSay'
      <3>1. CASE PassedOver(tokens) BY <2>1, <3>1
      <3>2. CASE CallsSay
        <4>1. SaysOn BY <1>2, <3>2, StepSays
        <4> QED BY <2>1, <4>1 DEF SaysOn
      <3> QED BY <2>2, <3>1, <3>2 DEF SpanInv
    <2>4. ASSUME phase' = "parsed"
          PROVE  (Top.fn = "parseProgram" /\ ~ret.done /\ Is(tokens, curTokIdx, {"End"}))'
      <3>1. Top.fn = "parseProgram" /\ ~ret.done /\ Look({"End"}) /\ UNCHANGED <<calls, ret>>
        BY <1>2, <2>4, StepEnds
      <3>2. Known /\ curTok = "End" /\ curTokIdx' = curTokIdx BY <3>1 DEF Look, Stay
      <3>3. Is(tokens, curTokIdx, {"End"}) BY <3>2, AtToken DEF Is
      <3> QED BY <2>1, <3>1, <3>2, <3>3 DEF Top
    <2> QED BY <2>3, <2>4 DEF SpanInv
  <1>3. ASSUME UNCHANGED vars PROVE SpanInv'
    <2>1. UNCHANGED <<tokens, curTokIdx, calls, ret, phase>> BY <1>3 DEF vars
    <2> QED BY <2>1 DEF SpanInv, CallsSay, Top
  <1>4. CASE Ended BY <1>3, <1>4 DEF Ended
  <1> QED BY <1>1, <1>2, <1>3, <1>4 DEF Next

LEMMA SpanInductive == Spec => []SpanInv
  <1>1. Init => SpanInv BY InitSays
  <1>2. ASSUME ParserInv, ParserInv', TreeInv, SpanInv, [Next]_vars PROVE SpanInv' BY <1>2, SpanStep
  <1> QED BY <1>1, <1>2, TreeInductive, PTL DEF Spec

-----------------------------------------------------------------------------
(* At the end.                                                             *)

LEMMA NonePassedOver ==
    ASSUME tokens \in Buffers, ElsesHaveBlocks, ArraysNamed PROVE ~PassedOver(tokens)
  <1>1. Len(tokens) \in Nat BY DEF Buffers
  <1>2. ~BadElse(tokens)
    <2>1. SUFFICES ASSUME NEW i \in 1..Len(tokens), tokens[i] = "Else", NoBlock(tokens, i + 1)
                   PROVE  FALSE
      BY DEF BadElse
    <2>2. tokens[i + 1] = "CL" /\ tokens[i + 2] = "EOL" BY <2>1 DEF ElsesHaveBlocks
    <2>3. (i + 1) + 1 = i + 2 BY <1>1
    <2> QED BY <2>1, <2>2, <2>3 DEF NoBlock, Isnt
  <1>3. ~BadName(tokens)
    <2>1. SUFFICES ASSUME BadName(tokens) PROVE FALSE OBVIOUS
    <2>2. PICK j \in 1..Len(tokens) : \E i \in j..Len(tokens) :
             /\ LineStart(tokens, j) /\ tokens[j] = "Type_array" /\ NameDue(tokens, j, i)
             /\ \/ i = j /\ (Isnt(tokens, i + 1, {"Id"}) \/ Isnt(tokens, i + 2, {"SL", "PL"}))
                \/ NoHead(tokens, j) /\ (Isnt(tokens, i + 1, {"Id"}) \/ Isnt(tokens, i + 2, {"SL"}))
      BY <2>1 DEF BadName
    <2>3. PICK i \in j..Len(tokens) :
             /\ LineStart(tokens, j) /\ tokens[j] = "Type_array" /\ NameDue(tokens, j, i)
             /\ \/ i = j /\ (Isnt(tokens, i + 1, {"Id"}) \/ Isnt(tokens, i + 2, {"SL", "PL"}))
                \/ NoHead(tokens, j) /\ (Isnt(tokens, i + 1, {"Id"}) \/ Isnt(tokens, i + 2, {"SL"}))
      BY <2>2
    <2>4. ~(tokens[j + 1] = "Id" /\ tokens[j + 2] = "PL") BY <2>3 DEF Isnt, NoHead
    <2>5. j \in ArrayLines BY <2>3, <2>4 DEF ArrayLines
    <2>6. tokens[i + 1] = "Id" /\ tokens[i + 2] = "SL" BY <2>3, <2>5 DEF ArraysNamed
    <2> QED BY <2>3, <2>6 DEF Isnt
  <1> QED BY <1>2, <1>3 DEF PassedOver

(* parseProgram is called by no function.                                  *)
LEMMA ProgramNotCalled ==
    ASSUME NEW f, Sound(f) PROVE ~Calling(f, "parseProgram")
  <1>1. \A fn \in DOMAIN Row : \A i \in 1..Len(Row[fn]) : Row[fn][i].call # "parseProgram"
    <2>1. \A fn \in DOMAIN Row : \A i \in 1..Len(Row[fn]) : Spoken(fn, Row[fn][i], i)
      BY RowsSpoken DEF SpokenRow
    <2>2. "none" # "parseProgram" OBVIOUS
    <2> QED BY <2>1, <2>2 DEF Spoken
  <1>2. f.at \in Nat \ {0} BY DEF Sound
  <1>3. f.fn \in DOMAIN Row /\ f.at <= Len(Row[f.fn]) => f.at \in 1..Len(Row[f.fn])
    BY <1>2, RowsFit DEF Fits
  <1> QED BY <1>1, <1>3, AlternativesFit DEF Calling

(* Whatever the tokens, and however often the parser goes back over them,  *)
(* a program that is accepted and has none of the tokens that the parser   *)
(* passes over is the program that was written: its tree says every token, *)
(* once and in its place (parser.cpp:40-789).                              *)
THEOREM TreeFaithful == Spec => []Faithful
  <1>1. ASSUME ParserInv, TreeInv, SpanInv PROVE Faithful
    <2>1. SUFFICES ASSUME phase = "parsed", ElsesHaveBlocks, ArraysNamed PROVE Filled = Written
      BY DEF Faithful
    <2> DEFINE b == curTokIdx
               k == Top.kids
    <2>2. tokens \in Buffers /\ Len(tokens) \in Nat BY <1>1, AtToken
    <2>3. CallsSay BY <1>1, <2>1, <2>2, NonePassedOver DEF SpanInv
    <2>4. Top.fn = "parseProgram" /\ ~ret.done /\ Is(tokens, b, {"End"}) BY <1>1, <2>1 DEF SpanInv
    <2>5. b \in 1..Len(tokens) /\ tokens[b] = "End" /\ b = Len(tokens)
      BY <1>1, <2>4 DEF Is, ParserInv, BufferInv
    <2>6. /\ Says(tokens, 1, b, Run(Fills(k)), 0) /\ k \in Seq(GoodTexts)
          /\ Run(Fills(k)) \in GoodTexts
      BY <1>1, <2>3, <2>4, ProgramHere
    <2>7. k = calls[1].kids
      <3>1. Len(calls) \in Nat \ {0} /\ Top = calls[Len(calls)] BY <1>1, Stacks
      <3>2. Len(calls) = 1
        <4>1. SUFFICES ASSUME Len(calls) # 1 PROVE FALSE OBVIOUS
        <4> DEFINE n == Len(calls)
                   e == n - 1
        <4>2. e \in 1..n - 1 /\ e + 1 = n /\ e \in 1..n
          <5>1. n \in Nat \ {0} /\ n # 1 BY <3>1, <4>1
          <5> HIDE DEF n
          <5>2. e \in Nat /\ 1 <= e /\ e + 1 = n BY <5>1
          <5> QED BY <5>1, <5>2
        <4> HIDE DEF e
        <4>3. Calling(calls[e], calls[e + 1].fn) BY <2>3, <4>2 DEF CallsSay
        <4>4. Sound(calls[e]) BY <1>1, <4>2 DEF TreeInv
        <4>5. calls[e + 1].fn = "parseProgram" BY <2>4, <3>1, <4>2
        <4> QED BY <4>3, <4>4, <4>5, ProgramNotCalled
      <3> QED BY <3>1, <3>2
    <2>8. Filled = Run(Fills(k)) BY <2>6, <2>7, FillRun DEF Filled, Tree
    <2> HIDE DEF k
    <2>9. /\ Depth(tokens)[b - 1] \in Int /\ Depth(tokens)[b] = Depth(tokens)[b - 1] + Opened(tokens[b])
          /\ Said(tokens)[b] = IF IsKept(tokens, b) THEN Append(Said(tokens)[b - 1], tokens[b])
                               ELSE Said(tokens)[b - 1]
      BY <2>2, <2>5, SpanSteps
    <2>10. Depth(tokens)[1 - 1] = 0 /\ Said(tokens)[1 - 1] = <<>>
      <3>1. 1 - 1 = 0 OBVIOUS
      <3>2. Depth(tokens)[0] = 0 BY <2>2, DepthSteps DEF Buffers
      <3>3. Said(tokens)[0] = <<>> BY <2>2, SaidSteps
      <3> QED BY <3>1, <3>2, <3>3
    <2>11. Depth(tokens)[b - 1] = 0
      <3>1. Opened(tokens[b]) = 0 BY <2>5 DEF Opened
      <3>2. Depth(tokens)[b] = 0 BY <2>1, <2>5 DEF ArraysNamed
      <3> DEFINE y == Depth(tokens)[b - 1]
      <3>3. y \in Int /\ 0 = y + 0 BY <2>9, <3>1, <3>2
      <3> HIDE DEF y
      <3>4. y = 0 BY <3>3
      <3> QED BY <3>4 DEF y
    <2>12. ~Unclosed(tokens, 1, b, 0)
      <3>1. ~(0 > 0 + 0) OBVIOUS
      <3> QED BY <2>10, <2>11, <3>1 DEF Unclosed
    <2>13. Said(tokens)[b - 1] = <<>> \o Run(Fills(k)) BY <2>6, <2>10, <2>12 DEF Says
    <2>14. <<>> \o Run(Fills(k)) = Run(Fills(k)) BY <2>6, ConcatEmptySeq DEF GoodTexts
    <2>15. Said(tokens)[b] = Said(tokens)[b - 1] BY <2>5, <2>9 DEF IsKept
    <2> QED BY <2>5, <2>8, <2>13, <2>14, <2>15 DEF Written
  <1> QED BY <1>1, TreeInductive, SpanInductive, PTL
=============================================================================
