-------------------------- MODULE NdjsonStream_proofs --------------------------
(***************************************************************************)
(* The NDJSON body, for every body, chunking and limit: that the cuts of   *)
(* the network are invisible, and that the byte accounting is right.       *)
(*                                                                         *)
(* Both the decoder and the reference are folds over a sequence.  The      *)
(* first part proves what they compute, by an induction over the naturals  *)
(* with a set in place of a predicate (Induction, SeqInduction).           *)
(***************************************************************************)
EXTENDS NdjsonStream, SequenceTheorems, WellFoundedInduction, TLAPS

(***************************************************************************)
(* Folds over a sequence.  Decode, Cut and NonBlank are recursive functions*)
(* on the prefixes of a sequence; Result is what such a function returns,  *)
(* its step being a function, and these lemmas are the induction.          *)
(***************************************************************************)
LEMMA Induction ==
  ASSUME NEW T \in SUBSET Nat, 0 \in T, \A n \in T : n + 1 \in T
  PROVE  T = Nat
<1> DEFINE R == OpToRel(<, Nat)
           Bad == Nat \ T
<1>1. IsWellFoundedOn(R, Nat)
  BY NatLessThanWellFounded
<1>2. \A x, y \in Nat : y < x => <<y, x>> \in R
  BY DEF OpToRel
<1> SUFFICES ASSUME Bad # {} PROVE FALSE
  OBVIOUS
<1>3. Bad \in SUBSET Nat
  OBVIOUS
<1> HIDE DEF R
<1>4. PICK x \in Bad : \A y \in Bad : ~ (<<y, x>> \in R)
  <2> HIDE DEF Bad
  <2> QED BY <1>1, <1>3, WFMin
<1>5. x \in Nat /\ x \notin T
  OBVIOUS
<1>6. x # 0
  BY <1>5
<1>7. x - 1 \in Nat /\ x - 1 < x
  BY <1>5, <1>6
<1>8. x - 1 \in T
  BY <1>2, <1>4, <1>5, <1>7
<1> QED BY <1>5, <1>7, <1>8

Run(start, step, s, n, r) ==
  r[0] = start /\ \A k \in 1 .. n : r[k] = step[r[k - 1], s[k]]

Result(S, start, step, s) ==
  (CHOOSE r \in [0 .. Len(s) -> S] : Run(start, step, s, Len(s), r))[Len(s)]

(* g makes the same steps wherever it stands in S.                         *)
Follows(S, start, step, s, n, g) ==
  g[0] = start /\ \A k \in 1 .. n : g[k - 1] \in S => g[k] = step[g[k - 1], s[k]]

LEMMA RunExists ==
  ASSUME NEW S, NEW E, NEW start \in S, NEW step \in [S \X E -> S], NEW s \in Seq(E)
  PROVE  \E r \in [0 .. Len(s) -> S] : Run(start, step, s, Len(s), r)
<1> DEFINE P(n) == n <= Len(s) => \E r \in [0 .. n -> S] : Run(start, step, s, n, r)
           T == {n \in Nat : P(n)}
<1>1. Len(s) \in Nat /\ \A k \in 1 .. Len(s) : s[k] \in E
  OBVIOUS
<1>2. P(0)
  <2>1. [k \in 0 .. 0 |-> start] \in [0 .. 0 -> S]
    OBVIOUS
  <2>2. Run(start, step, s, 0, [k \in 0 .. 0 |-> start])
    BY DEF Run
  <2> QED BY <2>1, <2>2
<1>3. ASSUME NEW n \in Nat, P(n) PROVE P(n + 1)
  <2> SUFFICES ASSUME n + 1 <= Len(s)
               PROVE  \E r \in [0 .. n + 1 -> S] : Run(start, step, s, n + 1, r)
    OBVIOUS
  <2>1. n <= Len(s) /\ n + 1 \in 1 .. Len(s)
    BY <1>1
  <2>2. PICK r \in [0 .. n -> S] : Run(start, step, s, n, r)
    BY <1>3, <2>1
  <2> HIDE DEF P
  <2>3. r[n] \in S /\ s[n + 1] \in E
    BY <1>1, <2>1, <2>2
  <2> DEFINE next == step[r[n], s[n + 1]]
  <2>4. next \in S
    BY <2>3
  <2> HIDE DEF next
  <2> DEFINE q == [k \in 0 .. n + 1 |-> IF k = n + 1 THEN next ELSE r[k]]
  <2>5. q \in [0 .. n + 1 -> S]
    BY <2>2, <2>4
  <2>6. q[0] = r[0] /\ q[n + 1] = next /\ \A k \in 0 .. n : q[k] = r[k]
    OBVIOUS
  <2> HIDE DEF q
  <2>7. ASSUME NEW k \in 1 .. n + 1 PROVE q[k] = step[q[k - 1], s[k]]
    <3>1. CASE k = n + 1
      <4>1. k - 1 = n /\ n \in 0 .. n
        BY <3>1
      <4> QED BY <2>6, <3>1, <4>1 DEF next
    <3>2. CASE k # n + 1
      <4>1. k \in 1 .. n /\ k \in 0 .. n /\ k - 1 \in 0 .. n
        BY <3>2
      <4>2. r[k] = step[r[k - 1], s[k]]
        BY <2>2, <4>1 DEF Run
      <4> QED BY <2>6, <4>1, <4>2
    <3> QED BY <3>1, <3>2
  <2>8. Run(start, step, s, n + 1, q)
    BY <2>2, <2>6, <2>7 DEF Run
  <2> QED BY <2>5, <2>8
<1> HIDE DEF P
<1>4. T = Nat
  <2>1. T \in SUBSET Nat /\ 0 \in T /\ \A n \in T : n + 1 \in T
    BY <1>2, <1>3
  <2> HIDE DEF T
  <2> QED BY <2>1, Induction
<1>5. P(Len(s))
  BY <1>1, <1>4
<1> QED BY <1>1, <1>5 DEF P

LEMMA RunUnique ==
  ASSUME NEW S, NEW E, NEW start \in S, NEW step \in [S \X E -> S], NEW s \in Seq(E),
         NEW r \in [0 .. Len(s) -> S], Run(start, step, s, Len(s), r),
         NEW g, Follows(S, start, step, s, Len(s), g)
  PROVE  g[Len(s)] = r[Len(s)]
<1> DEFINE P(n) == n <= Len(s) => g[n] = r[n]
           T == {n \in Nat : P(n)}
<1>1. Len(s) \in Nat
  OBVIOUS
<1>2. P(0)
  BY DEF Run, Follows
<1>3. ASSUME NEW n \in Nat, P(n) PROVE P(n + 1)
  <2> SUFFICES ASSUME n + 1 <= Len(s) PROVE g[n + 1] = r[n + 1]
    OBVIOUS
  <2>1. n \in 0 .. Len(s) /\ n + 1 \in 1 .. Len(s) /\ (n + 1) - 1 = n
    BY <1>1
  <2>2. g[n] = r[n] /\ r[n] \in S
    BY <1>3, <2>1
  <2>3. g[n + 1] = step[g[n], s[n + 1]]
    BY <2>1, <2>2 DEF Follows
  <2>4. r[n + 1] = step[r[n], s[n + 1]]
    BY <2>1 DEF Run
  <2> QED BY <2>2, <2>3, <2>4
<1> HIDE DEF P
<1>4. T = Nat
  <2>1. T \in SUBSET Nat /\ 0 \in T /\ \A n \in T : n + 1 \in T
    BY <1>2, <1>3
  <2> HIDE DEF T
  <2> QED BY <2>1, Induction
<1>5. P(Len(s))
  BY <1>1, <1>4
<1> QED BY <1>1, <1>5 DEF P

LEMMA ResultOfRun ==
  ASSUME NEW S, NEW E, NEW start \in S, NEW step \in [S \X E -> S], NEW s \in Seq(E),
         NEW g, Follows(S, start, step, s, Len(s), g)
  PROVE  g[Len(s)] = Result(S, start, step, s)
<1> DEFINE r == CHOOSE x \in [0 .. Len(s) -> S] : Run(start, step, s, Len(s), x)
<1>1. r \in [0 .. Len(s) -> S] /\ Run(start, step, s, Len(s), r)
  BY RunExists
<1>2. Result(S, start, step, s) = r[Len(s)]
  BY DEF Result
<1> HIDE DEF r
<1>3. g[Len(s)] = r[Len(s)]
  BY <1>1, RunUnique
<1> QED BY <1>2, <1>3

(* The result over no element is the start, over one more it is one step   *)
(* further.                                                                *)
ResultIsFold(S, E, start, step) ==
  /\ Result(S, start, step, <<>>) = start
  /\ \A s \in Seq(E) : Result(S, start, step, s) \in S
  /\ \A s \in Seq(E), e \in E :
       Result(S, start, step, Append(s, e)) = step[Result(S, start, step, s), e]

LEMMA ResultSteps ==
  ASSUME NEW S, NEW E, NEW start \in S, NEW step \in [S \X E -> S]
  PROVE  ResultIsFold(S, E, start, step)
<1>1. ASSUME NEW s \in Seq(E)
      PROVE  \E r \in [0 .. Len(s) -> S] :
               /\ Run(start, step, s, Len(s), r)
               /\ Result(S, start, step, s) = r[Len(s)]
  <2>1. PICK r \in [0 .. Len(s) -> S] : Run(start, step, s, Len(s), r)
    BY RunExists
  <2>2. Follows(S, start, step, s, Len(s), r)
    BY <2>1 DEF Run, Follows
  <2>3. r[Len(s)] = Result(S, start, step, s)
    BY <2>2, ResultOfRun
  <2> QED BY <2>1, <2>3
<1>2. Result(S, start, step, <<>>) = start
  <2>1. <<>> \in Seq(E) /\ Len(<<>>) = 0
    OBVIOUS
  <2>2. PICK r : Run(start, step, <<>>, Len(<<>>), r) /\ Result(S, start, step, <<>>) = r[Len(<<>>)]
    BY <1>1, <2>1
  <2> QED BY <2>1, <2>2 DEF Run
<1>3. ASSUME NEW s \in Seq(E) PROVE Result(S, start, step, s) \in S
  <2>1. PICK r \in [0 .. Len(s) -> S] : Result(S, start, step, s) = r[Len(s)]
    BY <1>1
  <2>2. Len(s) \in 0 .. Len(s)
    OBVIOUS
  <2> QED BY <2>1, <2>2
<1>4. ASSUME NEW s \in Seq(E), NEW e \in E
      PROVE  Result(S, start, step, Append(s, e)) = step[Result(S, start, step, s), e]
  <2> DEFINE t == Append(s, e)
             n == Len(s)
  <2>1. /\ t \in Seq(E) /\ n \in Nat /\ Len(t) = n + 1
        /\ t[n + 1] = e /\ \A k \in 1 .. n : t[k] = s[k]
    OBVIOUS
  <2>2. PICK q \in [0 .. Len(t) -> S] :
          Run(start, step, t, Len(t), q) /\ Result(S, start, step, t) = q[Len(t)]
    BY <1>1, <2>1
  <2> HIDE DEF t
  <2>3. /\ q[0] = start /\ q[n + 1] = step[q[n], e]
        /\ \A k \in 1 .. n : q[k] = step[q[k - 1], s[k]]
    <3>1. n + 1 \in 1 .. Len(t) /\ (n + 1) - 1 = n /\ \A k \in 1 .. n : k \in 1 .. Len(t)
      BY <2>1
    <3> QED BY <2>1, <2>2, <3>1 DEF Run
  <2>4. q[n] = Result(S, start, step, s)
    <3>1. Follows(S, start, step, s, Len(s), q)
      BY <2>3 DEF Follows
    <3> QED BY <3>1, ResultOfRun
  <2> QED BY <2>1, <2>2, <2>3, <2>4 DEF t
<1> QED BY <1>2, <1>3, <1>4 DEF ResultIsFold

-----------------------------------------------------------------------------
(* The decoder, byte by byte.                                              *)
Decoded == [text : Seq(Characters), partial : BOOLEAN]

Undecoded(p) == [text |-> <<>>, partial |-> p]

DecodeStep == [x \in Decoded \X Bytes |-> DecodeByte(x[1], x[2])]

LEMMA ByteDecoded ==
  ASSUME NEW d \in Decoded, NEW b \in Bytes
  PROVE  DecodeByte(d, b) \in Decoded
<1>1. \A c \in {"a", "x", "n", "e", "?"} : \A t \in Seq(Characters) : Append(t, c) \in Seq(Characters)
  BY DEF Characters
<1> DEFINE text == IF d.partial /\ b # "2" THEN Append(d.text, "?") ELSE d.text
<1>2. text \in Seq(Characters)
  BY <1>1 DEF Decoded
<1> HIDE DEF text
<1>3. DecodeByte(d, b) =
        CASE b = "1" -> [text |-> text, partial |-> TRUE]
          [] b = "2" -> [text |-> Append(text, IF d.partial THEN "e" ELSE "?"), partial |-> FALSE]
          [] OTHER   -> [text |-> Append(text, b), partial |-> FALSE]
  BY DEF DecodeByte, text
<1> QED BY <1>1, <1>2, <1>3 DEF Bytes, Decoded, Characters

LEMMA DecodeIsFold ==
  ASSUME NEW p \in BOOLEAN, NEW s \in Seq(Bytes)
  PROVE  Decode(p, s) = Result(Decoded, Undecoded(p), DecodeStep, s)
<1> DEFINE n == Len(s)
           F(f) == [k \in 0 .. n |-> IF k = 0 THEN [text |-> <<>>, partial |-> p]
                                     ELSE DecodeByte(f[k - 1], s[k])]
           g == CHOOSE f : f = F(f)
<1>1. n \in Nat /\ \A k \in 1 .. n : s[k] \in Bytes
  OBVIOUS
<1>2. Undecoded(p) \in Decoded /\ DecodeStep \in [Decoded \X Bytes -> Decoded]
  BY ByteDecoded DEF Undecoded, Decoded, DecodeStep
<1>3. PICK r \in [0 .. n -> Decoded] : Run(Undecoded(p), DecodeStep, s, n, r)
  BY <1>2, RunExists
<1>4. \A d \in Decoded, k \in 1 .. n : DecodeStep[d, s[k]] = DecodeByte(d, s[k])
  BY <1>1 DEF DecodeStep
<1>5. r = F(r)
  <2>1. ASSUME NEW k \in 1 .. n PROVE r[k] = DecodeByte(r[k - 1], s[k])
    <3>1. k - 1 \in 0 .. n
      BY <1>1
    <3>2. r[k - 1] \in Decoded
      BY <1>3, <3>1
    <3>3. r[k] = DecodeStep[r[k - 1], s[k]]
      BY <1>3 DEF Run
    <3> QED BY <1>4, <3>2, <3>3
  <2>2. r[0] = [text |-> <<>>, partial |-> p]
    BY <1>3 DEF Run, Undecoded
  <2>3. \A k \in 0 .. n : k = 0 \/ k \in 1 .. n
    BY <1>1
  <2> QED BY <1>3, <2>1, <2>2, <2>3
<1>6. g = F(g)
  BY <1>5
<1>7. Decode(p, s) = g[n]
  BY DEF Decode
<1> HIDE DEF g
<1>8. Follows(Decoded, Undecoded(p), DecodeStep, s, n, g)
  <2>1. 0 \in 0 .. n /\ \A k \in 1 .. n : k \in 0 .. n /\ k # 0
    BY <1>1
  <2>2. g[0] = Undecoded(p)
    BY <1>6, <2>1 DEF Undecoded
  <2>3. \A k \in 1 .. n : g[k] = DecodeByte(g[k - 1], s[k])
    BY <1>6, <2>1
  <2> QED BY <1>4, <2>2, <2>3 DEF Follows
<1> QED BY <1>2, <1>7, <1>8, ResultOfRun

LEMMA DecodeFold ==
  ASSUME NEW p \in BOOLEAN
  PROVE  /\ Decode(p, <<>>) = Undecoded(p)
         /\ \A s \in Seq(Bytes) : Decode(p, s) \in Decoded
         /\ \A s \in Seq(Bytes), b \in Bytes :
              Decode(p, Append(s, b)) = DecodeByte(Decode(p, s), b)
<1>1. Undecoded(p) \in Decoded /\ DecodeStep \in [Decoded \X Bytes -> Decoded]
  BY ByteDecoded DEF Undecoded, Decoded, DecodeStep
<1> DEFINE R(s) == Result(Decoded, Undecoded(p), DecodeStep, s)
<1>2. /\ R(<<>>) = Undecoded(p) /\ \A s \in Seq(Bytes) : R(s) \in Decoded
      /\ \A s \in Seq(Bytes), b \in Bytes : R(Append(s, b)) = DecodeStep[R(s), b]
  <2>1. ResultIsFold(Decoded, Bytes, Undecoded(p), DecodeStep)
    BY <1>1, ResultSteps
  <2> QED BY <2>1 DEF ResultIsFold
<1>3. \A s \in Seq(Bytes) : Decode(p, s) = R(s)
  BY DecodeIsFold
<1> HIDE DEF R
<1>4. \A d \in Decoded, b \in Bytes : DecodeStep[d, b] = DecodeByte(d, b)
  BY DEF DecodeStep
<1>5. <<>> \in Seq(Bytes) /\ \A s \in Seq(Bytes), b \in Bytes : Append(s, b) \in Seq(Bytes)
  OBVIOUS
<1> QED BY <1>2, <1>3, <1>4, <1>5

-----------------------------------------------------------------------------
(* The cut of a text, character by character.                              *)
Cuts == [lines : Seq(Seq(Characters)), rest : Seq(Characters)]

Uncut == [lines |-> <<>>, rest |-> <<>>]

CutAt(c, ch) ==
  IF ch = "n" THEN [lines |-> Append(c.lines, c.rest), rest |-> <<>>]
              ELSE [lines |-> c.lines, rest |-> Append(c.rest, ch)]

CutStep == [x \in Cuts \X Characters |-> CutAt(x[1], x[2])]

LEMMA CutTypes ==
  /\ Uncut \in Cuts
  /\ \A c \in Cuts, ch \in Characters : CutAt(c, ch) \in Cuts
  /\ CutStep \in [Cuts \X Characters -> Cuts]
<1>1. Uncut \in Cuts
  BY DEF Uncut, Cuts
<1>2. ASSUME NEW c \in Cuts, NEW ch \in Characters PROVE CutAt(c, ch) \in Cuts
  <2>1. c.lines \in Seq(Seq(Characters)) /\ c.rest \in Seq(Characters)
    BY DEF Cuts
  <2>2. Append(c.lines, c.rest) \in Seq(Seq(Characters)) /\ Append(c.rest, ch) \in Seq(Characters)
    BY <2>1
  <2>3. <<>> \in Seq(Characters)
    OBVIOUS
  <2> QED BY <2>1, <2>2, <2>3 DEF CutAt, Cuts
<1> QED BY <1>1, <1>2 DEF CutStep

LEMMA CutIsFold ==
  ASSUME NEW s \in Seq(Characters)
  PROVE  Cut(s) = Result(Cuts, Uncut, CutStep, s)
<1> DEFINE n == Len(s)
           F(f) == [k \in 0 .. n |->
                      IF k = 0 THEN [lines |-> <<>>, rest |-> <<>>]
                      ELSE IF s[k] = "n"
                           THEN [lines |-> Append(f[k - 1].lines, f[k - 1].rest), rest |-> <<>>]
                           ELSE [lines |-> f[k - 1].lines, rest |-> Append(f[k - 1].rest, s[k])]]
           g == CHOOSE f : f = F(f)
<1>1. n \in Nat /\ \A k \in 1 .. n : s[k] \in Characters
  OBVIOUS
<1>2. PICK r \in [0 .. n -> Cuts] : Run(Uncut, CutStep, s, n, r)
  BY CutTypes, RunExists
<1>3. \A c \in Cuts, k \in 1 .. n : CutStep[c, s[k]] = CutAt(c, s[k])
  BY <1>1 DEF CutStep
<1>4. r = F(r)
  <2>1. ASSUME NEW k \in 1 .. n PROVE r[k] = CutAt(r[k - 1], s[k])
    <3>1. k - 1 \in 0 .. n
      BY <1>1
    <3>2. r[k - 1] \in Cuts
      BY <1>2, <3>1
    <3>3. r[k] = CutStep[r[k - 1], s[k]]
      BY <1>2 DEF Run
    <3> QED BY <1>3, <3>2, <3>3
  <2>2. r[0] = [lines |-> <<>>, rest |-> <<>>]
    BY <1>2 DEF Run, Uncut
  <2>3. \A k \in 0 .. n : k = 0 \/ (k \in 1 .. n /\ k # 0)
    BY <1>1
  <2>4. ASSUME NEW k \in 0 .. n PROVE r[k] = F(r)[k]
    BY <2>1, <2>2, <2>3 DEF CutAt
  <2> QED BY <1>2, <2>4
<1>5. g = F(g)
  BY <1>4
<1>6. Cut(s) = g[n]
  BY DEF Cut
<1> HIDE DEF g
<1>7. Follows(Cuts, Uncut, CutStep, s, n, g)
  <2>1. 0 \in 0 .. n /\ \A k \in 1 .. n : k \in 0 .. n /\ k # 0
    BY <1>1
  <2>2. g[0] = Uncut
    BY <1>5, <2>1 DEF Uncut
  <2>3. \A k \in 1 .. n : g[k] = CutAt(g[k - 1], s[k])
    BY <1>5, <2>1 DEF CutAt
  <2> QED BY <1>3, <2>2, <2>3 DEF Follows
<1> QED BY <1>6, <1>7, CutTypes, ResultOfRun

LEMMA CutFold ==
  /\ Cut(<<>>) = Uncut
  /\ \A s \in Seq(Characters) : Cut(s) \in Cuts
  /\ \A s \in Seq(Characters), ch \in Characters : Cut(Append(s, ch)) = CutAt(Cut(s), ch)
<1> DEFINE R(s) == Result(Cuts, Uncut, CutStep, s)
<1>1. /\ R(<<>>) = Uncut /\ \A s \in Seq(Characters) : R(s) \in Cuts
      /\ \A s \in Seq(Characters), ch \in Characters : R(Append(s, ch)) = CutStep[R(s), ch]
  <2>1. ResultIsFold(Cuts, Characters, Uncut, CutStep)
    BY CutTypes, ResultSteps
  <2> QED BY <2>1 DEF ResultIsFold
<1>2. \A s \in Seq(Characters) : Cut(s) = R(s)
  BY CutIsFold
<1> HIDE DEF R
<1>3. \A c \in Cuts, ch \in Characters : CutStep[c, ch] = CutAt(c, ch)
  BY DEF CutStep
<1>4. <<>> \in Seq(Characters) /\ \A s \in Seq(Characters), ch \in Characters : Append(s, ch) \in Seq(Characters)
  OBVIOUS
<1> QED BY <1>1, <1>2, <1>3, <1>4

-----------------------------------------------------------------------------
(* The lines that are not blank, line by line.                             *)
Texts == Seq(Characters)

Kept == Seq(Texts)

NoneKept == <<>>

Keep(b, l) == IF l = <<>> THEN b ELSE Append(b, l)

KeepStep == [x \in Kept \X Texts |-> Keep(x[1], x[2])]

LEMMA KeepTypes ==
  /\ NoneKept \in Kept
  /\ \A b \in Kept, l \in Texts : Keep(b, l) \in Kept
  /\ KeepStep \in [Kept \X Texts -> Kept]
<1>1. NoneKept \in Kept
  BY DEF NoneKept, Kept
<1>2. ASSUME NEW b \in Kept, NEW l \in Texts PROVE Keep(b, l) \in Kept
  <2>1. Append(b, l) \in Kept
    BY DEF Kept
  <2> QED BY <2>1 DEF Keep
<1> QED BY <1>1, <1>2 DEF KeepStep

LEMMA NonBlankIsFold ==
  ASSUME NEW s \in Kept
  PROVE  NonBlank(s) = Result(Kept, NoneKept, KeepStep, s)
<1> DEFINE n == Len(s)
           F(f) == [k \in 0 .. n |-> IF k = 0 THEN <<>>
                                     ELSE IF s[k] = <<>> THEN f[k - 1] ELSE Append(f[k - 1], s[k])]
           g == CHOOSE f : f = F(f)
<1>1. n \in Nat /\ \A k \in 1 .. n : s[k] \in Texts
  BY DEF Kept
<1>2. PICK r \in [0 .. n -> Kept] : Run(NoneKept, KeepStep, s, n, r)
  BY KeepTypes, RunExists DEF Kept
<1>3. \A b \in Kept, k \in 1 .. n : KeepStep[b, s[k]] = Keep(b, s[k])
  BY <1>1 DEF KeepStep
<1>4. r = F(r)
  <2>1. ASSUME NEW k \in 1 .. n PROVE r[k] = Keep(r[k - 1], s[k])
    <3>1. k - 1 \in 0 .. n
      BY <1>1
    <3>2. r[k - 1] \in Kept
      BY <1>2, <3>1
    <3>3. r[k] = KeepStep[r[k - 1], s[k]]
      BY <1>2 DEF Run
    <3> QED BY <1>3, <3>2, <3>3
  <2>2. r[0] = <<>>
    BY <1>2 DEF Run, NoneKept
  <2>3. \A k \in 0 .. n : k = 0 \/ (k \in 1 .. n /\ k # 0)
    BY <1>1
  <2>4. ASSUME NEW k \in 0 .. n PROVE r[k] = F(r)[k]
    BY <2>1, <2>2, <2>3 DEF Keep
  <2> QED BY <1>2, <2>4
<1>5. g = F(g)
  BY <1>4
<1>6. NonBlank(s) = g[n]
  BY DEF NonBlank
<1> HIDE DEF g
<1>7. Follows(Kept, NoneKept, KeepStep, s, n, g)
  <2>1. 0 \in 0 .. n /\ \A k \in 1 .. n : k \in 0 .. n /\ k # 0
    BY <1>1
  <2>2. g[0] = NoneKept
    BY <1>5, <2>1 DEF NoneKept
  <2>3. \A k \in 1 .. n : g[k] = Keep(g[k - 1], s[k])
    BY <1>5, <2>1 DEF Keep
  <2> QED BY <1>3, <2>2, <2>3 DEF Follows
<1>8. s \in Seq(Texts)
  BY DEF Kept
<1>9. NoneKept \in Kept /\ KeepStep \in [Kept \X Texts -> Kept]
  BY KeepTypes
<1>10. g[n] = Result(Kept, NoneKept, KeepStep, s)
  BY <1>7, <1>8, <1>9, ResultOfRun
<1> QED BY <1>6, <1>10

LEMMA NonBlankFold ==
  /\ NonBlank(<<>>) = <<>>
  /\ \A s \in Kept : NonBlank(s) \in Kept
  /\ \A s \in Kept, l \in Texts : NonBlank(Append(s, l)) = Keep(NonBlank(s), l)
<1> DEFINE R(s) == Result(Kept, NoneKept, KeepStep, s)
<1>1. /\ R(<<>>) = NoneKept /\ \A s \in Kept : R(s) \in Kept
      /\ \A s \in Kept, l \in Texts : R(Append(s, l)) = KeepStep[R(s), l]
  <2>1. ResultIsFold(Kept, Texts, NoneKept, KeepStep)
    BY KeepTypes, ResultSteps
  <2> QED BY <2>1 DEF ResultIsFold, Kept
<1>2. \A s \in Kept : NonBlank(s) = R(s)
  BY NonBlankIsFold
<1> HIDE DEF R
<1>3. \A b \in Kept, l \in Texts : KeepStep[b, l] = Keep(b, l)
  BY DEF KeepStep
<1>4. <<>> \in Kept /\ \A s \in Kept, l \in Texts : Append(s, l) \in Kept
  BY DEF Kept
<1>5. NonBlank(<<>>) = <<>>
  <2>1. NonBlank(<<>>) = R(<<>>)
    BY <1>2, <1>4
  <2> QED BY <1>1, <2>1 DEF NoneKept
<1>6. \A s \in Kept : NonBlank(s) \in Kept
  BY <1>1, <1>2
<1>7. ASSUME NEW s \in Kept, NEW l \in Texts
      PROVE  NonBlank(Append(s, l)) = Keep(NonBlank(s), l)
  <2>1. NonBlank(Append(s, l)) = R(Append(s, l)) /\ NonBlank(s) = R(s) /\ R(s) \in Kept
    BY <1>1, <1>2, <1>4
  <2> QED BY <1>1, <1>3, <2>1
<1> QED BY <1>5, <1>6, <1>7

-----------------------------------------------------------------------------
(* Induction over a sequence, with a set in place of a predicate.          *)
LEMMA SeqInduction ==
  ASSUME NEW S, NEW T \in SUBSET Seq(S), <<>> \in T, \A s \in T, e \in S : Append(s, e) \in T
  PROVE  T = Seq(S)
<1> DEFINE P(n) == \A s \in Seq(S) : Len(s) = n => s \in T
           N == {n \in Nat : P(n)}
<1>1. P(0)
  OBVIOUS
<1>2. ASSUME NEW n \in Nat, P(n) PROVE P(n + 1)
  <2> SUFFICES ASSUME NEW s \in Seq(S), Len(s) = n + 1 PROVE s \in T
    OBVIOUS
  <2>1. s # <<>>
    OBVIOUS
  <2>2. PICK t \in Seq(S), e \in S : s = Append(t, e)
    BY <2>1, SequenceEmptyOrAppend
  <2>3. Len(t) = n
    BY <2>2
  <2>4. t \in T
    BY <1>2, <2>3
  <2> QED BY <2>2, <2>4
<1> HIDE DEF P
<1>3. N = Nat
  <2>1. N \in SUBSET Nat /\ 0 \in N /\ \A n \in N : n + 1 \in N
    BY <1>1, <1>2
  <2> HIDE DEF N
  <2> QED BY <2>1, Induction
<1>4. ASSUME NEW s \in Seq(S) PROVE s \in T
  <2>1. Len(s) \in Nat
    OBVIOUS
  <2>2. P(Len(s))
    BY <1>3, <2>1
  <2> QED BY <2>2 DEF P
<1> QED BY <1>4

LEMMA AppendToConcat ==
  ASSUME NEW S, NEW s \in Seq(S), NEW t \in Seq(S), NEW e \in S
  PROVE  s \o Append(t, e) = Append(s \o t, e)
<1>1. <<e>> \in Seq(S) /\ s \o t \in Seq(S)
  OBVIOUS
<1>2. Append(t, e) = t \o <<e>> /\ Append(s \o t, e) = (s \o t) \o <<e>>
  BY <1>1, AppendIsConcat
<1>3. (s \o t) \o <<e>> = s \o (t \o <<e>>)
  BY <1>1, ConcatAssociative
<1> QED BY <1>2, <1>3

-----------------------------------------------------------------------------
(* A decoder that was handed one chunk goes on over the next as if there   *)
(* had been no cut.                                                        *)
LEMMA ByteAfter ==
  ASSUME NEW A \in Seq(Characters), NEW d \in Decoded, NEW b \in Bytes
  PROVE  DecodeByte([text |-> A \o d.text, partial |-> d.partial], b)
           = [text |-> A \o DecodeByte(d, b).text, partial |-> DecodeByte(d, b).partial]
<1> DEFINE text == IF d.partial /\ b # "2" THEN Append(d.text, "?") ELSE d.text
           c == IF b = "2" THEN (IF d.partial THEN "e" ELSE "?") ELSE b
           far == IF d.partial /\ b # "2" THEN Append(A \o d.text, "?") ELSE A \o d.text
<1>1. d.text \in Seq(Characters) /\ d.partial \in BOOLEAN
  BY DEF Decoded
<1>2. "?" \in Characters /\ (b # "1" => c \in Characters)
  BY DEF Bytes, Characters
<1>3. text \in Seq(Characters) /\ far = A \o text
  <2>1. A \o Append(d.text, "?") = Append(A \o d.text, "?")
    BY <1>1, <1>2, AppendToConcat
  <2>2. Append(d.text, "?") \in Seq(Characters)
    BY <1>1, <1>2
  <2> QED BY <1>1, <2>1, <2>2
<1>4. b # "1" => Append(far, c) = A \o Append(text, c)
  <2> SUFFICES ASSUME b # "1" PROVE Append(far, c) = A \o Append(text, c)
    OBVIOUS
  <2>1. c \in Characters
    BY <1>2
  <2> HIDE DEF c, text, far
  <2>2. A \o Append(text, c) = Append(A \o text, c)
    BY <1>3, <2>1, AppendToConcat
  <2> QED BY <1>3, <2>2
<1> DEFINE D == [text |-> A \o d.text, partial |-> d.partial]
<1>5. /\ b = "1" => DecodeByte(d, b) = [text |-> text, partial |-> TRUE]
      /\ b # "1" => DecodeByte(d, b) = [text |-> Append(text, c), partial |-> FALSE]
  <2>1. CASE b = "1"
    BY <2>1 DEF DecodeByte
  <2>2. CASE b = "2"
    BY <2>2 DEF DecodeByte
  <2>3. CASE b # "1" /\ b # "2"
    BY <2>3 DEF DecodeByte
  <2> QED BY <2>1, <2>2, <2>3
<1>6. /\ b = "1" => DecodeByte(D, b) = [text |-> far, partial |-> TRUE]
      /\ b # "1" => DecodeByte(D, b) = [text |-> Append(far, c), partial |-> FALSE]
  <2>0. D.text = A \o d.text /\ D.partial = d.partial
    OBVIOUS
  <2> HIDE DEF D
  <2>1. CASE b = "1"
    BY <2>0, <2>1 DEF DecodeByte
  <2>2. CASE b = "2"
    BY <2>0, <2>2 DEF DecodeByte
  <2>3. CASE b # "1" /\ b # "2"
    BY <2>0, <2>3 DEF DecodeByte
  <2> QED BY <2>1, <2>2, <2>3
<1> HIDE DEF text, c, far, D
<1>7. CASE b = "1"
  <2>1. DecodeByte(d, b).text = text /\ DecodeByte(d, b).partial = TRUE
    BY <1>5, <1>7
  <2>2. DecodeByte(D, b) = [text |-> A \o text, partial |-> TRUE]
    BY <1>3, <1>6, <1>7
  <2> QED BY <2>1, <2>2 DEF D
<1>8. CASE b # "1"
  <2>1. DecodeByte(d, b).text = Append(text, c) /\ DecodeByte(d, b).partial = FALSE
    BY <1>5, <1>8
  <2>2. DecodeByte(D, b) = [text |-> A \o Append(text, c), partial |-> FALSE]
    BY <1>4, <1>6, <1>8
  <2> QED BY <2>1, <2>2 DEF D
<1> QED BY <1>7, <1>8

After(p, s, t) ==
  LET d == Decode(p, s)
      e == Decode(d.partial, t)
  IN  [text |-> d.text \o e.text, partial |-> e.partial]

LEMMA DecodeConcat ==
  ASSUME NEW p \in BOOLEAN, NEW s \in Seq(Bytes), NEW t \in Seq(Bytes)
  PROVE  Decode(p, s \o t) = After(p, s, t)
<1> DEFINE T == {u \in Seq(Bytes) : Decode(p, s \o u) = After(p, s, u)}
           d == Decode(p, s)
<1>1. d \in Decoded /\ d.text \in Seq(Characters) /\ d.partial \in BOOLEAN
  BY DecodeFold DEF Decoded
<1>2. <<>> \in T
  <2>1. s \o <<>> = s /\ <<>> \in Seq(Bytes)
    BY ConcatEmptySeq
  <2>2. Decode(d.partial, <<>>) = [text |-> <<>>, partial |-> d.partial]
    BY <1>1, DecodeFold DEF Undecoded
  <2>3. d.text \o <<>> = d.text
    BY <1>1, ConcatEmptySeq
  <2>4. d = [text |-> d.text, partial |-> d.partial]
    BY <1>1 DEF Decoded
  <2> DEFINE e == Decode(d.partial, <<>>)
  <2>5. After(p, s, <<>>) = [text |-> d.text \o e.text, partial |-> e.partial]
    BY DEF After
  <2>6. After(p, s, <<>>) = d
    <3>1. e.text = <<>> /\ e.partial = d.partial
      BY <2>2
    <3> HIDE DEF d, e
    <3> QED BY <2>3, <2>4, <2>5, <3>1
  <2> HIDE DEF d
  <2>7. Decode(p, s \o <<>>) = d
    BY <2>1 DEF d
  <2>8. Decode(p, s \o <<>>) = After(p, s, <<>>)
    BY <2>6, <2>7
  <2> QED BY <2>1, <2>8
<1>3. ASSUME NEW u \in T, NEW b \in Bytes PROVE Append(u, b) \in T
  <2> DEFINE e == Decode(d.partial, u)
  <2>1. u \in Seq(Bytes) /\ Append(u, b) \in Seq(Bytes) /\ s \o u \in Seq(Bytes)
    OBVIOUS
  <2>2. Decode(p, s \o u) = [text |-> d.text \o e.text, partial |-> e.partial]
    BY DEF After
  <2>3. e \in Decoded /\ Decode(d.partial, Append(u, b)) = DecodeByte(e, b)
    BY <1>1, <2>1, DecodeFold
  <2>4. s \o Append(u, b) = Append(s \o u, b)
    BY <2>1, AppendToConcat
  <2>5. Decode(p, Append(s \o u, b)) = DecodeByte(Decode(p, s \o u), b)
    BY <2>1, DecodeFold
  <2> HIDE DEF d, e
  <2>6. DecodeByte([text |-> d.text \o e.text, partial |-> e.partial], b)
          = [text |-> d.text \o DecodeByte(e, b).text, partial |-> DecodeByte(e, b).partial]
    BY <1>1, <2>3, ByteAfter
  <2>7. Decode(p, s \o Append(u, b))
          = [text |-> d.text \o Decode(d.partial, Append(u, b)).text,
             partial |-> Decode(d.partial, Append(u, b)).partial]
    BY <2>2, <2>3, <2>4, <2>5, <2>6
  <2> QED BY <2>1, <2>7 DEF After, d
<1>4. T = Seq(Bytes)
  <2>1. T \in SUBSET Seq(Bytes)
    OBVIOUS
  <2> HIDE DEF T
  <2> QED BY <1>2, <1>3, <2>1, SeqInduction
<1> QED BY <1>4

(* What follows a newline is cut on its own.                               *)
LEMMA CutConcat ==
  ASSUME NEW s \in Seq(Characters), Cut(s).rest = <<>>, NEW t \in Seq(Characters)
  PROVE  Cut(s \o t) = [lines |-> Cut(s).lines \o Cut(t).lines, rest |-> Cut(t).rest]
<1> DEFINE W == Cut(s).lines
           Cat(u) == [lines |-> W \o Cut(u).lines, rest |-> Cut(u).rest]
           T == {u \in Seq(Characters) : Cut(s \o u) = Cat(u)}
<1>1. W \in Seq(Texts) /\ Cut(s) = [lines |-> W, rest |-> <<>>]
  BY CutFold DEF Cuts, Texts
<1> HIDE DEF W
<1>2. <<>> \in T
  <2>1. s \o <<>> = s /\ <<>> \in Seq(Characters)
    BY ConcatEmptySeq
  <2>2. Cut(<<>>).lines = <<>> /\ Cut(<<>>).rest = <<>>
    BY CutFold DEF Uncut
  <2>3. W \o <<>> = W
    BY <1>1, ConcatEmptySeq
  <2>4. Cat(<<>>) = [lines |-> W, rest |-> <<>>]
    BY <2>2, <2>3
  <2>5. Cut(s \o <<>>) = Cat(<<>>)
    BY <1>1, <2>1, <2>4
  <2> QED BY <2>1, <2>5
<1>3. ASSUME NEW u \in T, NEW ch \in Characters PROVE Append(u, ch) \in T
  <2> DEFINE c == Cut(u)
             v == Append(u, ch)
  <2>1. u \in Seq(Characters) /\ v \in Seq(Characters) /\ s \o u \in Seq(Characters)
    OBVIOUS
  <2>2. c.lines \in Seq(Texts) /\ c.rest \in Texts
    BY <2>1, CutFold DEF Cuts, Texts
  <2>3. Cut(v) = CutAt(c, ch)
    BY <2>1, CutFold
  <2>4. Cut(s \o v) = CutAt(Cut(s \o u), ch)
    <3>1. s \o v = Append(s \o u, ch)
      BY <2>1, AppendToConcat
    <3> QED BY <2>1, <3>1, CutFold
  <2>5. Cut(s \o u).lines = W \o c.lines /\ Cut(s \o u).rest = c.rest
    OBVIOUS
  <2> HIDE DEF c
  <2>6. W \o Append(c.lines, c.rest) = Append(W \o c.lines, c.rest)
    BY <1>1, <2>2, AppendToConcat
  <2>7. CASE ch = "n"
    <3>1. Cut(v).lines = Append(c.lines, c.rest) /\ Cut(v).rest = <<>>
      BY <2>3, <2>7 DEF CutAt
    <3>2. Cut(s \o v) = [lines |-> Append(W \o c.lines, c.rest), rest |-> <<>>]
      BY <2>4, <2>5, <2>7 DEF CutAt
    <3>3. Cut(s \o v) = Cat(v)
      <4> HIDE DEF v
      <4> QED BY <2>6, <3>1, <3>2
    <3> QED BY <2>1, <3>3
  <2>8. CASE ch # "n"
    <3>1. Cut(v).lines = c.lines /\ Cut(v).rest = Append(c.rest, ch)
      BY <2>3, <2>8 DEF CutAt
    <3>2. Cut(s \o v) = [lines |-> W \o c.lines, rest |-> Append(c.rest, ch)]
      BY <2>4, <2>5, <2>8 DEF CutAt
    <3>3. Cut(s \o v) = Cat(v)
      <4> HIDE DEF v
      <4> QED BY <3>1, <3>2
    <3> QED BY <2>1, <3>3
  <2> QED BY <2>7, <2>8
<1>4. T = Seq(Characters)
  <2>1. T \in SUBSET Seq(Characters)
    OBVIOUS
  <2> HIDE DEF T
  <2> QED BY <1>2, <1>3, <2>1, SeqInduction
<1>5. Cut(s \o t) = Cat(t)
  BY <1>4
<1> QED BY <1>5 DEF W

NoNewline(t) == \A k \in DOMAIN t : t[k] # "n"

(* A text without a newline is one line.                                   *)
LEMMA CutOneLine ==
  ASSUME NEW t \in Seq(Characters), NoNewline(t)
  PROVE  Cut(t).lines = <<>> /\ Cut(t).rest = t
<1> DEFINE T == {u \in Seq(Characters) : NoNewline(u) => Cut(u).lines = <<>> /\ Cut(u).rest = u}
<1>1. <<>> \in T
  BY CutFold DEF Uncut
<1>2. ASSUME NEW u \in T, NEW ch \in Characters PROVE Append(u, ch) \in T
  <2> DEFINE v == Append(u, ch)
  <2>1. /\ v \in Seq(Characters) /\ u \in Seq(Characters) /\ Len(v) = Len(u) + 1
        /\ v[Len(u) + 1] = ch /\ \A k \in 1 .. Len(u) : v[k] = u[k]
        /\ DOMAIN v = 1 .. Len(v) /\ DOMAIN u = 1 .. Len(u) /\ Len(u) \in Nat
    OBVIOUS
  <2>2. Cut(v) = CutAt(Cut(u), ch)
    BY <2>1, CutFold
  <2> HIDE DEF v
  <2>3. ASSUME NoNewline(v) PROVE Cut(v).lines = <<>> /\ Cut(v).rest = v
    <3>1. NoNewline(u) /\ ch # "n"
      BY <2>1, <2>3 DEF NoNewline
    <3>2. Cut(u).lines = <<>> /\ Cut(u).rest = u
      BY <3>1
    <3> QED BY <2>2, <3>1, <3>2 DEF CutAt, v
  <2> QED BY <2>1, <2>3 DEF v
<1>3. T = Seq(Characters)
  <2>1. T \in SUBSET Seq(Characters)
    OBVIOUS
  <2> HIDE DEF T
  <2> QED BY <1>1, <1>2, <2>1, SeqInduction
<1> QED BY <1>3

(* A line and its newline, after a cut that left nothing over.             *)
LEMMA CutOneMore ==
  ASSUME NEW s \in Seq(Characters), Cut(s).rest = <<>>,
         NEW l \in Seq(Characters), NoNewline(l)
  PROVE  Cut(s \o Append(l, "n")) = [lines |-> Append(Cut(s).lines, l), rest |-> <<>>]
<1> DEFINE W == Cut(s).lines
           v == Append(l, "n")
<1>1. "n" \in Characters /\ v \in Seq(Characters)
  BY DEF Characters
<1>2. Cut(v) = CutAt(Cut(l), "n")
  BY <1>1, CutFold
<1>3. Cut(v).lines = <<l>> /\ Cut(v).rest = <<>>
  <2>1. Append(<<>>, l) = <<l>>
    OBVIOUS
  <2>2. Cut(l).lines = <<>> /\ Cut(l).rest = l
    BY CutOneLine
  <2> HIDE DEF v
  <2>3. Cut(v) = [lines |-> Append(<<>>, l), rest |-> <<>>]
    BY <1>2, <2>2 DEF CutAt
  <2> QED BY <2>1, <2>3
<1>4. Cut(s \o v) = [lines |-> W \o Cut(v).lines, rest |-> Cut(v).rest]
  BY <1>1, CutConcat
<1>5. W \o <<l>> = Append(W, l)
  <2>1. W \in Seq(Texts) /\ l \in Texts
    BY CutFold DEF Cuts, Texts
  <2> QED BY <2>1, AppendIsConcat
<1> HIDE DEF W, v
<1>6. Cut(s \o v) = [lines |-> Append(W, l), rest |-> <<>>]
  BY <1>3, <1>4, <1>5
<1> QED BY <1>6 DEF W, v

(* Whatever follows, the lines that were ended are the first of the text.  *)
LEMMA LinesConcat ==
  ASSUME NEW s \in Seq(Characters), Cut(s).rest = <<>>, NEW t \in Seq(Characters)
  PROVE  Lines(s \o t) = Cut(s).lines \o Lines(t) /\ Lines(t) \in Seq(Texts)
<1> DEFINE W == Cut(s).lines
           c == Cut(t)
           d == Cut(s \o t)
<1>1. W \in Seq(Texts) /\ c.lines \in Seq(Texts) /\ c.rest \in Texts
  BY CutFold DEF Cuts, Texts
<1>2. d.lines = W \o c.lines /\ d.rest = c.rest
  <2>1. d = [lines |-> W \o c.lines, rest |-> c.rest]
    BY CutConcat
  <2> HIDE DEF W, c, d
  <2> QED BY <2>1
<1>3. Lines(t) = IF c.rest = <<>> THEN c.lines ELSE Append(c.lines, c.rest)
  BY DEF Lines
<1>4. Lines(s \o t) = IF d.rest = <<>> THEN d.lines ELSE Append(d.lines, d.rest)
  BY DEF Lines
<1> HIDE DEF W, c, d
<1>5. W \o Append(c.lines, c.rest) = Append(W \o c.lines, c.rest)
  BY <1>1, AppendToConcat
<1>6. Append(c.lines, c.rest) \in Seq(Texts)
  BY <1>1
<1> QED BY <1>1, <1>2, <1>3, <1>4, <1>5, <1>6 DEF W

-----------------------------------------------------------------------------
(* Two halves of a sequence.                                               *)
LEMMA Halves ==
  ASSUME NEW S, NEW s \in Seq(S), NEW k \in 0 .. Len(s)
  PROVE  /\ SubSeq(s, 1, k) \in Seq(S) /\ SubSeq(s, k + 1, Len(s)) \in Seq(S)
         /\ s = SubSeq(s, 1, k) \o SubSeq(s, k + 1, Len(s))
<1>1. Len(s) \in Nat /\ 1 \in 1 .. Len(s) + 1 /\ k \in 1 - 1 .. Len(s) /\ Len(s) \in k .. Len(s)
  OBVIOUS
<1>2. SubSeq(s, 1, k) \o SubSeq(s, k + 1, Len(s)) = SubSeq(s, 1, Len(s))
  BY <1>1, ConcatAdjacentSubSeq
<1>3. SubSeq(s, 1, Len(s)) = s
  BY SubSeqFull
<1>4. SubSeq(s, 1, k) \in Seq(S) /\ SubSeq(s, k + 1, Len(s)) \in Seq(S)
  OBVIOUS
<1> QED BY <1>2, <1>3, <1>4

LEMMA HalvesOfConcat ==
  ASSUME NEW S, NEW s \in Seq(S), NEW t \in Seq(S)
  PROVE  /\ s \o t \in Seq(S) /\ Len(s) \in 0 .. Len(s \o t)
         /\ SubSeq(s \o t, 1, Len(s)) = s
         /\ SubSeq(s \o t, Len(s) + 1, Len(s \o t)) = t
<1> DEFINE u == s \o t
           m == Len(s)
           n == Len(t)
<1>1. /\ u \in Seq(S) /\ m \in Nat /\ n \in Nat /\ Len(u) = m + n
      /\ \A k \in 1 .. m : u[k] = s[k]
      /\ \A k \in 1 .. n : u[m + k] = t[k]
  OBVIOUS
<1> HIDE DEF u
<1>2. SubSeq(u, 1, m) = s
  <2>1. SubSeq(u, 1, m) \in Seq(S) /\ Len(SubSeq(u, 1, m)) = m
    BY <1>1
  <2>2. \A k \in 1 .. m : SubSeq(u, 1, m)[k] = s[k]
    BY <1>1
  <2> QED BY <2>1, <2>2, SeqEqual
<1>3. SubSeq(u, m + 1, m + n) = t
  <2>1. SubSeq(u, m + 1, m + n) \in Seq(S) /\ Len(SubSeq(u, m + 1, m + n)) = n
    BY <1>1
  <2>2. \A k \in 1 .. n : SubSeq(u, m + 1, m + n)[k] = t[k]
    BY <1>1
  <2> QED BY <2>1, <2>2, SeqEqual
<1> QED BY <1>1, <1>2, <1>3 DEF u

LEMMA FlushTypes == \A q \in BOOLEAN : Flush(q) \in Seq(Characters) /\ NoNewline(Flush(q))
<1>1. "?" \in Characters
  BY DEF Characters
<1>2. <<"?">> \in Seq(Characters) /\ <<>> \in Seq(Characters)
  BY <1>1
<1>3. NoNewline(<<"?">>) /\ NoNewline(<<>>)
  BY DEF NoNewline
<1> QED BY <1>2, <1>3 DEF Flush

(* The text of the whole body goes on where that of its first n bytes      *)
(* stops.                                                                  *)
LEMMA TextGoesOn ==
  ASSUME NEW b \in Seq(Bytes), NEW n \in 0 .. Len(b)
  PROVE  LET d == Decode(FALSE, SubSeq(b, 1, n))
         IN  /\ d \in Decoded
             /\ \E rest \in Seq(Characters) :
                  /\ Text(b) = d.text \o rest
                  /\ n = Len(b) => rest = Flush(d.partial)
<1> DEFINE one == SubSeq(b, 1, n)
           two == SubSeq(b, n + 1, Len(b))
           d == Decode(FALSE, one)
           e == Decode(d.partial, two)
           rest == e.text \o Flush(e.partial)
<1>1. one \in Seq(Bytes) /\ two \in Seq(Bytes) /\ b = one \o two
  BY Halves
<1> HIDE DEF one, two
<1>2. d \in Decoded /\ d.partial \in BOOLEAN /\ d.text \in Seq(Characters)
  BY <1>1, DecodeFold DEF Decoded
<1>3. e \in Decoded /\ e.partial \in BOOLEAN /\ e.text \in Seq(Characters)
  BY <1>1, <1>2, DecodeFold DEF Decoded
<1>4. Decode(FALSE, b) = [text |-> d.text \o e.text, partial |-> e.partial]
  BY <1>1, DecodeConcat DEF After
<1>5. Text(b) = (d.text \o e.text) \o Flush(e.partial)
  <2> DEFINE w == Decode(FALSE, b)
  <2>1. Text(b) = w.text \o Flush(w.partial)
    BY DEF Text
  <2>2. w = [text |-> d.text \o e.text, partial |-> e.partial]
    BY <1>4
  <2> HIDE DEF w, d, e
  <2>3. w.text = d.text \o e.text /\ w.partial = e.partial
    BY <2>2
  <2> QED BY <2>1, <2>3
<1>6. Flush(e.partial) \in Seq(Characters)
  BY <1>3, FlushTypes
<1>7. n = Len(b) => e.text = <<>> /\ e.partial = d.partial
  <2> SUFFICES ASSUME n = Len(b) PROVE e.text = <<>> /\ e.partial = d.partial
    OBVIOUS
  <2>1. two = <<>>
    BY SubSeqEmpty DEF two
  <2>2. Decode(d.partial, <<>>) = [text |-> <<>>, partial |-> d.partial]
    BY <1>2, DecodeFold DEF Undecoded
  <2>3. e = [text |-> <<>>, partial |-> d.partial]
    BY <2>1, <2>2
  <2> HIDE DEF d, e
  <2> QED BY <2>3
<1> HIDE DEF d, e
<1>8. Text(b) = d.text \o rest /\ rest \in Seq(Characters)
  <2> DEFINE x == d.text
             y == e.text
             z == Flush(e.partial)
  <2>1. x \in Seq(Characters) /\ y \in Seq(Characters) /\ z \in Seq(Characters)
    BY <1>2, <1>3, <1>6
  <2> HIDE DEF x, y, z
  <2>2. (x \o y) \o z = x \o (y \o z) /\ y \o z \in Seq(Characters)
    BY <2>1, ConcatAssociative
  <2> QED BY <1>5, <2>2 DEF x, y, z
<1>9. n = Len(b) => rest = Flush(d.partial)
  BY <1>6, <1>7, ConcatEmptySeq
<1> QED BY <1>2, <1>8, <1>9 DEF d, one

(* What was split off so far are the first lines of the body.              *)
LEMMA SeenLines ==
  ASSUME NEW b \in Seq(Bytes), NEW n \in 0 .. Len(b),
         NEW seen \in Seq(Characters), NEW buf \in Seq(Characters),
         Decode(FALSE, SubSeq(b, 1, n)).text = seen \o buf, Cut(seen).rest = <<>>
  PROVE  LET W == Cut(seen).lines
             L == Lines(Text(b))
         IN  /\ W \in Seq(Texts) /\ L \in Seq(Texts) /\ Len(W) <= Len(L)
             /\ SubSeq(L, 1, Len(W)) = W
<1> DEFINE d == Decode(FALSE, SubSeq(b, 1, n))
           W == Cut(seen).lines
<1>1. PICK rest \in Seq(Characters) : Text(b) = d.text \o rest
  BY TextGoesOn
<1> DEFINE more == buf \o rest
<1>2. more \in Seq(Characters) /\ Text(b) = seen \o more
  <2>1. (seen \o buf) \o rest = seen \o (buf \o rest) /\ buf \o rest \in Seq(Characters)
    BY ConcatAssociative
  <2> QED BY <1>1, <2>1
<1>3. Lines(Text(b)) = W \o Lines(more) /\ Lines(more) \in Seq(Texts)
  BY <1>2, LinesConcat
<1>4. W \in Seq(Texts)
  BY CutFold DEF Cuts, Texts
<1> HIDE DEF W
<1>5. /\ Lines(Text(b)) \in Seq(Texts) /\ Len(W) \in 0 .. Len(Lines(Text(b)))
      /\ SubSeq(Lines(Text(b)), 1, Len(W)) = W
  BY <1>3, <1>4, HalvesOfConcat
<1> QED BY <1>4, <1>5 DEF W

(* The end of the body: what is left is a line if it is anything.          *)
LEMMA LinesAtEnd ==
  ASSUME NEW b \in Seq(Bytes), NEW seen \in Seq(Characters), NEW buf \in Seq(Characters),
         Decode(FALSE, SubSeq(b, 1, Len(b))).text = seen \o buf, Cut(seen).rest = <<>>,
         NoNewline(buf)
  PROVE  LET W == Cut(seen).lines
             rest == buf \o Flush(Decode(FALSE, SubSeq(b, 1, Len(b))).partial)
         IN  /\ rest \in Seq(Characters)
             /\ Lines(Text(b)) = IF rest = <<>> THEN W ELSE Append(W, rest)
<1> DEFINE d == Decode(FALSE, SubSeq(b, 1, Len(b)))
           W == Cut(seen).lines
           f == Flush(d.partial)
           rest == buf \o f
<1>1. d \in Decoded /\ Text(b) = d.text \o f
  <2>1. Len(b) \in 0 .. Len(b)
    OBVIOUS
  <2> QED BY <2>1, TextGoesOn
<1>2. f \in Seq(Characters) /\ NoNewline(f)
  BY <1>1, FlushTypes DEF Decoded
<1>3. W \in Seq(Texts)
  BY CutFold DEF Cuts, Texts
<1> HIDE DEF f
<1>4. rest \in Seq(Characters) /\ Text(b) = seen \o rest
  <2>1. (seen \o buf) \o f = seen \o (buf \o f) /\ buf \o f \in Seq(Characters)
    BY <1>2, ConcatAssociative
  <2> QED BY <1>1, <2>1
<1>5. NoNewline(rest)
  BY <1>2 DEF NoNewline
<1> HIDE DEF rest
<1>6. Cut(rest).lines = <<>> /\ Cut(rest).rest = rest
  BY <1>4, <1>5, CutOneLine
<1>7. Lines(rest) = IF rest = <<>> THEN <<>> ELSE <<rest>>
  <2>1. Append(<<>>, rest) = <<rest>>
    OBVIOUS
  <2> QED BY <1>6, <2>1 DEF Lines
<1>8. Lines(Text(b)) = W \o Lines(rest)
  BY <1>4, LinesConcat
<1>9. W \o <<>> = W /\ W \o <<rest>> = Append(W, rest)
  <2>1. rest \in Texts
    BY <1>4 DEF Texts
  <2> QED BY <1>3, <2>1, ConcatEmptySeq, AppendIsConcat
<1> HIDE DEF W
<1>10. Lines(Text(b)) = IF rest = <<>> THEN W ELSE Append(W, rest)
  BY <1>7, <1>8, <1>9
<1> QED BY <1>4, <1>10 DEF W, rest, f

-----------------------------------------------------------------------------
(* Where a stream is without an error: seen is the text that was split off *)
(* of the first n bytes of b.                                              *)
Streams(b, n, p, buf, ln, o, seen) ==
  LET d == Decode(FALSE, SubSeq(b, 1, n))
  IN  /\ seen \in Seq(Characters) /\ p = d.partial /\ d.text = seen \o buf
      /\ Cut(seen).rest = <<>> /\ ln = Len(Cut(seen).lines) /\ o = NonBlank(Cut(seen).lines)

(* The same as SplitSoFar has it.                                          *)
StreamsAt(b, n, p, buf, ln, o) ==
  LET d == Decode(FALSE, SubSeq(b, 1, n))
  IN  /\ p = d.partial
      /\ \E k \in 0 .. Len(d.text) :
           LET seen == Cut(SubSeq(d.text, 1, k))
           IN  /\ buf = SubSeq(d.text, k + 1, Len(d.text))
               /\ seen.rest = <<>> /\ ln = Len(seen.lines) /\ o = NonBlank(seen.lines)

LEMMA TwoForms ==
  ASSUME NEW b \in Seq(Bytes), NEW n \in 0 .. Len(b),
         NEW p, NEW buf \in Seq(Characters), NEW ln, NEW o
  PROVE  StreamsAt(b, n, p, buf, ln, o) <=> \E seen : Streams(b, n, p, buf, ln, o, seen)
<1> DEFINE d == Decode(FALSE, SubSeq(b, 1, n))
<1>1. d.text \in Seq(Characters)
  BY TextGoesOn DEF Decoded
<1>2. ASSUME StreamsAt(b, n, p, buf, ln, o) PROVE \E seen : Streams(b, n, p, buf, ln, o, seen)
  <2>1. PICK k \in 0 .. Len(d.text) :
          LET seen == Cut(SubSeq(d.text, 1, k))
          IN  /\ buf = SubSeq(d.text, k + 1, Len(d.text))
              /\ seen.rest = <<>> /\ ln = Len(seen.lines) /\ o = NonBlank(seen.lines)
    BY <1>2 DEF StreamsAt
  <2>2. p = d.partial
    BY <1>2 DEF StreamsAt
  <2>3. SubSeq(d.text, 1, k) \in Seq(Characters) /\ d.text = SubSeq(d.text, 1, k) \o buf
    BY <1>1, <2>1, Halves
  <2>4. Streams(b, n, p, buf, ln, o, SubSeq(d.text, 1, k))
    BY <2>1, <2>2, <2>3 DEF Streams
  <2> QED BY <2>4
<1>3. ASSUME NEW seen, Streams(b, n, p, buf, ln, o, seen) PROVE StreamsAt(b, n, p, buf, ln, o)
  <2>1. /\ seen \in Seq(Characters) /\ p = d.partial /\ d.text = seen \o buf
        /\ Cut(seen).rest = <<>> /\ ln = Len(Cut(seen).lines) /\ o = NonBlank(Cut(seen).lines)
    BY <1>3 DEF Streams
  <2> HIDE DEF d
  <2>2. /\ Len(seen) \in 0 .. Len(d.text) /\ SubSeq(d.text, 1, Len(seen)) = seen
        /\ SubSeq(d.text, Len(seen) + 1, Len(d.text)) = buf
    <3>1. seen \in Seq(Characters)
      BY <2>1
    <3>2. /\ Len(seen) \in 0 .. Len(seen \o buf) /\ SubSeq(seen \o buf, 1, Len(seen)) = seen
          /\ SubSeq(seen \o buf, Len(seen) + 1, Len(seen \o buf)) = buf
      BY <3>1, HalvesOfConcat
    <3> QED BY <2>1, <3>2
  <2>3. \E k \in 0 .. Len(d.text) :
          LET c == Cut(SubSeq(d.text, 1, k))
          IN  /\ buf = SubSeq(d.text, k + 1, Len(d.text))
              /\ c.rest = <<>> /\ ln = Len(c.lines) /\ o = NonBlank(c.lines)
    BY <2>1, <2>2
  <2> QED BY <2>1, <2>3 DEF StreamsAt, d
<1> QED BY <1>2, <1>3

(* Without an error the lines so far are the first of the body, and the    *)
(* consumer got those that are not blank.                                  *)
GoesRight(b, ln, o) ==
  LET L == Lines(Text(b))
  IN  ln <= Len(L) /\ o = NonBlank(SubSeq(L, 1, ln))

LEMMA StreamsRight ==
  ASSUME NEW b \in Seq(Bytes), NEW n \in 0 .. Len(b),
         NEW p, NEW buf \in Seq(Characters), NEW ln, NEW o, NEW seen,
         Streams(b, n, p, buf, ln, o, seen)
  PROVE  GoesRight(b, ln, o) /\ ln \in Nat /\ o \in Seq(Texts)
<1> DEFINE W == Cut(seen).lines
           L == Lines(Text(b))
<1>1. /\ seen \in Seq(Characters) /\ Decode(FALSE, SubSeq(b, 1, n)).text = seen \o buf
      /\ Cut(seen).rest = <<>> /\ ln = Len(W) /\ o = NonBlank(W)
  BY DEF Streams
<1>2. W \in Seq(Texts) /\ L \in Seq(Texts) /\ Len(W) <= Len(L) /\ SubSeq(L, 1, Len(W)) = W
  BY <1>1, SeenLines
<1> HIDE DEF W, L
<1>3. NonBlank(W) \in Seq(Texts)
  BY <1>2, NonBlankFold DEF Kept
<1>4. Len(W) \in Nat
  BY <1>2
<1>5. ln <= Len(L) /\ o = NonBlank(SubSeq(L, 1, ln))
  BY <1>1, <1>2
<1> QED BY <1>1, <1>3, <1>4, <1>5 DEF GoesRight, L

(* A chunk of m bytes is decoded into the buffer.                          *)
LEMMA StreamsOn ==
  ASSUME NEW b \in Seq(Bytes), NEW n \in Nat, NEW m \in Nat, n + m <= Len(b),
         NEW p, NEW buf \in Seq(Characters), NEW ln, NEW o, NEW seen,
         Streams(b, n, p, buf, ln, o, seen)
  PROVE  LET e == Decode(p, SubSeq(b, n + 1, n + m))
         IN  /\ e \in Decoded
             /\ Streams(b, n + m, e.partial, buf \o e.text, ln, o, seen)
<1> DEFINE one == SubSeq(b, 1, n)
           two == SubSeq(b, n + 1, n + m)
           d == Decode(FALSE, one)
           e == Decode(p, two)
<1>1. Len(b) \in Nat /\ n \in 0 .. Len(b)
  OBVIOUS
<1>2. one \in Seq(Bytes) /\ two \in Seq(Bytes)
  BY <1>1
<1>3. SubSeq(b, 1, n + m) = one \o two
  <2>1. 1 \in 1 .. Len(b) + 1 /\ n \in 1 - 1 .. Len(b) /\ n + m \in n .. Len(b)
    BY <1>1
  <2> QED BY <2>1, ConcatAdjacentSubSeq
<1> HIDE DEF one, two
<1>4. d \in Decoded /\ d.partial \in BOOLEAN /\ p = d.partial
  BY <1>2, DecodeFold DEF Decoded, Streams, one
<1>5. e \in Decoded /\ e.text \in Seq(Characters)
  BY <1>2, <1>4, DecodeFold DEF Decoded
<1>6. Decode(FALSE, SubSeq(b, 1, n + m)) = [text |-> d.text \o e.text, partial |-> e.partial]
  BY <1>2, <1>3, <1>4, DecodeConcat DEF After
<1>7. seen \in Seq(Characters) /\ d.text = seen \o buf
  BY DEF Streams, one
<1> HIDE DEF d, e
<1>8. d.text \o e.text = seen \o (buf \o e.text)
  <2> DEFINE x == e.text
  <2>1. x \in Seq(Characters)
    BY <1>5
  <2> HIDE DEF x
  <2>2. (seen \o buf) \o x = seen \o (buf \o x)
    <3>1. seen \in Seq(Characters)
      BY <1>7
    <3> QED BY <2>1, <3>1, ConcatAssociative
  <2> QED BY <1>7, <2>2 DEF x
<1>9. Cut(seen).rest = <<>> /\ ln = Len(Cut(seen).lines) /\ o = NonBlank(Cut(seen).lines)
  BY DEF Streams
<1> DEFINE w == Decode(FALSE, SubSeq(b, 1, n + m))
<1>10. w = [text |-> d.text \o e.text, partial |-> e.partial]
  BY <1>6
<1>11. w.text = seen \o (buf \o e.text) /\ w.partial = e.partial
  <2> HIDE DEF w
  <2>1. w.text = d.text \o e.text /\ w.partial = e.partial
    BY <1>10
  <2> QED BY <1>8, <2>1
<1>12. Streams(b, n + m, e.partial, buf \o e.text, ln, o, seen)
  BY <1>7, <1>9, <1>11 DEF Streams
<1> QED BY <1>5, <1>12 DEF e, two

(* A line is split off the buffer.                                         *)
LEMMA StreamsLine ==
  ASSUME NEW b \in Seq(Bytes), NEW n \in 0 .. Len(b),
         NEW p, NEW l \in Seq(Characters), NEW rest \in Seq(Characters), NEW ln, NEW o, NEW seen,
         Streams(b, n, p, Append(l, "n") \o rest, ln, o, seen), NoNewline(l)
  PROVE  Streams(b, n, p, rest, ln + 1, Keep(o, l), seen \o Append(l, "n"))
<1> DEFINE v == Append(l, "n")
           W == Cut(seen).lines
           t == Decode(FALSE, SubSeq(b, 1, n)).text
<1>1. v \in Seq(Characters)
  <2>1. "n" \in Characters
    BY DEF Characters
  <2> QED BY <2>1
<1>2. /\ seen \in Seq(Characters) /\ p = Decode(FALSE, SubSeq(b, 1, n)).partial
      /\ t = seen \o (v \o rest) /\ Cut(seen).rest = <<>> /\ ln = Len(W) /\ o = NonBlank(W)
  BY DEF Streams
<1>3. Cut(seen \o v) = [lines |-> Append(W, l), rest |-> <<>>]
  BY <1>2, CutOneMore
<1>4. W \in Seq(Texts) /\ l \in Texts
  BY <1>2, CutFold DEF Cuts, Texts
<1> HIDE DEF v, W, t
<1>5. seen \o v \in Seq(Characters) /\ (seen \o v) \o rest = seen \o (v \o rest)
  <2>1. seen \in Seq(Characters)
    BY <1>2
  <2> QED BY <1>1, <2>1, ConcatAssociative
<1>6. Len(Append(W, l)) = Len(W) + 1
  BY <1>4
<1>7. NonBlank(Append(W, l)) = Keep(NonBlank(W), l)
  BY <1>4, NonBlankFold DEF Kept
<1>8. Cut(seen \o v).rest = <<>> /\ Cut(seen \o v).lines = Append(W, l)
  BY <1>3
<1>9. Streams(b, n, p, rest, ln + 1, Keep(o, l), seen \o v)
  BY <1>2, <1>5, <1>6, <1>7, <1>8 DEF Streams, t
<1> QED BY <1>9 DEF v

(* The line that was split off is the next of the body.                    *)
LEMMA NextLine ==
  ASSUME NEW b \in Seq(Bytes), NEW n \in 0 .. Len(b),
         NEW p, NEW l \in Seq(Characters), NEW rest \in Seq(Characters), NEW ln, NEW o, NEW seen,
         Streams(b, n, p, Append(l, "n") \o rest, ln, o, seen), NoNewline(l)
  PROVE  ln + 1 <= Len(Lines(Text(b))) /\ Lines(Text(b))[ln + 1] = l
<1> DEFINE W == Cut(seen).lines
           next == seen \o Append(l, "n")
           V == Cut(next).lines
           L == Lines(Text(b))
<1>1. Streams(b, n, p, rest, ln + 1, Keep(o, l), next) /\ V = Append(W, l)
  <2>1. Streams(b, n, p, rest, ln + 1, Keep(o, l), seen \o Append(l, "n"))
    BY StreamsLine
  <2>2. seen \in Seq(Characters) /\ Cut(seen).rest = <<>>
    BY DEF Streams
  <2>3. Cut(next) = [lines |-> Append(W, l), rest |-> <<>>]
    BY <2>2, CutOneMore
  <2>4. V = Append(W, l)
    <3> HIDE DEF W, next
    <3> QED BY <2>3
  <2> QED BY <2>1, <2>4
<1>2. W \in Seq(Texts) /\ l \in Texts /\ ln = Len(W)
  BY CutFold DEF Streams, Cuts, Texts
<1>3. /\ next \in Seq(Characters) /\ Decode(FALSE, SubSeq(b, 1, n)).text = next \o rest
      /\ Cut(next).rest = <<>>
  <2> HIDE DEF next
  <2> QED BY <1>1 DEF Streams
<1>4. L \in Seq(Texts) /\ Len(V) <= Len(L) /\ SubSeq(L, 1, Len(V)) = V
  <2> HIDE DEF next
  <2> QED BY <1>3, SeenLines
<1> HIDE DEF W, V, L, next
<1>5. Len(V) = ln + 1 /\ V[ln + 1] = l /\ ln \in Nat
  BY <1>1, <1>2
<1>6. SubSeq(L, 1, ln + 1)[ln + 1] = L[ln + 1]
  BY <1>4, <1>5
<1> QED BY <1>4, <1>5, <1>6 DEF L

LEMMA EndOfBody ==
  ASSUME NEW b \in Seq(Bytes),
         NEW p, NEW buf \in Seq(Characters), NEW ln, NEW o, NEW seen,
         Streams(b, Len(b), p, buf, ln, o, seen), NoNewline(buf)
  PROVE  LET rest == buf \o Flush(p)
             L == Lines(Text(b))
         IN  /\ rest \in Texts
             /\ rest = <<>> => ln = Len(L)
             /\ rest # <<>> => Len(L) = ln + 1 /\ L[ln + 1] = rest /\ GoesRight(b, ln + 1, Append(o, rest))
<1> DEFINE W == Cut(seen).lines
           rest == buf \o Flush(p)
           L == Lines(Text(b))
<1>1. /\ seen \in Seq(Characters) /\ p = Decode(FALSE, SubSeq(b, 1, Len(b))).partial
      /\ Decode(FALSE, SubSeq(b, 1, Len(b))).text = seen \o buf
      /\ Cut(seen).rest = <<>> /\ ln = Len(W) /\ o = NonBlank(W)
  BY DEF Streams
<1>2. rest \in Seq(Characters) /\ L = IF rest = <<>> THEN W ELSE Append(W, rest)
  BY <1>1, LinesAtEnd
<1>3. W \in Seq(Texts)
  BY <1>1, CutFold DEF Cuts, Texts
<1> HIDE DEF W, rest
<1>4. rest \in Texts
  BY <1>2 DEF Texts
<1>5. ASSUME rest # <<>>
      PROVE  Len(L) = ln + 1 /\ L[ln + 1] = rest /\ GoesRight(b, ln + 1, Append(o, rest))
  <2>1. L = Append(W, rest)
    BY <1>2, <1>5
  <2> HIDE DEF L
  <2>2. L \in Seq(Texts) /\ Len(L) = ln + 1 /\ L[ln + 1] = rest
    BY <1>1, <1>3, <1>4, <2>1
  <2>3. NonBlank(L) = Append(o, rest)
    BY <1>1, <1>3, <1>4, <1>5, <2>1, NonBlankFold DEF Keep, Kept
  <2>4. SubSeq(L, 1, Len(L)) = L
    BY <2>2, SubSeqFull
  <2>5. ln + 1 <= Len(L) /\ Append(o, rest) = NonBlank(SubSeq(L, 1, ln + 1))
    <3>1. Len(L) <= Len(L)
      BY <2>2
    <3> QED BY <2>2, <2>3, <2>4, <3>1
  <2> QED BY <2>2, <2>5 DEF GoesRight, L
<1> HIDE DEF L
<1>6. rest = <<>> => ln = Len(L)
  BY <1>1, <1>2
<1> QED BY <1>4, <1>5, <1>6 DEF rest, L

LEMMA LeastOf ==
  ASSUME NEW T \in SUBSET Nat, T # {}
  PROVE  \E x \in T : \A y \in T : x <= y
<1> DEFINE N == {n \in Nat : \A x \in T : n <= x}
<1> SUFFICES ASSUME \A x \in T : \E y \in T : ~(x <= y) PROVE FALSE
  OBVIOUS
<1>1. 0 \in N
  OBVIOUS
<1>2. ASSUME NEW n \in N PROVE n + 1 \in N
  <2>1. n \in Nat /\ \A x \in T : n <= x
    OBVIOUS
  <2>2. n \notin T
    BY <2>1
  <2>3. \A x \in T : x \in Nat /\ x # n /\ n <= x
    BY <2>1, <2>2
  <2>4. \A x \in T : n + 1 <= x
    BY <2>1, <2>3
  <2> QED BY <2>1, <2>4
<1>3. N = Nat
  <2>1. N \in SUBSET Nat
    OBVIOUS
  <2> HIDE DEF N
  <2> QED BY <1>1, <1>2, <2>1, Induction
<1>4. PICK x \in T : TRUE
  OBVIOUS
<1>5. x + 1 \in N
  BY <1>3
<1> QED BY <1>4, <1>5

(* The newline that is looked for is the first one.                        *)
LEMMA FirstNewline ==
  ASSUME buffered \in Seq(Characters)
  PROVE  /\ Newline = 0 => NoNewline(buffered)
         /\ Newline # 0 =>
              LET l == SubSeq(buffered, 1, Newline - 1)
                  rest == SubSeq(buffered, Newline + 1, Len(buffered))
              IN  /\ l \in Seq(Characters) /\ rest \in Seq(Characters) /\ NoNewline(l)
                  /\ buffered = Append(l, "n") \o rest
<1> DEFINE I == {i \in 1 .. Len(buffered) : buffered[i] = "n"}
           n == Newline
<1>1. n = IF I # {} THEN Min(I) ELSE 0
  BY DEF Newline, SelectInSeq
<1>2. Len(buffered) \in Nat /\ DOMAIN buffered = 1 .. Len(buffered)
  OBVIOUS
<1>3. CASE I = {}
  BY <1>1, <1>2, <1>3 DEF NoNewline
<1>4. CASE I # {}
  <2>1. I \in SUBSET Nat
    BY <1>2
  <2>2. Min(I) \in I /\ \A i \in I : Min(I) <= i
    <3> HIDE DEF I
    <3>1. \E x \in I : \A y \in I : x <= y
      BY <1>4, <2>1, LeastOf
    <3> QED BY <3>1 DEF Min
  <2>3. n \in 1 .. Len(buffered) /\ buffered[n] = "n" /\ \A i \in I : n <= i
    BY <1>1, <1>4, <2>2
  <2> HIDE DEF n
  <2> DEFINE l == SubSeq(buffered, 1, n - 1)
             rest == SubSeq(buffered, n + 1, Len(buffered))
             v == SubSeq(buffered, 1, n)
  <2>4. l \in Seq(Characters) /\ Len(l) = n - 1 /\ \A k \in 1 .. n - 1 : l[k] = buffered[k]
    BY <1>2, <2>3
  <2>5. NoNewline(l)
    <3>1. \A k \in 1 .. n - 1 : k \in 1 .. Len(buffered) /\ ~(n <= k)
      BY <1>2, <2>3
    <3>2. \A k \in 1 .. n - 1 : buffered[k] # "n"
      BY <2>3, <3>1
    <3>3. DOMAIN l = 1 .. n - 1
      BY <2>4
    <3> HIDE DEF l
    <3> QED BY <2>4, <3>2, <3>3 DEF NoNewline
  <2>6. v \in Seq(Characters) /\ rest \in Seq(Characters) /\ buffered = v \o rest
    <3>1. n \in 0 .. Len(buffered)
      BY <1>2, <2>3
    <3> QED BY <3>1, Halves
  <2>7. v = Append(l, "n")
    <3>1. 1 \in 1 .. Len(buffered) /\ n \in 1 .. Len(buffered)
      BY <1>2, <2>3
    <3>2. v = l \o <<buffered[n]>>
      BY <3>1, SubSeqRecursiveSecond
    <3>3. "n" \in Characters
      BY DEF Characters
    <3> HIDE DEF l, v
    <3> QED BY <2>3, <2>4, <3>2, <3>3, AppendIsConcat
  <2>8. n # 0
    BY <2>3
  <2> HIDE DEF l, rest, v
  <2>9. buffered = Append(l, "n") \o rest
    BY <2>6, <2>7
  <2> QED BY <2>4, <2>5, <2>6, <2>8, <2>9 DEF l, rest, n
<1> QED BY <1>3, <1>4

-----------------------------------------------------------------------------
(* The byte counters.                                                      *)

(* The client may send any sequence of bytes up to the bound.              *)
LEMMA BodiesAreSequences == BoundedSeq(Bytes, MaxLen) \subseteq Seq(Bytes)
<1> SUFFICES ASSUME NEW b \in BoundedSeq(Bytes, MaxLen) PROVE b \in Seq(Bytes)
  OBVIOUS
<1>1. PICK m \in 0 .. MaxLen : b \in [1 .. m -> Bytes]
  BY DEF BoundedSeq, SeqOf
<1> QED BY <1>1, NdjsonAssumption

LEMMA BytesKeptInit == Init => BytesKept
<1> SUFFICES ASSUME Init PROVE BytesKept
  OBVIOUS
<1>1. body \in Seq(Bytes) /\ maxBytes \in Nat
  BY BodiesAreSequences, NdjsonAssumption DEF Init
<1>2. 0 \in 0 .. Len(body)
  BY <1>1
<1> QED BY <1>1, <1>2 DEF Init, BytesKept

(* A line taken while nothing is wrong goes on as asked, or raises the     *)
(* error with what was pulled so far.                                      *)
LEMMA TakenLine ==
  ASSUME NEW l, NEW next, Take(l, next)
  PROVE  \/ pc' = next /\ NoError
         \/ Fail("invalid", pulled)
BY DEF Take

LEMMA BytesKeptNext == BytesKept /\ [Next]_vars => BytesKept'
<1> SUFFICES ASSUME BytesKept, [Next]_vars PROVE BytesKept'
  OBVIOUS
<1> USE DEF BytesKept
<1>1. CASE UNCHANGED vars
  BY <1>1 DEF vars
<1>2. ASSUME NEW n \in 1 .. MaxChunk, Pull(n) PROVE BytesKept'
  <2>1. /\ pc = "pull" /\ pulled' = pulled + n /\ pulled + n <= Len(body)
        /\ UNCHANGED <<body, maxBytes, drained>>
    BY <1>2 DEF Pull
  <2>2. n \in Nat /\ Len(body) \in Nat /\ pulled' \in 0 .. Len(body)
    BY <2>1, NdjsonAssumption
  <2>3. CASE pulled + n > maxBytes
    <3>1. pc' = "drain" /\ error' = "large" /\ failedAt' = pulled + n
      BY <1>2, <2>3 DEF Pull, Fail
    <3> QED BY <2>1, <2>2, <2>3, <3>1
  <2>4. CASE ~(pulled + n > maxBytes)
    <3>1. pc' = "split" /\ UNCHANGED <<error, failedAt>>
      BY <1>2, <2>4 DEF Pull, NoError
    <3> QED BY <2>1, <2>2, <2>4, <3>1
  <2> QED BY <2>3, <2>4
<1>3. ASSUME NEW n \in 1 .. MaxChunk, Discard(n) PROVE BytesKept'
  <2>1. n \in Nat /\ Len(body) \in Nat
    BY NdjsonAssumption
  <2> QED BY <1>3, <2>1 DEF Discard
<1>4. CASE Split
  <2>1. pc = "split" /\ UNCHANGED <<body, maxBytes, pulled, drained>>
    BY <1>4 DEF Split
  <2>2. \/ pc' \in {"pull", "split"} /\ UNCHANGED <<error, failedAt>>
        \/ pc' = "drain" /\ error' = "invalid" /\ failedAt' = pulled
    BY <1>4, TakenLine DEF Split, NoError, Fail
  <2> QED BY <2>1, <2>2
<1>5. CASE End
  <2>1. pc = "pull" /\ pulled = Len(body) /\ UNCHANGED <<body, maxBytes, pulled, drained>>
    BY <1>5 DEF End
  <2>2. \/ pc' = "done" /\ UNCHANGED <<error, failedAt>>
        \/ pc' = "drain" /\ error' = "invalid" /\ failedAt' = pulled
    BY <1>5, TakenLine DEF End, NoError, Fail
  <2> QED BY <2>1, <2>2
<1>6. CASE SourceFails
  BY <1>6 DEF SourceFails, Fail, NoError
<1>7. CASE ConsumerThrows
  BY <1>7 DEF ConsumerThrows
<1>8. CASE Discarded
  BY <1>8 DEF Discarded
<1> QED BY <1>1, <1>2, <1>3, <1>4, <1>5, <1>6, <1>7, <1>8 DEF Next

(* The byte counters of readNdjson agree in every state.                   *)
THEOREM BytesAreKept == Spec => []BytesKept
BY BytesKeptInit, BytesKeptNext, PTL DEF Spec

(* A body is read to its end without an error only within the limit, and   *)
(* is refused as too large only past it, however it was cut into chunks    *)
(* (ndjson-stream.ts:17-19).                                               *)
THEOREM LimitHolds == Spec => []LimitIsExact
<1>1. BytesKept => LimitIsExact
  BY DEF BytesKept, LimitIsExact
<1> QED BY <1>1, BytesAreKept, PTL

(* After an error the client is read on only within the budget, and what   *)
(* was read before it was within the limit but for the last chunk          *)
(* (ndjson-stream.ts:64-69).                                               *)
THEOREM DrainStaysBounded == Spec => DrainIsBounded
<1>1. BytesKept /\ [Next]_vars =>
        [pulled' # pulled =>
           pulled - (IF pc = "drain" THEN failedAt ELSE 0) <= maxBytes]_vars
  <2> SUFFICES ASSUME BytesKept, Next, pulled' # pulled
               PROVE  pulled - (IF pc = "drain" THEN failedAt ELSE 0) <= maxBytes
    OBVIOUS
  <2>1. PICK n \in 1 .. MaxChunk : Pull(n) \/ Discard(n)
    BY DEF Next, Split, End, SourceFails, ConsumerThrows, Discarded
  <2>2. CASE Pull(n)
    BY <2>2 DEF Pull, BytesKept
  <2>3. CASE Discard(n)
    BY <2>3 DEF Discard, BytesKept
  <2> QED BY <2>1, <2>2, <2>3
<1> QED BY <1>1, BytesAreKept, PTL DEF Spec, DrainIsBounded
-----------------------------------------------------------------------------
(* Chunking.                                                               *)

LEMMA SoFarForm ==
  ASSUME TypeOK
  PROVE  SplitSoFar <=>
           (pc \in {"pull", "split"} =>
              /\ \E seen : Streams(body, pulled, partial, buffered, line, out, seen)
              /\ pc = "pull" => NoNewline(buffered))
<1>1. body \in Seq(Bytes) /\ pulled \in 0 .. Len(body) /\ buffered \in Seq(Characters)
  BY DEF TypeOK
<1>2. SplitSoFar <=>
        (pc \in {"pull", "split"} =>
           /\ StreamsAt(body, pulled, partial, buffered, line, out)
           /\ pc = "pull" => NoNewline(buffered))
  BY DEF SplitSoFar, StreamsAt, NoNewline
<1> QED BY <1>1, <1>2, TwoForms

(* While nothing is wrong, the two other parts of the invariant follow from*)
(* where the stream is.                                                    *)
LEMMA StreamsSuffices ==
  ASSUME body' \in Seq(Bytes), pulled' \in 0 .. Len(body'), buffered' \in Seq(Characters),
         NEW seen, Streams(body', pulled', partial', buffered', line', out', seen),
         error' = "none", pc' \in {"pull", "split"}, pc' = "pull" => NoNewline(buffered')
  PROVE  SplitSoFar' /\ ChunkingIsInvisible' /\ line' \in Nat /\ out' \in Seq(Texts)
<1>1. StreamsAt(body', pulled', partial', buffered', line', out')
  BY TwoForms
<1>2. SplitSoFar'
  BY <1>1 DEF SplitSoFar, StreamsAt, NoNewline
<1>3. GoesRight(body', line', out') /\ line' \in Nat /\ out' \in Seq(Texts)
  BY StreamsRight
<1>4. line' <= Len(Lines(Text(body'))) /\ out' = NonBlank(SubSeq(Lines(Text(body')), 1, line'))
  BY <1>3 DEF GoesRight
<1>5. ChunkingIsInvisible'
  BY <1>4 DEF ChunkingIsInvisible, Payloads
<1> QED BY <1>2, <1>3, <1>5

(* An error, but for a refused line, disturbs nothing.                     *)
LEMMA OverSuffices ==
  ASSUME ChunkingIsInvisible, UNCHANGED <<body, line, out>>,
         pc' \notin {"pull", "split", "done"}, error = "invalid" <=> error' = "invalid"
  PROVE  SplitSoFar' /\ ChunkingIsInvisible'
<1>1. SplitSoFar'
  BY DEF SplitSoFar
<1>2. \A n : Payloads(n)' = Payloads(n)
  BY DEF Payloads
<1>3. Lines(Text(body')) = Lines(Text(body))
  OBVIOUS
<1> QED BY <1>1, <1>2, <1>3 DEF ChunkingIsInvisible, Payloads

LEMMA ChunksInit == Init => ChunksInv
<1> SUFFICES ASSUME Init PROVE ChunksInv
  OBVIOUS
<1>1. body \in Seq(Bytes) /\ Len(body) \in Nat
  BY BodiesAreSequences DEF Init
<1>2. <<>> \in Seq(Characters) /\ <<>> \in Seq(Texts) /\ <<>> \in Seq(Bytes)
  OBVIOUS
<1>3. TypeOK
  <2>1. /\ maxBytes \in Limits /\ pulled = 0 /\ partial = FALSE /\ buffered = <<>>
        /\ line = 0 /\ out = <<>> /\ pc = "pull" /\ error = "none" /\ drained = 0 /\ failedAt = 0
    BY DEF Init
  <2>2. buffered \in Seq(Characters) /\ out \in Seq(Seq(Characters))
    BY <1>2, <2>1 DEF Texts
  <2>3. pulled \in 0 .. Len(body)
    BY <1>1, <2>1
  <2> QED BY <1>1, <2>1, <2>2, <2>3 DEF TypeOK
<1>4. Streams(body, 0, FALSE, <<>>, 0, <<>>, <<>>)
  <2>1. SubSeq(body, 1, 0) = <<>>
    BY SubSeqEmpty
  <2>2. Decode(FALSE, <<>>) = [text |-> <<>>, partial |-> FALSE]
    BY DecodeFold DEF Undecoded
  <2>3. Cut(<<>>).lines = <<>> /\ Cut(<<>>).rest = <<>> /\ NonBlank(<<>>) = <<>>
    BY CutFold, NonBlankFold DEF Uncut
  <2>4. <<>> \o <<>> = <<>> /\ Len(<<>>) = 0
    BY <1>2, ConcatEmptySeq
  <2> DEFINE d == Decode(FALSE, SubSeq(body, 1, 0))
  <2>5. d.text = <<>> /\ d.partial = FALSE
    <3>1. d = [text |-> <<>>, partial |-> FALSE]
      BY <2>1, <2>2
    <3> HIDE DEF d
    <3> QED BY <3>1
  <2>6. d.text = <<>> \o <<>>
    BY <2>4, <2>5
  <2> QED BY <1>2, <2>3, <2>4, <2>5, <2>6 DEF Streams
<1>5. NoNewline(<<>>)
  BY DEF NoNewline
<1>6. SplitSoFar
  BY <1>3, <1>4, <1>5, SoFarForm DEF Init
<1>7. GoesRight(body, 0, <<>>)
  <2>1. 0 \in 0 .. Len(body)
    BY <1>1
  <2> QED BY <1>1, <1>2, <1>4, <2>1, StreamsRight
<1>8. ChunkingIsInvisible
  BY <1>7 DEF Init, ChunkingIsInvisible, Payloads, GoesRight
<1> QED BY <1>3, <1>6, <1>8 DEF ChunksInv

(* A line is taken: it is the next of the body, and refused only for what  *)
(* it is.                                                                  *)
LEMMA ChunksSplit == ChunksInv /\ Split => ChunksInv'
<1> SUFFICES ASSUME ChunksInv, Split PROVE ChunksInv'
  OBVIOUS
<1>1. /\ TypeOK /\ SplitSoFar /\ ChunkingIsInvisible
      /\ pc = "split" /\ UNCHANGED <<body, maxBytes, pulled, partial, drained>>
  BY DEF ChunksInv, Split
<1>2. /\ body \in Seq(Bytes) /\ pulled \in 0 .. Len(body) /\ buffered \in Seq(Characters)
      /\ error = "none" /\ line \in Nat /\ out \in Seq(Texts) /\ failedAt \in Nat /\ pulled \in Nat
  BY <1>1 DEF TypeOK, Texts
<1>3. PICK seen : Streams(body, pulled, partial, buffered, line, out, seen)
  BY <1>1, SoFarForm
<1>4. CASE Newline = 0
  <2>1. pc' = "pull" /\ UNCHANGED <<buffered, line, out, error, failedAt>>
    BY <1>4 DEF Split, NoError
  <2>2. NoNewline(buffered)
    BY <1>2, <1>4, FirstNewline
  <2>3. SplitSoFar' /\ ChunkingIsInvisible'
    BY <1>1, <1>2, <1>3, <2>1, <2>2, StreamsSuffices
  <2>4. TypeOK'
    BY <1>1, <1>2, <2>1 DEF TypeOK
  <2> QED BY <2>3, <2>4 DEF ChunksInv
<1>5. CASE Newline # 0
  <2> DEFINE l == SubSeq(buffered, 1, Newline - 1)
             rest == SubSeq(buffered, Newline + 1, Len(buffered))
             next == seen \o Append(l, "n")
  <2>1. /\ l \in Seq(Characters) /\ rest \in Seq(Characters) /\ NoNewline(l)
        /\ buffered = Append(l, "n") \o rest
    BY <1>2, <1>5, FirstNewline
  <2>2. Take(l, "split") /\ buffered' = rest
    BY <1>5 DEF Split
  <2> HIDE DEF l, rest
  <2>3. Streams(body, pulled, partial, Append(l, "n") \o rest, line, out, seen)
    BY <1>3, <2>1
  <2>4. Streams(body, pulled, partial, rest, line + 1, Keep(out, l), next)
    BY <1>2, <2>1, <2>3, StreamsLine
  <2>5. CASE l = <<>> \/ Valid(l)
    <3>1. line' = line + 1 /\ out' = Keep(out, l) /\ pc' = "split" /\ UNCHANGED <<error, failedAt>>
      BY <2>2, <2>5 DEF Take, NoError, Keep
    <3> HIDE DEF next
    <3>2. Streams(body', pulled', partial', buffered', line', out', next)
      BY <1>1, <2>2, <2>4, <3>1
    <3>3. body' \in Seq(Bytes) /\ pulled' \in 0 .. Len(body') /\ buffered' \in Seq(Characters)
      BY <1>1, <1>2, <2>1, <2>2
    <3>4. error' = "none" /\ pc' \in {"pull", "split"} /\ (pc' = "pull" => NoNewline(buffered'))
      BY <1>2, <3>1
    <3>5. SplitSoFar' /\ ChunkingIsInvisible' /\ out' \in Seq(Texts) /\ line' \in Nat
      BY <3>2, <3>3, <3>4, StreamsSuffices
    <3>6. TypeOK'
      BY <1>1, <1>2, <3>1, <3>3, <3>5 DEF TypeOK, Texts
    <3> QED BY <3>5, <3>6 DEF ChunksInv
  <2>6. CASE ~(l = <<>> \/ Valid(l))
    <3>1. /\ line' = line + 1 /\ out' = out /\ pc' = "drain" /\ error' = "invalid"
          /\ failedAt' = pulled
      BY <2>2, <2>6 DEF Take, Fail
    <3>2. line + 1 <= Len(Lines(Text(body))) /\ Lines(Text(body))[line + 1] = l
      BY <1>2, <2>1, <2>3, NextLine
    <3>3. out = NonBlank(SubSeq(Lines(Text(body)), 1, line))
      BY <1>2, <1>3, StreamsRight DEF GoesRight
    <3>4. ChunkingIsInvisible'
      <4>1. line' - 1 = line
        BY <1>2, <3>1
      <4> QED BY <1>1, <2>6, <3>1, <3>2, <3>3, <4>1 DEF ChunkingIsInvisible, Payloads
    <3>5. SplitSoFar'
      BY <3>1 DEF SplitSoFar
    <3>6. TypeOK'
      BY <1>1, <1>2, <2>1, <2>2, <3>1 DEF TypeOK
    <3> QED BY <3>4, <3>5, <3>6 DEF ChunksInv
  <2> QED BY <2>5, <2>6
<1> QED BY <1>4, <1>5

(* The end of the body: what was left in the buffer and in the decoder is  *)
(* the last line.                                                          *)
LEMMA ChunksEnd == ChunksInv /\ End => ChunksInv'
<1> SUFFICES ASSUME ChunksInv, End PROVE ChunksInv'
  OBVIOUS
<1> DEFINE rest == buffered \o Flush(partial)
           L == Lines(Text(body))
<1>1. /\ TypeOK /\ SplitSoFar /\ ChunkingIsInvisible /\ pc = "pull" /\ pulled = Len(body)
      /\ buffered' = <<>> /\ partial' = FALSE /\ UNCHANGED <<body, maxBytes, pulled, drained>>
      /\ IF rest = <<>> THEN pc' = "done" /\ NoError /\ UNCHANGED <<line, out>>
                        ELSE Take(rest, "done")
  BY DEF ChunksInv, End
<1>2. /\ body \in Seq(Bytes) /\ pulled \in 0 .. Len(body) /\ buffered \in Seq(Characters)
      /\ error = "none" /\ line \in Nat /\ out \in Seq(Texts) /\ failedAt \in Nat /\ pulled \in Nat
      /\ <<>> \in Seq(Characters)
  BY <1>1 DEF TypeOK, Texts
<1>3. PICK seen : Streams(body, pulled, partial, buffered, line, out, seen)
  BY <1>1, SoFarForm
<1>4. NoNewline(buffered)
  BY <1>1, SoFarForm
<1>5. Streams(body, Len(body), partial, buffered, line, out, seen)
  BY <1>1, <1>3
<1>6. /\ rest \in Texts
      /\ rest = <<>> => line = Len(L)
      /\ rest # <<>> => Len(L) = line + 1 /\ L[line + 1] = rest /\ GoesRight(body, line + 1, Append(out, rest))
  BY <1>2, <1>4, <1>5, EndOfBody
<1>7. GoesRight(body, line, out)
  BY <1>2, <1>3, StreamsRight
<1> HIDE DEF rest
<1>8. CASE rest = <<>>
  <2>1. pc' = "done" /\ UNCHANGED <<line, out, error, failedAt>>
    BY <1>1, <1>8 DEF NoError
  <2>2. ChunkingIsInvisible'
    BY <1>1, <1>2, <1>6, <1>7, <1>8, <2>1 DEF ChunkingIsInvisible, Payloads, GoesRight
  <2>3. SplitSoFar'
    BY <2>1 DEF SplitSoFar
  <2>4. TypeOK'
    <3>1. /\ maxBytes' \in Limits /\ partial' \in BOOLEAN /\ drained' \in Nat /\ pulled' \in 0 .. Len(body')
          /\ out' \in Seq(Texts) /\ line' \in Nat /\ failedAt' \in Nat
      BY <1>1, <1>2, <2>1 DEF TypeOK
    <3> QED BY <1>1, <1>2, <2>1, <3>1 DEF TypeOK, Texts
  <2> QED BY <2>2, <2>3, <2>4 DEF ChunksInv
<1>9. CASE rest # <<>> /\ Valid(rest)
  <2>1. line' = line + 1 /\ out' = Append(out, rest) /\ pc' = "done" /\ UNCHANGED <<error, failedAt>>
    BY <1>1, <1>9 DEF Take, NoError
  <2>2. ChunkingIsInvisible'
    BY <1>1, <1>2, <1>6, <1>9, <2>1 DEF ChunkingIsInvisible, Payloads, GoesRight
  <2>3. SplitSoFar'
    BY <2>1 DEF SplitSoFar
  <2>4. out' \in Seq(Texts) /\ line' \in Nat
    BY <1>2, <1>6, <2>1
  <2>5. TypeOK'
    BY <1>1, <1>2, <2>1, <2>4 DEF TypeOK, Texts
  <2> QED BY <2>2, <2>3, <2>5 DEF ChunksInv
<1>10. CASE rest # <<>> /\ ~Valid(rest)
  <2>1. /\ line' = line + 1 /\ out' = out /\ pc' = "drain" /\ error' = "invalid"
        /\ failedAt' = pulled
    BY <1>1, <1>10 DEF Take, Fail
  <2>2. ChunkingIsInvisible'
    <3>1. line' - 1 = line /\ line' <= Len(L)
      BY <1>2, <1>6, <1>10, <2>1
    <3>2. L[line'] = rest /\ out = NonBlank(SubSeq(L, 1, line))
      BY <1>6, <1>7, <1>10, <2>1 DEF GoesRight
    <3> QED BY <1>1, <1>10, <2>1, <3>1, <3>2 DEF ChunkingIsInvisible, Payloads
  <2>3. SplitSoFar'
    BY <2>1 DEF SplitSoFar
  <2>4. TypeOK'
    <3>1. /\ maxBytes' \in Limits /\ partial' \in BOOLEAN /\ drained' \in Nat /\ pulled' \in 0 .. Len(body')
          /\ out' \in Seq(Texts) /\ line' \in Nat /\ failedAt' \in Nat
      <4>1. maxBytes \in Limits /\ drained \in Nat
        BY <1>1 DEF TypeOK
      <4>2. line' \in Nat /\ failedAt' \in Nat /\ out' \in Seq(Texts)
        BY <1>2, <2>1
      <4>3. pulled' \in 0 .. Len(body')
        BY <1>1, <1>2
      <4>4. maxBytes' \in Limits /\ partial' \in BOOLEAN /\ drained' \in Nat
        BY <1>1, <4>1
      <4> QED BY <4>2, <4>3, <4>4
    <3> QED BY <1>1, <1>2, <2>1, <3>1 DEF TypeOK, Texts
  <2> QED BY <2>2, <2>3, <2>4 DEF ChunksInv
<1> QED BY <1>8, <1>9, <1>10

LEMMA ChunksPull == ASSUME NEW n \in 1 .. MaxChunk PROVE ChunksInv /\ Pull(n) => ChunksInv'
<1> SUFFICES ASSUME ChunksInv, Pull(n) PROVE ChunksInv'
  OBVIOUS
<1> DEFINE e == Decode(partial, SubSeq(body, pulled + 1, pulled + n))
<1>1. /\ TypeOK /\ SplitSoFar /\ ChunkingIsInvisible /\ pc = "pull" /\ pulled + n <= Len(body)
      /\ pulled' = pulled + n /\ UNCHANGED <<body, maxBytes, line, out, drained>>
  BY DEF ChunksInv, Pull
<1>2. /\ body \in Seq(Bytes) /\ pulled \in 0 .. Len(body) /\ buffered \in Seq(Characters)
      /\ error = "none" /\ line \in Nat /\ out \in Seq(Texts) /\ failedAt \in Nat
      /\ partial \in BOOLEAN
  BY <1>1 DEF TypeOK, Texts
<1>3. n \in Nat /\ pulled \in Nat /\ pulled + n \in Nat /\ pulled' \in 0 .. Len(body')
  <2>1. n \in Nat /\ pulled \in Nat /\ Len(body) \in Nat
    BY <1>2, NdjsonAssumption
  <2> QED BY <1>1, <2>1
<1>4. CASE pulled + n > maxBytes
  <2>1. /\ pc' = "drain" /\ error' = "large" /\ failedAt' = pulled + n
        /\ UNCHANGED <<partial, buffered>>
    BY <1>4 DEF Pull, Fail
  <2>2. SplitSoFar' /\ ChunkingIsInvisible'
    BY <1>1, <1>2, <2>1, OverSuffices
  <2>3. TypeOK'
    BY <1>1, <1>2, <1>3, <2>1 DEF TypeOK
  <2> QED BY <2>2, <2>3 DEF ChunksInv
<1>5. CASE ~(pulled + n > maxBytes)
  <2>1. /\ pc' = "split" /\ buffered' = buffered \o e.text /\ partial' = e.partial
        /\ UNCHANGED <<error, failedAt>>
    BY <1>5 DEF Pull, NoError
  <2>2. PICK seen : Streams(body, pulled, partial, buffered, line, out, seen)
    BY <1>1, SoFarForm
  <2>3. /\ e \in Decoded
        /\ Streams(body, pulled + n, e.partial, buffered \o e.text, line, out, seen)
    BY <1>1, <1>2, <1>3, <2>2, StreamsOn
  <2> HIDE DEF e
  <2>4. Streams(body', pulled', partial', buffered', line', out', seen)
    BY <1>1, <2>1, <2>3
  <2>5. buffered' \in Seq(Characters) /\ partial' \in BOOLEAN
    <3>1. e.text \in Seq(Characters) /\ e.partial \in BOOLEAN
      BY <2>3 DEF Decoded
    <3> QED BY <1>2, <2>1, <3>1
  <2>6. /\ body' \in Seq(Bytes) /\ error' = "none" /\ pc' \in {"pull", "split"}
        /\ (pc' = "pull" => NoNewline(buffered'))
    BY <1>1, <1>2, <2>1
  <2>7. SplitSoFar' /\ ChunkingIsInvisible'
    BY <1>3, <2>4, <2>5, <2>6, StreamsSuffices
  <2>8. TypeOK'
    BY <1>1, <1>2, <1>3, <2>1, <2>5 DEF TypeOK
  <2> QED BY <2>7, <2>8 DEF ChunksInv
<1> QED BY <1>4, <1>5

LEMMA ChunksNext == ChunksInv /\ [Next]_vars => ChunksInv'
<1> SUFFICES ASSUME ChunksInv, [Next]_vars PROVE ChunksInv'
  OBVIOUS
<1>0. TypeOK /\ SplitSoFar /\ ChunkingIsInvisible
  BY DEF ChunksInv
<1>1. CASE UNCHANGED vars
  BY <1>0, <1>1 DEF vars, ChunksInv, TypeOK, SplitSoFar, ChunkingIsInvisible, Payloads
<1>2. ASSUME NEW n \in 1 .. MaxChunk, Pull(n) PROVE ChunksInv'
  BY <1>2, ChunksPull
<1>3. CASE Split
  BY <1>3, ChunksSplit
<1>4. CASE End
  BY <1>4, ChunksEnd
<1>5. ASSUME NEW n \in 1 .. MaxChunk, Discard(n) PROVE ChunksInv'
  <2>1. SplitSoFar' /\ ChunkingIsInvisible'
    BY <1>0, <1>5, OverSuffices DEF Discard
  <2>2. n \in Nat /\ Len(body) \in Nat
    BY <1>0, NdjsonAssumption DEF TypeOK
  <2>3. TypeOK'
    BY <1>0, <1>5, <2>2 DEF Discard, TypeOK
  <2> QED BY <2>1, <2>3 DEF ChunksInv
<1>6. CASE SourceFails
  <2>1. /\ UNCHANGED <<body, maxBytes, pulled, partial, buffered, line, out, drained>>
        /\ \/ pc = "pull" /\ pc' = "drain" /\ error' = "source" /\ failedAt' = pulled
           \/ pc = "drain" /\ pc' = "failed" /\ UNCHANGED <<error, failedAt>>
    BY <1>6 DEF SourceFails, Fail, NoError
  <2>2. pc = "pull" => error = "none"
    BY <1>0 DEF TypeOK
  <2>3. SplitSoFar' /\ ChunkingIsInvisible'
    BY <1>0, <2>1, <2>2, OverSuffices
  <2>4. TypeOK'
    BY <1>0, <2>1 DEF TypeOK
  <2> QED BY <2>3, <2>4 DEF ChunksInv
<1>7. CASE ConsumerThrows
  <2>1. SplitSoFar' /\ ChunkingIsInvisible'
    BY <1>0, <1>7, OverSuffices DEF ConsumerThrows
  <2>2. TypeOK'
    BY <1>0, <1>7 DEF ConsumerThrows, TypeOK
  <2> QED BY <2>1, <2>2 DEF ChunksInv
<1>8. CASE Discarded
  <2>1. SplitSoFar' /\ ChunkingIsInvisible'
    BY <1>0, <1>8, OverSuffices DEF Discarded
  <2>2. TypeOK'
    BY <1>0, <1>8 DEF Discarded, TypeOK
  <2> QED BY <2>1, <2>2 DEF ChunksInv
<1> QED BY <1>1, <1>2, <1>3, <1>4, <1>5, <1>6, <1>7, <1>8 DEF Next

(* At any moment the buffer and what was consumed of it are the text of    *)
(* the bytes pulled, decoded in one go.                                    *)
THEOREM ChunksInvariant == Spec => []ChunksInv
BY ChunksInit, ChunksNext, PTL DEF Spec

(* The buffer holds characters and the consumer is handed texts, whatever  *)
(* the decoder is fed.                                                     *)
THEOREM StreamTypes == Spec => []TypeOK
<1>1. ChunksInv => TypeOK
  BY DEF ChunksInv
<1> QED BY <1>1, ChunksInvariant, PTL

(* However the network cuts the body into chunks, even within a character, *)
(* the consumer gets its lines, in order, none twice and none missing, and *)
(* a line is refused for what the body has on it (splitLines, ndjsonStream)*)
THEOREM ChunksAreInvisible == Spec => []ChunkingIsInvisible
<1>1. ChunksInv => ChunkingIsInvisible
  BY DEF ChunksInv
<1> QED BY <1>1, ChunksInvariant, PTL
=============================================================================
