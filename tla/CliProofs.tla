------------------------------ MODULE CliProofs ------------------------------
(***************************************************************************)
(* What CliProperties says of the words, for stdio buffers and words of    *)
(* every size and whatever is typed.  Liveness is left to the runs.        *)
(***************************************************************************)
EXTENDS CliProperties, StreamLemmas

Character == STRING
Text == Seq(Character)

\* The values of AddCharacter.
Scanned == [done: Seq(Text), word: Text]

-----------------------------------------------------------------------------
(* Scan, which is computed with a recursive function *)

\* The function Scan is computed with, for the first n characters of a text.
Scans(g, text, n) ==
    g = [k \in 0 .. n |-> IF k = 0 THEN None ELSE AddCharacter(g[k - 1], text[k])]

\* There is such a function for every number of characters.
LEMMA ScansExists ==
    ASSUME NEW text, NEW n \in Nat
    PROVE  \E g : Scans(g, text, n)
<1> DEFINE S == {k \in Nat : \E g : Scans(g, text, k)}
<1>1. 0 \in S
  <2>1. Scans([k \in 0 .. 0 |-> None], text, 0)
    BY DEF Scans
  <2> QED BY <2>1
<1>2. ASSUME NEW k \in S PROVE k + 1 \in S
  <2>1. PICK g : Scans(g, text, k)
    OBVIOUS
  <2> DEFINE h == [j \in 0 .. k + 1 |->
                     IF j <= k THEN g[j] ELSE AddCharacter(g[k], text[k + 1])]
  <2>2. \A j \in 0 .. k : g[j] = IF j = 0 THEN None ELSE AddCharacter(g[j - 1], text[j])
    BY <2>1 DEF Scans
  <2>3. ASSUME NEW j \in 0 .. k + 1
        PROVE  h[j] = IF j = 0 THEN None ELSE AddCharacter(h[j - 1], text[j])
    <3>1. CASE j <= k
      <4>1. h[j] = g[j] /\ (j # 0 => h[j - 1] = g[j - 1])
        BY <3>1
      <4>2. g[j] = IF j = 0 THEN None ELSE AddCharacter(g[j - 1], text[j])
        BY <2>2, <3>1
      <4> HIDE DEF h
      <4> QED BY <4>1, <4>2, Zenon
    <3>2. CASE j = k + 1
      <4>1. /\ h[j] = AddCharacter(g[k], text[k + 1])
            /\ j # 0 /\ j - 1 = k /\ h[k] = g[k]
        BY <3>2
      <4> HIDE DEF h
      <4> QED BY <3>2, <4>1, Zenon
    <3> QED BY <3>1, <3>2
  <2>4. Scans(h, text, k + 1)
    <3>1. h = [j \in 0 .. k + 1 |-> h[j]]
      OBVIOUS
    <3> HIDE DEF h
    <3>2. [j \in 0 .. k + 1 |-> h[j]]
          = [j \in 0 .. k + 1 |-> IF j = 0 THEN None ELSE AddCharacter(h[j - 1], text[j])]
      BY <2>3, Zenon
    <3> QED BY <3>1, <3>2 DEF Scans
  <2> QED BY <2>4
<1>3. S \in SUBSET Nat
  OBVIOUS
<1>4. S = Nat
  <2> HIDE DEF S
  <2> QED BY <1>1, <1>2, <1>3, SetInduction
<1> QED BY <1>4

\* Its value depends only on the characters up to its argument.
LEMMA ScansAgree ==
    ASSUME NEW s, NEW t, NEW m \in Nat, NEW n \in Nat, NEW g, NEW h,
           Scans(g, s, n), Scans(h, t, m), n <= m, Agree(n, s, t)
    PROVE  g[n] = h[n]
<1> USE DEF Agree
<1>1. /\ \A k \in 0 .. n : g[k] = IF k = 0 THEN None ELSE AddCharacter(g[k - 1], s[k])
      /\ \A k \in 0 .. m : h[k] = IF k = 0 THEN None ELSE AddCharacter(h[k - 1], t[k])
  BY DEF Scans
<1> DEFINE S == {k \in Nat : k <= n => g[k] = h[k]}
<1>2. 0 \in S
  BY <1>1
<1>3. ASSUME NEW k \in S PROVE k + 1 \in S
  <2>1. SUFFICES ASSUME k + 1 <= n PROVE g[k + 1] = h[k + 1]
    OBVIOUS
  <2>2. k + 1 \in 0 .. n /\ k + 1 \in 0 .. m /\ k + 1 \in 1 .. n
        /\ k + 1 # 0 /\ (k + 1) - 1 = k /\ k <= n
    BY <2>1
  <2>3. g[k + 1] = AddCharacter(g[k], s[k + 1]) /\ h[k + 1] = AddCharacter(h[k], t[k + 1])
    BY <1>1, <2>2
  <2>4. s[k + 1] = t[k + 1] /\ g[k] = h[k]
    BY <2>2
  <2> QED BY <2>3, <2>4
<1>4. S \in SUBSET Nat
  OBVIOUS
<1>5. S = Nat
  <2> HIDE DEF S
  <2> QED BY <1>2, <1>3, <1>4, SetInduction
<1> QED BY <1>5

\* Scan is the last value of such a function.
LEMMA ScanByFunction ==
    ASSUME NEW text, Len(text) \in Nat
    PROVE  \E g : Scans(g, text, Len(text)) /\ Scan(text) = g[Len(text)]
<1> DEFINE g == CHOOSE g : Scans(g, text, Len(text))
<1>1. Scans(g, text, Len(text))
  <2>1. \E h : Scans(h, text, Len(text))
    BY ScansExists
  <2> QED BY <2>1
<1>2. Scan(text) = g[Len(text)]
  BY DEF Scan, Scans
<1> QED BY <1>1, <1>2

\* Of no characters,
LEMMA ScanEmpty == Scan(<<>>) = None
<1>1. Len(<<>>) = 0
  OBVIOUS
<1>2. PICK g : Scans(g, <<>>, 0) /\ Scan(<<>>) = g[0]
  BY <1>1, ScanByFunction
<1> QED BY <1>2 DEF Scans

\* and of one character more.
LEMMA ScanAppend ==
    ASSUME NEW text \in Text, NEW c \in Character
    PROVE  Scan(Append(text, c)) = AddCharacter(Scan(text), c)
<1> DEFINE t == Append(text, c)
           n == Len(text)
<1>1. /\ n \in Nat /\ Len(t) = n + 1 /\ t[n + 1] = c
      /\ \A k \in 1 .. n : text[k] = t[k]
  <2>1. /\ Len(text) \in Nat /\ Len(t) = Len(text) + 1 /\ t[Len(text) + 1] = c
        /\ \A k \in 1 .. Len(text) : text[k] = t[k]
    <3>1. text \in Seq(Character)
      BY DEF Text
    <3> QED BY <3>1, AppendKeeps
  <2> QED BY <2>1, Zenon
<1> HIDE DEF t, n
<1>2. PICK h : Scans(h, t, n + 1) /\ Scan(t) = h[n + 1]
  <2>1. Len(t) \in Nat
    BY <1>1
  <2> QED BY <1>1, <2>1, ScanByFunction
<1>3. PICK g : Scans(g, text, n) /\ Scan(text) = g[n]
  BY <1>1, ScanByFunction DEF n
<1>4. g[n] = h[n]
  <2> DEFINE m == n + 1
  <2>1. m \in Nat /\ n \in Nat /\ n <= m
    BY <1>1
  <2>2. Scans(h, t, m) /\ Scans(g, text, n)
    BY <1>2, <1>3
  <2>3. Agree(n, text, t)
    BY <1>1 DEF Agree
  <2> HIDE DEF m
  <2> QED BY <2>1, <2>2, <2>3, ScansAgree
<1>5. h[n + 1] = AddCharacter(h[n], t[n + 1])
  <2>1. n + 1 \in 0 .. n + 1 /\ n + 1 # 0 /\ (n + 1) - 1 = n
    BY <1>1
  <2>2. \A k \in 0 .. n + 1 : h[k] = IF k = 0 THEN None ELSE AddCharacter(h[k - 1], t[k])
    BY <1>2 DEF Scans
  <2> QED BY <2>1, <2>2
<1> QED BY <1>1, <1>2, <1>3, <1>4, <1>5 DEF t

\* AddCharacter keeps its type,
LEMMA AddType ==
    ASSUME NEW acc \in Scanned, NEW c \in Character
    PROVE  AddCharacter(acc, c) \in Scanned
<1>1. acc.done \in Seq(Text) /\ acc.word \in Text /\ <<>> \in Text
  BY DEF Scanned, Text
<1>2. Append(acc.done, acc.word) \in Seq(Text) /\ Append(acc.word, c) \in Text
  <2>1. Append(acc.done, acc.word) \in Seq(Text)
    BY <1>1, AppendKeeps
  <2>2. Append(acc.word, c) \in Text
    BY <1>1, AppendKeeps DEF Text
  <2> QED BY <2>1, <2>2
<1>3. CASE c \notin Separators
  <2>1. AddCharacter(acc, c) = [acc EXCEPT !.word = Append(acc.word, c)]
    BY <1>3 DEF AddCharacter
  <2> QED BY <1>1, <1>2, <2>1 DEF Scanned
<1>4. CASE c \in Separators /\ acc.word = <<>>
  BY <1>4 DEF AddCharacter
<1>5. CASE c \in Separators /\ acc.word # <<>>
  <2>1. AddCharacter(acc, c) = [done |-> Append(acc.done, acc.word), word |-> <<>>]
    BY <1>5 DEF AddCharacter
  <2> QED BY <1>1, <1>2, <2>1 DEF Scanned
<1> QED BY <1>3, <1>4, <1>5

\* and what was done before stays in front.
LEMMA AddAfter ==
    ASSUME NEW acc \in Scanned, NEW c \in Character, NEW d \in Seq(Text)
    PROVE  AddCharacter([done |-> d \o acc.done, word |-> acc.word], c)
           = [done |-> d \o AddCharacter(acc, c).done, word |-> AddCharacter(acc, c).word]
<1> DEFINE w == acc.word
           e == acc.done
           both == [done |-> d \o e, word |-> w]
<1>1. acc = [done |-> e, word |-> w] /\ e \in Seq(Text) /\ w \in Text
  BY DEF Scanned
<1>2. d \o Append(e, w) = Append(d \o e, w)
  <2> HIDE DEF e, w
  <2> QED BY <1>1
<1>3. CASE c \notin Separators
  <2>1. /\ AddCharacter(acc, c) = [acc EXCEPT !.word = Append(acc.word, c)]
        /\ AddCharacter(both, c) = [both EXCEPT !.word = Append(both.word, c)]
    BY <1>3 DEF AddCharacter
  <2>2. /\ AddCharacter(acc, c) = [done |-> e, word |-> Append(w, c)]
        /\ AddCharacter(both, c) = [done |-> d \o e, word |-> Append(w, c)]
    BY <1>1, <2>1
  <2> QED BY <2>2
<1>4. CASE c \in Separators /\ w = <<>>
  BY <1>1, <1>4 DEF AddCharacter
<1>5. CASE c \in Separators /\ w # <<>>
  <2>1. /\ AddCharacter(acc, c) = [done |-> Append(e, w), word |-> <<>>]
        /\ AddCharacter(both, c) = [done |-> Append(d \o e, w), word |-> <<>>]
    BY <1>5 DEF AddCharacter
  <2>2. AddCharacter(acc, c).done = Append(e, w) /\ AddCharacter(acc, c).word = <<>>
    BY <2>1
  <2> HIDE DEF e, w, both
  <2>3. AddCharacter(both, c)
        = [done |-> d \o AddCharacter(acc, c).done, word |-> AddCharacter(acc, c).word]
    BY <1>2, <2>1, <2>2
  <2> QED BY <2>3, Zenon DEF both, e, w
<1> QED BY <1>3, <1>4, <1>5

\* The words of a text are texts,
LEMMA ScanType == \A text \in Text : Scan(text) \in Scanned
<1> DEFINE T == {text \in Text : Scan(text) \in Scanned}
<1>1. T \in SUBSET Seq(Character)
  BY DEF Text
<1>2. <<>> \in T
  <2>1. None \in Scanned /\ <<>> \in Text
    BY DEF None, Scanned, Text
  <2> QED BY <2>1, ScanEmpty
<1>3. ASSUME NEW text \in T, NEW c \in Character PROVE Append(text, c) \in T
  <2>1. Append(text, c) \in Text
    BY AppendKeeps DEF Text
  <2>2. Scan(Append(text, c)) = AddCharacter(Scan(text), c)
    BY ScanAppend
  <2> QED BY <2>1, <2>2, AddType
<1>4. T = Text
  <2> HIDE DEF T
  <2> QED BY <1>1, <1>2, <1>3, AppendInduction DEF Text
<1> QED BY <1>4

\* and a text without separators is one word that has not ended.
Unbroken(word) == \A k \in 1 .. Len(word) : word[k] \notin Separators

\* A text without separators with one character more.
LEMMA UnbrokenAppend ==
    ASSUME NEW word \in Text, NEW c \in Character
    PROVE  Unbroken(Append(word, c)) <=> Unbroken(word) /\ c \notin Separators
<1>1. /\ Len(word) \in Nat /\ Len(Append(word, c)) = Len(word) + 1
      /\ Append(word, c)[Len(word) + 1] = c
      /\ \A k \in 1 .. Len(word) : word[k] = Append(word, c)[k]
  BY AppendKeeps DEF Text
<1> DEFINE t == Append(word, c)
<1> HIDE DEF t
<1>2. Unbroken(t) <=> Unbroken(word) /\ c \notin Separators
  BY <1>1 DEF Unbroken, t
<1> QED BY <1>2 DEF t

\* Such a text is one word, which nothing has ended yet.
LEMMA ScanUnbroken ==
    \A word \in Text : Unbroken(word) => Scan(word) = [done |-> <<>>, word |-> word]
<1> DEFINE T == {word \in Text : Unbroken(word) => Scan(word) = [done |-> <<>>, word |-> word]}
<1>1. T \in SUBSET Seq(Character)
  BY DEF Text
<1>2. <<>> \in T
  BY ScanEmpty DEF Text, None
<1>3. ASSUME NEW word \in T, NEW c \in Character PROVE Append(word, c) \in T
  <2>1. Append(word, c) \in Text /\ word \in Text
    BY AppendKeeps DEF Text
  <2>2. SUFFICES ASSUME Unbroken(Append(word, c))
                 PROVE  Scan(Append(word, c)) = [done |-> <<>>, word |-> Append(word, c)]
    BY <2>1
  <2>3. Unbroken(word) /\ c \notin Separators
    BY <2>1, <2>2, UnbrokenAppend
  <2>4. Scan(word) = [done |-> <<>>, word |-> word]
    BY <2>3
  <2>5. Scan(Append(word, c)) = AddCharacter(Scan(word), c)
    BY <2>1, ScanAppend
  <2>6. AddCharacter(Scan(word), c) = [Scan(word) EXCEPT !.word = Append(Scan(word).word, c)]
    BY <2>3 DEF AddCharacter
  <2> QED BY <2>4, <2>5, <2>6
<1>4. T = Text
  <2> HIDE DEF T
  <2> QED BY <1>1, <1>2, <1>3, AppendInduction DEF Text
<1> QED BY <1>4

\* The words of two texts, one after the other: those that end in the first one
\* and those of its unfinished word and the second one.
LEMMA ScanConcat ==
    ASSUME NEW a \in Text, Unbroken(Scan(a).word)
    PROVE  \A b \in Text :
              Scan(a \o b) = [done |-> Scan(a).done \o Scan(Scan(a).word \o b).done,
                              word |-> Scan(Scan(a).word \o b).word]
<1> DEFINE w == Scan(a).word
           d == Scan(a).done
<1>1. w \in Text /\ d \in Seq(Text) /\ Scan(a) = [done |-> d, word |-> w] /\ Unbroken(w)
  BY ScanType DEF Scanned
<1> HIDE DEF w, d
<1> DEFINE After(b) == [done |-> d \o Scan(w \o b).done, word |-> Scan(w \o b).word]
           T == {b \in Text : Scan(a \o b) = After(b)}
<1>2. T \in SUBSET Seq(Character)
  BY DEF Text
<1>3. <<>> \in T
  <2>1. a \o <<>> = a /\ w \o <<>> = w /\ <<>> \in Text
    BY <1>1 DEF Text
  <2>2. Scan(w) = [done |-> <<>>, word |-> w]
    BY <1>1, ScanUnbroken
  <2>3. d \o <<>> = d
    BY <1>1
  <2> QED BY <1>1, <2>1, <2>2, <2>3
<1>4. ASSUME NEW b \in T, NEW c \in Character PROVE Append(b, c) \in T
  <2>5. a \in Seq(Character) /\ b \in Seq(Character) /\ w \in Seq(Character)
    BY <1>1 DEF Text
  <2>6. a \o Append(b, c) = Append(a \o b, c) /\ w \o Append(b, c) = Append(w \o b, c)
    BY <2>5, ConcatAppend, SMTT(30)
  <2>7. Append(b, c) \in Text /\ a \o b \in Text /\ w \o b \in Text
    BY <2>5, AppendKeeps, ConcatMember DEF Text
  <2>1. /\ Append(b, c) \in Text /\ a \o b \in Text /\ w \o b \in Text
        /\ a \o Append(b, c) = Append(a \o b, c) /\ w \o Append(b, c) = Append(w \o b, c)
    BY <2>6, <2>7
  <2>2. Scan(w \o b) \in Scanned
    BY <2>1, ScanType
  <2>3. /\ Scan(a \o Append(b, c)) = AddCharacter(Scan(a \o b), c)
        /\ Scan(w \o Append(b, c)) = AddCharacter(Scan(w \o b), c)
    BY <2>1, ScanAppend
  <2>4. AddCharacter(After(b), c) = After(Append(b, c))
    BY <1>1, <2>2, <2>3, AddAfter
  <2> HIDE DEF After
  <2> QED BY <2>1, <2>3, <2>4
<1>5. T = Text
  <2> HIDE DEF T
  <2> QED BY <1>2, <1>3, <1>4, AppendInduction DEF Text
<1> QED BY <1>5 DEF d, w

-----------------------------------------------------------------------------
(* The inductive invariant *)

\* Of what was written, taken has gone through fgetc and the rest waits in the
\* two buffers; hex is its end, and the words in it are those handled.
TakenFrom(taken) ==
    /\ Parts(input, taken, stdio, pipe)
    /\ at = "fgetc" => Unbroken(hex) /\ \E before \in Text : taken = before \o hex
    /\ WordsFit => /\ Scan(taken).done = Handled
                   /\ at # "stopped" => Scan(taken).word = Reading

TakenInv == \E taken \in Text : TakenFrom(taken)

\* At the end of the stream nothing was waiting, and nothing is written after.
EofInv == sawEof => closed /\ stop /\ at = "stopped" /\ stdio = <<>> /\ pipe = <<>>

CliInv == TypeOK /\ TakenInv /\ EofInv

-----------------------------------------------------------------------------
(* What the steps do to a text and to the words *)

\* The words of calls, to which one is added.
WordsOf(s) == [i \in DOMAIN s |-> s[i].word]

Functions == {"CFRunLoopStop", "ribsu_set_default_frequency",
              "ribsu_toggle_interpretation", "ribsu_write"}

Call == [fn: Functions, word: Text]

\* The constants as numbers, and the types of the texts.
LEMMA Types ==
    /\ HexMax \in Nat /\ StdioMax \in Nat /\ StdioMax # 0
    /\ Chunks \subseteq Text /\ <<>> \in Text
    /\ TypeOK => /\ input \in Text /\ pipe \in Text /\ stdio \in Text /\ hex \in Text
                 /\ Len(hex) \in Nat /\ calls \in Seq(Call)
    /\ TypeOK' => input' \in Text /\ pipe' \in Text /\ stdio' \in Text /\ hex' \in Text
BY CliAssumption DEF Text, Character, TypeOK, Call, Functions

\* A word is given to some function.
LEMMA DispatchType == \A word : Dispatch(word) \in Functions
BY DEF Dispatch, Functions

\* They are as many as the calls, and in the order of them.
LEMMA WordsOfAppend ==
    ASSUME NEW s \in Seq(Call), NEW r \in Call
    PROVE  /\ WordsOf(s) \in Seq(Text)
           /\ WordsOf(Append(s, r)) = Append(WordsOf(s), r.word)
<1> DEFINE t == Append(s, r)
           n == Len(s)
<1>1. /\ n \in Nat /\ DOMAIN s = 1 .. n /\ DOMAIN t = 1 .. n + 1
      /\ t[n + 1] = r /\ \A k \in 1 .. n : t[k] = s[k] /\ s[k] \in Call
  OBVIOUS
<1>2. r.word \in Text /\ \A k \in 1 .. n : s[k].word \in Text
  BY <1>1 DEF Call
<1> HIDE DEF t, n
<1>3. WordsOf(s) = [k \in 1 .. n |-> s[k].word]
  BY <1>1 DEF WordsOf
<1>4. WordsOf(s) \in Seq(Text) /\ Len(WordsOf(s)) = n
  <2>1. [k \in 1 .. n |-> s[k].word] \in [1 .. n -> Text]
    BY <1>2
  <2> QED BY <1>1, <1>3, <2>1, FunctionSequence
<1>5. WordsOf(t) = [k \in 1 .. n + 1 |-> t[k].word]
  BY <1>1 DEF WordsOf
<1>6. WordsOf(t) \in Seq(Text) /\ Len(WordsOf(t)) = n + 1
  <2>1. [k \in 1 .. n + 1 |-> t[k].word] \in [1 .. n + 1 -> Text]
    BY <1>1, <1>2
  <2> QED BY <1>1, <1>5, <2>1, FunctionSequence
<1> DEFINE u == Append(WordsOf(s), r.word)
<1>7. /\ u \in Seq(Text) /\ Len(u) = n + 1 /\ u[n + 1] = r.word
      /\ \A k \in 1 .. n : u[k] = WordsOf(s)[k]
  <2> DEFINE v == WordsOf(s)
  <2> HIDE DEF v
  <2> QED BY <1>2, <1>4, AppendKeeps DEF v
<1> HIDE DEF u
<1>8. \A k \in 1 .. n + 1 : WordsOf(t)[k] = u[k]
  BY <1>1, <1>3, <1>5, <1>7
<1>9. WordsOf(t) = u
  BY <1>6, <1>7, <1>8, SeqEqual
<1> QED BY <1>4, <1>9 DEF t, u

\* The first character of a buffer moves to the end of what was taken.
LEMMA CharacterTaken ==
    ASSUME NEW all, NEW a \in Text, NEW b \in Text, NEW c \in Text, b # <<>>,
           Parts(all, a, b, c)
    PROVE  /\ Parts(all, Append(a, b[1]), Tail(b), c) /\ b[1] \in Character
           /\ Append(a, b[1]) \in Text /\ Tail(b) \in Text
<1>1. b[1] \in Character /\ Tail(b) \in Seq(Character) /\ b \in Seq(Character) /\ a \in Seq(Character)
  BY DEF Text
<1>2. a \o b = Append(a, b[1]) \o Tail(b)
  <2> DEFINE S == Character
  <2>1. a \in Seq(S) /\ b \in Seq(S)
    BY <1>1
  <2> HIDE DEF S
  <2> QED BY <2>1
<1> QED BY <1>1, <1>2, AppendKeeps DEF Parts, Text

\* A word that is too long: HexMax characters that were read and one that is
\* not a separator either.
LEMMA WordTooLong ==
    ASSUME TypeOK, NEW before \in Text, stdio # <<>>,
           Parts(input, before \o hex, stdio, pipe),
           Unbroken(hex), stdio[1] \notin Separators, Len(hex) >= HexMax
    PROVE  ~WordsFit
<1> DEFINE i == Len(before) + 1
<1>1. /\ HexMax \in Nat /\ Len(hex) = HexMax
      /\ before \in Seq(Character) /\ hex \in Seq(Character)
      /\ stdio \in Seq(Character) /\ pipe \in Seq(Character)
  BY Types DEF TypeOK, Text
<1>2. /\ i \in DOMAIN input /\ i + HexMax \in DOMAIN input
      /\ \A k \in i .. i + HexMax :
            input[k] = IF k < i + HexMax THEN hex[k - Len(before)] ELSE stdio[1]
  <2> DEFINE S == Character
             b == before
             h == hex
             s == stdio
             p == pipe
  <2>1. /\ b \in Seq(S) /\ h \in Seq(S) /\ s \in Seq(S) /\ p \in Seq(S) /\ s # <<>>
        /\ HexMax = Len(h) /\ i = Len(b) + 1
    BY <1>1
  <2>2. input = ((b \o h) \o s) \o p
    BY DEF Parts
  <2> HIDE DEF S, b, h, s, p, i
  <2>3. /\ i \in DOMAIN input /\ i + HexMax \in DOMAIN input
        /\ \A k \in i .. i + HexMax :
              input[k] = IF k < i + HexMax THEN h[k - Len(b)] ELSE s[1]
    BY <2>1, <2>2, SMTT(30)
  <2> QED BY <2>3 DEF b, h, s
<1>3. \A k \in i .. i + HexMax : input[k] \notin Separators
  <2>1. TAKE k \in i .. i + HexMax
  <2>2. CASE k < i + HexMax
    <3>1. k - Len(before) \in 1 .. Len(hex)
      BY <1>1, <2>2
    <3> QED BY <1>2, <2>2, <3>1 DEF Unbroken
  <2>3. CASE ~(k < i + HexMax)
    BY <1>2, <2>3
  <2> QED BY <2>2, <2>3
<1> HIDE DEF i
<1> QED BY <1>2, <1>3 DEF WordsFit

\* Words that fit after more was written fitted before.
LEMMA FitsBefore ==
    ASSUME TypeOK, NEW chunk \in Text, input' = input \o chunk, WordsFit'
    PROVE  WordsFit
<1> DEFINE a == input
           both == a \o chunk
<1>1. /\ HexMax \in Nat /\ a \in Seq(Character) /\ chunk \in Seq(Character)
  BY Types DEF TypeOK, Text
<1>2. /\ DOMAIN a = 1 .. Len(a) /\ Len(a) \in Nat
      /\ \A k \in 1 .. Len(a) : k \in DOMAIN both /\ both[k] = a[k]
  <2> DEFINE S == Character
  <2>1. a \in Seq(S) /\ chunk \in Seq(S)
    BY <1>1
  <2> HIDE DEF S, a
  <2> QED BY <2>1
<1>3. WordsFit <=> \A i \in DOMAIN a :
        i + HexMax \in DOMAIN a => \E k \in i .. i + HexMax : a[k] \in Separators
  BY DEF WordsFit
<1>4. \A i \in DOMAIN both :
        i + HexMax \in DOMAIN both => \E k \in i .. i + HexMax : both[k] \in Separators
  BY DEF WordsFit
<1> HIDE DEF both, a
<1> QED BY <1>1, <1>2, <1>3, <1>4

-----------------------------------------------------------------------------
(* The steps *)

\* Nothing has been written.
LEMMA InitEstablishes == Init => CliInv
<1> SUFFICES ASSUME Init PROVE CliInv
  OBVIOUS
<1>1. TypeOK /\ EofInv
  <2>1. /\ <<>> \in Seq(STRING) /\ <<>> \in Seq(Call)
        /\ Len(<<>>) = 0
    OBVIOUS
  <2>2. 0 <= HexMax /\ 0 <= StdioMax
    BY Types
  <2> QED BY <2>1, <2>2 DEF Init, TypeOK, EofInv, Call, Functions, Text, Character
<1>2. Parts(input, <<>>, stdio, pipe)
  BY DEF Init, Parts
<1>3. Scan(<<>>).done = Handled /\ Scan(<<>>).word = Reading
  <2>1. Handled = <<>>
    BY DEF Init, Handled
  <2> QED BY <2>1, ScanEmpty DEF None, Init, Reading
<1>4. TakenFrom(<<>>)
  BY <1>2, <1>3 DEF TakenFrom, Init
<1> QED BY <1>1, <1>4, Types DEF CliInv, TakenInv

\* Every step keeps the types.
LEMMA TypesKept ==
    ASSUME TypeOK, [Next]_vars
    PROVE  TypeOK'
<1> USE DEF vars, stdinVars, deviceVars
<1>1. CASE Type
  <2>1. PICK chunk \in Chunks : input' = input \o chunk /\ pipe' = pipe \o chunk
    BY <1>1 DEF Type
  <2>2. input' \in Text /\ pipe' \in Text
    BY <2>1, Types, ConcatMember DEF Text
  <2> QED BY <1>1, <2>2 DEF Type, TypeOK, Text, Character
<1>2. CASE CloseStdin
  BY <1>2 DEF CloseStdin, TypeOK
<1>3. CASE DataArrives
  BY <1>3 DEF DataArrives, TypeOK
<1>4. CASE DeviceReady
  BY <1>4 DEF DeviceReady, TypeOK
<1>5. CASE Signal
  <2>1. /\ input' = input /\ pipe' = pipe /\ stdio' = stdio /\ hex' = hex
        /\ closed' = closed /\ sawEof' = sawEof /\ dataReady' = dataReady /\ calls' = calls
    BY <1>5 DEF Signal
  <2>2. stop' = TRUE /\ at' \in {"runloop", "fgetc", "stopped"}
    BY <1>5 DEF Signal, TypeOK
  <2> QED BY <2>1, <2>2 DEF TypeOK
<1>6. CASE Idle \/ UNCHANGED vars
  BY <1>6 DEF Idle, TypeOK
<1>7. CASE StdinReady
  BY <1>7, Types DEF StdinReady, TypeOK
<1>8. CASE FillStdio
  <2>1. PICK k \in 1 .. Len(pipe) :
          /\ k <= StdioMax
          /\ stdio' = SubSeq(pipe, 1, k) /\ pipe' = SubSeq(pipe, k + 1, Len(pipe))
    BY <1>8 DEF FillStdio
  <2>2. k \in Nat /\ k <= Len(pipe) /\ k <= StdioMax /\ Len(pipe) \in Nat
    BY <2>1, Types DEF TypeOK
  <2>3. pipe \in Seq(STRING)
    BY DEF TypeOK
  <2>4. stdio' \in Seq(STRING) /\ Len(stdio') <= StdioMax /\ pipe' \in Seq(STRING)
    <3>1. SubSeq(pipe, 1, k) \in Seq(STRING) /\ Len(SubSeq(pipe, 1, k)) = k
      BY <2>2, <2>3, FirstMembers
    <3>2. SubSeq(pipe, k + 1, Len(pipe)) \in Seq(STRING)
      BY <2>2, <2>3
    <3> QED BY <2>1, <2>2, <3>1, <3>2
  <2> QED BY <1>8, <2>4 DEF FillStdio, TypeOK
<1>9. CASE NextCharacter
  <2>1. /\ stdio[1] \in Character /\ Tail(stdio) \in Text /\ Len(Tail(stdio)) <= StdioMax
        /\ Append(hex, stdio[1]) \in Text /\ Len(Append(hex, stdio[1])) <= HexMax
    <3>1. stdio \in Seq(Character) /\ stdio # <<>> /\ hex \in Seq(Character)
      BY <1>9, Types DEF NextCharacter, Text
    <3>2. Len(hex) \in Nat /\ Len(hex) < HexMax /\ HexMax \in Nat /\ Len(stdio) <= StdioMax
      BY <1>9, Types DEF NextCharacter, WordEnds, TypeOK
    <3>3. stdio[1] \in Character /\ Tail(stdio) \in Seq(Character) /\ Len(Tail(stdio)) = Len(stdio) - 1
      BY <3>1
    <3>4. Append(hex, stdio[1]) \in Seq(Character) /\ Len(Append(hex, stdio[1])) = Len(hex) + 1
      BY <3>1, <3>3, AppendKeeps
    <3>5. Len(stdio) \in Nat /\ StdioMax \in Nat
      BY <3>1, Types
    <3> QED BY <3>2, <3>3, <3>4, <3>5 DEF Text
  <2> QED BY <1>9, <2>1 DEF NextCharacter, TypeOK, Text, Character
<1>10. CASE HandleWord
  <2>1. Tail(stdio) \in Text /\ Len(Tail(stdio)) <= StdioMax
    <3>1. stdio \in Seq(Character) /\ stdio # <<>> /\ Len(stdio) <= StdioMax
      BY <1>10, Types DEF HandleWord, Text, TypeOK
    <3>2. Tail(stdio) \in Seq(Character) /\ Len(Tail(stdio)) = Len(stdio) - 1
      BY <3>1
    <3>3. Len(stdio) \in Nat /\ StdioMax \in Nat
      BY <3>1, Types
    <3> QED BY <3>1, <3>2, <3>3 DEF Text
  <2>2. calls' \in Seq(Call)
    <3>1. [fn |-> Dispatch(hex), word |-> hex] \in Call /\ calls \in Seq(Call)
      BY DispatchType, Types DEF Call
    <3>2. Append(calls, [fn |-> Dispatch(hex), word |-> hex]) \in Seq(Call)
      BY <3>1, AppendKeeps
    <3> QED BY <1>10, <3>1, <3>2 DEF HandleWord
  <2>3. stop' \in BOOLEAN /\ at' \in {"runloop", "fgetc", "stopped"} /\ (sawEof' => stop')
    BY <1>10 DEF HandleWord, Return, TypeOK
  <2> QED BY <1>10, <2>1, <2>2, <2>3
      DEF HandleWord, TypeOK, Call, Functions, Text, Character
<1>11. CASE HandleEof
  BY <1>11 DEF HandleEof, Return, TypeOK
<1> QED BY <1>1, <1>2, <1>3, <1>4, <1>5, <1>6, <1>7, <1>8, <1>9, <1>10, <1>11
        DEF Next, StdinReadCallback

\* After the end of the stream nothing happens that matters.
LEMMA EofKept ==
    ASSUME CliInv, [Next]_vars
    PROVE  EofInv'
<1> USE DEF vars, stdinVars, deviceVars
<1>1. CASE HandleEof
  BY <1>1 DEF HandleEof, Return, EofInv
<1>2. CASE UNCHANGED vars \/ Idle
  BY <1>2 DEF CliInv, EofInv, Idle
<1>3. CASE \/ Type \/ CloseStdin \/ DataArrives \/ Signal \/ StdinReady \/ DeviceReady
           \/ FillStdio \/ NextCharacter \/ HandleWord
  BY <1>3 DEF CliInv, EofInv, Type, CloseStdin, DataArrives, Signal, StdinReady,
              DeviceReady, FillStdio, NextCharacter, HandleWord
<1> QED BY <1>1, <1>2, <1>3 DEF Next, StdinReadCallback

\* What was taken after every step: nothing new,
LEMMA SameTaken ==
    ASSUME CliInv, NEW taken \in Text, TakenFrom(taken),
           \/ Type \/ CloseStdin \/ DataArrives \/ Signal \/ StdinReady \/ DeviceReady
           \/ FillStdio \/ HandleEof \/ Idle \/ UNCHANGED vars
    PROVE  TakenFrom(taken)'
<1> USE DEF vars, stdinVars, deviceVars
<1> TypeOK
  BY DEF CliInv
<1>1. CASE Type
  <2>1. PICK chunk \in Chunks : input' = input \o chunk /\ pipe' = pipe \o chunk
    BY <1>1 DEF Type
  <2>2. Parts(input \o chunk, taken, stdio, pipe \o chunk)
    <3>1. /\ IsStream(Character, taken) /\ IsStream(Character, stdio)
          /\ IsStream(Character, pipe) /\ IsStream(Character, chunk)
      BY Types DEF IsStream, Text
    <3> QED BY <3>1, StreamGrows DEF TakenFrom
  <2>3. WordsFit' => WordsFit
    BY <2>1, Types, FitsBefore
  <2> QED BY <1>1, <2>1, <2>2, <2>3 DEF Type, TakenFrom, Handled, Reading
<1>2. CASE CloseStdin \/ DataArrives \/ DeviceReady \/ Idle \/ UNCHANGED vars
  BY <1>2 DEF CloseStdin, DataArrives, DeviceReady, Idle, TakenFrom, WordsFit, Handled, Reading
<1>3. CASE Signal \/ HandleEof
  BY <1>3 DEF Signal, HandleEof, Return, TakenFrom, WordsFit, Handled, Reading
<1>4. CASE StdinReady
  <2>1. Unbroken(<<>>) /\ taken = taken \o <<>>
    BY DEF Unbroken, Text
  <2>2. Unbroken(hex') /\ \E before \in Text : taken = before \o hex'
    BY <1>4, <2>1 DEF StdinReady
  <2>3. Reading = <<>> /\ Reading' = <<>>
    BY <1>4 DEF StdinReady, Reading
  <2> QED BY <1>4, <2>2, <2>3 DEF StdinReady, TakenFrom, WordsFit, Handled
<1>5. CASE FillStdio
  <2>1. PICK k \in 1 .. Len(pipe) :
          /\ stdio' = SubSeq(pipe, 1, k) /\ pipe' = SubSeq(pipe, k + 1, Len(pipe))
          /\ stdio = <<>>
    BY <1>5 DEF FillStdio
  <2>2. k \in Nat /\ k <= Len(pipe) /\ Len(pipe) \in Nat
    BY <2>1, Types DEF TypeOK
  <2>3. pipe \in Seq(Character)
    BY Types DEF Text
  <2>4. /\ pipe = stdio' \o pipe'
        /\ stdio' \in Seq(Character) /\ pipe' \in Seq(Character)
    <3> DEFINE n == Len(pipe)
               all == pipe
    <3>1. n \in Nat /\ k <= n /\ n <= Len(all) /\ all \in Seq(Character) /\ n = Len(all)
      BY <2>2, <2>3
    <3> HIDE DEF all, n
    <3>2. SubSeq(all, 1, k) \o SubSeq(all, k + 1, n) = SubSeq(all, 1, n)
      BY <2>2, <3>1, MoreMembers
    <3>3. SubSeq(all, 1, n) = all
      BY <3>1
    <3>4. SubSeq(all, 1, k) \in Seq(Character) /\ SubSeq(all, k + 1, n) \in Seq(Character)
      BY <2>2, <3>1
    <3> QED BY <2>1, <3>2, <3>3, <3>4 DEF all, n
  <2>5. Parts(input, taken, stdio', pipe')
    <3>1. IsStream(Character, taken) /\ IsStream(Character, stdio') /\ IsStream(Character, pipe')
      BY <2>4 DEF IsStream, Text
    <3>2. Parts(input, taken, <<>>, stdio' \o pipe')
      BY <2>1, <2>4 DEF TakenFrom
    <3> QED BY <3>1, <3>2, StreamTaken
  <2> QED BY <1>5, <2>5 DEF FillStdio, TakenFrom, WordsFit, Handled, Reading
<1> QED BY <1>1, <1>2, <1>3, <1>4, <1>5

\* a character of a word,
LEMMA CharacterStep ==
    ASSUME CliInv, NEW taken \in Text, TakenFrom(taken), NextCharacter,
           NEW c, c = stdio[1], NEW t, t = Append(taken, c)
    PROVE  t \in Text /\ TakenFrom(t)'
<1>1. /\ stdio \in Text /\ pipe \in Text /\ hex \in Text /\ stdio # <<>>
      /\ stdio' = Tail(stdio) /\ pipe' = pipe /\ input' = input /\ at = "fgetc" /\ at' = at
      /\ hex' = Append(hex, c) /\ calls' = calls /\ c \notin Separators
  BY Types DEF CliInv, NextCharacter, WordEnds, stdinVars
<1>2. Parts(input, t, stdio', pipe') /\ c \in Character /\ t \in Text
  BY <1>1, CharacterTaken DEF TakenFrom
<1>3. Unbroken(hex')
  BY <1>1, <1>2, UnbrokenAppend DEF TakenFrom
<1>4. \E before \in Text : t = before \o hex'
  <2>1. PICK before \in Text : taken = before \o hex
    BY <1>1 DEF TakenFrom
  <2>2. before \o Append(hex, c) = Append(before \o hex, c)
    BY <1>1, <1>2, ConcatAppend, SMTT(30) DEF Text
  <2> QED BY <1>1, <2>1, <2>2
<1>5. WordsFit => Scan(t).done = Handled /\ Scan(t).word = hex'
  <2> SUFFICES ASSUME WordsFit PROVE Scan(t).done = Handled /\ Scan(t).word = hex'
    OBVIOUS
  <2>1. Scan(taken).done = Handled /\ Scan(taken).word = hex /\ Scan(taken) \in Scanned
    BY <1>1, ScanType DEF TakenFrom, Reading
  <2>2. Scan(t) = AddCharacter(Scan(taken), c)
    BY <1>2, ScanAppend
  <2>3. Scan(t) = [Scan(taken) EXCEPT !.word = Append(Scan(taken).word, c)]
    BY <1>1, <2>2 DEF AddCharacter
  <2> QED BY <1>1, <2>1, <2>3 DEF Scanned
<1>6. WordsFit' = WordsFit /\ Handled' = Handled /\ Reading' = hex'
  BY <1>1 DEF WordsFit, Handled, Reading
<1> QED BY <1>1, <1>2, <1>3, <1>4, <1>5, <1>6 DEF TakenFrom

\* and the end of one.
LEMMA WordStep ==
    ASSUME CliInv, NEW taken \in Text, TakenFrom(taken), HandleWord,
           NEW c, c = stdio[1], NEW t, t = Append(taken, c)
    PROVE  t \in Text /\ TakenFrom(t)'
<1>1. /\ stdio \in Text /\ pipe \in Text /\ hex \in Text /\ stdio # <<>>
      /\ stdio' = Tail(stdio) /\ pipe' = pipe /\ input' = input
      /\ at = "fgetc" /\ at' # "fgetc" /\ WordEnds
      /\ calls' = IF hex = <<>> THEN calls
                  ELSE Append(calls, [fn |-> Dispatch(hex), word |-> hex])
  BY Types DEF CliInv, HandleWord, Return, stdinVars
<1>2. Parts(input, t, stdio', pipe') /\ c \in Character /\ t \in Text
  BY <1>1, CharacterTaken DEF TakenFrom
<1>3. WordsFit => c \in Separators
  <2>1. PICK before \in Text : taken = before \o hex
    BY <1>1 DEF TakenFrom
  <2> SUFFICES ASSUME c \notin Separators PROVE ~WordsFit
    OBVIOUS
  <2>2. Len(hex) >= HexMax /\ Unbroken(hex) /\ TypeOK /\ Parts(input, before \o hex, stdio, pipe)
    BY <1>1, <2>1 DEF WordEnds, TakenFrom, CliInv
  <2> QED BY <1>1, <2>2, WordTooLong
<1>4. Handled' = IF hex = <<>> THEN Handled ELSE Append(Handled, hex)
  <2>1. Handled = WordsOf(calls) /\ Handled' = WordsOf(calls')
    BY DEF Handled, WordsOf
  <2>2. [fn |-> Dispatch(hex), word |-> hex] \in Call /\ calls \in Seq(Call)
    BY <1>1, DispatchType, Types DEF CliInv, Call
  <2>3. WordsOf(Append(calls, [fn |-> Dispatch(hex), word |-> hex])) = Append(WordsOf(calls), hex)
    BY <2>2, WordsOfAppend
  <2> QED BY <1>1, <2>1, <2>3
<1>5. WordsFit => Scan(t).done = Handled' /\ Scan(t).word = <<>>
  <2> SUFFICES ASSUME WordsFit PROVE Scan(t).done = Handled' /\ Scan(t).word = <<>>
    OBVIOUS
  <2>1. Scan(taken).done = Handled /\ Scan(taken).word = hex
    BY <1>1 DEF TakenFrom, Reading
  <2>2. Scan(t) = AddCharacter(Scan(taken), c)
    BY <1>2, ScanAppend
  <2> QED BY <1>3, <1>4, <2>1, <2>2 DEF AddCharacter
<1>6. WordsFit' = WordsFit /\ Reading' = <<>>
  BY <1>1 DEF WordsFit, Reading
<1> QED BY <1>1, <1>2, <1>5, <1>6 DEF TakenFrom

\* Every step keeps the invariant.
LEMMA StepPreserves == CliInv /\ [Next]_vars => CliInv'
<1> SUFFICES ASSUME CliInv, [Next]_vars PROVE CliInv'
  OBVIOUS
<1>1. TypeOK' /\ EofInv'
  BY TypesKept, EofKept DEF CliInv
<1>2. TakenInv'
  <2>1. PICK taken \in Text : TakenFrom(taken)
    BY DEF CliInv, TakenInv
  <2>2. CASE NextCharacter \/ HandleWord
    <3>1. PICK c, t : c = stdio[1] /\ t = Append(taken, c)
      OBVIOUS
    <3>2. t \in Text /\ TakenFrom(t)'
      BY <2>1, <2>2, <3>1, CharacterStep, WordStep
    <3> QED BY <3>2 DEF TakenInv
  <2>3. CASE ~(NextCharacter \/ HandleWord)
    <3>1. TakenFrom(taken)'
      BY <2>1, <2>3, SameTaken DEF Next, StdinReadCallback
    <3> QED BY <3>1 DEF TakenInv
  <2> QED BY <2>2, <2>3
<1> QED BY <1>1, <1>2 DEF CliInv

-----------------------------------------------------------------------------
(* The theorems *)

\* In every state part of what was written has gone through fgetc, and, unless
\* a word was longer than hex, the words in it are those handled, in order.
THEOREM CliInvariant == Spec => []CliInv
<1>1. Init => CliInv
  BY InitEstablishes
<1>2. CliInv /\ [Next]_vars => CliInv'
  BY StepPreserves
<1> QED BY <1>1, <1>2, PTL DEF Spec

\* Every variable has its type, and only a program that stops has seen the end
\* of the stream.
THEOREM CliTypesHold == Spec => []TypeOK
<1>1. CliInv => TypeOK
  BY DEF CliInv
<1> QED BY <1>1, CliInvariant, PTL

\* No word is lost, doubled or reordered between the descriptor, the stdio
\* buffer and stdin_read_callback.
THEOREM WordsKeptHolds == Spec => []WordsKept
<1>1. CliInv => WordsKept
  <2> SUFFICES ASSUME CliInv, at # "stopped", WordsFit
               PROVE  Words(input) = Handled \o Words(Reading \o stdio \o pipe)
    BY DEF WordsKept
  <2>1. PICK taken \in Text : TakenFrom(taken)
    BY DEF CliInv, TakenInv
  <2>2. Scan(taken).done = Handled /\ Scan(taken).word = Reading
    BY <2>1 DEF TakenFrom
  <2>3. Unbroken(Reading) /\ Reading \in Text
    BY <2>1, Types DEF TakenFrom, Reading, Unbroken, CliInv
  <2> DEFINE rest == stdio \o pipe
  <2>4. /\ rest \in Text /\ input = taken \o rest
        /\ (Reading \o stdio) \o pipe = Reading \o rest
    <3>1. /\ IsStream(Character, taken) /\ IsStream(Character, stdio)
          /\ IsStream(Character, pipe) /\ IsStream(Character, Reading)
      BY <2>3, Types DEF IsStream, Text, CliInv
    <3>2. Regrouped(taken, stdio, pipe) /\ Regrouped(Reading, stdio, pipe)
      BY <3>1, Regroup
    <3>3. IsStream(Character, rest)
      BY <3>1, StreamConcat
    <3> QED BY <2>1, <3>2, <3>3 DEF Regrouped, TakenFrom, Parts, IsStream, Text
  <2> HIDE DEF rest
  <2>5. Scan(taken \o rest).done = Scan(taken).done \o Scan(Scan(taken).word \o rest).done
    <3>1. Unbroken(Scan(taken).word)
      BY <2>2, <2>3
    <3>2. Scan(taken \o rest) = [done |-> Scan(taken).done \o Scan(Scan(taken).word \o rest).done,
                                 word |-> Scan(Scan(taken).word \o rest).word]
      BY <2>4, <3>1, ScanConcat
    <3>3. \A r, d, w : r = [done |-> d, word |-> w] => r.done = d
      OBVIOUS
    <3> QED BY <3>2, <3>3, Zenon
  <2> QED BY <2>2, <2>4, <2>5 DEF Words
<1> QED BY <1>1, CliInvariant, PTL

\* When the end of the stream stops the program every word has been handled.
THEOREM EofAfterWordsHolds == Spec => []EofAfterWords
<1>1. CliInv => EofAfterWords
  <2> SUFFICES ASSUME CliInv, sawEof, WordsFit PROVE Handled = Words(input)
    BY DEF EofAfterWords
  <2>1. PICK taken \in Text : TakenFrom(taken)
    BY DEF CliInv, TakenInv
  <2>2. input = (taken \o <<>>) \o <<>>
    BY <2>1 DEF TakenFrom, Parts, CliInv, EofInv
  <2>3. input = taken
    <3>1. taken \o <<>> = taken
      BY ConcatEmptySeq DEF Text
    <3> QED BY <2>2, <3>1
  <2> QED BY <2>1, <2>3 DEF TakenFrom, Words
<1> QED BY <1>1, CliInvariant, PTL
=============================================================================
